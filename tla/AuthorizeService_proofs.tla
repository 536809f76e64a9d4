----------------------- MODULE AuthorizeService_proofs -----------------------
(***************************************************************************)
(* Proofs about AuthorizeService, for every set of requests, keys, stamps, *)
(* policies and approval identifiers.                                      *)
(***************************************************************************)
EXTENDS AuthorizeService, TLAPS

-----------------------------------------------------------------------------
(* What a request holds while it is at a step.                             *)

Working == {"lookup", "evaluate", "first", "reread", "ready", "mint", "final", "posting", "inline"}
Holding == {"ready", "mint", "final", "posting", "inline"}

WorkOK ==
    \A r \in Requests :
        /\ pc[r] \in Working => work[r].at \in Stamps
        /\ pc[r] = "first" => work[r].policy \in Policies
        /\ pc[r] \in Holding => work[r].receipt \in ReceiptId

TypeInv == TypeOK /\ WorkOK

-----------------------------------------------------------------------------
(* Lemmas about the operators.                                             *)

(* What is stored stays stored, whatever is put.                           *)
LEMMA PutReceiptStores ==
    ASSUME NEW rows, NEW row
    PROVE  /\ Stored(PutReceipt(rows, row)) = Stored(rows) \cup {row.id}
           /\ rows \subseteq PutReceipt(rows, row)
           /\ PutReceipt(rows, row) \subseteq rows \cup {row}
BY DEF PutReceipt, Stored

LEMMA PutReceiptType ==
    ASSUME NEW rows \in SUBSET ReceiptRow, NEW row \in ReceiptRow
    PROVE  PutReceipt(rows, row) \in SUBSET ReceiptRow
BY DEF PutReceipt

LEMMA StoredType ==
    ASSUME NEW rows \in SUBSET ReceiptRow
    PROVE  Stored(rows) \subseteq ReceiptId
BY DEF Stored, ReceiptRow

LEMMA NextReceiptType ==
    ASSUME NEW prev \in ReceiptId, NEW t \in Stamps, NEW outcome \in OutcomeStatus,
           NEW a \in ApprovalIds \cup {Null}
    PROVE  /\ NextReceipt(prev, t, outcome, a) \in ReceiptId
           /\ NextReceipt(prev, t, outcome, a).key = prev.key
           /\ NextReceipt(prev, t, outcome, a).policy = prev.policy
           /\ NextReceipt(prev, t, outcome, a).outcome = outcome
           /\ NextReceipt(prev, t, outcome, a).approval = a
BY DEF NextReceipt, ReceiptId

LEMMA BaseReceiptType ==
    ASSUME NEW k \in Keys, NEW t \in Stamps, NEW p \in Policies,
           NEW a \in ApprovalIds \cup {Null}
    PROVE  /\ BaseReceipt(k, t, p, a) \in ReceiptId
           /\ BaseReceipt(k, t, p, a).key = k
           /\ BaseReceipt(k, t, p, a).policy = p
           /\ BaseReceipt(k, t, p, a).outcome = OutcomeFor(VerdictOf[p][k])
           /\ BaseReceipt(k, t, p, a).approval = a
<1>1. VerdictOf[p][k] \in Verdicts
  BY VerdictAssumption
<1>2. OutcomeFor(VerdictOf[p][k]) \in OutcomeStatus
  BY <1>1 DEF OutcomeFor, OutcomeStatus, Verdicts
<1> QED
  BY <1>2 DEF BaseReceipt, ReceiptId

LEMMA BuiltType ==
    ASSUME NEW k \in Keys, NEW t \in Stamps, NEW p \in Policies
    PROVE  /\ BuildContext(k, t) \in ContextId
           /\ BuildDecision(BuildContext(k, t), p) \in DecisionId
BY DEF BuildContext, BuildDecision, ContextId, DecisionId

LEMMA PutKeyType ==
    ASSUME NEW row \in SignerKeys \cup {Null}, NEW key \in SignerKeys
    PROVE  PutKey(row, key) \in SignerKeys
BY DEF PutKey

LEMMA AnswerType ==
    ASSUME NEW verdict \in Verdicts \cup {"none", "error"},
           NEW receipt \in ReceiptId \cup {Null}, NEW a \in ApprovalIds \cup {Null}
    PROVE  Answer(verdict, receipt, a) \in Answers
BY DEF Answer, Answers

LEMMA ErrorType ==
    ASSUME NEW why \in {"none", "dangling", "policy", "storage", "broker", "state", "unsupported"}
    PROVE  /\ Error(why) \in Answers
           /\ [Answer("deny", Null, Null) EXCEPT !.error = why] \in Answers
BY DEF Error, Answer, Answers, Verdicts

LEMMA NoAnswerType == NoAnswer \in Answers
BY AnswerType DEF NoAnswer

LEMMA NoWorkType == NoWork \in Work
BY DEF NoWork, Work

LEMMA HandleExistingType ==
    ASSUME TypeOK, NEW k \in Keys
    PROVE  HandleExisting(idem[k]) \in Answers
<1> DEFINE row == idem[k]
<1>1. row \in IdemRow \cup {NoIdem}
  BY DEF TypeOK
<1>2. /\ row.approval \in ApprovalIds \cup {Null}
      /\ row.latest \in ReceiptId \cup {Null}
      /\ row.final \in ReceiptId \cup {Null}
  BY <1>1 DEF IdemRow, NoIdem
<1>3. FinalReceipt(row) \in ReceiptId \cup {Null}
  BY <1>2 DEF FinalReceipt
<1>4. /\ Answer("deny", FinalReceipt(row), Null) \in Answers
      /\ Answer("allow", FinalReceipt(row), Null) \in Answers
      /\ Answer("require_approval", row.latest, row.approval) \in Answers
      /\ [Answer("deny", Null, Null) EXCEPT !.error = "unsupported"] \in Answers
      /\ Error("dangling") \in Answers
  BY <1>2, <1>3, AnswerType, ErrorType DEF Verdicts
<1>5. CASE row.status \in {"allowed", "denied"}
  BY <1>4, <1>5 DEF HandleExisting
<1>6. CASE row.status = "pending_approval"
  BY <1>4, <1>6 DEF HandleExisting
<1>7. CASE row.status \notin {"allowed", "denied", "pending_approval"}
  BY <1>4, <1>7 DEF HandleExisting
<1> QED
  BY <1>5, <1>6, <1>7

(* Answering leaves the control of every request well typed.               *)
LocalOK == /\ pc \in [Requests -> Steps]
           /\ work \in [Requests -> Work]
           /\ resp \in [Requests -> Answers]
           /\ WorkOK

LEMMA RespondType ==
    ASSUME LocalOK, NEW r \in Requests, NEW from, NEW answer \in Answers,
           Respond(r, from, answer)
    PROVE  LocalOK'
<1>1. /\ pc' \in [Requests -> Steps]
      /\ work' \in [Requests -> Work]
      /\ resp' \in [Requests -> Answers]
  BY NoWorkType DEF LocalOK, Respond, Goto, Steps
<1>2. ASSUME NEW q \in Requests
      PROVE  /\ pc'[q] \in Working => work'[q].at \in Stamps
             /\ pc'[q] = "first" => work'[q].policy \in Policies
             /\ pc'[q] \in Holding => work'[q].receipt \in ReceiptId
  BY <1>2 DEF LocalOK, WorkOK, Respond, Goto, Working, Holding
<1> QED
  BY <1>1, <1>2 DEF LocalOK, WorkOK

(* So does moving on, when what the next step needs is held.               *)
LEMMA GotoType ==
    ASSUME LocalOK, NEW r \in Requests, NEW from, NEW to \in Steps, Goto(r, from, to),
           NEW w \in Work, work' = [work EXCEPT ![r] = w],
           resp' = resp,
           to \in Working => w.at \in Stamps,
           to = "first" => w.policy \in Policies,
           to \in Holding => w.receipt \in ReceiptId
    PROVE  LocalOK'
<1>1. /\ pc' \in [Requests -> Steps]
      /\ work' \in [Requests -> Work]
      /\ resp' \in [Requests -> Answers]
  BY DEF LocalOK, Goto
<1>2. ASSUME NEW q \in Requests
      PROVE  /\ pc'[q] \in Working => work'[q].at \in Stamps
             /\ pc'[q] = "first" => work'[q].policy \in Policies
             /\ pc'[q] \in Holding => work'[q].receipt \in ReceiptId
  BY <1>2 DEF LocalOK, WorkOK, Goto
<1> QED
  BY <1>1, <1>2 DEF LocalOK, WorkOK

TablesOK == /\ policyVersions \subseteq Policies
            /\ contexts \subseteq ContextId
            /\ decisions \subseteq DecisionId
            /\ idem \in [Keys -> IdemRow \cup {NoIdem}]
            /\ approvals \in [ApprovalIds -> ApprovalRow \cup {NoApproval}]
            /\ outbox \in [ApprovalIds -> OutboxRow \cup {NoOutbox}]
            /\ receipts \subseteq ReceiptRow
            /\ keyRow \in SignerKeys \cup {Null}

LEMMA TypeInvSplit ==
    TypeInv <=> /\ LocalOK
                /\ TablesOK
                /\ policyFile \in Policies
                /\ signer \in SignerKeys
                /\ minted \subseteq ReceiptId
BY DEF TypeInv, TypeOK, LocalOK, TablesOK

(* Approvals: a stands for an approval of key k, and that never changes.   *)
IsFor(a, k) == a \in ApprovalIds /\ approvals[a].status # "absent" /\ approvals[a].key = k
ApprovalsStay == \A k \in Keys, a \in ApprovalIds : IsFor(a, k) => IsFor(a, k)'

-----------------------------------------------------------------------------
(* The steps of a call that write no table.                                *)

LocalStep(r) ==
    \/ Start(r)
    \/ LookupNone(r) \/ LookupExisting(r) \/ LookupReady(r) \/ LookupIssuing(r)
    \/ Evaluate(r) \/ EvaluateFail(r) \/ FirstFail(r) \/ Reread(r)
    \/ StartInline(r) \/ FinishInline(r)
    \/ ReadyLost(r) \/ Mint(r) \/ MintFail(r) \/ StorageFault(r)

LEMMA CallSplit ==
    ASSUME NEW r
    PROVE  Call(r) <=> LocalStep(r) \/ FirstCommit(r) \/ ReadyCommit(r) \/ FinalCommit(r)
BY DEF Call, LocalStep

LEMMA LocalStepKeepsTables ==
    ASSUME NEW r, LocalStep(r)
    PROVE  UNCHANGED tables
BY DEF LocalStep, Start, LookupNone, LookupExisting, LookupReady, LookupIssuing, Evaluate,
       EvaluateFail, FirstFail, Reread, StartInline, FinishInline, ReadyLost, Mint,
       MintFail, StorageFault

-----------------------------------------------------------------------------
(* Type correctness.                                                       *)

LEMMA TypeInit == Init => TypeInv
<1> SUFFICES ASSUME Init PROVE TypeInv
  OBVIOUS
<1>1. LocalOK
  BY NoWorkType, NoAnswerType DEF Init, LocalOK, WorkOK, Steps, Working, Holding
<1>2. TablesOK
  BY DEF Init, TablesOK
<1> QED
  BY <1>1, <1>2, TypeInvSplit DEF Init

(* Receipts, the idempotency row and the key row a transaction leaves.     *)
LEMMA WriteType ==
    ASSUME TablesOK, signer \in SignerKeys,
           NEW k \in Keys, NEW id \in ReceiptId, NEW prev \in ReceiptId \cup {Null},
           NEW row \in IdemRow,
           keyRow' = PutKey(keyRow, signer),
           receipts' = PutReceipt(receipts, Row(id, prev)),
           idem' = [idem EXCEPT ![k] = row]
    PROVE  /\ keyRow' \in SignerKeys \cup {Null}
           /\ receipts' \subseteq ReceiptRow
           /\ idem' \in [Keys -> IdemRow \cup {NoIdem}]
<1>1. keyRow' \in SignerKeys \cup {Null}
  BY PutKeyType DEF TablesOK
<1>2. Row(id, prev) \in ReceiptRow
  BY DEF Row, ReceiptRow
<1>3. receipts' \subseteq ReceiptRow
  BY <1>2, PutReceiptType DEF TablesOK
<1> QED
  BY <1>1, <1>3 DEF TablesOK

LEMMA HeldType ==
    ASSUME LocalOK, NEW r \in Requests
    PROVE  /\ pc[r] \in Working => work[r].at \in Stamps
           /\ pc[r] = "first" => work[r].policy \in Policies
           /\ pc[r] \in Holding => work[r].receipt \in ReceiptId
           /\ work[r] \in Work
           /\ KeyOf[r] \in Keys
BY KeyOfAssumption DEF LocalOK, WorkOK

LEMMA FirstCommitType ==
    ASSUME TypeInv, NEW r \in Requests, FirstCommit(r)
    PROVE  TypeInv'
<1> DEFINE k == KeyOf[r]
           p == work[r].policy
           verdict == VerdictOf[p][k]
<1>1. /\ LocalOK /\ TablesOK /\ signer \in SignerKeys /\ pc[r] = "first"
  BY TypeInvSplit DEF FirstCommit
<1>2. /\ work[r].at \in Stamps /\ p \in Policies /\ k \in Keys /\ work[r] \in Work
  BY <1>1, HeldType DEF Working
<1>3. verdict \in Verdicts
  BY <1>2, VerdictAssumption
<1>4. PICK a \in ApprovalIds \cup {Null} :
        LET base == BaseReceipt(k, work[r].at, p, a) IN
        /\ DrawsApproval(a, k, verdict)
        /\ PutSigningKey
        /\ policyVersions' = PutPolicyVersion(policyVersions, p)
        /\ contexts' = PutContext(contexts, BuildContext(k, work[r].at))
        /\ decisions' = PutDecision(decisions, BuildDecision(BuildContext(k, work[r].at), p))
        /\ receipts' = PutReceipt(receipts, Row(base, Null))
        /\ idem' = [idem EXCEPT ![k] = FirstRow(base, verdict, a)]
        /\ IF a = Null
           THEN UNCHANGED <<approvals, outbox>>
           ELSE /\ approvals' = [approvals EXCEPT ![a] =
                                   [key |-> k, status |-> "pending", posted |-> FALSE]]
                /\ outbox' = Enqueue(outbox, a)
        /\ IF verdict = "allow" \/ (a # Null /\ SlackConfigured)
           THEN /\ Goto(r, "first", IF verdict = "allow" THEN "mint" ELSE "posting")
                /\ work' = [work EXCEPT ![r].receipt = base]
                /\ UNCHANGED resp
           ELSE Respond(r, "first", Answer(verdict, base, a))
        /\ UNCHANGED <<policyFile, signer, minted>>
  BY DEF FirstCommit
<1> DEFINE base == BaseReceipt(k, work[r].at, p, a)
<1>5. base \in ReceiptId
  BY <1>2, BaseReceiptType
<1>6. FirstRow(base, verdict, a) \in IdemRow
  BY <1>3, <1>5 DEF FirstRow, InitialStatus, IdemRow, IdemStatus, Verdicts
<1>7. /\ keyRow' \in SignerKeys \cup {Null}
      /\ receipts' \subseteq ReceiptRow
      /\ idem' \in [Keys -> IdemRow \cup {NoIdem}]
  BY <1>1, <1>2, <1>4, <1>5, <1>6, WriteType DEF PutSigningKey
<1>8. /\ policyVersions' \subseteq Policies
      /\ contexts' \subseteq ContextId
      /\ decisions' \subseteq DecisionId
  BY <1>1, <1>2, <1>4, BuiltType DEF TablesOK, PutPolicyVersion, PutContext, PutDecision
<1>9. /\ approvals' \in [ApprovalIds -> ApprovalRow \cup {NoApproval}]
      /\ outbox' \in [ApprovalIds -> OutboxRow \cup {NoOutbox}]
  <2>1. CASE a = Null
    BY <1>1, <1>4, <2>1 DEF TablesOK
  <2>2. CASE a # Null
    <3> DEFINE new == [key |-> k, status |-> "pending", posted |-> FALSE]
    <3>1. new \in ApprovalRow
      BY <1>2 DEF ApprovalRow, ApprovalStatus
    <3>2. approvals' = [approvals EXCEPT ![a] = new] /\ outbox' = Enqueue(outbox, a)
      BY <1>4, <2>2
    <3> HIDE DEF new
    <3>3. approvals' \in [ApprovalIds -> ApprovalRow \cup {NoApproval}]
      BY <1>1, <3>1, <3>2 DEF TablesOK
    <3>4. QueuedRow \in OutboxRow
      BY DEF QueuedRow, OutboxRow
    <3>5. outbox' \in [ApprovalIds -> OutboxRow \cup {NoOutbox}]
      BY <1>1, <3>2, <3>4 DEF TablesOK, Enqueue
    <3> QED
      BY <3>3, <3>5
  <2> QED
    BY <2>1, <2>2
<1>10. LocalOK'
  <2>1. CASE verdict = "allow" \/ (a # Null /\ SlackConfigured)
    <3>1. [work[r] EXCEPT !.receipt = base] \in Work
      BY <1>2, <1>5 DEF Work
    <3>2. [work[r] EXCEPT !.receipt = base].at \in Stamps
      BY <1>2 DEF Work
    <3>3. [work[r] EXCEPT !.receipt = base].receipt \in ReceiptId
      BY <1>2, <1>5 DEF Work
    <3>4. /\ Goto(r, "first", IF verdict = "allow" THEN "mint" ELSE "posting")
          /\ work' = [work EXCEPT ![r] = [work[r] EXCEPT !.receipt = base]]
          /\ resp' = resp
      BY <1>4, <2>1
    <3> QED
      BY <1>1, <3>1, <3>2, <3>3, <3>4, GotoType DEF Steps
  <2>2. CASE ~(verdict = "allow" \/ (a # Null /\ SlackConfigured))
    <3>1. Answer(verdict, base, a) \in Answers
      BY <1>3, <1>5, AnswerType
    <3> QED
      BY <1>1, <1>4, <2>2, <3>1, RespondType
  <2> QED
    BY <2>1, <2>2
<1>11. TablesOK'
  BY <1>7, <1>8, <1>9 DEF TablesOK
<1> QED
  BY <1>4, <1>10, <1>11, TypeInvSplit DEF TypeInv, TypeOK, LocalOK, TablesOK

(* The writes of the other transactions, over whatever row was read.       *)
LEMMA WriteIssuingType ==
    ASSUME TypeInv, NEW r \in Requests, NEW read \in IdemRow, WriteIssuing(r, read)
    PROVE  TypeInv'
<1> DEFINE k == KeyOf[r]
           prev == work[r].receipt
           issuing == NextReceipt(prev, work[r].at, "issuing_credentials", Null)
           row == IssuingRow(read, issuing)
           w == [work[r] EXCEPT !.receipt = issuing]
<1>1. /\ LocalOK /\ TablesOK /\ signer \in SignerKeys /\ pc[r] = "ready"
  BY TypeInvSplit DEF WriteIssuing, Goto
<1>2. /\ work[r].at \in Stamps /\ prev \in ReceiptId /\ k \in Keys /\ work[r] \in Work
  BY <1>1, HeldType DEF Working, Holding
<1>3. issuing \in ReceiptId
  BY <1>2, NextReceiptType DEF OutcomeStatus
<1>5. row \in IdemRow
  BY <1>3 DEF IdemRow, IdemStatus, IssuingRow
<1>6. idem' = [idem EXCEPT ![k] = row]
  BY DEF WriteIssuing
<1>7. /\ keyRow' = PutKey(keyRow, signer)
      /\ receipts' = PutReceipt(receipts, Row(issuing, prev))
      /\ Goto(r, "ready", "mint")
      /\ work' = [work EXCEPT ![r] = w]
      /\ UNCHANGED <<policyFile, policyVersions, contexts, decisions, approvals, outbox, signer, minted, resp>>
  BY DEF WriteIssuing, PutSigningKey, records
<1>8. w \in Work /\ w.at \in Stamps /\ w.receipt \in ReceiptId
  BY <1>2, <1>3 DEF Work
<1> HIDE DEF issuing, row, w, prev, k
<1>9. LocalOK'
  BY <1>1, <1>7, <1>8, GotoType DEF Steps
<1>10. TablesOK'
  BY <1>1, <1>2, <1>3, <1>5, <1>6, <1>7, WriteType DEF TablesOK
<1> QED
  BY <1>7, <1>9, <1>10, TypeInvSplit DEF TypeInv, TypeOK, LocalOK, TablesOK

LEMMA WriteIssuedType ==
    ASSUME TypeInv, NEW r \in Requests, NEW read \in IdemRow, WriteIssued(r, read)
    PROVE  TypeInv'
<1> DEFINE k == KeyOf[r]
           prev == work[r].receipt
           issued == NextReceipt(prev, work[r].at, "issued_credentials", Null)
           row == AllowedRow(read, issued)
           answer == [Answer("allow", issued, Null) EXCEPT !.credentials = TRUE]
<1>1. /\ LocalOK /\ TablesOK /\ signer \in SignerKeys /\ pc[r] = "final"
  BY TypeInvSplit DEF WriteIssued, Respond, Goto
<1>2. /\ work[r].at \in Stamps /\ prev \in ReceiptId /\ k \in Keys
  BY <1>1, HeldType DEF Working, Holding
<1>3. issued \in ReceiptId
  BY <1>2, NextReceiptType DEF OutcomeStatus
<1>5. row \in IdemRow
  BY <1>3 DEF IdemRow, IdemStatus, AllowedRow
<1>6. answer \in Answers
  BY <1>3 DEF Answer, Answers, Verdicts
<1>7. /\ keyRow' = PutKey(keyRow, signer)
      /\ receipts' = PutReceipt(receipts, Row(issued, prev))
      /\ idem' = [idem EXCEPT ![k] = row]
      /\ Respond(r, "final", answer)
      /\ UNCHANGED <<policyFile, policyVersions, contexts, decisions, approvals, outbox, signer, minted>>
  BY DEF WriteIssued, PutSigningKey, records
<1> HIDE DEF issued, row, answer, prev, k
<1>8. LocalOK'
  BY <1>1, <1>6, <1>7, RespondType
<1>9. TablesOK'
  BY <1>1, <1>2, <1>3, <1>5, <1>7, WriteType DEF TablesOK
<1> QED
  BY <1>7, <1>8, <1>9, TypeInvSplit DEF TypeInv, TypeOK, LocalOK, TablesOK

LEMMA WriteDecisionType ==
    ASSUME TypeInv, NEW a \in ApprovalIds, NEW d \in Decisions, NEW t \in Stamps,
           NEW approval \in ApprovalRow, NEW read \in IdemRow \cup {NoIdem},
           approvals[a] \in ApprovalRow, WriteDecision(a, approval, read, d, t)
    PROVE  TypeInv'
<1> DEFINE k == approval.key
           prev == read.latest
           outcome == IF d = "approved" THEN "approval_approved" ELSE "approval_denied"
           id == NextReceipt(prev, t, outcome, a)
           row == DecidedRow(read, id, d)
           decided == PutApproval(approvals[a], [approval EXCEPT !.status = d])
<1>1. LocalOK /\ TablesOK /\ signer \in SignerKeys
  BY TypeInvSplit
<1>3. k \in Keys
  BY DEF ApprovalRow
<1>4. prev \in ReceiptId
  BY <1>1, StoredType DEF WriteDecision, TablesOK
<1>5. id \in ReceiptId
  BY <1>4, NextReceiptType DEF OutcomeStatus
<1>6. read \in IdemRow
  BY <1>4, NullAssumption DEF NoIdem
<1>7. row \in IdemRow
  BY <1>5, <1>6 DEF IdemRow, IdemStatus, DecidedRow
<1>8. decided \in ApprovalRow
  BY DEF ApprovalRow, ApprovalStatus, Decisions, PutApproval
<1>9. /\ keyRow' = PutKey(keyRow, signer)
      /\ receipts' = PutReceipt(receipts, Row(id, prev))
      /\ idem' = [idem EXCEPT ![k] = row]
      /\ approvals' = [approvals EXCEPT ![a] = decided]
      /\ UNCHANGED <<policyFile, policyVersions, contexts, decisions, outbox, signer, minted, pc, work, resp>>
  BY DEF WriteDecision, PutSigningKey, records
<1> HIDE DEF row, id, decided, prev, k
<1>10. TablesOK'
  BY <1>1, <1>3, <1>4, <1>5, <1>7, <1>8, <1>9, WriteType DEF TablesOK
<1> QED
  BY <1>1, <1>9, <1>10, TypeInvSplit DEF TypeInv, TypeOK, LocalOK, TablesOK, WorkOK

(* In the SQLite store a transaction writes over the row as it is.         *)
LEMMA ReadyCommitReads ==
    ASSUME TypeOK, NEW r \in Requests, ReadyCommit(r)
    PROVE  /\ idem[KeyOf[r]] \in IdemRow /\ idem[KeyOf[r]].status = "approved_ready"
           /\ WriteIssuing(r, idem[KeyOf[r]])
BY KeyOfAssumption DEF TypeOK, NoIdem, ReadyCommit, StillReady

LEMMA FinalCommitReads ==
    ASSUME TypeOK, NEW r \in Requests, FinalCommit(r)
    PROVE  idem[KeyOf[r]] \in IdemRow /\ WriteIssued(r, idem[KeyOf[r]])
BY KeyOfAssumption DEF TypeOK, NoIdem, FinalCommit

LEMMA ApproveReads ==
    ASSUME TypeOK, NEW a \in ApprovalIds, NEW d \in Decisions, NEW t \in Stamps,
           Approve(a, d, t)
    PROVE  /\ approvals[a] \in ApprovalRow /\ approvals[a].status = "pending"
           /\ approvals[a].key \in Keys /\ idem[approvals[a].key] \in IdemRow
           /\ WriteDecision(a, approvals[a], idem[approvals[a].key], d, t)
<1>1. approvals[a] \in ApprovalRow /\ approvals[a].status = "pending"
  BY DEF TypeOK, NoApproval, Approve, Undecided
<1>2. WriteDecision(a, approvals[a], idem[approvals[a].key], d, t)
  BY DEF Approve
<1>3. approvals[a].key \in Keys /\ idem[approvals[a].key].latest \in ReceiptId
  BY <1>1, <1>2, StoredType DEF ApprovalRow, WriteDecision, TypeOK
<1>4. idem[approvals[a].key] \in IdemRow
  BY <1>3, NullAssumption DEF TypeOK, NoIdem
<1> QED
  BY <1>1, <1>2, <1>3, <1>4

LEMMA LocalStepType ==
    ASSUME TypeInv, NEW r \in Requests, LocalStep(r)
    PROVE  TypeInv'
<1>1. /\ TypeOK /\ LocalOK /\ TablesOK /\ KeyOf[r] \in Keys /\ work[r] \in Work
      /\ policyFile \in Policies /\ signer \in SignerKeys /\ minted \subseteq ReceiptId
  BY TypeInvSplit, HeldType DEF TypeInv
<1> DEFINE Kept(w) == work' = [work EXCEPT ![r] = w] /\ resp' = resp
<1>2. ASSUME UNCHANGED <<tables, policyFile, signer>>, LocalOK', minted' \subseteq ReceiptId
      PROVE  TypeInv'
  BY <1>1, <1>2, TypeInvSplit DEF tables, records, TypeInv, TypeOK, LocalOK, TablesOK
<1>3. ASSUME NEW from, NEW answer \in Answers, Respond(r, from, answer),
             UNCHANGED <<tables, policyFile, signer, minted>>
      PROVE  TypeInv'
  BY <1>1, <1>2, <1>3, RespondType
<1>4. /\ HandleExisting(idem[KeyOf[r]]) \in Answers
      /\ Error("dangling") \in Answers /\ Error("policy") \in Answers
      /\ Error("storage") \in Answers /\ Error("broker") \in Answers
      /\ Error("state") \in Answers
  BY <1>1, HandleExistingType, ErrorType
<1>5. CASE Start(r)
  <2>1. PICK t \in Stamps : work' = [work EXCEPT ![r] = [NoWork EXCEPT !.at = t]]
    BY <1>5 DEF Start
  <2>2. pc' = [pc EXCEPT ![r] = "lookup"]
    BY <1>5 DEF Start, Goto
  <2>3. resp' = [resp EXCEPT ![r] = NoAnswer]
    BY <1>5 DEF Start
  <2>4. pc' \in [Requests -> Steps] /\ resp' \in [Requests -> Answers]
    BY <1>1, <2>2, <2>3, NoAnswerType DEF LocalOK, Steps
  <2>5. work' \in [Requests -> Work]
    BY <1>1, <2>1 DEF LocalOK, NoWork, Work
  <2>6. WorkOK'
    BY <1>1, <2>1, <2>2, <2>5 DEF LocalOK, WorkOK, NoWork, Working, Holding
  <2> QED
    BY <1>1, <1>2, <1>5, <2>4, <2>5, <2>6 DEF LocalOK, Start
<1>6. CASE LookupNone(r) \/ FirstFail(r) \/ StartInline(r) \/ Mint(r)
  <2>1. PICK from \in Steps, to \in Steps :
          /\ Goto(r, from, to)
          /\ from \in Working /\ (to \in Holding => from \in Holding) /\ to # "first"
    BY <1>6 DEF LookupNone, FirstFail, StartInline, Mint, Steps, Working, Holding, Goto
  <2>2. Kept(work[r])
    BY <1>1, <1>6 DEF LocalOK, LookupNone, FirstFail, StartInline, Mint
  <2>3. LocalOK'
    BY <1>1, <2>1, <2>2, GotoType, HeldType DEF Goto
  <2>4. minted' \subseteq ReceiptId
    BY <1>1, <1>6, HeldType DEF LookupNone, FirstFail, StartInline, Mint, Goto, Holding
  <2> QED
    BY <1>2, <1>6, <2>3, <2>4 DEF LookupNone, FirstFail, StartInline, Mint
<1>7. CASE Evaluate(r)
  <2> DEFINE w == [work[r] EXCEPT !.policy = policyFile]
  <2>1. Goto(r, "evaluate", "first") /\ Kept(w)
    BY <1>7 DEF Evaluate
  <2>2. /\ w \in Work /\ w.at \in Stamps /\ w.policy \in Policies
    BY <1>1, <2>1, HeldType DEF Work, Working, Goto
  <2> HIDE DEF w
  <2>3. LocalOK'
    BY <1>1, <2>1, <2>2, GotoType DEF Steps, Holding
  <2> QED
    BY <1>1, <1>2, <1>7, <2>3 DEF Evaluate
<1>8. CASE LookupReady(r) \/ LookupIssuing(r)
  <2> DEFINE latest == idem[KeyOf[r]].latest
             w == [work[r] EXCEPT !.receipt = latest]
  <2>1. UNCHANGED <<tables, policyFile, signer, minted>>
    BY <1>8 DEF LookupReady, LookupIssuing
  <2>2. CASE \E why \in {"dangling", "policy"} : Respond(r, "lookup", Error(why))
    BY <1>3, <1>4, <2>1, <2>2
  <2>3. CASE ~\E why \in {"dangling", "policy"} : Respond(r, "lookup", Error(why))
    <3>1. PICK to \in {"ready", "mint"} : Goto(r, "lookup", to) /\ Kept(w) /\ Resumable(latest)
      BY <1>8, <2>3 DEF LookupReady, LookupIssuing
    <3>2. latest \in ReceiptId
      BY <1>1, <3>1, StoredType DEF Resumable, TablesOK
    <3>3. w \in Work /\ w.at \in Stamps /\ w.receipt \in ReceiptId
      BY <1>1, <3>1, <3>2, HeldType DEF Work, Working, Goto
    <3> HIDE DEF w
    <3>4. LocalOK'
      BY <1>1, <3>1, <3>3, GotoType DEF Steps
    <3> QED
      BY <1>1, <1>2, <2>1, <3>4
  <2> QED
    BY <2>2, <2>3
<1>9. CASE LookupExisting(r) \/ Reread(r) \/ EvaluateFail(r) \/ ReadyLost(r) \/ MintFail(r) \/ StorageFault(r)
  <2>1. PICK from \in Steps, answer \in Answers : Respond(r, from, answer)
    BY <1>4, <1>9 DEF LookupExisting, Reread, EvaluateFail, ReadyLost, MintFail, StorageFault, Steps
  <2> QED
    BY <1>3, <1>9, <2>1 DEF LookupExisting, Reread, EvaluateFail, ReadyLost, MintFail, StorageFault
<1>10. CASE FinishInline(r)
  <2>1. work[r].receipt \in ReceiptId
    BY <1>1, <1>10, HeldType DEF FinishInline, Respond, Goto, Holding
  <2>2. work[r].receipt.approval \in ApprovalIds \cup {Null}
    BY <2>1 DEF ReceiptId
  <2>3. Answer("require_approval", work[r].receipt, work[r].receipt.approval) \in Answers
    BY <2>1, <2>2, AnswerType DEF Verdicts
  <2> QED
    BY <1>3, <1>10, <2>3 DEF FinishInline
<1> QED
  BY <1>5, <1>6, <1>7, <1>8, <1>9, <1>10 DEF LocalStep

LEMMA TypeStep == TypeInv /\ [Next]_vars => TypeInv'
<1> SUFFICES ASSUME TypeInv, [Next]_vars PROVE TypeInv'
  OBVIOUS
<1>1. CASE \E r \in Requests : Call(r)
  BY <1>1, CallSplit, LocalStepType, FirstCommitType, ReadyCommitReads, WriteIssuingType,
     FinalCommitReads, WriteIssuedType DEF TypeInv
<1>2. CASE Click
  BY <1>2, ApproveReads, WriteDecisionType DEF Click, TypeInv
<1>3. CASE \E p \in Policies : EditPolicy(p)
  BY <1>3, TypeInvSplit DEF EditPolicy, tables, records, TypeInv, TypeOK, LocalOK, TablesOK, WorkOK
<1>4. CASE Restart
  <2>1. pc' \in [Requests -> Steps] /\ work' \in [Requests -> Work] /\ WorkOK'
    BY <1>4, NoWorkType DEF Restart, TypeInv, TypeOK, WorkOK, Steps, Working, Holding
  <2> QED
    BY <1>4, <2>1 DEF Restart, tables, records, TypeInv, TypeOK
<1>5. CASE UNCHANGED vars
  BY <1>5 DEF vars, records, TypeInv, TypeOK, WorkOK
<1> QED
  BY <1>1, <1>2, <1>3, <1>4, <1>5 DEF Next

(* Every row, every local variable and every answer has its type in every  *)
(* reachable state of the service, and a call holds at each step what that *)
(* step reads.                                                             *)
THEOREM TypeCorrect == Spec => []TypeOK
<1>1. Spec => []TypeInv
  BY TypeInit, TypeStep, PTL DEF Spec
<1>2. TypeInv => TypeOK
  BY DEF TypeInv
<1> QED
  BY <1>1, <1>2, PTL

-----------------------------------------------------------------------------
(* Safety.  StatusMatchesReceipt alone is not inductive: what a call wrote *)
(* from is a receipt it read some steps ago, so the invariant also says    *)
(* what such a receipt still is, and what every stored receipt follows.    *)

ReceiptsOK ==
    \A row \in receipts :
        /\ row.id.policy \in policyVersions
        /\ row.id.outcome = "issuing_credentials" => AuthorizedIssuance(row)
        /\ row.id.outcome = "issued_credentials" => row.supersedes \in minted

MintedOK == \A id \in minted : id \in Stored(receipts) /\ id.outcome = "issuing_credentials"

HeldOK ==
    \A r \in Requests :
        LET id == work[r].receipt IN
        /\ pc[r] = "ready" => /\ id \in Stored(receipts)
                              /\ id.key = KeyOf[r]
                              /\ id.outcome = "approval_approved"
                              /\ VerdictOf[id.policy][id.key] # "deny"
        /\ pc[r] \in {"mint", "final"} => /\ id \in Stored(receipts)
                                         /\ id.key = KeyOf[r]
                                         /\ id.outcome = "issuing_credentials"
        /\ pc[r] = "final" => id \in minted

SignedOK == \A row \in receipts : keyRow # Null

Safe == /\ StatusMatchesReceipt /\ ReceiptsOK /\ MintedOK /\ HeldOK
        /\ CredentialsAreRecorded /\ SignedOK

(* The tables grow: nothing that was stored or minted goes away.           *)
Grows == /\ receipts \subseteq receipts'
         /\ policyVersions \subseteq policyVersions'
         /\ minted \subseteq minted'

LEMMA StoredGrows == ASSUME Grows PROVE Stored(receipts) \subseteq Stored(receipts)'
BY DEF Grows, Stored

LEMMA AuthorityStays ==
    ASSUME Grows, NEW row, AuthorizedIssuance(row)
    PROVE  AuthorizedIssuance(row)'
BY StoredGrows DEF AuthorizedIssuance

(* Putting one receipt that is in order keeps the receipts in order.       *)
LEMMA PutKeepsReceipts ==
    ASSUME ReceiptsOK, MintedOK, SignedOK, NEW id, NEW prev,
           receipts' = PutReceipt(receipts, Row(id, prev)),
           keyRow' = PutKey(keyRow, signer), signer \in SignerKeys, signer' = signer,
           policyVersions \subseteq policyVersions', minted' = minted,
           id.policy \in policyVersions',
           id.outcome = "issuing_credentials" => AuthorizedIssuance(Row(id, prev))',
           id.outcome = "issued_credentials" => prev \in minted
    PROVE  /\ Grows
           /\ Stored(receipts)' = Stored(receipts) \cup {id}
           /\ ReceiptsOK' /\ MintedOK' /\ SignedOK'
           /\ id.outcome = "issued_credentials" =>
                 \E row \in receipts' : row.id = id /\ row.supersedes \in minted
<1> DEFINE new == Row(id, prev)
<1>1. new.id = id /\ new.supersedes = prev
  BY DEF Row
<1>2. /\ Stored(receipts)' = Stored(receipts) \cup {id}
      /\ receipts \subseteq receipts'
      /\ receipts' \subseteq receipts \cup {new}
  BY <1>1, PutReceiptStores DEF Stored
<1>3. Grows
  BY <1>2 DEF Grows
<1>4. ReceiptsOK'
  <2> SUFFICES ASSUME NEW row \in receipts'
               PROVE  /\ row.id.policy \in policyVersions'
                      /\ row.id.outcome = "issuing_credentials" => AuthorizedIssuance(row)'
                      /\ row.id.outcome = "issued_credentials" => row.supersedes \in minted'
    BY DEF ReceiptsOK
  <2>1. CASE row = new
    BY <1>1, <2>1 DEF AuthorizedIssuance, Row
  <2>2. CASE row \in receipts
    BY <1>3, <2>2, AuthorityStays DEF ReceiptsOK
  <2> QED
    BY <1>2, <2>1, <2>2
<1>5. MintedOK'
  BY <1>2 DEF MintedOK
<1>6. SignedOK'
  BY NullAssumption DEF SignedOK, PutKey
<1>7. ASSUME id.outcome = "issued_credentials"
      PROVE  \E row \in receipts' : row.id = id /\ row.supersedes \in minted
  <2>1. PICK row \in receipts' : row.id = id
    BY <1>2 DEF Stored
  <2>2. row.supersedes \in minted'
    BY <1>4, <1>7, <2>1 DEF ReceiptsOK
  <2> QED
    BY <2>1, <2>2
<1> QED
  BY <1>2, <1>3, <1>4, <1>5, <1>6, <1>7

(* The row of one key may change to one that agrees with the receipts.     *)
Agrees(k, row) ==
    /\ row.latest \in Stored(receipts)
    /\ row.latest.key = k
    /\ row.latest.outcome \in OutcomesOf(row.status)
    /\ row.final = IF row.status \in {"allowed", "denied"} THEN row.latest ELSE Null

LEMMA RowKeepsStatus ==
    ASSUME StatusMatchesReceipt, Grows, TypeOK,
           NEW k \in Keys, NEW row, idem' = [idem EXCEPT ![k] = row], Agrees(k, row)'
    PROVE  StatusMatchesReceipt'
<1> SUFFICES ASSUME NEW j \in Keys, idem'[j].status # "absent"
             PROVE  Agrees(j, idem[j])'
  BY DEF StatusMatchesReceipt, Agrees
<1>1. CASE j = k
  BY <1>1 DEF TypeOK
<1>2. CASE j # k
  <2>1. idem'[j] = idem[j]
    BY <1>2 DEF TypeOK
  <2>2. Agrees(j, idem[j])
    BY <2>1 DEF StatusMatchesReceipt, Agrees
  <2> QED
    BY <2>1, <2>2, StoredGrows DEF Agrees
<1> QED
  BY <1>1, <1>2

(* What a call may hold, one call at a time.                               *)
Holds(step, k, id) ==
    /\ step = "ready" => /\ id \in Stored(receipts)
                         /\ id.key = k
                         /\ id.outcome = "approval_approved"
                         /\ VerdictOf[id.policy][id.key] # "deny"
    /\ step \in {"mint", "final"} => /\ id \in Stored(receipts)
                                    /\ id.key = k
                                    /\ id.outcome = "issuing_credentials"
    /\ step = "final" => id \in minted

LEMMA MoveKeepsHeld ==
    ASSUME HeldOK, Grows, TypeOK, NEW r \in Requests,
           \A q \in Requests \ {r} : pc'[q] = pc[q] /\ work'[q] = work[q],
           Holds(pc[r], KeyOf[r], work[r].receipt)'
    PROVE  HeldOK'
<1> SUFFICES ASSUME NEW q \in Requests
             PROVE  Holds(pc[q], KeyOf[q], work[q].receipt)'
  BY DEF HeldOK, Holds
<1>1. CASE q = r
  BY <1>1
<1>2. CASE q # r
  <2>1. pc'[q] = pc[q] /\ work'[q] = work[q]
    BY <1>2
  <2>2. Holds(pc[q], KeyOf[q], work[q].receipt)
    BY DEF HeldOK, Holds
  <2> QED
    BY <2>1, <2>2, StoredGrows DEF Holds, Grows
<1> QED
  BY <1>1, <1>2

(* An answer is recorded if it carries credentials.                        *)
Recorded(r, answer) ==
    answer.credentials => \E row \in receipts : /\ row.id = answer.receipt
                                               /\ row.id.outcome = "issued_credentials"
                                               /\ row.id.key = KeyOf[r]
                                               /\ row.supersedes \in minted

LEMMA AnswerKeepsRecorded ==
    ASSUME CredentialsAreRecorded, Grows, TypeOK, NEW r \in Requests,
           \A q \in Requests \ {r} : resp'[q] = resp[q],
           Recorded(r, resp[r])'
    PROVE  CredentialsAreRecorded'
<1> SUFFICES ASSUME NEW q \in Requests
             PROVE  Recorded(q, resp[q])'
  BY DEF CredentialsAreRecorded, Recorded
<1>1. CASE q = r
  BY <1>1
<1>2. CASE q # r
  <2>1. resp'[q] = resp[q] /\ Recorded(q, resp[q])
    BY <1>2 DEF CredentialsAreRecorded, Recorded
  <2> QED
    BY <2>1 DEF Recorded, Grows
<1> QED
  BY <1>1, <1>2

-----------------------------------------------------------------------------
(* Steps.                                                                  *)

(* A call that answers, or moves on holding what its next step needs.      *)
LEMMA RespondKeeps ==
    ASSUME HeldOK, CredentialsAreRecorded, Grows, TypeOK, NEW r \in Requests,
           NEW from, NEW answer, Respond(r, from, answer), Recorded(r, answer)'
    PROVE  HeldOK' /\ CredentialsAreRecorded'
<1>1. /\ \A q \in Requests \ {r} : pc'[q] = pc[q] /\ work'[q] = work[q] /\ resp'[q] = resp[q]
      /\ pc'[r] = "done"
      /\ resp'[r] = answer
  BY DEF Respond, Goto, TypeOK
<1>2. Holds(pc[r], KeyOf[r], work[r].receipt)'
  BY <1>1 DEF Holds
<1>3. Recorded(r, resp[r])'
  BY <1>1 DEF Recorded
<1> QED
  BY <1>1, <1>2, <1>3, MoveKeepsHeld, AnswerKeepsRecorded

LEMMA GotoKeeps ==
    ASSUME HeldOK, CredentialsAreRecorded, Grows, TypeOK, NEW r \in Requests,
           NEW from, NEW to, Goto(r, from, to),
           NEW w, work' = [work EXCEPT ![r] = w], resp' = resp,
           Holds(to, KeyOf[r], w.receipt)'
    PROVE  HeldOK' /\ CredentialsAreRecorded'
<1>1. /\ \A q \in Requests \ {r} : pc'[q] = pc[q] /\ work'[q] = work[q]
      /\ pc'[r] = to
      /\ work'[r] = w
  BY DEF Goto, TypeOK
<1>2. Holds(pc[r], KeyOf[r], work[r].receipt)'
  BY <1>1 DEF Holds
<1>3. \A q \in Requests : Recorded(q, resp[q]) => Recorded(q, resp[q])'
  BY DEF Recorded, Grows
<1>4. CredentialsAreRecorded'
  BY <1>3 DEF CredentialsAreRecorded, Recorded
<1> QED
  BY <1>1, <1>2, <1>4, MoveKeepsHeld

(* A step that writes no table.                                            *)
LEMMA ReadOnlyKeeps ==
    ASSUME Safe, UNCHANGED tables, minted \subseteq minted', MintedOK',
           HeldOK', CredentialsAreRecorded'
    PROVE  Safe'
<1>1. StatusMatchesReceipt'
  BY DEF Safe, tables, records, StatusMatchesReceipt, Stored
<1>2. ReceiptsOK'
  BY DEF Safe, tables, records, ReceiptsOK, AuthorizedIssuance, Stored
<1>3. SignedOK'
  BY DEF Safe, tables, records, SignedOK
<1> QED
  BY <1>1, <1>2, <1>3 DEF Safe

LEMMA SafeInit == Init => Safe
<1> SUFFICES ASSUME Init PROVE Safe
  OBVIOUS
<1>1. StatusMatchesReceipt
  BY DEF Init, StatusMatchesReceipt, NoIdem
<1>2. ReceiptsOK /\ MintedOK /\ SignedOK
  BY DEF Init, ReceiptsOK, MintedOK, SignedOK
<1>3. HeldOK
  BY DEF Init, HeldOK
<1>4. CredentialsAreRecorded
  BY DEF Init, CredentialsAreRecorded, NoAnswer, Answer
<1> QED
  BY <1>1, <1>2, <1>3, <1>4 DEF Safe

(* The answers without credentials.                                        *)
LEMMA BareAnswers ==
    /\ \A verdict, receipt, a : ~Answer(verdict, receipt, a).credentials
    /\ \A why : ~Error(why).credentials
    /\ \A row : ~HandleExisting(row).credentials
<1>1. \A verdict, receipt, a : ~Answer(verdict, receipt, a).credentials
  BY DEF Answer
<1>2. \A why : ~Error(why).credentials
  BY DEF Answer, Error
<1>3. \A row : ~HandleExisting(row).credentials
  BY <1>1, <1>2 DEF HandleExisting
<1> QED
  BY <1>1, <1>2, <1>3

LEMMA BareRespondKeeps ==
    ASSUME HeldOK, CredentialsAreRecorded, Grows, TypeOK, NEW r \in Requests,
           NEW from, NEW answer, Respond(r, from, answer), ~answer.credentials
    PROVE  HeldOK' /\ CredentialsAreRecorded'
<1>1. Recorded(r, answer)'
  BY DEF Recorded
<1> QED
  BY <1>1, RespondKeeps

(* What a transaction leaves behind: a receipt that is in order, and a row *)
(* that agrees with it.                                                    *)
LEMMA WriteSafe ==
    ASSUME TypeOK, Safe, NEW k \in Keys, NEW id, NEW prev, NEW row,
           receipts' = PutReceipt(receipts, Row(id, prev)),
           keyRow' = PutKey(keyRow, signer), signer' = signer,
           idem' = [idem EXCEPT ![k] = row],
           policyVersions \subseteq policyVersions', minted' = minted,
           id.key = k, id.policy \in policyVersions',
           id.outcome = "issuing_credentials" => AuthorizedIssuance(Row(id, prev))',
           id.outcome = "issued_credentials" => prev \in minted,
           row.latest = id, id.outcome \in OutcomesOf(row.status),
           row.final = IF row.status \in {"allowed", "denied"} THEN id ELSE Null
    PROVE  /\ Grows
           /\ Stored(receipts)' = Stored(receipts) \cup {id}
           /\ StatusMatchesReceipt' /\ ReceiptsOK' /\ MintedOK' /\ SignedOK'
           /\ id.outcome = "issued_credentials" =>
                 \E stored \in receipts' : stored.id = id /\ stored.supersedes \in minted
<1>1. signer \in SignerKeys
  BY DEF TypeOK
<1>2. /\ Grows
      /\ Stored(receipts)' = Stored(receipts) \cup {id}
      /\ ReceiptsOK' /\ MintedOK' /\ SignedOK'
      /\ id.outcome = "issued_credentials" =>
            \E stored \in receipts' : stored.id = id /\ stored.supersedes \in minted
  BY <1>1, PutKeepsReceipts DEF Safe
<1>3. Agrees(k, row)'
  BY <1>2 DEF Agrees
<1>4. StatusMatchesReceipt'
  BY <1>2, <1>3, RowKeepsStatus DEF Safe
<1> QED
  BY <1>2, <1>4

(* The transaction that opens a history writes a receipt that says what    *)
(* the row's status says; it opens an issuance only if its own policy      *)
(* allows it.                                                              *)
LEMMA FirstCommitSafe ==
    ASSUME TypeInv, Safe, NEW r \in Requests, FirstCommit(r)
    PROVE  Safe'
<1>1. /\ TypeOK /\ LocalOK /\ signer \in SignerKeys /\ pc[r] = "first"
  BY TypeInvSplit DEF FirstCommit, TypeInv
<1>2. /\ work[r].at \in Stamps /\ work[r].policy \in Policies /\ KeyOf[r] \in Keys
  BY <1>1, HeldType DEF Working
<1> DEFINE p0 == work[r].policy
           verdict0 == VerdictOf[p0][KeyOf[r]]
           Base(a) == BaseReceipt(KeyOf[r], work[r].at, p0, a)
<1>3. PICK a \in ApprovalIds \cup {Null} :
        /\ PutSigningKey
        /\ policyVersions' = PutPolicyVersion(policyVersions, p0)
        /\ receipts' = PutReceipt(receipts, Row(Base(a), Null))
        /\ idem' = [idem EXCEPT ![KeyOf[r]] = FirstRow(Base(a), verdict0, a)]
        /\ IF verdict0 = "allow" \/ (a # Null /\ SlackConfigured)
           THEN /\ Goto(r, "first", IF verdict0 = "allow" THEN "mint" ELSE "posting")
                /\ work' = [work EXCEPT ![r].receipt = Base(a)]
                /\ UNCHANGED resp
           ELSE Respond(r, "first", Answer(verdict0, Base(a), a))
        /\ UNCHANGED <<policyFile, signer, minted>>
  BY DEF FirstCommit
<1>4. PICK k, p, verdict, base :
        /\ k \in Keys /\ p \in Policies /\ verdict \in Verdicts
        /\ k = KeyOf[r] /\ p = p0 /\ verdict = VerdictOf[p][k]
        /\ base = BaseReceipt(k, work[r].at, p, a)
  <2>1. verdict0 \in Verdicts
    BY <1>2, VerdictAssumption
  <2> QED
    BY <1>2, <2>1
<1>5. /\ PutSigningKey
      /\ policyVersions' = PutPolicyVersion(policyVersions, p)
      /\ receipts' = PutReceipt(receipts, Row(base, Null))
      /\ idem' = [idem EXCEPT ![k] = FirstRow(base, verdict, a)]
      /\ IF verdict = "allow" \/ (a # Null /\ SlackConfigured)
         THEN /\ Goto(r, "first", IF verdict = "allow" THEN "mint" ELSE "posting")
              /\ work' = [work EXCEPT ![r].receipt = base]
              /\ UNCHANGED resp
         ELSE Respond(r, "first", Answer(verdict, base, a))
      /\ UNCHANGED <<policyFile, signer, minted>>
  BY <1>3, <1>4
<1> HIDE DEF p0, verdict0, Base
<1>6. /\ base.key = k /\ base.policy = p /\ base.outcome = OutcomeFor(verdict)
  BY <1>2, <1>4, BaseReceiptType
<1>7. p \in policyVersions' /\ policyVersions \subseteq policyVersions'
  BY <1>5 DEF PutPolicyVersion
<1>8. /\ base.outcome = "issuing_credentials" <=> verdict = "allow"
      /\ base.outcome # "issued_credentials"
  BY <1>4, <1>6 DEF OutcomeFor, Verdicts
<1>9. base.outcome = "issuing_credentials" => AuthorizedIssuance(Row(base, Null))'
  BY <1>4, <1>5, <1>6, <1>8 DEF AuthorizedIssuance, Row
<1> DEFINE row == FirstRow(base, verdict, a)
<1>10. /\ row.latest = base
       /\ base.outcome \in OutcomesOf(row.status)
       /\ row.final = IF row.status \in {"allowed", "denied"} THEN base ELSE Null
  BY <1>4, <1>6 DEF FirstRow, InitialStatus, OutcomesOf, OutcomeFor, Verdicts
<1>11. /\ receipts' = PutReceipt(receipts, Row(base, Null))
       /\ keyRow' = PutKey(keyRow, signer)
       /\ idem' = [idem EXCEPT ![k] = row]
       /\ signer' = signer /\ minted' = minted
  BY <1>5 DEF PutSigningKey
<1> HIDE DEF row
<1>12. /\ Grows /\ Stored(receipts)' = Stored(receipts) \cup {base}
       /\ StatusMatchesReceipt' /\ ReceiptsOK' /\ MintedOK' /\ SignedOK'
  BY <1>1, <1>4, <1>6, <1>7, <1>8, <1>9, <1>10, <1>11, WriteSafe
<1>13. HeldOK' /\ CredentialsAreRecorded'
  <2>1. CASE verdict = "allow" \/ (a # Null /\ SlackConfigured)
    <3>1. PICK w, to :
            /\ to \in {"mint", "posting"} /\ (to = "mint" => verdict = "allow")
            /\ w = [work[r] EXCEPT !.receipt = base]
            /\ Goto(r, "first", to) /\ work' = [work EXCEPT ![r] = w] /\ resp' = resp
      BY <1>5, <2>1
    <3>2. w.receipt = base
      BY <1>1, <3>1, HeldType DEF Work
    <3>3. Holds(to, KeyOf[r], w.receipt)'
      BY <1>4, <1>6, <1>8, <1>12, <3>1, <3>2 DEF Holds
    <3> QED
      BY <1>1, <1>12, <3>1, <3>3, GotoKeeps DEF Safe
  <2>2. CASE ~(verdict = "allow" \/ (a # Null /\ SlackConfigured))
    <3>1. Respond(r, "first", Answer(verdict, base, a))
      BY <1>5, <2>2
    <3> QED
      BY <1>1, <1>12, <3>1, BareRespondKeeps, BareAnswers DEF Safe
  <2> QED
    BY <2>1, <2>2
<1> QED
  BY <1>12, <1>13 DEF Safe

(* The transaction of an approved key opens an issuance that follows the   *)
(* approval the call holds.                                                *)
LEMMA WriteIssuingSafe ==
    ASSUME TypeInv, Safe, NEW r \in Requests, NEW read \in IdemRow, read.final = Null,
           WriteIssuing(r, read)
    PROVE  Safe'
<1>1. /\ TypeOK /\ LocalOK /\ pc[r] = "ready"
  BY TypeInvSplit DEF WriteIssuing, Goto, TypeInv
<1>2. /\ work[r].at \in Stamps /\ work[r].receipt \in ReceiptId /\ KeyOf[r] \in Keys
  BY <1>1, HeldType DEF Working, Holding
<1>3. PICK k, prev, issuing, row, w :
        /\ k \in Keys /\ prev \in ReceiptId
        /\ k = KeyOf[r] /\ prev = work[r].receipt
        /\ issuing = NextReceipt(prev, work[r].at, "issuing_credentials", Null)
        /\ row = IssuingRow(read, issuing)
        /\ w = [work[r] EXCEPT !.receipt = issuing]
  BY <1>2
<1>4. /\ keyRow' = PutKey(keyRow, signer)
      /\ receipts' = PutReceipt(receipts, Row(issuing, prev))
      /\ idem' = [idem EXCEPT ![k] = row]
      /\ Goto(r, "ready", "mint") /\ work' = [work EXCEPT ![r] = w] /\ resp' = resp
      /\ UNCHANGED <<policyVersions, signer, minted>>
  BY <1>3 DEF WriteIssuing, PutSigningKey, records
<1>5. /\ issuing.key = prev.key /\ issuing.policy = prev.policy
      /\ issuing.outcome = "issuing_credentials"
      /\ w.receipt = issuing
      /\ k \in Keys
  BY <1>1, <1>2, <1>3, NextReceiptType, HeldType DEF OutcomeStatus, Work
<1>6. /\ prev \in Stored(receipts) /\ prev.key = k
      /\ prev.outcome = "approval_approved"
      /\ VerdictOf[prev.policy][k] # "deny"
  BY <1>1, <1>3 DEF Safe, HeldOK
<1>7. prev.policy \in policyVersions
  BY <1>6 DEF Safe, ReceiptsOK, Stored
<1>8. prev \in Stored(receipts)'
  BY <1>4, <1>6, PutReceiptStores DEF Stored
<1>9. AuthorizedIssuance(Row(issuing, prev))'
  BY <1>5, <1>6, <1>8 DEF AuthorizedIssuance, Row
<1>10. /\ row.latest = issuing
       /\ row.status = "issuing"
       /\ row.final = Null
  BY <1>3 DEF IdemRow, IssuingRow
<1>11. issuing.outcome \in OutcomesOf(row.status)
  BY <1>5, <1>10 DEF OutcomesOf
<1>12. /\ Grows /\ Stored(receipts)' = Stored(receipts) \cup {issuing}
       /\ StatusMatchesReceipt' /\ ReceiptsOK' /\ MintedOK' /\ SignedOK'
  BY <1>1, <1>4, <1>5, <1>6, <1>7, <1>9, <1>10, <1>11, WriteSafe
<1>13. Holds("mint", KeyOf[r], w.receipt)'
  BY <1>3, <1>5, <1>6, <1>12 DEF Holds
<1>14. HeldOK' /\ CredentialsAreRecorded'
  BY <1>1, <1>4, <1>12, <1>13, GotoKeeps DEF Safe
<1> QED
  BY <1>12, <1>14 DEF Safe

(* The last transaction records a receipt the broker was called for, and   *)
(* only then is the caller answered.                                       *)
LEMMA WriteIssuedSafe ==
    ASSUME TypeInv, Safe, NEW r \in Requests, NEW read \in IdemRow, WriteIssued(r, read)
    PROVE  Safe'
<1>1. /\ TypeOK /\ LocalOK /\ pc[r] = "final"
  BY TypeInvSplit DEF WriteIssued, Respond, Goto, TypeInv
<1>2. /\ work[r].at \in Stamps /\ work[r].receipt \in ReceiptId /\ KeyOf[r] \in Keys
  BY <1>1, HeldType DEF Working, Holding
<1>3. PICK k, prev, issued, row, answer :
        /\ k \in Keys /\ prev \in ReceiptId
        /\ k = KeyOf[r] /\ prev = work[r].receipt
        /\ issued = NextReceipt(prev, work[r].at, "issued_credentials", Null)
        /\ row = AllowedRow(read, issued)
        /\ answer = [Answer("allow", issued, Null) EXCEPT !.credentials = TRUE]
  BY <1>2
<1>4. /\ keyRow' = PutKey(keyRow, signer)
      /\ receipts' = PutReceipt(receipts, Row(issued, prev))
      /\ idem' = [idem EXCEPT ![k] = row]
      /\ Respond(r, "final", answer)
      /\ UNCHANGED <<policyVersions, signer, minted>>
  BY <1>3 DEF WriteIssued, PutSigningKey, records
<1>5. /\ issued.key = prev.key /\ issued.policy = prev.policy
      /\ issued.outcome = "issued_credentials"
      /\ answer.receipt = issued
      /\ k \in Keys
  BY <1>2, <1>3, NextReceiptType DEF OutcomeStatus, Answer
<1>6. prev \in Stored(receipts) /\ prev.key = k /\ prev \in minted
  BY <1>1, <1>3 DEF Safe, HeldOK
<1>7. prev.policy \in policyVersions
  BY <1>6 DEF Safe, ReceiptsOK, Stored
<1>8. /\ row.latest = issued
      /\ row.status = "allowed"
      /\ row.final = issued
  BY <1>2, <1>3 DEF IdemRow, AllowedRow
<1>9. issued.outcome \in OutcomesOf(row.status)
  BY <1>5, <1>8 DEF OutcomesOf
<1>10. /\ Grows /\ Stored(receipts)' = Stored(receipts) \cup {issued}
       /\ StatusMatchesReceipt' /\ ReceiptsOK' /\ MintedOK' /\ SignedOK'
       /\ \E stored \in receipts' : stored.id = issued /\ stored.supersedes \in minted
  BY <1>1, <1>4, <1>5, <1>6, <1>7, <1>8, <1>9, WriteSafe
<1>11. Recorded(r, answer)'
  BY <1>3, <1>4, <1>5, <1>6, <1>10 DEF Recorded
<1>12. HeldOK' /\ CredentialsAreRecorded'
  BY <1>1, <1>4, <1>10, <1>11, RespondKeeps DEF Safe
<1> QED
  BY <1>10, <1>12 DEF Safe

(* A decision follows the latest receipt of the approval's key.            *)
LEMMA WriteDecisionSafe ==
    ASSUME TypeInv, Safe, NEW a \in ApprovalIds, NEW d \in Decisions, NEW t \in Stamps,
           NEW approval \in ApprovalRow, NEW read \in IdemRow \cup {NoIdem},
           read.latest \in Stored(receipts) => read.latest.key = approval.key,
           WriteDecision(a, approval, read, d, t)
    PROVE  Safe'
<1> DEFINE outcome == IF d = "approved" THEN "approval_approved" ELSE "approval_denied"
<1>1. TypeOK
  BY DEF TypeInv
<1>2. approval.key \in Keys
  BY DEF ApprovalRow
<1>3. PICK k, prev, id, row :
        /\ k \in Keys
        /\ k = approval.key /\ prev = read.latest
        /\ id = NextReceipt(prev, t, outcome, a)
        /\ row = DecidedRow(read, id, d)
  BY <1>2
<1>4. /\ keyRow' = PutKey(keyRow, signer)
      /\ receipts' = PutReceipt(receipts, Row(id, prev))
      /\ idem' = [idem EXCEPT ![k] = row]
      /\ prev \in Stored(receipts)
      /\ UNCHANGED <<policyVersions, signer, minted, pc, work, resp>>
  BY <1>3 DEF WriteDecision, PutSigningKey, records
<1>5. prev \in ReceiptId /\ read \in IdemRow /\ k \in Keys
  BY <1>1, <1>3, <1>4, StoredType, NullAssumption DEF TypeOK, NoIdem
<1>6. /\ id.key = prev.key /\ id.policy = prev.policy /\ id.outcome = outcome
  <2>1. outcome \in OutcomeStatus /\ a \in ApprovalIds \cup {Null}
    BY DEF OutcomeStatus
  <2> HIDE DEF outcome
  <2> QED
    BY <1>3, <1>5, <2>1, NextReceiptType
<1>7. prev.key = k
  BY <1>3, <1>4
<1>8. prev.policy \in policyVersions
  BY <1>4 DEF Safe, ReceiptsOK, Stored
<1>9. /\ row.latest = id
      /\ row.status = IF d = "approved" THEN "approved_ready" ELSE "denied"
      /\ row.final = IF row.status \in {"allowed", "denied"} THEN id ELSE Null
  BY <1>3, <1>5 DEF IdemRow, DecidedRow
<1>10. id.outcome \in OutcomesOf(row.status)
  BY <1>6, <1>9 DEF OutcomesOf
<1>11. /\ Grows
       /\ StatusMatchesReceipt' /\ ReceiptsOK' /\ MintedOK' /\ SignedOK'
  BY <1>1, <1>4, <1>5, <1>6, <1>7, <1>8, <1>9, <1>10, WriteSafe
<1>12. HeldOK'
  <2>1. \A q \in Requests : Holds(pc[q], KeyOf[q], work[q].receipt)
    BY DEF Safe, HeldOK, Holds
  <2>2. \A q \in Requests : Holds(pc[q], KeyOf[q], work[q].receipt)'
    BY <1>4, <1>11, <2>1, StoredGrows DEF Holds, Grows
  <2> QED
    BY <2>2 DEF HeldOK, Holds
<1>13. CredentialsAreRecorded'
  BY <1>4, <1>11 DEF Safe, CredentialsAreRecorded, Grows
<1> QED
  BY <1>11, <1>12, <1>13 DEF Safe

(* The steps of a call that write no table.  A call picks up a receipt     *)
(* only from a row that says what that receipt is.                         *)
LEMMA LocalStepSafe ==
    ASSUME TypeInv, Safe, NEW r \in Requests, LocalStep(r)
    PROVE  Safe'
<1>1. TypeOK /\ LocalOK /\ KeyOf[r] \in Keys /\ work[r] \in Work
  BY TypeInvSplit, HeldType DEF TypeInv
<1>2. UNCHANGED tables
  BY LocalStepKeepsTables
<1>3. ASSUME minted \subseteq minted' PROVE Grows
  BY <1>2, <1>3 DEF Grows, tables, records
<1>4. ASSUME minted' = minted, HeldOK' /\ CredentialsAreRecorded'
      PROVE  Safe'
  <2>1. MintedOK'
    BY <1>2, <1>4 DEF Safe, MintedOK, tables, records, Stored
  <2> QED
    BY <1>2, <1>4, <2>1, ReadOnlyKeeps
<1>5. ASSUME minted' = minted, NEW from, NEW answer, Respond(r, from, answer),
             ~answer.credentials
      PROVE  Safe'
  BY <1>1, <1>3, <1>4, <1>5, BareRespondKeeps DEF Safe
<1>6. ASSUME minted' = minted, NEW from, NEW to, Goto(r, from, to),
             NEW w, work' = [work EXCEPT ![r] = w], resp' = resp,
             Holds(to, KeyOf[r], w.receipt)'
      PROVE  Safe'
  BY <1>1, <1>3, <1>4, <1>6, GotoKeeps DEF Safe
<1>7. CASE Start(r)
  <2>1. /\ \A q \in Requests \ {r} : pc'[q] = pc[q] /\ work'[q] = work[q] /\ resp'[q] = resp[q]
        /\ pc'[r] = "lookup" /\ resp'[r] = NoAnswer
        /\ minted' = minted
    BY <1>1, <1>7 DEF Start, Goto, TypeOK
  <2>2. Holds(pc[r], KeyOf[r], work[r].receipt)' /\ Recorded(r, resp[r])'
    BY <2>1 DEF Holds, Recorded, NoAnswer, Answer
  <2> QED
    BY <1>1, <1>3, <1>4, <2>1, <2>2, MoveKeepsHeld, AnswerKeepsRecorded DEF Safe
<1>8. CASE LookupNone(r) \/ Evaluate(r) \/ FirstFail(r) \/ StartInline(r)
  <2>1. PICK from, to, w :
          /\ to \notin {"ready", "mint", "final"}
          /\ Goto(r, from, to) /\ work' = [work EXCEPT ![r] = w] /\ resp' = resp
    <3>1. work' = [work EXCEPT ![r] = work[r]] \/ work' = [work EXCEPT ![r].policy = policyFile]
      BY <1>1, <1>8 DEF LookupNone, Evaluate, FirstFail, StartInline, TypeOK
    <3> QED
      BY <1>8, <3>1 DEF LookupNone, Evaluate, FirstFail, StartInline, Steps
  <2>2. Holds(to, KeyOf[r], w.receipt)'
    BY <2>1 DEF Holds
  <2> QED
    BY <1>6, <1>8, <2>1, <2>2 DEF LookupNone, Evaluate, FirstFail, StartInline
<1>9. CASE \/ LookupExisting(r) \/ EvaluateFail(r) \/ Reread(r) \/ FinishInline(r)
           \/ ReadyLost(r) \/ MintFail(r) \/ StorageFault(r)
  <2>1. PICK from, answer : Respond(r, from, answer) /\ ~answer.credentials
    BY <1>9, BareAnswers DEF LookupExisting, EvaluateFail, Reread, FinishInline, ReadyLost,
                             MintFail, StorageFault
  <2> QED
    BY <1>5, <1>9, <2>1 DEF LookupExisting, EvaluateFail, Reread, FinishInline, ReadyLost,
                            MintFail, StorageFault
<1>10. CASE LookupReady(r)
  <2>1. CASE \E why : Respond(r, "lookup", Error(why))
    BY <1>5, <1>10, <2>1, BareAnswers DEF LookupReady
  <2>2. CASE ~\E why : Respond(r, "lookup", Error(why))
    <3>1. PICK id, w : /\ id = idem[KeyOf[r]].latest
                       /\ w = [work[r] EXCEPT !.receipt = id]
      OBVIOUS
    <3>2. /\ Goto(r, "lookup", "ready") /\ work' = [work EXCEPT ![r] = w] /\ resp' = resp
          /\ minted' = minted /\ id \in Stored(receipts)
          /\ VerdictOf[id.policy][KeyOf[r]] # "deny"
          /\ idem[KeyOf[r]].status = "approved_ready"
      BY <1>10, <2>2, <3>1 DEF LookupReady, Resumable
    <3>3. id.key = KeyOf[r] /\ id.outcome = "approval_approved" /\ w.receipt = id
      BY <1>1, <3>1, <3>2 DEF Safe, StatusMatchesReceipt, OutcomesOf, Work
    <3>4. id \in Stored(receipts)'
      BY <1>2, <3>2 DEF tables, records, Stored
    <3>5. Holds("ready", KeyOf[r], w.receipt)'
      BY <3>2, <3>3, <3>4 DEF Holds
    <3> QED
      BY <1>6, <3>2, <3>5
  <2> QED
    BY <2>1, <2>2
<1>11. CASE LookupIssuing(r)
  <2>1. CASE \E why : Respond(r, "lookup", Error(why))
    BY <1>5, <1>11, <2>1, BareAnswers DEF LookupIssuing
  <2>2. CASE ~\E why : Respond(r, "lookup", Error(why))
    <3>1. PICK id, w : /\ id = idem[KeyOf[r]].latest
                       /\ w = [work[r] EXCEPT !.receipt = id]
      OBVIOUS
    <3>2. /\ Goto(r, "lookup", "mint") /\ work' = [work EXCEPT ![r] = w] /\ resp' = resp
          /\ minted' = minted /\ id \in Stored(receipts)
          /\ idem[KeyOf[r]].status = "issuing"
      BY <1>11, <2>2, <3>1 DEF LookupIssuing, Resumable
    <3>3. id.key = KeyOf[r] /\ id.outcome = "issuing_credentials" /\ w.receipt = id
      BY <1>1, <3>1, <3>2 DEF Safe, StatusMatchesReceipt, OutcomesOf, Work
    <3>4. id \in Stored(receipts)'
      BY <1>2, <3>2 DEF tables, records, Stored
    <3>5. Holds("mint", KeyOf[r], w.receipt)'
      BY <3>3, <3>4 DEF Holds
    <3> QED
      BY <1>6, <3>2, <3>5
  <2> QED
    BY <2>1, <2>2
<1>12. CASE Mint(r)
  <2>1. PICK id : id = work[r].receipt
    OBVIOUS
  <2>2. /\ Goto(r, "mint", "final") /\ work' = [work EXCEPT ![r] = work[r]] /\ resp' = resp
        /\ minted' = minted \cup {id}
    BY <1>1, <1>12, <2>1 DEF Mint, TypeOK
  <2>3. id \in Stored(receipts) /\ id.key = KeyOf[r] /\ id.outcome = "issuing_credentials"
    BY <2>1, <2>2 DEF Goto, Safe, HeldOK
  <2>4. id \in Stored(receipts)'
    BY <1>2, <2>3 DEF tables, records, Stored
  <2>5. Holds("final", KeyOf[r], id)'
    BY <2>2, <2>3, <2>4 DEF Holds
  <2>6. MintedOK'
    BY <1>2, <2>2, <2>3, <2>4 DEF MintedOK, Safe, tables, records, Stored
  <2>7. HeldOK' /\ CredentialsAreRecorded'
    BY <1>1, <1>3, <2>1, <2>2, <2>5, GotoKeeps DEF Safe
  <2> QED
    BY <1>2, <2>2, <2>6, <2>7, ReadOnlyKeeps
<1> QED
  BY <1>7, <1>8, <1>9, <1>10, <1>11, <1>12 DEF LocalStep

(* What the row of a key says of the receipt it names.                     *)
LEMMA LatestIsOfKey ==
    ASSUME TypeOK, StatusMatchesReceipt, NEW k \in Keys
    PROVE  /\ idem[k].latest \in Stored(receipts) => idem[k].latest.key = k
           /\ idem[k].status \in {"pending_approval", "approved_ready", "issuing"} =>
                 idem[k].final = Null
<1>1. CASE idem[k].status # "absent"
  BY <1>1 DEF StatusMatchesReceipt
<1>2. CASE idem[k].status = "absent"
  <2>1. idem[k] = NoIdem
    BY <1>2 DEF TypeOK, IdemRow, IdemStatus
  <2> QED
    BY <2>1, StoredType, NullAssumption DEF TypeOK, NoIdem
<1> QED
  BY <1>1, <1>2

LEMMA RestartSafe == ASSUME TypeInv, Safe, Restart PROVE Safe'
<1>1. UNCHANGED tables /\ minted' = minted /\ resp' = resp
  BY DEF Restart
<1>2. \A q \in Requests : pc'[q] \notin {"ready", "mint", "final"}
  BY DEF Restart
<1>3. HeldOK' /\ MintedOK' /\ CredentialsAreRecorded'
  BY <1>1, <1>2 DEF HeldOK, MintedOK, CredentialsAreRecorded, Safe, tables, records, Stored
<1> QED
  BY <1>1, <1>3, ReadOnlyKeeps

LEMMA SafeStep == TypeInv /\ Safe /\ [Next]_vars => Safe'
<1> SUFFICES ASSUME TypeInv, Safe, [Next]_vars PROVE Safe'
  OBVIOUS
<1>1. CASE \E r \in Requests : Call(r)
  <2>1. TypeOK /\ StatusMatchesReceipt
    BY DEF TypeInv, Safe
  <2>2. ASSUME NEW r \in Requests, ReadyCommit(r) PROVE Safe'
    <3>1. /\ idem[KeyOf[r]] \in IdemRow /\ idem[KeyOf[r]].final = Null
          /\ WriteIssuing(r, idem[KeyOf[r]])
      BY <2>1, <2>2, ReadyCommitReads, LatestIsOfKey, KeyOfAssumption
    <3> QED
      BY <3>1, WriteIssuingSafe
  <2>3. ASSUME NEW r \in Requests, FinalCommit(r) PROVE Safe'
    BY <2>1, <2>3, FinalCommitReads, WriteIssuedSafe
  <2> QED
    BY <1>1, <2>2, <2>3, CallSplit, LocalStepSafe, FirstCommitSafe
<1>2. CASE Click
  <2>1. TypeOK /\ StatusMatchesReceipt
    BY DEF TypeInv, Safe
  <2>2. ASSUME NEW a \in ApprovalIds, NEW d \in Decisions, NEW t \in Stamps, Approve(a, d, t)
        PROVE  Safe'
    <3>1. /\ approvals[a] \in ApprovalRow
          /\ idem[approvals[a].key] \in IdemRow \cup {NoIdem}
          /\ idem[approvals[a].key].latest \in Stored(receipts) =>
                 idem[approvals[a].key].latest.key = approvals[a].key
          /\ WriteDecision(a, approvals[a], idem[approvals[a].key], d, t)
      BY <2>1, <2>2, ApproveReads, LatestIsOfKey
    <3> QED
      BY <3>1, WriteDecisionSafe
  <2> QED
    BY <1>2, <2>2 DEF Click
<1>3. CASE Restart
  BY <1>3, RestartSafe
<1>4. CASE UNCHANGED <<tables, minted, pc, work, resp>>
  <2>1. MintedOK' /\ HeldOK' /\ CredentialsAreRecorded'
    BY <1>4 DEF Safe, tables, records, MintedOK, HeldOK, CredentialsAreRecorded, Stored
  <2> QED
    BY <1>4, <2>1, ReadOnlyKeeps
<1>5. (\E p \in Policies : EditPolicy(p)) \/ UNCHANGED vars => UNCHANGED <<tables, minted, pc, work, resp>>
  BY DEF EditPolicy, vars, records, tables
<1> QED
  BY <1>1, <1>2, <1>3, <1>4, <1>5 DEF Next

LEMMA SafeAlways == Spec => [](TypeInv /\ Safe)
<1>1. Init => TypeInv /\ Safe
  BY TypeInit, SafeInit
<1>2. TypeInv /\ Safe /\ [Next]_vars => (TypeInv /\ Safe)'
  BY TypeStep, SafeStep
<1> QED
  BY <1>1, <1>2, PTL DEF Spec

(* The idempotency row of every key agrees with its receipts in every      *)
(* reachable state: races of calls, clicks, edits and restarts included.   *)
THEOREM StatusAlwaysMatches == Spec => []StatusMatchesReceipt
<1>1. TypeInv /\ Safe => StatusMatchesReceipt
  BY DEF Safe
<1> QED
  BY <1>1, SafeAlways, PTL

(* The broker is never called for a key without a durable issuing receipt  *)
(* that its own policy allows or a stored human approval precedes.         *)
THEOREM MintsAlwaysAuthorized == Spec => []MintsAreAuthorized
<1>1. TypeInv /\ Safe => MintsAreAuthorized
  BY DEF Safe, MintedOK, ReceiptsOK, MintsAreAuthorized, Stored
<1> QED
  BY <1>1, SafeAlways, PTL

(* No answer carries credentials whose issuance is not on record.          *)
THEOREM CredentialsAlwaysRecorded == Spec => []CredentialsAreRecorded
<1>1. TypeInv /\ Safe => CredentialsAreRecorded
  BY DEF Safe
<1> QED
  BY <1>1, SafeAlways, PTL

=============================================================================
