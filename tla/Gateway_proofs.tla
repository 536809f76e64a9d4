--------------------------- MODULE Gateway_proofs ---------------------------
(***************************************************************************)
(* Proofs about Gateway: what is proved of the service and of the outbox   *)
(* on its own holds where they share the tables approvals and              *)
(* slack_outbox.  A step of the gateway is a step of the service, of the   *)
(* outbox, or of both, so the two inductive invariants are kept together;  *)
(* the lemmas about single steps are those of the two components.          *)
(***************************************************************************)
EXTENDS AuthorizeService_proofs, Gateway

OutboxP == INSTANCE SlackOutbox_proofs WITH Inline <- Requests, MaxCrashes <- 0, crashes <- 0

-----------------------------------------------------------------------------
(* The outbox as the gateway uses it is the outbox of the proofs.          *)

LEMMA OutboxConstants ==
    /\ OutboxP!VerdictAssumption /\ OutboxP!RoleAssumption /\ OutboxP!NullAssumption
    /\ OutboxP!LimitAssumption /\ OutboxP!UnreliableAssumption /\ OutboxP!ProcessorsAssumption
<1>1. OutboxP!VerdictAssumption /\ OutboxP!RoleAssumption
  BY VerdictAssumption, RoleAssumption
  DEF Verdicts, OutboxP!Verdicts, OutboxP!VerdictAssumption, OutboxP!RoleAssumption
<1>2. OutboxP!NullAssumption
  BY NullAssumption
  DEF ReceiptId, OutcomeStatus, OutboxP!ReceiptId, OutboxP!OutcomeStatus, OutboxP!NullAssumption
<1>3. OutboxP!LimitAssumption /\ OutboxP!UnreliableAssumption
  BY GatewayAssumption DEF OutboxP!LimitAssumption, OutboxP!UnreliableAssumption
<1>4. OutboxP!ProcessorsAssumption
  BY GatewayAssumption
  DEF IsFiniteSet, OutboxP!IsFiniteSet, OutboxP!ProcessorsAssumption
<1> QED
  BY <1>1, <1>2, <1>3, <1>4

LEMMA SameRows ==
    /\ OutboxP!ApprovalRow = ApprovalRow /\ OutboxP!NoApproval = NoApproval
    /\ OutboxP!OutboxRow = OutboxRow /\ OutboxP!NoOutbox = NoOutbox
    /\ OutboxP!Decisions = Decisions
BY DEF OutboxP!ApprovalRow, ApprovalRow, OutboxP!ApprovalStatus, ApprovalStatus, OutboxP!NoApproval,
       NoApproval, OutboxP!OutboxRow, OutboxRow, OutboxP!NoOutbox, NoOutbox, OutboxP!Decisions, Decisions

LEMMA SameSteps ==
    /\ Outbox!Processors = OutboxP!Processors
    /\ \A p : Outbox!List(p) <=> OutboxP!List(p)
    /\ \A p : Outbox!Process(p) <=> OutboxP!Process(p)
    /\ \A a : Outbox!Elapse(a) <=> OutboxP!Elapse(a)
    /\ Outbox!Crash <=> OutboxP!Crash
    /\ Outbox!OutboxInit <=> OutboxP!OutboxInit
<1>1. Outbox!Processors = OutboxP!Processors
  BY DEF Outbox!Processors, OutboxP!Processors
<1>2. \A p : Outbox!List(p) <=> OutboxP!List(p)
  BY DEF Outbox!List, OutboxP!List, Outbox!Go, OutboxP!Go, Outbox!Due, OutboxP!Due,
         Outbox!Limit, OutboxP!Limit, Outbox!Cardinality, OutboxP!Cardinality
<1>3. ASSUME NEW p PROVE Outbox!Process(p) <=> OutboxP!Process(p)
  <2>1. Outbox!Finish(p) <=> OutboxP!Finish(p)
    BY DEF Outbox!Finish, OutboxP!Finish, Outbox!Go, OutboxP!Go
  <2>2. Outbox!Take(p) <=> OutboxP!Take(p)
    BY DEF Outbox!Take, OutboxP!Take, Outbox!Go, OutboxP!Go, Outbox!AlreadyPosted,
           OutboxP!AlreadyPosted, Outbox!NoApproval, OutboxP!NoApproval
  <2>3. Outbox!Post(p) <=> OutboxP!Post(p)
    BY DEF Outbox!Post, OutboxP!Post, Outbox!Go, OutboxP!Go, Outbox!Deliver, OutboxP!Deliver
  <2>4. Outbox!PostFail(p) <=> OutboxP!PostFail(p)
    BY DEF Outbox!PostFail, OutboxP!PostFail, Outbox!Go, OutboxP!Go, Outbox!Deliver, OutboxP!Deliver
  <2>5. Outbox!Record(p) <=> OutboxP!Record(p)
    BY DEF Outbox!Record, OutboxP!Record, Outbox!Go, OutboxP!Go, Outbox!Stamped, OutboxP!Stamped,
           Outbox!PutApproval, OutboxP!PutApproval, Outbox!NoApproval, OutboxP!NoApproval
  <2>6. Outbox!MarkSent(p) <=> OutboxP!MarkSent(p)
    BY DEF Outbox!MarkSent, OutboxP!MarkSent, Outbox!Write, OutboxP!Write, Outbox!Go, OutboxP!Go,
           Outbox!NoApproval, OutboxP!NoApproval
  <2>7. Outbox!Backoff(p) <=> OutboxP!Backoff(p)
    BY DEF Outbox!Backoff, OutboxP!Backoff, Outbox!Write, OutboxP!Write, Outbox!Go, OutboxP!Go,
           Outbox!NoApproval, OutboxP!NoApproval
  <2> QED
    BY <2>1, <2>2, <2>3, <2>4, <2>5, <2>6, <2>7 DEF Outbox!Process, OutboxP!Process
<1>4. \A a : Outbox!Elapse(a) <=> OutboxP!Elapse(a)
  BY DEF Outbox!Elapse, OutboxP!Elapse, Outbox!local, OutboxP!local
<1>5. Outbox!Crash <=> OutboxP!Crash
  BY <1>1 DEF Outbox!Crash, OutboxP!Crash, Outbox!NoApproval, OutboxP!NoApproval
<1>6. Outbox!OutboxInit <=> OutboxP!OutboxInit
  BY <1>1 DEF Outbox!OutboxInit, OutboxP!OutboxInit, Outbox!NoApproval, OutboxP!NoApproval
<1> QED
  BY <1>1, <1>2, <1>3, <1>4, <1>5, <1>6

-----------------------------------------------------------------------------
(* The inductive invariant.                                                *)

(* Every approval was asked for by a stored receipt of its key.            *)
AsksFor(id, a, k) == id.outcome = "approval_pending" /\ id.approval = a /\ id.key = k

Asked ==
    \A a \in ApprovalIds :
        approvals[a] # NoApproval =>
            \E id \in Stored(receipts) : AsksFor(id, a, approvals[a].key)

ServiceInv == TypeInv /\ Safe
OutboxInv == OutboxP!OutboxInv
GatewayInv == ServiceInv /\ OutboxInv /\ Asked

LEMMA GatewayInitInv == GatewayInit => GatewayInv
<1> SUFFICES ASSUME GatewayInit PROVE GatewayInv
  OBVIOUS
<1>1. ServiceInv
  BY TypeInit, SafeInit DEF GatewayInit, ServiceInv
<1>2. OutboxP!Init
  BY SameSteps, SameRows DEF GatewayInit, Init, OutboxP!Init
<1>3. OutboxInv
  BY <1>2, OutboxConstants, OutboxP!InitInv DEF OutboxInv
<1>4. Asked
  BY DEF GatewayInit, Init, Asked
<1> QED
  BY <1>1, <1>3, <1>4 DEF GatewayInv

-----------------------------------------------------------------------------
(* Asked survives what keeps the approvals' keys and the receipts.         *)

LEMMA AskedStays ==
    ASSUME Asked, Stored(receipts) \subseteq Stored(receipts)',
           \A a \in ApprovalIds : approvals'[a] # NoApproval =>
               \/ approvals[a] # NoApproval /\ approvals'[a].key = approvals[a].key
               \/ \E id \in Stored(receipts)' : AsksFor(id, a, approvals'[a].key)
    PROVE  Asked'
<1> SUFFICES ASSUME NEW a \in ApprovalIds, approvals'[a] # NoApproval
             PROVE  \E id \in Stored(receipts)' : AsksFor(id, a, approvals'[a].key)
  BY DEF Asked, AsksFor
<1>1. CASE approvals[a] # NoApproval /\ approvals'[a].key = approvals[a].key
  BY <1>1 DEF Asked
<1> QED
  BY <1>1

-----------------------------------------------------------------------------
(* Steps of the service.                                                   *)

(* Nothing of the outbox changes.                                          *)
LEMMA OutboxIdle ==
    ASSUME OutboxInv, UNCHANGED <<approvals, outbox, outboxLocal>>
    PROVE  OutboxInv'
<1>1. UNCHANGED <<OutboxP!outboxVars, 0>>
  BY DEF outboxLocal, OutboxP!outboxVars
<1> QED
  BY <1>1, OutboxConstants, OutboxP!StepInv DEF OutboxInv

LEMMA LocalStepGateway ==
    ASSUME GatewayInv, NEW r \in Requests, LocalStep(r), UNCHANGED outboxLocal
    PROVE  GatewayInv'
<1>1. UNCHANGED tables
  BY LocalStepKeepsTables
<1>2. ServiceInv'
  BY LocalStepType, LocalStepSafe DEF GatewayInv, ServiceInv
<1>3. OutboxInv'
  BY <1>1, OutboxIdle DEF GatewayInv, tables
<1>4. Asked'
  BY <1>1 DEF GatewayInv, Asked, AsksFor, tables, Stored
<1> QED
  BY <1>2, <1>3, <1>4 DEF GatewayInv

(* The first transaction: an approval is drawn with its message queued and *)
(* the receipt that asks for it stored, or the two tables stay.            *)
LEMMA FirstCommitGateway ==
    ASSUME GatewayInv, NEW r \in Requests, FirstCommit(r), UNCHANGED outboxLocal
    PROVE  GatewayInv'
<1> DEFINE k == KeyOf[r]
           verdict == VerdictOf[work[r].policy][k]
<1>1. ServiceInv'
  BY FirstCommitType, FirstCommitSafe DEF GatewayInv, ServiceInv
<1>2. /\ pc[r] = "first" /\ k \in Keys /\ work[r].at \in Stamps /\ work[r].policy \in Policies
      /\ TypeOK
  BY TypeInvSplit, HeldType DEF FirstCommit, GatewayInv, ServiceInv, Working, TypeInv
<1>3. PICK a \in ApprovalIds \cup {Null}, base \in ReceiptId :
        /\ base = BaseReceipt(k, work[r].at, work[r].policy, a)
        /\ DrawsApproval(a, k, verdict)
        /\ receipts' = PutReceipt(receipts, Row(base, Null))
        /\ IF a = Null
           THEN UNCHANGED <<approvals, outbox>>
           ELSE /\ approvals' = [approvals EXCEPT ![a] =
                                   [key |-> k, status |-> "pending", posted |-> FALSE]]
                /\ outbox' = Enqueue(outbox, a)
  BY <1>2, BaseReceiptType DEF FirstCommit
<1>4. Stored(receipts)' = Stored(receipts) \cup {base}
  BY <1>3, PutReceiptStores DEF Row, Stored
<1>5. CASE a = Null
  <2>1. OutboxInv'
    BY <1>3, <1>5, OutboxIdle DEF GatewayInv
  <2>2. Asked'
    BY <1>3, <1>4, <1>5, AskedStays DEF GatewayInv
  <2> QED
    BY <1>1, <2>1, <2>2 DEF GatewayInv
<1>6. CASE a # Null
  <2>1. a \in ApprovalIds /\ verdict = "require_approval"
    BY <1>3, <1>6 DEF DrawsApproval
  <2>2. approvals[a] = NoApproval /\ MayInsertApproval(approvals, k)
    BY <1>3, <2>1 DEF DrawsApproval
  <2>3. /\ approvals' = [approvals EXCEPT ![a] = [key |-> k, status |-> "pending", posted |-> FALSE]]
        /\ outbox' = [outbox EXCEPT ![a] = QueuedRow]
    BY <1>3, <1>6, GatewayAssumption DEF Enqueue
  <2>4. OutboxP!Enqueue(a)
    BY <1>2, <2>2, <2>3, SameRows
    DEF OutboxP!Enqueue, OutboxP!MayInsertApproval, MayInsertApproval, OutboxP!QueuedRow, QueuedRow,
        OutboxP!local, outboxLocal
  <2>5. OutboxInv'
    BY <2>1, <2>4, OutboxConstants, OutboxP!EnqueueInv DEF GatewayInv, OutboxInv
  <2>6. AsksFor(base, a, k)
    BY <1>2, <1>3, <2>1, BaseReceiptType DEF AsksFor, OutcomeFor
  <2>7. Asked'
    BY <1>2, <1>4, <2>1, <2>3, <2>6, AskedStays DEF GatewayInv, TypeOK
  <2> QED
    BY <1>1, <2>5, <2>7 DEF GatewayInv
<1> QED
  BY <1>5, <1>6

(* The transactions that issue leave approvals and outbox alone.           *)
LEMMA IssueGateway ==
    ASSUME GatewayInv, NEW r \in Requests, ReadyCommit(r) \/ FinalCommit(r), UNCHANGED outboxLocal
    PROVE  GatewayInv'
<1>1. TypeInv /\ TypeOK /\ Safe /\ StatusMatchesReceipt
  BY DEF GatewayInv, ServiceInv, TypeInv, Safe
<1>2. PICK read \in IdemRow :
        \/ WriteIssuing(r, read) /\ read.final = Null
        \/ WriteIssued(r, read)
  BY <1>1, ReadyCommitReads, FinalCommitReads, LatestIsOfKey, KeyOfAssumption
<1>3. ServiceInv'
  BY <1>1, <1>2, WriteIssuingType, WriteIssuingSafe, WriteIssuedType, WriteIssuedSafe DEF ServiceInv
<1>4. /\ UNCHANGED <<approvals, outbox>>
      /\ \E row : receipts' = PutReceipt(receipts, row)
  BY <1>2 DEF WriteIssuing, WriteIssued
<1>5. Stored(receipts) \subseteq Stored(receipts)'
  BY <1>4, PutReceiptStores DEF Stored
<1>6. OutboxInv'
  BY <1>4, OutboxIdle DEF GatewayInv
<1>7. Asked'
  BY <1>4, <1>5, AskedStays DEF GatewayInv
<1> QED
  BY <1>3, <1>6, <1>7 DEF GatewayInv

(* A click decides an approval whose message was shown.                    *)
LEMMA ClickGateway ==
    ASSUME GatewayInv, NEW a \in ApprovalIds, NEW d \in Decisions, NEW t \in Stamps,
           posts[a] > 0, Approve(a, d, t), UNCHANGED outboxLocal
    PROVE  GatewayInv'
<1>1. TypeInv /\ TypeOK /\ Safe /\ StatusMatchesReceipt
  BY DEF GatewayInv, ServiceInv, TypeInv, Safe
<1>2. /\ approvals[a] \in ApprovalRow /\ approvals[a].status = "pending"
      /\ approvals[a].key \in Keys /\ idem[approvals[a].key] \in IdemRow
      /\ WriteDecision(a, approvals[a], idem[approvals[a].key], d, t)
  BY <1>1, ApproveReads
<1>3. ServiceInv'
  BY <1>1, <1>2, LatestIsOfKey, WriteDecisionType, WriteDecisionSafe DEF ServiceInv
<1>4. /\ approvals' = [approvals EXCEPT ![a] = PutApproval(@, [approvals[a] EXCEPT !.status = d])]
      /\ UNCHANGED outbox
      /\ \E row : receipts' = PutReceipt(receipts, row)
  BY <1>2 DEF WriteDecision
<1>5. OutboxP!Decide(a, d)
  BY <1>2, <1>4 DEF OutboxP!Decide, OutboxP!PutApproval, PutApproval, OutboxP!local, outboxLocal
<1>6. OutboxInv'
  BY <1>5, OutboxConstants, SameRows, OutboxP!DecideInv DEF GatewayInv, OutboxInv
<1>7. Stored(receipts) \subseteq Stored(receipts)'
  BY <1>4, PutReceiptStores DEF Stored
<1>8. Asked'
  <2>1. approvals'[a].key = approvals[a].key
    BY <1>1, <1>2, <1>4 DEF TypeOK, PutApproval, ApprovalRow
  <2>2. approvals[a] # NoApproval /\ \A b \in ApprovalIds \ {a} : approvals'[b] = approvals[b]
    BY <1>1, <1>2, <1>4 DEF TypeOK, NoApproval
  <2> QED
    BY <1>7, <2>1, <2>2, AskedStays DEF GatewayInv
<1> QED
  BY <1>3, <1>6, <1>8 DEF GatewayInv

-----------------------------------------------------------------------------
(* Steps of the outbox: the service sees at most a timestamp recorded.     *)

LEMMA ServiceIdle ==
    ASSUME ServiceInv, OutboxInv', UNCHANGED serviceOnly
    PROVE  ServiceInv'
<1>1. /\ approvals' \in [ApprovalIds -> ApprovalRow \cup {NoApproval}]
      /\ outbox' \in [ApprovalIds -> OutboxRow \cup {NoOutbox}]
  BY SameRows DEF OutboxInv, OutboxP!OutboxInv, OutboxP!OutboxTypeOK
<1>2. TypeInv'
  BY <1>1 DEF ServiceInv, serviceOnly, records, TypeInv, TypeOK, WorkOK
<1>3. StatusMatchesReceipt' /\ ReceiptsOK' /\ MintedOK' /\ HeldOK' /\ CredentialsAreRecorded' /\ SignedOK'
  BY DEF ServiceInv, serviceOnly, records, Safe, StatusMatchesReceipt, ReceiptsOK,
         AuthorizedIssuance, MintedOK, HeldOK, CredentialsAreRecorded, SignedOK, Stored
<1> QED
  BY <1>2, <1>3 DEF ServiceInv, Safe

LEMMA OutboxStepGateway ==
    ASSUME GatewayInv, OutboxStep
    PROVE  GatewayInv'
<1>1. \/ \E p \in OutboxP!Processors : OutboxP!List(p) \/ OutboxP!Process(p)
      \/ \E a \in ApprovalIds : OutboxP!Elapse(a)
  BY SameSteps DEF OutboxStep, OutboxP!Processors
<1>2. OutboxInv'
  BY <1>1, OutboxConstants, OutboxP!ListInv, OutboxP!ProcessInv, OutboxP!ElapseInv
  DEF GatewayInv, OutboxInv
<1>3. ServiceInv'
  BY <1>2, ServiceIdle DEF GatewayInv, OutboxStep
<1>4. Asked'
  <2>1. ASSUME NEW a \in ApprovalIds, approvals'[a] # NoApproval
        PROVE  approvals[a] # NoApproval /\ approvals'[a].key = approvals[a].key
    BY <1>1, <2>1, OutboxConstants, SameRows, OutboxP!KeysStay
    DEF GatewayInv, OutboxInv, OutboxP!Exists
  <2>2. receipts' = receipts
    BY DEF OutboxStep, serviceOnly
  <2> QED
    BY <2>1, <2>2, AskedStays DEF GatewayInv, Stored
<1> QED
  BY <1>2, <1>3, <1>4 DEF GatewayInv

(* A call that starts its own pass over the outbox takes a step of both.   *)
LEMMA EnterGateway ==
    ASSUME GatewayInv, NEW r \in Requests, EnterOutbox(r)
    PROVE  GatewayInv'
<1>1. LocalStep(r) /\ UNCHANGED tables
  BY LocalStepKeepsTables DEF EnterOutbox, LocalStep
<1>2. ServiceInv'
  BY <1>1, LocalStepType, LocalStepSafe DEF GatewayInv, ServiceInv
<1>3. OutboxP!List(r) /\ r \in OutboxP!Processors
  BY SameSteps DEF EnterOutbox, OutboxP!Processors
<1>4. OutboxInv'
  BY <1>3, OutboxConstants, OutboxP!ListInv DEF GatewayInv, OutboxInv
<1>5. Asked'
  BY <1>1 DEF GatewayInv, Asked, AsksFor, tables, Stored
<1> QED
  BY <1>2, <1>4, <1>5 DEF GatewayInv

(* The process dies: calls and loops are gone, the tables stay.            *)
LEMMA RestartGateway ==
    ASSUME GatewayInv, RestartAll
    PROVE  GatewayInv'
<1>1. Restart /\ OutboxP!Crash
  BY SameSteps DEF RestartAll
<1>2. ServiceInv'
  <2>1. [Next]_vars
    BY <1>1 DEF Next
  <2> QED
    BY <1>1, <2>1, TypeStep, RestartSafe DEF GatewayInv, ServiceInv
<1>3. OutboxInv'
  BY <1>1, OutboxConstants, OutboxP!CrashInv DEF GatewayInv, OutboxInv
<1>4. Asked'
  BY <1>1 DEF Restart, tables, GatewayInv, Asked, AsksFor, Stored
<1> QED
  BY <1>2, <1>3, <1>4 DEF GatewayInv

(* The policy file is edited, or nothing happens.                          *)
LEMMA EditGateway ==
    ASSUME GatewayInv, EditFile \/ UNCHANGED gatewayVars
    PROVE  GatewayInv'
<1>1. [Next]_vars /\ UNCHANGED <<receipts, approvals, outbox, outboxLocal>>
  BY DEF EditFile, EditPolicy, Next, tables, records, gatewayVars, vars
<1>2. ServiceInv'
  BY <1>1, TypeStep, SafeStep DEF GatewayInv, ServiceInv
<1>3. OutboxInv'
  BY <1>1, OutboxIdle DEF GatewayInv
<1>4. Asked'
  BY <1>1 DEF GatewayInv, Asked, AsksFor, Stored
<1> QED
  BY <1>2, <1>3, <1>4 DEF GatewayInv

-----------------------------------------------------------------------------
LEMMA GatewayStep == GatewayInv /\ [GatewayNext]_gatewayVars => GatewayInv'
<1> SUFFICES ASSUME GatewayInv, [GatewayNext]_gatewayVars PROVE GatewayInv'
  OBVIOUS
<1>1. ASSUME NEW r \in Requests, EnterOutbox(r) \/ LeaveOutbox(r) \/ ServiceStep(r)
      PROVE  GatewayInv'
  <2>1. CASE EnterOutbox(r)
    BY <2>1, EnterGateway
  <2>2. CASE LeaveOutbox(r)
    BY <2>2, LocalStepGateway DEF LeaveOutbox, LocalStep
  <2>3. CASE ServiceStep(r)
    BY <2>3, LocalStepGateway, FirstCommitGateway, IssueGateway DEF ServiceStep, LocalStep
  <2> QED
    BY <1>1, <2>1, <2>2, <2>3
<1>2. CASE OutboxStep
  BY <1>2, OutboxStepGateway
<1>3. CASE ClickMessage
  BY <1>3, ClickGateway DEF ClickMessage
<1>4. CASE RestartAll
  BY <1>4, RestartGateway
<1>5. CASE EditFile \/ UNCHANGED gatewayVars
  BY <1>5, EditGateway
<1> QED
  BY <1>1, <1>2, <1>3, <1>4, <1>5 DEF GatewayNext

LEMMA GatewayAlways == GatewaySpec => []GatewayInv
BY GatewayInitInv, GatewayStep, PTL DEF GatewaySpec

(* The service keeps its promises although the outbox writes the rows of   *)
(* approvals it reads: a key's row agrees with its receipts ...            *)
THEOREM GatewayStatusMatches == GatewaySpec => []StatusMatchesReceipt
<1>1. GatewayInv => StatusMatchesReceipt
  BY DEF GatewayInv, ServiceInv, Safe
<1> QED
  BY <1>1, GatewayAlways, PTL

(* ... and the broker is called for authorized issuances only.             *)
THEOREM GatewayMintsAuthorized == GatewaySpec => []MintsAreAuthorized
<1>1. GatewayInv => MintsAreAuthorized
  BY DEF GatewayInv, ServiceInv, Safe, MintedOK, ReceiptsOK, MintsAreAuthorized, Stored
<1> QED
  BY <1>1, GatewayAlways, PTL

(* A human who must decide is told: from the transaction that creates an   *)
(* approval on, its message is queued or in the channel.                   *)
THEOREM ApprovalAlwaysAnnounced == GatewaySpec => []ApprovalIsAnnounced
<1>1. GatewayInv => ApprovalIsAnnounced
  <2> SUFFICES ASSUME GatewayInv, NEW a \in ApprovalIds, approvals[a].status # "absent"
               PROVE  outbox[a].status = "pending" \/ posts[a] > 0
    BY DEF ApprovalIsAnnounced
  <2>1. approvals[a] # NoApproval
    BY DEF NoApproval
  <2>2. outbox[a] \in OutboxRow
    BY <2>1, SameRows DEF GatewayInv, OutboxInv, OutboxP!OutboxInv, OutboxP!OutboxTypeOK, OutboxP!EnqueuedOK
  <2> QED
    BY <2>2 DEF OutboxRow, GatewayInv, OutboxInv, OutboxP!OutboxInv, OutboxP!ShownOK
<1> QED
  BY <1>1, GatewayAlways, PTL

(* A message in the channel is about a stored receipt that asks for the    *)
(* approval of its key: nobody is asked about anything else.               *)
THEOREM MessagesAlwaysBacked == GatewaySpec => []MessagesAreBacked
<1>1. GatewayInv => MessagesAreBacked
  <2> SUFFICES ASSUME GatewayInv, NEW a \in ApprovalIds, posts[a] > 0
               PROVE  \E id \in Stored(receipts) : AsksFor(id, a, approvals[a].key)
    BY DEF MessagesAreBacked, AsksFor
  <2>1. approvals[a] # NoApproval
    BY SameRows DEF GatewayInv, OutboxInv, OutboxP!OutboxInv, OutboxP!BackedOK, OutboxP!Exists
  <2> QED
    BY <2>1 DEF GatewayInv, Asked
<1> QED
  BY <1>1, GatewayAlways, PTL

=============================================================================
