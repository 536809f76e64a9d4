------------------------- MODULE AuthorizePostgres -------------------------
(***************************************************************************)
(* The authorize service over internal/ledger/pgstore.  The statements are *)
(* those of the SQLite store, but WithTx begins a transaction of the       *)
(* default isolation level, READ COMMITTED: what a transaction has read    *)
(* may be overwritten before it writes.  The transactions that read first  *)
(* (issueApprovedReady, finalizeIssuance, Approve) are therefore taken     *)
(* apart; the first transaction of a call only writes, and row locks order *)
(* it as a whole.                                                          *)
(***************************************************************************)
EXTENDS AuthorizeService

CONSTANT Clicks  \* slots for Slack callbacks in progress

VARIABLES
    rowRead,     \* the idempotency row the open transaction of a request has read
    click        \* the open transaction of each callback

pgVars == <<vars, rowRead, click>>

NoClick == [step |-> "none"]
ClickTx == [step : {"row", "write"}, approvalId : ApprovalIds, decision : Decisions,
            at : Stamps, approval : ApprovalRow, row : IdemRow \cup {NoIdem}]

Closed(r) == rowRead[r] = NoIdem
Open(r, row) == Closed(r) /\ rowRead' = [rowRead EXCEPT ![r] = row]
Close(r) == ~Closed(r) /\ rowRead' = [rowRead EXCEPT ![r] = NoIdem]

-----------------------------------------------------------------------------
(* SELECT of the row inside the transactions of a request ...              *)
ReadRow(r) ==
    /\ \/ pc[r] = "ready" /\ StillReady(idem[KeyOf[r]])
       \/ pc[r] = "final" /\ idem[KeyOf[r]].status # "absent"
    /\ Open(r, idem[KeyOf[r]])
    /\ UNCHANGED <<vars, click>>

(* ... and its writes, which become visible together.                      *)
WriteRow(r) ==
    /\ Close(r)
    /\ WriteIssuing(r, rowRead[r]) \/ WriteIssued(r, rowRead[r])
    /\ UNCHANGED click

(* A step of a call that is not inside such a transaction.                 *)
OtherStep(r) ==
    /\ Closed(r)
    /\ \/ Start(r)
       \/ LookupNone(r) \/ LookupExisting(r) \/ LookupReady(r) \/ LookupIssuing(r)
       \/ Evaluate(r) \/ EvaluateFail(r)
       \/ FirstCommit(r) \/ FirstFail(r) \/ Reread(r)
       \/ StartInline(r) \/ FinishInline(r)
       \/ ReadyLost(r)
       \/ Mint(r) \/ MintFail(r)
    /\ UNCHANGED <<rowRead, click>>

Abort(r) ==
    /\ StorageFault(r)
    /\ rowRead' = [rowRead EXCEPT ![r] = NoIdem]
    /\ UNCHANGED click

-----------------------------------------------------------------------------
(* Approve: it reads the approval, then the row of its key, then writes.   *)
ReadApproval(c, a, decision, at) ==
    /\ click[c] = NoClick
    /\ Undecided(approvals[a])
    /\ click' = [click EXCEPT ![c] =
                    [step |-> "row", approvalId |-> a, decision |-> decision, at |-> at,
                     approval |-> approvals[a], row |-> NoIdem]]
    /\ UNCHANGED <<vars, rowRead>>

ReadApprovalRow(c) ==
    /\ click[c].step = "row"
    /\ click' = [click EXCEPT ![c].step = "write", ![c].row = idem[click[c].approval.key]]
    /\ UNCHANGED <<vars, rowRead>>

WriteClick(c) ==
    LET tx == click[c] IN
    /\ tx.step = "write"
    /\ WriteDecision(tx.approvalId, tx.approval, tx.row, tx.decision, tx.at)
    /\ click' = [click EXCEPT ![c] = NoClick]
    /\ UNCHANGED rowRead

AbortClick(c) ==
    /\ click[c] # NoClick
    /\ click' = [click EXCEPT ![c] = NoClick]
    /\ UNCHANGED <<vars, rowRead>>

-----------------------------------------------------------------------------
PgInit ==
    /\ Init
    /\ rowRead = [r \in Requests |-> NoIdem]
    /\ click = [c \in Clicks |-> NoClick]

(* The process dies with its connections: open transactions are undone.    *)
PgRestart ==
    /\ Restart
    /\ rowRead' = [r \in Requests |-> NoIdem]
    /\ click' = [c \in Clicks |-> NoClick]

PgEdit == (\E p \in Policies : EditPolicy(p)) /\ UNCHANGED <<rowRead, click>>

PgNext ==
    \/ \E r \in Requests : ReadRow(r) \/ WriteRow(r) \/ OtherStep(r) \/ Abort(r)
    \/ \E c \in Clicks :
        \/ \E a \in ApprovalIds, d \in Decisions, t \in Stamps : ReadApproval(c, a, d, t)
        \/ ReadApprovalRow(c) \/ WriteClick(c) \/ AbortClick(c)
    \/ PgEdit
    \/ PgRestart

PgSpec == PgInit /\ [][PgNext]_pgVars

-----------------------------------------------------------------------------
PgTypeOK ==
    /\ TypeOK
    /\ rowRead \in [Requests -> IdemRow \cup {NoIdem}]
    /\ click \in [Clicks -> ClickTx \cup {NoClick}]

=============================================================================
