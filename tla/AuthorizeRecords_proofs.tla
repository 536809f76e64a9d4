---------------------- MODULE AuthorizeRecords_proofs ----------------------
(***************************************************************************)
(* Proofs about AuthorizeService and Evidence: what the stored rows refer  *)
(* to, where the chain of a receipt ends, what an answer can be followed   *)
(* up with, and what a pack and a grade say of a stored receipt.  The      *)
(* lemmas about a transaction's writes say nothing of when the row they    *)
(* are computed from was read, and so the same holds of AuthorizePostgres, *)
(* whose transactions write from a row that may have been overwritten      *)
(* under READ COMMITTED: the last part proves it.                          *)
(***************************************************************************)
EXTENDS AuthorizeService_proofs, Evidence, AuthorizePostgres

-----------------------------------------------------------------------------
(* The inductive invariant.                                                *)

ReceiptRefs ==
    \A row \in receipts :
        /\ ContextOf(row.id) \in contexts
        /\ DecisionOf(row.id) \in decisions
        /\ row.supersedes \in Stored(receipts) \cup {Null}
        /\ idem[row.id.key].status # "absent"
        /\ row.id.approval # Null => IsFor(row.id.approval, row.id.key)

RowRefs ==
    \A k \in Keys :
        /\ idem[k].approval # Null => IsFor(idem[k].approval, k)
        /\ idem[k].status = "pending_approval" => idem[k].approval # Null

ApprovalRefs ==
    \A a \in ApprovalIds :
        /\ approvals[a].status # "absent" => idem[approvals[a].key].status # "absent"
        /\ outbox[a].status # "absent" => approvals[a].status # "absent"

(* An answer that can be followed up, and what a call that waits for its   *)
(* message to be posted will answer with.                                  *)
Resolves(k, answer) ==
    /\ answer.error # "dangling"
    /\ answer.receipt # Null => answer.receipt \in Stored(receipts)
    /\ answer.verdict = "require_approval" => IsFor(answer.approval, k)

Posting(step, k, id) ==
    step \in {"posting", "inline"} =>
        id \in Stored(receipts) /\ id.key = k /\ id.approval # Null

AnswerRefs == \A r \in Requests : Resolves(KeyOf[r], resp[r])
HeldRefs == \A r \in Requests : Posting(pc[r], KeyOf[r], work[r].receipt)

TableRefs == ReceiptRefs /\ RowRefs /\ ApprovalRefs /\ ChainsEnd
Records == TableRefs /\ AnswerRefs /\ HeldRefs

LEMMA RecordsInit == Init => Records
<1> SUFFICES ASSUME Init PROVE Records
  OBVIOUS
<1>1. ReceiptRefs /\ ChainsEnd
  BY DEF Init, ReceiptRefs, ChainsEnd
<1>2. RowRefs /\ ApprovalRefs
  BY DEF Init, RowRefs, ApprovalRefs, NoIdem, NoApproval, NoOutbox
<1>3. AnswerRefs /\ HeldRefs
  BY DEF Init, AnswerRefs, HeldRefs, Resolves, Posting, NoAnswer, Answer
<1> QED
  BY <1>1, <1>2, <1>3 DEF Records, TableRefs

-----------------------------------------------------------------------------
(* Writing one receipt and one row.                                        *)

LEMMA NextReceiptSource ==
    ASSUME NEW prev \in ReceiptId, NEW t, NEW outcome, NEW a
    PROVE  /\ ContextOf(NextReceipt(prev, t, outcome, a)) = ContextOf(prev)
           /\ DecisionOf(NextReceipt(prev, t, outcome, a)) = DecisionOf(prev)
BY DEF NextReceipt, ReceiptId, ContextOf, DecisionOf, BuildContext, BuildDecision

LEMMA BaseReceiptSource ==
    ASSUME NEW k, NEW t, NEW p, NEW a
    PROVE  /\ ContextOf(BaseReceipt(k, t, p, a)) = BuildContext(k, t)
           /\ DecisionOf(BaseReceipt(k, t, p, a)) = BuildDecision(BuildContext(k, t), p)
BY DEF BaseReceipt, ContextOf, DecisionOf

(* A receipt that is stored for the first time follows an older one, so it *)
(* closes no circle; one whose identifier is stored already adds nothing.  *)
LEMMA PutKeepsChains ==
    ASSUME ChainsEnd, ReceiptRefs, NEW id \in ReceiptId,
           NEW prev \in Stored(receipts) \cup {Null},
           receipts' = PutReceipt(receipts, Row(id, prev))
    PROVE  ChainsEnd'
<1> DEFINE new == Row(id, prev)
<1>1. new.id = id /\ new.supersedes = prev
  BY DEF Row
<1>2. CASE id \in Stored(receipts)
  <2>1. receipts' = receipts
    BY <1>1, <1>2 DEF PutReceipt
  <2> QED
    BY <2>1 DEF ChainsEnd, Stored
<1>3. CASE id \notin Stored(receipts)
  <2>1. receipts' = receipts \cup {new}
    BY <1>1, <1>3 DEF PutReceipt
  <2> SUFFICES ASSUME NEW rows \in (SUBSET receipts') \ {{}}
               PROVE  \E row \in rows : row.supersedes \notin Stored(rows)
    BY DEF ChainsEnd, Stored
  <2> DEFINE old == rows \ {new}
  <2>2. old \subseteq receipts /\ Stored(rows) \subseteq Stored(old) \cup {id}
    BY <1>1, <2>1 DEF Stored
  <2>3. prev # id /\ id # Null
    BY <1>3, NullAssumption
  <2>4. CASE old = {}
    <3>1. rows = {new}
      BY <2>4
    <3>2. new.supersedes \notin Stored(rows)
      BY <1>1, <2>3, <3>1 DEF Stored
    <3> QED
      BY <3>1, <3>2
  <2>5. CASE old # {}
    <3>1. PICK row \in old : row.supersedes \notin Stored(old)
      BY <2>2, <2>5 DEF ChainsEnd
    <3>2. row.supersedes \in Stored(receipts) \cup {Null}
      BY <2>2, <3>1 DEF ReceiptRefs
    <3> QED
      BY <1>3, <2>2, <2>3, <3>1, <3>2
  <2> QED
    BY <2>4, <2>5
<1> QED
  BY <1>2, <1>3

(* The row of a key never goes away.                                       *)
RowsStay == \A k \in Keys : idem[k].status # "absent" => idem'[k].status # "absent"

LEMMA WriteKeepsRefs ==
    ASSUME TypeOK, ReceiptRefs, RowRefs, ChainsEnd,
           NEW k \in Keys, NEW id \in ReceiptId, NEW prev \in Stored(receipts) \cup {Null},
           NEW row,
           receipts' = PutReceipt(receipts, Row(id, prev)),
           idem' = [idem EXCEPT ![k] = row],
           contexts \subseteq contexts', decisions \subseteq decisions', ApprovalsStay,
           id.key = k, ContextOf(id) \in contexts', DecisionOf(id) \in decisions',
           id.approval # Null => IsFor(id.approval, k)',
           row.status # "absent",
           row.approval # Null => IsFor(row.approval, k)',
           row.status = "pending_approval" => row.approval # Null
    PROVE  /\ ReceiptRefs' /\ RowRefs' /\ ChainsEnd' /\ RowsStay
           /\ Stored(receipts)' = Stored(receipts) \cup {id}
<1> DEFINE new == Row(id, prev)
<1>1. new.id = id /\ new.supersedes = prev
  BY DEF Row
<1>2. /\ Stored(receipts)' = Stored(receipts) \cup {id}
      /\ receipts' \subseteq receipts \cup {new}
  BY <1>1, PutReceiptStores DEF Stored
<1>3. idem'[k] = row /\ \A c \in Keys \ {k} : idem'[c] = idem[c]
  BY DEF TypeOK
<1>4. RowsStay
  BY <1>3 DEF RowsStay
<1>5. RowRefs'
  BY <1>3 DEF RowRefs, ApprovalsStay, IsFor
<1>6. ReceiptRefs'
  <2> SUFFICES ASSUME NEW other \in receipts'
               PROVE  /\ ContextOf(other.id) \in contexts'
                      /\ DecisionOf(other.id) \in decisions'
                      /\ other.supersedes \in Stored(receipts)' \cup {Null}
                      /\ idem'[other.id.key].status # "absent"
                      /\ other.id.approval # Null => IsFor(other.id.approval, other.id.key)'
    BY DEF ReceiptRefs
  <2>1. CASE other = new
    BY <1>1, <1>2, <1>3, <2>1
  <2>2. CASE other \in receipts
    <3>1. other.id.key \in Keys
      BY <2>2 DEF TypeOK, ReceiptRow, ReceiptId
    <3> QED
      BY <1>2, <1>4, <2>2, <3>1 DEF ReceiptRefs, RowsStay, ApprovalsStay, IsFor
  <2> QED
    BY <1>2, <2>1, <2>2
<1>7. ChainsEnd'
  BY PutKeepsChains
<1> QED
  BY <1>2, <1>4, <1>5, <1>6, <1>7

(* ... by a transaction that opens no approval.                            *)
LEMMA WriteKeepsTableRefs ==
    ASSUME TypeOK, TableRefs,
           NEW k \in Keys, NEW id \in ReceiptId, NEW prev \in Stored(receipts), NEW row,
           receipts' = PutReceipt(receipts, Row(id, prev)),
           idem' = [idem EXCEPT ![k] = row],
           contexts' = contexts, decisions' = decisions, outbox' = outbox, ApprovalsStay,
           \A a \in ApprovalIds : /\ approvals'[a].status # "absent" <=> approvals[a].status # "absent"
                                  /\ approvals'[a].key = approvals[a].key,
           id.key = k, ContextOf(id) = ContextOf(prev), DecisionOf(id) = DecisionOf(prev),
           id.approval # Null => IsFor(id.approval, k),
           row.status \notin {"absent", "pending_approval"},
           row.approval # Null => IsFor(row.approval, k)
    PROVE  TableRefs' /\ Stored(receipts) \subseteq Stored(receipts)'
<1>1. ContextOf(id) \in contexts' /\ DecisionOf(id) \in decisions'
  BY DEF TableRefs, ReceiptRefs, Stored
<1>2. /\ id.approval # Null => IsFor(id.approval, k)'
      /\ row.approval # Null => IsFor(row.approval, k)'
  BY DEF ApprovalsStay, IsFor
<1>3. /\ ReceiptRefs' /\ RowRefs' /\ ChainsEnd' /\ RowsStay
      /\ Stored(receipts)' = Stored(receipts) \cup {id}
  BY <1>1, <1>2, WriteKeepsRefs DEF TableRefs
<1>4. ASSUME NEW a \in ApprovalIds, approvals[a].status # "absent" PROVE approvals[a].key \in Keys
  BY <1>4 DEF TypeOK, NoApproval, ApprovalRow
<1>5. ApprovalRefs'
  BY <1>3, <1>4 DEF TableRefs, ApprovalRefs, RowsStay
<1> QED
  BY <1>3, <1>5 DEF TableRefs

-----------------------------------------------------------------------------
(* Answers.                                                                *)

LEMMA OthersKeepAnswers ==
    ASSUME TypeOK, AnswerRefs, HeldRefs, NEW r \in Requests,
           Stored(receipts) \subseteq Stored(receipts)', ApprovalsStay,
           \A q \in Requests \ {r} : pc'[q] = pc[q] /\ work'[q] = work[q] /\ resp'[q] = resp[q],
           Resolves(KeyOf[r], resp[r])',
           Posting(pc[r], KeyOf[r], work[r].receipt)'
    PROVE  AnswerRefs' /\ HeldRefs'
<1>1. \A q \in Requests : KeyOf[q] \in Keys
  BY KeyOfAssumption
<1>2. ASSUME NEW q \in Requests PROVE Resolves(KeyOf[q], resp[q])'
  <2>1. CASE q = r
    BY <2>1
  <2>2. CASE q # r
    <3>1. resp'[q] = resp[q] /\ Resolves(KeyOf[q], resp[q])
      BY <2>2 DEF AnswerRefs
    <3> QED
      BY <1>1, <3>1 DEF Resolves, ApprovalsStay, IsFor
  <2> QED
    BY <2>1, <2>2
<1>3. \A q \in Requests : Posting(pc[q], KeyOf[q], work[q].receipt)'
  BY DEF HeldRefs, Posting
<1> QED
  BY <1>2, <1>3 DEF AnswerRefs, HeldRefs, Resolves

LEMMA RespondAnswers ==
    ASSUME TypeOK, AnswerRefs, HeldRefs, NEW r \in Requests,
           Stored(receipts) \subseteq Stored(receipts)', ApprovalsStay,
           NEW from, NEW answer, Respond(r, from, answer), Resolves(KeyOf[r], answer)'
    PROVE  AnswerRefs' /\ HeldRefs'
<1>1. /\ \A q \in Requests \ {r} : pc'[q] = pc[q] /\ work'[q] = work[q] /\ resp'[q] = resp[q]
      /\ pc'[r] = "done" /\ resp'[r] = answer
  BY DEF Respond, Goto, TypeOK
<1>2. Resolves(KeyOf[r], resp[r])' /\ Posting(pc[r], KeyOf[r], work[r].receipt)'
  BY <1>1 DEF Resolves, Posting
<1> QED
  BY <1>1, <1>2, OthersKeepAnswers

LEMMA GotoAnswers ==
    ASSUME TypeOK, AnswerRefs, HeldRefs, NEW r \in Requests,
           Stored(receipts) \subseteq Stored(receipts)', ApprovalsStay,
           NEW from, NEW to, Goto(r, from, to),
           NEW w, work' = [work EXCEPT ![r] = w], resp' = resp,
           Posting(to, KeyOf[r], w.receipt)'
    PROVE  AnswerRefs' /\ HeldRefs'
<1>1. /\ \A q \in Requests \ {r} : pc'[q] = pc[q] /\ work'[q] = work[q] /\ resp'[q] = resp[q]
      /\ pc'[r] = to /\ work'[r] = w /\ resp'[r] = resp[r] /\ KeyOf[r] \in Keys
  BY KeyOfAssumption DEF Goto, TypeOK
<1>2. Resolves(KeyOf[r], resp[r])'
  BY <1>1 DEF AnswerRefs, Resolves, ApprovalsStay, IsFor
<1>3. Posting(pc[r], KeyOf[r], work[r].receipt)'
  BY <1>1 DEF Posting
<1> QED
  BY <1>1, <1>2, <1>3, OthersKeepAnswers

(* Answering with an error other than a missing row needs nothing.         *)
LEMMA ErrorResolves ==
    ASSUME NEW k, NEW why, why # "dangling"
    PROVE  Resolves(k, Error(why)) /\ Resolves(k, Error(why))'
BY DEF Resolves, Error, Answer

(* No row of a key leaves its reader with nothing to answer or continue.   *)
LEMMA ExistingResolves ==
    ASSUME TypeOK, StatusMatchesReceipt, RowRefs, NEW k \in Keys, idem[k].status # "absent"
    PROVE  Resolves(k, HandleExisting(idem[k]))
<1> DEFINE row == idem[k]
<1>1. row.latest \in Stored(receipts) /\ (row.final # Null => row.final = row.latest)
  BY DEF StatusMatchesReceipt
<1>2. FinalReceipt(row) \in Stored(receipts)
  BY <1>1 DEF FinalReceipt
<1>3. CASE row.status \in {"allowed", "denied"}
  BY <1>2, <1>3 DEF HandleExisting, Resolves, Answer
<1>4. CASE row.status = "pending_approval"
  <2>1. IsFor(row.approval, k)
    BY <1>4 DEF RowRefs
  <2>2. HandleExisting(row) = Answer("require_approval", row.latest, row.approval)
    BY <1>1, <1>4 DEF HandleExisting
  <2> QED
    BY <1>1, <2>1, <2>2 DEF Resolves, Answer
<1>5. CASE row.status \notin {"allowed", "denied", "pending_approval"}
  <2>1. HandleExisting(row) = [Answer("deny", Null, Null) EXCEPT !.error = "unsupported"]
    BY <1>5 DEF HandleExisting
  <2> QED
    BY <2>1 DEF Resolves, Answer
<1> QED
  BY <1>3, <1>4, <1>5

LEMMA LatestIsResumable ==
    ASSUME Safe, NEW k \in Keys, idem[k].status # "absent"
    PROVE  Resumable(idem[k].latest)
BY DEF Safe, StatusMatchesReceipt, ReceiptsOK, Resumable, Stored

-----------------------------------------------------------------------------
(* Steps.                                                                  *)

LEMMA QuietKeepsTableRefs ==
    ASSUME TypeOK, TableRefs, UNCHANGED tables
    PROVE  TableRefs' /\ ApprovalsStay /\ Stored(receipts) \subseteq Stored(receipts)'
<1>1. ReceiptRefs' /\ ChainsEnd'
  BY DEF TableRefs, ReceiptRefs, ChainsEnd, Stored, tables, records, IsFor
<1>2. RowRefs' /\ ApprovalRefs'
  BY DEF TableRefs, RowRefs, ApprovalRefs, tables, records, IsFor
<1>3. ApprovalsStay /\ Stored(receipts) \subseteq Stored(receipts)'
  BY DEF ApprovalsStay, IsFor, tables, records, Stored
<1> QED
  BY <1>1, <1>2, <1>3 DEF TableRefs

LEMMA LocalStepRecords ==
    ASSUME TypeInv, Safe, Records, NEW r \in Requests, LocalStep(r)
    PROVE  Records'
<1>1. /\ TypeOK /\ KeyOf[r] \in Keys /\ AnswerRefs /\ HeldRefs /\ StatusMatchesReceipt
      /\ RowRefs /\ TableRefs
  BY KeyOfAssumption DEF TypeInv, Records, TableRefs, Safe
<1>2. UNCHANGED tables
  BY LocalStepKeepsTables
<1>3. TableRefs' /\ ApprovalsStay /\ Stored(receipts) \subseteq Stored(receipts)'
  BY <1>1, <1>2, QuietKeepsTableRefs
<1>4. SUFFICES AnswerRefs' /\ HeldRefs'
  BY <1>3 DEF Records
<1>5. ASSUME NEW from, NEW answer, Respond(r, from, answer), Resolves(KeyOf[r], answer)
      PROVE  AnswerRefs' /\ HeldRefs'
  <2>1. Resolves(KeyOf[r], answer)'
    BY <1>2, <1>5 DEF Resolves, IsFor, Stored, tables
  <2> QED
    BY <1>1, <1>3, <1>5, <2>1, RespondAnswers
<1>6. ASSUME NEW from, NEW to, Goto(r, from, to), NEW w, work' = [work EXCEPT ![r] = w],
             resp' = resp, Posting(to, KeyOf[r], w.receipt)
      PROVE  AnswerRefs' /\ HeldRefs'
  <2>1. Posting(to, KeyOf[r], w.receipt)'
    BY <1>3, <1>6 DEF Posting
  <2> QED
    BY <1>1, <1>3, <1>6, <2>1, GotoAnswers
<1>7. CASE Start(r)
  <2>1. /\ \A q \in Requests \ {r} : pc'[q] = pc[q] /\ work'[q] = work[q] /\ resp'[q] = resp[q]
        /\ pc'[r] = "lookup" /\ resp'[r] = NoAnswer
    BY <1>1, <1>7 DEF Start, Goto, TypeOK
  <2>2. Resolves(KeyOf[r], resp[r])' /\ Posting(pc[r], KeyOf[r], work[r].receipt)'
    BY <2>1 DEF Resolves, Posting, NoAnswer, Answer
  <2> QED
    BY <1>1, <1>3, <2>1, <2>2, OthersKeepAnswers
<1>8. CASE LookupNone(r) \/ FirstFail(r) \/ StartInline(r) \/ Mint(r)
  <2>1. PICK from, to : /\ Goto(r, from, to)
                        /\ to \in {"posting", "inline"} => from \in {"posting", "inline"}
    BY <1>8 DEF LookupNone, FirstFail, StartInline, Mint
  <2>2. work' = [work EXCEPT ![r] = work[r]] /\ resp' = resp
    BY <1>1, <1>8 DEF LookupNone, FirstFail, StartInline, Mint, TypeOK
  <2>3. Posting(to, KeyOf[r], work[r].receipt)
    BY <1>1, <2>1 DEF HeldRefs, Posting, Goto
  <2> QED
    BY <1>6, <2>1, <2>2, <2>3
<1>9. CASE Evaluate(r)
  <2>1. Posting("first", KeyOf[r], [work[r] EXCEPT !.policy = policyFile].receipt)
    BY DEF Posting
  <2> QED
    BY <1>6, <1>9, <2>1 DEF Evaluate
<1>10. CASE LookupReady(r) \/ LookupIssuing(r)
  <2>1. Resumable(idem[KeyOf[r]].latest)
    BY <1>1, <1>10, LatestIsResumable DEF LookupReady, LookupIssuing
  <2>2. CASE Respond(r, "lookup", Error("policy"))
    BY <1>5, <2>2, ErrorResolves
  <2>3. CASE ~Respond(r, "lookup", Error("policy"))
    <3>1. PICK to \in {"ready", "mint"} :
            /\ Goto(r, "lookup", to) /\ resp' = resp
            /\ work' = [work EXCEPT ![r].receipt = idem[KeyOf[r]].latest]
      BY <1>10, <2>1, <2>3 DEF LookupReady, LookupIssuing
    <3>2. Posting(to, KeyOf[r], [work[r] EXCEPT !.receipt = idem[KeyOf[r]].latest].receipt)
      BY DEF Posting
    <3> QED
      BY <1>6, <3>1, <3>2
  <2> QED
    BY <2>2, <2>3
<1>11. CASE LookupExisting(r)
  BY <1>1, <1>5, <1>11, ExistingResolves DEF LookupExisting
<1>12. CASE Reread(r)
  BY <1>1, <1>5, <1>12, ExistingResolves, ErrorResolves DEF Reread
<1>13. CASE EvaluateFail(r) \/ ReadyLost(r) \/ MintFail(r) \/ StorageFault(r)
  BY <1>5, <1>13, ErrorResolves DEF EvaluateFail, ReadyLost, MintFail, StorageFault
<1>14. CASE FinishInline(r)
  <2> DEFINE id == work[r].receipt
  <2>1. id \in Stored(receipts) /\ id.key = KeyOf[r] /\ id.approval # Null
    BY <1>14 DEF Records, HeldRefs, Posting, FinishInline, Respond, Goto
  <2>2. IsFor(id.approval, KeyOf[r])
    BY <2>1 DEF Records, TableRefs, ReceiptRefs, Stored
  <2>3. Resolves(KeyOf[r], Answer("require_approval", id, id.approval))
    BY <2>1, <2>2 DEF Resolves, Answer
  <2> QED
    BY <1>5, <1>14, <2>3 DEF FinishInline
<1> QED
  BY <1>7, <1>8, <1>9, <1>10, <1>11, <1>12, <1>13, <1>14 DEF LocalStep

(* The transactions, over a row read before.                               *)
LEMMA WriteIssuingRecords ==
    ASSUME TypeInv, Safe, Records, NEW r \in Requests, NEW read \in IdemRow,
           read.approval # Null => IsFor(read.approval, KeyOf[r]),
           WriteIssuing(r, read)
    PROVE  Records' /\ ApprovalsStay
<1>1. /\ TypeOK /\ LocalOK /\ TableRefs /\ AnswerRefs /\ HeldRefs /\ pc[r] = "ready"
  BY TypeInvSplit DEF WriteIssuing, Goto, TypeInv, Records
<1>2. /\ work[r].at \in Stamps /\ KeyOf[r] \in Keys
      /\ work[r].receipt \in Stored(receipts) /\ work[r].receipt \in ReceiptId
      /\ work[r].receipt.key = KeyOf[r]
  BY <1>1, HeldType DEF Working, Holding, Safe, HeldOK
<1>3. PICK k, prev, id, row, w :
        /\ k = KeyOf[r] /\ prev = work[r].receipt
        /\ id = NextReceipt(prev, work[r].at, "issuing_credentials", Null)
        /\ row = IssuingRow(read, id)
        /\ w = [work[r] EXCEPT !.receipt = id]
  OBVIOUS
<1>4. /\ receipts' = PutReceipt(receipts, Row(id, prev))
      /\ idem' = [idem EXCEPT ![k] = row]
      /\ Goto(r, "ready", "mint") /\ work' = [work EXCEPT ![r] = w] /\ resp' = resp
      /\ UNCHANGED <<contexts, decisions, approvals, outbox>>
  BY <1>3 DEF WriteIssuing, records
<1>5. /\ id \in ReceiptId /\ id.key = k /\ id.approval = Null
      /\ ContextOf(id) = ContextOf(prev) /\ DecisionOf(id) = DecisionOf(prev)
  BY <1>2, <1>3, NextReceiptType, NextReceiptSource DEF OutcomeStatus
<1>6. row.status = "issuing" /\ row.approval = read.approval
  BY <1>3 DEF IssuingRow, IdemRow
<1>7. ApprovalsStay
  BY <1>4 DEF ApprovalsStay, IsFor
<1>8. TableRefs' /\ Stored(receipts) \subseteq Stored(receipts)'
  BY <1>1, <1>2, <1>3, <1>4, <1>5, <1>6, <1>7, WriteKeepsTableRefs
<1>9. Posting("mint", KeyOf[r], w.receipt)'
  BY DEF Posting
<1>10. AnswerRefs' /\ HeldRefs'
  BY <1>1, <1>4, <1>7, <1>8, <1>9, GotoAnswers
<1> QED
  BY <1>7, <1>8, <1>10 DEF Records

LEMMA WriteIssuedRecords ==
    ASSUME TypeInv, Safe, Records, NEW r \in Requests, NEW read \in IdemRow,
           read.approval # Null => IsFor(read.approval, KeyOf[r]),
           WriteIssued(r, read)
    PROVE  Records' /\ ApprovalsStay
<1>1. /\ TypeOK /\ LocalOK /\ TableRefs /\ AnswerRefs /\ HeldRefs /\ pc[r] = "final"
  BY TypeInvSplit DEF WriteIssued, Respond, Goto, TypeInv, Records
<1>2. /\ work[r].at \in Stamps /\ KeyOf[r] \in Keys
      /\ work[r].receipt \in Stored(receipts) /\ work[r].receipt \in ReceiptId
      /\ work[r].receipt.key = KeyOf[r]
  BY <1>1, HeldType DEF Working, Holding, Safe, HeldOK
<1>3. PICK k, prev, id, row, answer :
        /\ k = KeyOf[r] /\ prev = work[r].receipt
        /\ id = NextReceipt(prev, work[r].at, "issued_credentials", Null)
        /\ row = AllowedRow(read, id)
        /\ answer = [Answer("allow", id, Null) EXCEPT !.credentials = TRUE]
  OBVIOUS
<1>4. /\ receipts' = PutReceipt(receipts, Row(id, prev))
      /\ idem' = [idem EXCEPT ![k] = row]
      /\ Respond(r, "final", answer)
      /\ UNCHANGED <<contexts, decisions, approvals, outbox>>
  BY <1>3 DEF WriteIssued, records
<1>5. /\ id \in ReceiptId /\ id.key = k /\ id.approval = Null
      /\ ContextOf(id) = ContextOf(prev) /\ DecisionOf(id) = DecisionOf(prev)
  BY <1>2, <1>3, NextReceiptType, NextReceiptSource DEF OutcomeStatus
<1>6. row.status = "allowed" /\ row.approval = read.approval
  BY <1>3 DEF AllowedRow, IdemRow
<1>7. ApprovalsStay
  BY <1>4 DEF ApprovalsStay, IsFor
<1>8. TableRefs' /\ Stored(receipts) \subseteq Stored(receipts)'
  BY <1>1, <1>2, <1>3, <1>4, <1>5, <1>6, <1>7, WriteKeepsTableRefs
<1>9. id \in Stored(receipts)'
  BY <1>4, PutReceiptStores DEF Row, Stored
<1>10. Resolves(KeyOf[r], answer)'
  BY <1>3, <1>9 DEF Resolves, Answer
<1>11. AnswerRefs' /\ HeldRefs'
  BY <1>1, <1>4, <1>7, <1>8, <1>10, RespondAnswers
<1> QED
  BY <1>7, <1>8, <1>11 DEF Records

LEMMA WriteDecisionRecords ==
    ASSUME TypeInv, Safe, Records, NEW a \in ApprovalIds, NEW d \in Decisions, NEW t \in Stamps,
           NEW approval \in ApprovalRow, IsFor(a, approval.key),
           NEW read \in IdemRow \cup {NoIdem},
           read.latest \in Stored(receipts) => read.latest.key = approval.key,
           read.approval # Null => IsFor(read.approval, approval.key),
           WriteDecision(a, approval, read, d, t)
    PROVE  Records' /\ ApprovalsStay
<1> DEFINE outcome == IF d = "approved" THEN "approval_approved" ELSE "approval_denied"
<1>1. /\ TypeOK /\ TableRefs /\ AnswerRefs /\ HeldRefs
  BY DEF TypeInv, Records
<1>2. PICK k, prev, id, row, new :
        /\ k = approval.key /\ prev = read.latest
        /\ id = NextReceipt(prev, t, outcome, a)
        /\ row = DecidedRow(read, id, d)
        /\ new = PutApproval(approvals[a], [approval EXCEPT !.status = d])
  OBVIOUS
<1>3. /\ receipts' = PutReceipt(receipts, Row(id, prev))
      /\ idem' = [idem EXCEPT ![k] = row]
      /\ approvals' = [approvals EXCEPT ![a] = new]
      /\ prev \in Stored(receipts)
      /\ UNCHANGED <<contexts, decisions, outbox, pc, work, resp>>
  BY <1>2 DEF WriteDecision, records
<1>4. prev \in ReceiptId /\ prev.key = k /\ k \in Keys /\ read \in IdemRow
  BY <1>1, <1>2, <1>3, StoredType, NullAssumption DEF TypeOK, ApprovalRow, NoIdem
<1>5. /\ id \in ReceiptId /\ id.key = k /\ id.approval = a
      /\ ContextOf(id) = ContextOf(prev) /\ DecisionOf(id) = DecisionOf(prev)
  <2>1. outcome \in OutcomeStatus /\ a \in ApprovalIds \cup {Null}
    BY DEF OutcomeStatus
  <2> HIDE DEF outcome
  <2> QED
    BY <1>2, <1>4, <2>1, NextReceiptType, NextReceiptSource
<1>6. row.status \in {"approved_ready", "denied"} /\ row.approval = read.approval
  BY <1>2, <1>4 DEF DecidedRow, IdemRow
<1>7. new.status # "absent" /\ new.key = k
  BY <1>2 DEF PutApproval, ApprovalRow, Decisions
<1>8. \A b \in ApprovalIds : /\ approvals'[b].status # "absent" <=> approvals[b].status # "absent"
                             /\ approvals'[b].key = approvals[b].key
  BY <1>1, <1>2, <1>3, <1>7 DEF TypeOK, IsFor
<1>9. ApprovalsStay
  BY <1>8 DEF ApprovalsStay, IsFor
<1> HIDE DEF outcome
<1>10. TableRefs' /\ Stored(receipts) \subseteq Stored(receipts)'
  <2>1. /\ id.approval # Null => IsFor(id.approval, k)
        /\ row.approval # Null => IsFor(row.approval, k)
        /\ row.status \notin {"absent", "pending_approval"}
    BY <1>2, <1>5, <1>6
  <2>2. contexts' = contexts /\ decisions' = decisions /\ outbox' = outbox
    BY <1>3
  <2> QED
    BY <1>1, <1>3, <1>4, <1>5, <1>8, <1>9, <2>1, <2>2, WriteKeepsTableRefs
<1>11. AnswerRefs' /\ HeldRefs'
  <2>1. \A q \in Requests : KeyOf[q] \in Keys
    BY KeyOfAssumption
  <2> QED
    BY <1>1, <1>3, <1>9, <1>10, <2>1
       DEF AnswerRefs, HeldRefs, Resolves, Posting, ApprovalsStay, IsFor
<1> QED
  BY <1>9, <1>10, <1>11 DEF Records

LEMMA FirstCommitRecords ==
    ASSUME TypeInv, Safe, Records, NEW r \in Requests, FirstCommit(r)
    PROVE  Records' /\ ApprovalsStay
<1>1. /\ TypeOK /\ LocalOK /\ TableRefs /\ AnswerRefs /\ HeldRefs /\ pc[r] = "first"
  BY TypeInvSplit DEF FirstCommit, TypeInv, Records
<1>2. /\ work[r].at \in Stamps /\ work[r].policy \in Policies /\ KeyOf[r] \in Keys
      /\ work[r] \in Work
  BY <1>1, HeldType DEF Working
<1> DEFINE p0 == work[r].policy
           verdict0 == VerdictOf[p0][KeyOf[r]]
           Base(a) == BaseReceipt(KeyOf[r], work[r].at, p0, a)
           Fresh(k) == [key |-> k, status |-> "pending", posted |-> FALSE]
<1>3. PICK a \in ApprovalIds \cup {Null} :
        /\ DrawsApproval(a, KeyOf[r], verdict0)
        /\ contexts' = PutContext(contexts, BuildContext(KeyOf[r], work[r].at))
        /\ decisions' = PutDecision(decisions, BuildDecision(BuildContext(KeyOf[r], work[r].at), p0))
        /\ receipts' = PutReceipt(receipts, Row(Base(a), Null))
        /\ idem' = [idem EXCEPT ![KeyOf[r]] = FirstRow(Base(a), verdict0, a)]
        /\ IF a = Null
           THEN UNCHANGED <<approvals, outbox>>
           ELSE /\ approvals' = [approvals EXCEPT ![a] = Fresh(KeyOf[r])]
                /\ outbox' = Enqueue(outbox, a)
        /\ IF verdict0 = "allow" \/ (a # Null /\ SlackConfigured)
           THEN /\ Goto(r, "first", IF verdict0 = "allow" THEN "mint" ELSE "posting")
                /\ work' = [work EXCEPT ![r].receipt = Base(a)]
                /\ UNCHANGED resp
           ELSE Respond(r, "first", Answer(verdict0, Base(a), a))
  BY DEF FirstCommit
<1>4. PICK k, verdict, base, row :
        /\ k \in Keys /\ verdict \in Verdicts
        /\ k = KeyOf[r] /\ verdict = verdict0
        /\ base = Base(a) /\ row = FirstRow(base, verdict, a)
  BY <1>2, VerdictAssumption
<1>5. /\ base \in ReceiptId /\ base.key = k /\ base.approval = a
      /\ ContextOf(base) \in contexts' /\ DecisionOf(base) \in decisions'
      /\ contexts \subseteq contexts' /\ decisions \subseteq decisions'
  BY <1>2, <1>3, <1>4, BaseReceiptType, BaseReceiptSource DEF PutContext, PutDecision
<1>6. /\ receipts' = PutReceipt(receipts, Row(base, Null))
      /\ idem' = [idem EXCEPT ![k] = row]
      /\ a = Null => approvals' = approvals /\ outbox' = outbox
      /\ a # Null => approvals' = [approvals EXCEPT ![a] = Fresh(k)] /\ outbox' = Enqueue(outbox, a)
      /\ verdict = "require_approval" <=> a # Null
      /\ a # Null => approvals[a] = NoApproval
      /\ IF verdict = "allow" \/ (a # Null /\ SlackConfigured)
         THEN /\ Goto(r, "first", IF verdict = "allow" THEN "mint" ELSE "posting")
              /\ work' = [work EXCEPT ![r].receipt = base]
              /\ resp' = resp
         ELSE Respond(r, "first", Answer(verdict, base, a))
  BY <1>3, <1>4 DEF DrawsApproval
<1> HIDE DEF p0, verdict0, Base
<1>7. row.status # "absent" /\ row.approval = a /\ (row.status = "pending_approval" => a # Null)
  BY <1>4, <1>6 DEF FirstRow, InitialStatus, Verdicts
<1>8. /\ \A b \in ApprovalIds \ {a} : approvals'[b] = approvals[b] /\ outbox'[b] = outbox[b]
      /\ a # Null => a \in ApprovalIds /\ approvals'[a] = Fresh(k)
  BY <1>1, <1>6 DEF TypeOK, Enqueue
<1>9. ApprovalsStay
  BY <1>6, <1>8 DEF ApprovalsStay, IsFor, NoApproval
<1>10. a # Null => IsFor(a, k)'
  BY <1>8 DEF IsFor
<1>11. /\ ReceiptRefs' /\ RowRefs' /\ ChainsEnd' /\ RowsStay
       /\ Stored(receipts)' = Stored(receipts) \cup {base}
  <2>1. /\ base.approval # Null => IsFor(base.approval, k)'
        /\ row.approval # Null => IsFor(row.approval, k)'
        /\ row.status = "pending_approval" => row.approval # Null
    BY <1>5, <1>7, <1>10 DEF IsFor
  <2>2. Null \in Stored(receipts) \cup {Null} /\ ReceiptRefs /\ RowRefs /\ ChainsEnd
    BY <1>1 DEF TableRefs
  <2> QED
    BY <1>1, <1>4, <1>5, <1>6, <1>7, <1>9, <2>1, <2>2, WriteKeepsRefs
<1>12. idem'[k].status # "absent"
  BY <1>1, <1>4, <1>6, <1>7 DEF TypeOK
<1>13. \A b \in ApprovalIds : approvals[b].status # "absent" => approvals[b].key \in Keys
  BY <1>1 DEF TypeOK, NoApproval, ApprovalRow
<1>14. ApprovalRefs'
  BY <1>1, <1>6, <1>8, <1>11, <1>12, <1>13 DEF TableRefs, ApprovalRefs, RowsStay
<1>15. AnswerRefs' /\ HeldRefs'
  <2>1. CASE verdict = "allow" \/ (a # Null /\ SlackConfigured)
    <3>1. PICK w, to :
            /\ to = "posting" => a # Null
            /\ w = [work[r] EXCEPT !.receipt = base]
            /\ Goto(r, "first", to) /\ work' = [work EXCEPT ![r] = w] /\ resp' = resp
            /\ to # "inline"
      BY <1>6, <2>1
    <3>2. w.receipt = base
      BY <1>2, <3>1 DEF Work
    <3>3. Posting(to, KeyOf[r], w.receipt)'
      BY <1>4, <1>5, <1>11, <3>1, <3>2 DEF Posting
    <3> QED
      BY <1>1, <1>9, <1>11, <3>1, <3>3, GotoAnswers
  <2>2. CASE ~(verdict = "allow" \/ (a # Null /\ SlackConfigured))
    <3>1. Respond(r, "first", Answer(verdict, base, a))
      BY <1>6, <2>2
    <3>2. Resolves(KeyOf[r], Answer(verdict, base, a))'
      BY <1>4, <1>6, <1>10, <1>11 DEF Resolves, Answer
    <3> QED
      BY <1>1, <1>9, <1>11, <3>1, <3>2, RespondAnswers
  <2> QED
    BY <2>1, <2>2
<1> QED
  BY <1>9, <1>11, <1>14, <1>15 DEF Records, TableRefs

LEMMA RestartRecords == ASSUME TypeInv, Records, Restart PROVE Records'
<1>1. TypeOK /\ UNCHANGED tables /\ resp' = resp
  BY DEF Restart, TypeInv
<1>2. TableRefs'
  BY <1>1, QuietKeepsTableRefs DEF Records
<1>3. \A q \in Requests : pc'[q] \notin {"posting", "inline"}
  BY DEF Restart
<1>4. AnswerRefs' /\ HeldRefs'
  BY <1>1, <1>3 DEF Records, AnswerRefs, HeldRefs, Resolves, Posting, IsFor, tables, Stored
<1> QED
  BY <1>2, <1>4 DEF Records

LEMMA QuietKeepsRecords ==
    ASSUME TypeInv, Records, UNCHANGED <<tables, pc, work, resp>>
    PROVE  Records'
<1>1. TableRefs'
  BY QuietKeepsTableRefs DEF Records, TypeInv
<1>2. AnswerRefs' /\ HeldRefs'
  BY DEF Records, AnswerRefs, HeldRefs, Resolves, Posting, IsFor, tables, Stored
<1> QED
  BY <1>1, <1>2 DEF Records

LEMMA RecordsStep == TypeInv /\ Safe /\ Records /\ [Next]_vars => Records'
<1> SUFFICES ASSUME TypeInv, Safe, Records, [Next]_vars PROVE Records'
  OBVIOUS
<1>1. TypeOK /\ StatusMatchesReceipt /\ RowRefs
  BY DEF TypeInv, Safe, Records, TableRefs
<1>2. ASSUME NEW r \in Requests, Call(r) PROVE Records'
  <2>1. idem[KeyOf[r]].approval # Null => IsFor(idem[KeyOf[r]].approval, KeyOf[r])
    BY <1>1, KeyOfAssumption DEF RowRefs
  <2>2. CASE ReadyCommit(r)
    BY <1>1, <2>1, <2>2, ReadyCommitReads, WriteIssuingRecords
  <2>3. CASE FinalCommit(r)
    BY <1>1, <2>1, <2>3, FinalCommitReads, WriteIssuedRecords
  <2> QED
    BY <1>2, <2>2, <2>3, CallSplit, LocalStepRecords, FirstCommitRecords
<1>3. ASSUME NEW a \in ApprovalIds, NEW d \in Decisions, NEW t \in Stamps, Approve(a, d, t)
      PROVE  Records'
  <2> DEFINE k == approvals[a].key
  <2>1. /\ approvals[a] \in ApprovalRow /\ IsFor(a, k) /\ k \in Keys
        /\ idem[k] \in IdemRow \cup {NoIdem}
        /\ WriteDecision(a, approvals[a], idem[k], d, t)
    BY <1>1, <1>3, ApproveReads DEF IsFor
  <2>2. /\ idem[k].latest \in Stored(receipts) => idem[k].latest.key = k
        /\ idem[k].approval # Null => IsFor(idem[k].approval, k)
    BY <1>1, <2>1, LatestIsOfKey DEF RowRefs
  <2> QED
    BY <2>1, <2>2, WriteDecisionRecords
<1>4. (\E p \in Policies : EditPolicy(p)) \/ UNCHANGED vars => UNCHANGED <<tables, pc, work, resp>>
  BY DEF EditPolicy, vars, records, tables
<1> QED
  BY <1>2, <1>3, <1>4, RestartRecords, QuietKeepsRecords DEF Next, Click

LEMMA RecordsAlways == Spec => [](TypeInv /\ Safe /\ Records)
<1>1. Init => TypeInv /\ Safe /\ Records
  BY TypeInit, SafeInit, RecordsInit
<1>2. TypeInv /\ Safe /\ Records /\ [Next]_vars => (TypeInv /\ Safe /\ Records)'
  BY TypeStep, SafeStep, RecordsStep
<1> QED
  BY <1>1, <1>2, PTL DEF Spec

-----------------------------------------------------------------------------
(* What follows from the invariant in one state, whatever the steps that   *)
(* led to it.                                                              *)

LEMMA RecordsResolve == TypeOK /\ Safe /\ Records => ReferencesResolve
<1> SUFFICES ASSUME TypeOK, Safe, Records PROVE ReferencesResolve
  OBVIOUS
<1>1. ASSUME NEW row \in receipts
      PROVE  /\ ContextOf(row.id) \in contexts
             /\ DecisionOf(row.id) \in decisions
             /\ row.id.policy \in policyVersions
             /\ row.supersedes \in Stored(receipts) \cup {Null}
             /\ keyRow # Null
             /\ idem[row.id.key].status # "absent"
             /\ row.id.approval # Null => approvals[row.id.approval].key = row.id.key
  BY DEF Safe, ReceiptsOK, SignedOK, Records, TableRefs, ReceiptRefs, IsFor
<1>2. ASSUME NEW k \in Keys
      PROVE  /\ {idem[k].latest, idem[k].final} \subseteq Stored(receipts) \cup {Null}
             /\ idem[k].approval # Null => approvals[idem[k].approval].key = k
  <2>1. CASE idem[k].status = "absent"
    <3>1. idem[k] = NoIdem
      BY <2>1 DEF TypeOK, IdemRow, IdemStatus
    <3> QED
      BY <3>1 DEF NoIdem
  <2>2. CASE idem[k].status # "absent"
    BY <2>2 DEF Safe, StatusMatchesReceipt, Records, TableRefs, RowRefs, IsFor
  <2> QED
    BY <2>1, <2>2
<1>3. ApprovalRefs
  BY DEF Records, TableRefs
<1> QED
  BY <1>1, <1>2, <1>3 DEF ReferencesResolve, ApprovalRefs

LEMMA RecordsAnswer == Records => AnswersResolve
BY DEF Records, AnswerRefs, Resolves, IsFor, AnswersResolve

(* Only a receipt of issued credentials names a role and a TTL, and such a *)
(* receipt follows an issuing receipt that was authorized.                 *)
LEMMA SafeGrades == Safe => BestGradeIsEarned
<1> SUFFICES ASSUME Safe, NEW row \in receipts, PackGrade(row) = "A"
             PROVE  /\ row.supersedes \in minted
                    /\ \E issuing \in receipts :
                          issuing.id = row.supersedes /\ AuthorizedIssuance(issuing)
  BY DEF BestGradeIsEarned
<1>1. Missing(row.id) = {}
  BY DEF PackGrade, Grade
<1>2. "role_arn" \notin Missing(row.id)
  BY <1>1
<1>3. row.id.outcome = "issued_credentials"
  BY <1>2 DEF Missing, Granted
<1>4. row.supersedes \in minted
  BY <1>3 DEF Safe, ReceiptsOK
<1>5. row.supersedes \in Stored(receipts) /\ row.supersedes.outcome = "issuing_credentials"
  BY <1>4 DEF Safe, MintedOK
<1>6. PICK issuing \in receipts : issuing.id = row.supersedes
  BY <1>5 DEF Stored
<1>7. AuthorizedIssuance(issuing)
  BY <1>5, <1>6 DEF Safe, ReceiptsOK
<1> QED
  BY <1>4, <1>6, <1>7

(* Nothing a row refers to is missing, whatever calls, clicks, edits and   *)
(* restarts came between the writes of the two: the pack of any receipt    *)
(* can be made, and no transaction fails on a foreign key.                 *)
THEOREM ReferencesAlwaysResolve == Spec => []ReferencesResolve
<1>1. TypeInv /\ Safe /\ Records => ReferencesResolve
  BY RecordsResolve DEF TypeInv
<1> QED
  BY <1>1, RecordsAlways, PTL

(* Nobody is answered with a receipt that cannot be verified or with an    *)
(* approval that cannot be polled or is another caller's, and no lookup    *)
(* finds a row whose receipt or policy is missing.                         *)
THEOREM AnswersAlwaysResolve == Spec => []AnswersResolve
BY RecordsAnswer, RecordsAlways, PTL

(* The superseding receipts of every history end, though identifiers       *)
(* repeat when two receipts of one kind are made in one second.            *)
THEOREM ChainsAlwaysEnd == Spec => []ChainsEnd
<1>1. Records => ChainsEnd
  BY DEF Records, TableRefs
<1> QED
  BY <1>1, RecordsAlways, PTL

(* A receipt graded A, verified or not, records credentials the broker     *)
(* handed out for an issuance its policy allows or a human approved.       *)
THEOREM BestGradeAlwaysEarned == Spec => []BestGradeIsEarned
BY SafeGrades, SafeAlways, PTL

-----------------------------------------------------------------------------
(* A decision receipt and the approval it names: the receipt is written    *)
(* with the decision, and a decided approval is never decided again.       *)

DecidedOK ==
    \A id \in Stored(receipts) :
        /\ id.outcome = "approval_approved" =>
               id.approval \in ApprovalIds /\ approvals[id.approval].status = "approved"
        /\ id.outcome = "approval_denied" =>
               id.approval \in ApprovalIds /\ approvals[id.approval].status = "denied"

LEMMA DecidedInit == Init => DecidedOK
BY DEF Init, DecidedOK, Stored

(* Writing one receipt, and touching no approval that has been decided.    *)
LEMMA WriteKeepsDecided ==
    ASSUME DecidedOK, NEW id, NEW prev,
           receipts' = PutReceipt(receipts, Row(id, prev)),
           \A a \in ApprovalIds : approvals[a].status \in {"approved", "denied"} =>
                approvals'[a].status = approvals[a].status,
           id.outcome = "approval_approved" =>
                id.approval \in ApprovalIds /\ approvals'[id.approval].status = "approved",
           id.outcome = "approval_denied" =>
                id.approval \in ApprovalIds /\ approvals'[id.approval].status = "denied"
    PROVE  DecidedOK'
<1>1. Stored(receipts)' = Stored(receipts) \cup {id}
  BY PutReceiptStores DEF Row, Stored
<1> QED
  BY <1>1 DEF DecidedOK

LEMMA FirstCommitDecided ==
    ASSUME TypeInv, DecidedOK, NEW r \in Requests, FirstCommit(r)
    PROVE  DecidedOK'
<1> DEFINE k == KeyOf[r]
           p == work[r].policy
           verdict == VerdictOf[p][k]
           Base(a) == BaseReceipt(k, work[r].at, p, a)
<1>1. /\ k \in Keys /\ p \in Policies /\ work[r].at \in Stamps /\ TypeOK
  BY KeyOfAssumption DEF TypeInv, WorkOK, FirstCommit, Working
<1>2. PICK a \in ApprovalIds \cup {Null} :
        /\ DrawsApproval(a, k, verdict)
        /\ receipts' = PutReceipt(receipts, Row(Base(a), Null))
        /\ IF a = Null
           THEN UNCHANGED <<approvals, outbox>>
           ELSE /\ approvals' = [approvals EXCEPT ![a] =
                                   [key |-> k, status |-> "pending", posted |-> FALSE]]
                /\ outbox' = Enqueue(outbox, a)
  BY DEF FirstCommit
<1>3. Base(a).outcome \notin {"approval_approved", "approval_denied"}
  BY <1>1, VerdictAssumption, BaseReceiptType DEF OutcomeFor, Verdicts
<1>4. a # Null => approvals[a].status = "absent"
  BY <1>2 DEF DrawsApproval, NoApproval
<1>5. \A b \in ApprovalIds : approvals[b].status \in {"approved", "denied"} =>
                                approvals'[b].status = approvals[b].status
  BY <1>1, <1>2, <1>4 DEF TypeOK
<1> HIDE DEF Base
<1> QED
  BY <1>2, <1>3, <1>5, WriteKeepsDecided

LEMMA ReadyCommitDecided ==
    ASSUME TypeInv, DecidedOK, NEW r \in Requests, ReadyCommit(r)
    PROVE  DecidedOK'
<1> DEFINE prev == work[r].receipt
           id == NextReceipt(prev, work[r].at, "issuing_credentials", Null)
<1>1. prev \in ReceiptId /\ work[r].at \in Stamps
  BY DEF TypeInv, WorkOK, ReadyCommit, Working, Holding
<1>2. id.outcome = "issuing_credentials"
  BY <1>1, NextReceiptType DEF OutcomeStatus
<1>3. receipts' = PutReceipt(receipts, Row(id, prev)) /\ approvals' = approvals
  BY DEF ReadyCommit, WriteIssuing
<1> QED
  BY <1>2, <1>3, WriteKeepsDecided

LEMMA FinalCommitDecided ==
    ASSUME TypeInv, DecidedOK, NEW r \in Requests, FinalCommit(r)
    PROVE  DecidedOK'
<1> DEFINE prev == work[r].receipt
           id == NextReceipt(prev, work[r].at, "issued_credentials", Null)
<1>1. prev \in ReceiptId /\ work[r].at \in Stamps
  BY DEF TypeInv, WorkOK, FinalCommit, Working, Holding
<1>2. id.outcome = "issued_credentials"
  BY <1>1, NextReceiptType DEF OutcomeStatus
<1>3. receipts' = PutReceipt(receipts, Row(id, prev)) /\ approvals' = approvals
  BY DEF FinalCommit, WriteIssued
<1> QED
  BY <1>2, <1>3, WriteKeepsDecided

LEMMA ApproveDecided ==
    ASSUME TypeInv, DecidedOK, NEW a \in ApprovalIds, NEW d \in Decisions, NEW t \in Stamps,
           Approve(a, d, t)
    PROVE  DecidedOK'
<1>1. /\ TypeOK /\ approvals[a] \in ApprovalRow /\ approvals[a].status = "pending"
      /\ WriteDecision(a, approvals[a], idem[approvals[a].key], d, t)
  BY ApproveReads DEF TypeInv
<1>2. PICK prev, outcome, id, new :
        /\ prev = idem[approvals[a].key].latest
        /\ outcome = IF d = "approved" THEN "approval_approved" ELSE "approval_denied"
        /\ id = NextReceipt(prev, t, outcome, a)
        /\ new = PutApproval(approvals[a], [approvals[a] EXCEPT !.status = d])
  OBVIOUS
<1>3. /\ receipts' = PutReceipt(receipts, Row(id, prev))
      /\ approvals' = [approvals EXCEPT ![a] = new]
      /\ prev \in ReceiptId
  BY <1>1, <1>2, StoredType DEF WriteDecision, TypeOK
<1>4. id.outcome = outcome /\ id.approval = a
  BY <1>2, <1>3, NextReceiptType DEF OutcomeStatus
<1>5. approvals'[a].status = d
  BY <1>1, <1>2, <1>3 DEF TypeOK, PutApproval, ApprovalRow
<1>6. \A b \in ApprovalIds : approvals[b].status \in {"approved", "denied"} =>
                                approvals'[b].status = approvals[b].status
  BY <1>1, <1>3 DEF TypeOK
<1> QED
  BY <1>2, <1>3, <1>4, <1>5, <1>6, WriteKeepsDecided DEF Decisions

LEMMA DecidedStep == TypeInv /\ DecidedOK /\ [Next]_vars => DecidedOK'
<1> SUFFICES ASSUME TypeInv, DecidedOK, [Next]_vars PROVE DecidedOK'
  OBVIOUS
<1>1. ASSUME UNCHANGED tables PROVE DecidedOK'
  BY <1>1 DEF tables, DecidedOK, Stored
<1>2. CASE \E r \in Requests : Call(r)
  BY <1>1, <1>2, CallSplit, LocalStepKeepsTables, FirstCommitDecided, ReadyCommitDecided,
     FinalCommitDecided
<1>3. CASE Click
  BY <1>3, ApproveDecided DEF Click
<1>4. (\E p \in Policies : EditPolicy(p)) \/ Restart \/ UNCHANGED vars => UNCHANGED tables
  BY DEF EditPolicy, Restart, vars, records, tables
<1> QED
  BY <1>1, <1>2, <1>3, <1>4 DEF Next

(* A pack never shows a decision its receipt contradicts.                  *)
THEOREM PackAlwaysAgrees == Spec => []PackAgrees
<1>1. Init => TypeInv /\ DecidedOK
  BY TypeInit, DecidedInit
<1>2. TypeInv /\ DecidedOK /\ [Next]_vars => (TypeInv /\ DecidedOK)'
  BY TypeStep, DecidedStep
<1>3. DecidedOK => PackAgrees
  BY DEF DecidedOK, PackAgrees, PackApproval, Stored
<1> QED
  BY <1>1, <1>2, <1>3, PTL DEF Spec

-----------------------------------------------------------------------------
(* Over PostgreSQL.  The lemmas above about a transaction's writes hold of *)
(* any row they are computed from; what is new is what may be said of a    *)
(* row while the transaction that read it is open.                         *)

TransactionsOK ==
    /\ rowRead \in [Requests -> IdemRow \cup {NoIdem}]
    /\ click \in [Clicks -> ClickTx \cup {NoClick}]

(* The row an open transaction of a request has read may be stale, but its *)
(* approval is one of its key, and nothing was final when it was read.     *)
RowReadOK ==
    \A r \in Requests : ~Closed(r) =>
        /\ pc[r] \in {"ready", "final"}
        /\ pc[r] = "ready" => rowRead[r].final = Null
        /\ rowRead[r].approval # Null => IsFor(rowRead[r].approval, KeyOf[r])

(* A callback in progress is about an approval of the key it read, and the *)
(* row it has read, if it has, was of that key.                            *)
ClickOK ==
    \A c \in Clicks : click[c] # NoClick =>
        LET tx == click[c] IN
        /\ IsFor(tx.approvalId, tx.approval.key)
        /\ tx.row.latest # Null => tx.row.latest.key = tx.approval.key
        /\ tx.row.approval # Null => IsFor(tx.row.approval, tx.approval.key)

Snapshots == TransactionsOK /\ RowReadOK /\ ClickOK
PgInv == TypeInv /\ Safe /\ Records /\ Snapshots

LEMMA PgInitInv == PgInit => PgInv
<1> SUFFICES ASSUME PgInit PROVE PgInv
  OBVIOUS
<1>1. TypeInv /\ Safe /\ Records
  BY TypeInit, SafeInit, RecordsInit DEF PgInit
<1>2. Snapshots
  BY DEF PgInit, Snapshots, TransactionsOK, RowReadOK, ClickOK, Closed
<1> QED
  BY <1>1, <1>2 DEF PgInv

-----------------------------------------------------------------------------
(* Snapshots survive the steps of others.                                  *)

LEMMA OneMoves ==
    ASSUME TypeOK, NEW r \in Requests,
           \/ LocalStep(r) \/ FirstCommit(r)
           \/ \E row : WriteIssuing(r, row) \/ WriteIssued(r, row)
    PROVE  \A q \in Requests \ {r} : pc'[q] = pc[q]
<1>1. ASSUME NEW from, NEW to, Goto(r, from, to)
      PROVE  \A q \in Requests \ {r} : pc'[q] = pc[q]
  BY <1>1 DEF Goto, TypeOK
<1>2. \E from, to : Goto(r, from, to)
  <2>1. CASE \E from, answer : Respond(r, from, answer)
    BY <2>1 DEF Respond
  <2>2. CASE FirstCommit(r) \/ \E row : WriteIssuing(r, row) \/ WriteIssued(r, row)
    BY <2>2 DEF FirstCommit, WriteIssuing, WriteIssued, Respond
  <2>3. CASE LocalStep(r)
    <3>1. CASE Start(r) \/ LookupNone(r) \/ Evaluate(r) \/ FirstFail(r) \/ StartInline(r) \/ Mint(r)
      BY <3>1 DEF Start, LookupNone, Evaluate, FirstFail, StartInline, Mint
    <3>2. CASE LookupReady(r)
      BY <3>2 DEF LookupReady, Respond
    <3>3. CASE LookupIssuing(r)
      BY <3>3 DEF LookupIssuing, Respond
    <3>4. CASE \/ LookupExisting(r) \/ EvaluateFail(r) \/ Reread(r) \/ FinishInline(r)
               \/ ReadyLost(r) \/ MintFail(r) \/ StorageFault(r)
      <4>1. \E from, answer : Respond(r, from, answer)
        BY <3>4 DEF LookupExisting, EvaluateFail, Reread, FinishInline, ReadyLost, MintFail,
                    StorageFault
      <4> QED
        BY <2>1, <4>1
    <3> QED
      BY <2>3, <3>1, <3>2, <3>3, <3>4, Zenon DEF LocalStep
  <2> QED
    BY <2>2, <2>3
<1> QED
  BY <1>1, <1>2

(* The transaction of a request is closed, whether it wrote, failed or was *)
(* never open.                                                             *)
LEMMA OthersKeepRowRead ==
    ASSUME TransactionsOK, RowReadOK, ApprovalsStay, NEW r \in Requests,
           rowRead' = [rowRead EXCEPT ![r] = NoIdem],
           \A q \in Requests \ {r} : pc'[q] = pc[q]
    PROVE  rowRead' \in [Requests -> IdemRow \cup {NoIdem}] /\ RowReadOK'
<1>1. rowRead' \in [Requests -> IdemRow \cup {NoIdem}]
  BY DEF TransactionsOK
<1>2. ASSUME NEW q \in Requests, ~Closed(q)'
      PROVE  /\ pc'[q] \in {"ready", "final"}
             /\ pc'[q] = "ready" => rowRead'[q].final = Null
             /\ rowRead'[q].approval # Null => IsFor(rowRead[q].approval, KeyOf[q])'
  <2>1. q # r /\ rowRead'[q] = rowRead[q] /\ pc'[q] = pc[q] /\ KeyOf[q] \in Keys
    BY <1>2, KeyOfAssumption DEF TransactionsOK, Closed
  <2> QED
    BY <1>2, <2>1 DEF RowReadOK, Closed, ApprovalsStay, IsFor
<1> QED
  BY <1>1, <1>2 DEF RowReadOK

LEMMA ClickKeys ==
    ASSUME TransactionsOK, NEW c \in Clicks, click[c] # NoClick
    PROVE  /\ click[c] \in ClickTx
           /\ click[c].approvalId \in ApprovalIds /\ click[c].decision \in Decisions
           /\ click[c].at \in Stamps
           /\ click[c].approval \in ApprovalRow /\ click[c].approval.key \in Keys
           /\ click[c].row \in IdemRow \cup {NoIdem}
BY DEF TransactionsOK, ClickTx, ApprovalRow

LEMMA OthersKeepClicks ==
    ASSUME TransactionsOK, ClickOK, ApprovalsStay,
           \A c \in Clicks : click'[c] \in {click[c], NoClick}
    PROVE  ClickOK'
<1> SUFFICES ASSUME NEW c \in Clicks, click'[c] # NoClick
             PROVE  /\ IsFor(click[c].approvalId, click[c].approval.key)'
                    /\ click'[c].row.latest # Null =>
                           click'[c].row.latest.key = click'[c].approval.key
                    /\ click'[c].row.approval # Null =>
                           IsFor(click[c].row.approval, click[c].approval.key)'
  BY DEF ClickOK, IsFor
<1>1. click'[c] = click[c]
  OBVIOUS
<1> QED
  BY <1>1, ClickKeys DEF ClickOK, ApprovalsStay, IsFor

-----------------------------------------------------------------------------
(* Steps of a request.                                                     *)

ServiceInv == TypeInv /\ Safe /\ Records

LEMMA LocalStepPg ==
    ASSUME ServiceInv, NEW r \in Requests, LocalStep(r) \/ FirstCommit(r)
    PROVE  ServiceInv' /\ ApprovalsStay
<1>1. TypeOK
  BY DEF ServiceInv, TypeInv
<1>2. CASE LocalStep(r)
  <2>1. ApprovalsStay
    BY <1>2, LocalStepKeepsTables DEF tables, ApprovalsStay, IsFor
  <2> QED
    BY <1>2, <2>1, LocalStepType, LocalStepSafe, LocalStepRecords DEF ServiceInv
<1>3. CASE FirstCommit(r)
  BY <1>3, FirstCommitType, FirstCommitSafe, FirstCommitRecords DEF ServiceInv
<1> QED
  BY <1>2, <1>3

LEMMA WriteRowPg ==
    ASSUME PgInv, NEW r \in Requests, WriteRow(r)
    PROVE  ServiceInv' /\ ApprovalsStay
<1>1. rowRead[r] \in IdemRow /\ ~Closed(r)
  BY DEF PgInv, Snapshots, TransactionsOK, WriteRow, Close, Closed
<1>2. rowRead[r].approval # Null => IsFor(rowRead[r].approval, KeyOf[r])
  BY <1>1 DEF PgInv, Snapshots, RowReadOK
<1>3. CASE WriteIssuing(r, rowRead[r])
  <2>1. rowRead[r].final = Null
    BY <1>1, <1>3 DEF PgInv, Snapshots, RowReadOK, WriteIssuing, Goto
  <2> QED
    BY <1>1, <1>2, <1>3, <2>1, WriteIssuingType, WriteIssuingSafe, WriteIssuingRecords
       DEF PgInv, ServiceInv
<1>4. CASE WriteIssued(r, rowRead[r])
  BY <1>1, <1>2, <1>4, WriteIssuedType, WriteIssuedSafe, WriteIssuedRecords
     DEF PgInv, ServiceInv
<1> QED
  BY <1>3, <1>4 DEF WriteRow

(* Whatever closes the transaction of a request.                           *)
LEMMA RequestStepPg ==
    ASSUME PgInv, NEW r \in Requests, WriteRow(r) \/ OtherStep(r) \/ Abort(r)
    PROVE  PgInv'
<1>1. TypeOK /\ TransactionsOK /\ RowReadOK /\ ClickOK /\ ServiceInv
  BY DEF PgInv, Snapshots, TypeInv, ServiceInv
<1>2. OtherStep(r) \/ Abort(r) => LocalStep(r) \/ FirstCommit(r)
  BY DEF OtherStep, Abort, LocalStep
<1>3. ServiceInv' /\ ApprovalsStay
  BY <1>1, <1>2, LocalStepPg, WriteRowPg
<1>4. \A q \in Requests \ {r} : pc'[q] = pc[q]
  BY <1>1, <1>2, OneMoves DEF WriteRow
<1>5. rowRead' = [rowRead EXCEPT ![r] = NoIdem] /\ click' = click
  <2>1. Closed(r) => rowRead = [rowRead EXCEPT ![r] = NoIdem]
    BY <1>1 DEF TransactionsOK, Closed
  <2> QED
    BY <2>1 DEF WriteRow, Close, OtherStep, Abort
<1>6. rowRead' \in [Requests -> IdemRow \cup {NoIdem}] /\ RowReadOK'
  BY <1>1, <1>3, <1>4, <1>5, OthersKeepRowRead
<1>7. ClickOK'
  BY <1>1, <1>3, <1>5, OthersKeepClicks
<1>8. TransactionsOK'
  BY <1>1, <1>5, <1>6 DEF TransactionsOK
<1> QED
  BY <1>3, <1>6, <1>7, <1>8 DEF PgInv, ServiceInv, Snapshots

-----------------------------------------------------------------------------
(* Steps that only read or undo.                                           *)

LEMMA QuietPg ==
    ASSUME ServiceInv, UNCHANGED vars
    PROVE  ServiceInv' /\ ApprovalsStay
<1>1. TypeInv'
  BY TypeStep DEF ServiceInv
<1>2. Safe'
  BY SafeStep DEF ServiceInv
<1>3. Records'
  BY RecordsStep DEF ServiceInv
<1>4. ApprovalsStay
  BY DEF vars, ApprovalsStay, IsFor
<1> QED
  BY <1>1, <1>2, <1>3, <1>4 DEF ServiceInv

LEMMA ReadRowPg ==
    ASSUME PgInv, NEW r \in Requests, ReadRow(r)
    PROVE  PgInv'
<1> DEFINE row == idem[KeyOf[r]]
<1>1. /\ TypeOK /\ TransactionsOK /\ RowReadOK /\ ClickOK /\ ServiceInv /\ KeyOf[r] \in Keys
      /\ StatusMatchesReceipt /\ RowRefs
  BY KeyOfAssumption DEF PgInv, Snapshots, TypeInv, ServiceInv, Safe, Records, TableRefs
<1>2. /\ rowRead' = [rowRead EXCEPT ![r] = row] /\ click' = click /\ UNCHANGED vars
      /\ (pc[r] = "ready" /\ row.status = "approved_ready") \/ pc[r] = "final"
  BY DEF ReadRow, Open, StillReady
<1>3. ServiceInv' /\ ApprovalsStay
  BY <1>1, <1>2, QuietPg
<1>4. row \in IdemRow \cup {NoIdem}
  BY <1>1 DEF TypeOK
<1>5. TransactionsOK'
  BY <1>1, <1>2, <1>4 DEF TransactionsOK
<1>6. ASSUME NEW q \in Requests, ~Closed(q)'
      PROVE  /\ pc'[q] \in {"ready", "final"}
             /\ pc'[q] = "ready" => rowRead'[q].final = Null
             /\ rowRead'[q].approval # Null => IsFor(rowRead[q].approval, KeyOf[q])'
  <2>1. pc' = pc /\ KeyOf[q] \in Keys
    BY <1>2, KeyOfAssumption DEF vars
  <2>2. CASE q = r
    <3>1. rowRead'[q] = row
      BY <1>1, <1>2, <2>2 DEF TransactionsOK
    <3>2. row.approval # Null => IsFor(row.approval, KeyOf[r])
      BY <1>1 DEF RowRefs
    <3>3. row.status = "approved_ready" => row.final = Null
      BY <1>1, LatestIsOfKey
    <3> QED
      BY <1>1, <1>2, <1>3, <2>1, <2>2, <3>1, <3>2, <3>3 DEF ApprovalsStay, IsFor
  <2>3. CASE q # r
    <3>1. rowRead'[q] = rowRead[q] /\ ~Closed(q)
      BY <1>1, <1>2, <1>6, <2>3 DEF TransactionsOK, Closed
    <3> QED
      BY <1>1, <1>3, <2>1, <3>1 DEF RowReadOK, ApprovalsStay, IsFor
  <2> QED
    BY <2>2, <2>3
<1>7. ClickOK'
  BY <1>1, <1>2, <1>3, OthersKeepClicks
<1> QED
  BY <1>3, <1>5, <1>6, <1>7 DEF PgInv, ServiceInv, Snapshots, RowReadOK

LEMMA RowReadStays ==
    ASSUME TransactionsOK, RowReadOK, ApprovalsStay, rowRead' = rowRead, pc' = pc
    PROVE  RowReadOK'
<1>1. \A r \in Requests : KeyOf[r] \in Keys
  BY KeyOfAssumption
<1> QED
  BY <1>1 DEF RowReadOK, Closed, ApprovalsStay, IsFor

(* The read steps of a callback: only its own slot changes.                *)
LEMMA ClickReads ==
    ASSUME PgInv, NEW c \in Clicks, NEW tx \in ClickTx, UNCHANGED <<vars, rowRead>>,
           click' = [click EXCEPT ![c] = tx],
           IsFor(tx.approvalId, tx.approval.key),
           tx.row.latest # Null => tx.row.latest.key = tx.approval.key,
           tx.row.approval # Null => IsFor(tx.row.approval, tx.approval.key)
    PROVE  PgInv'
<1>1. TransactionsOK /\ RowReadOK /\ ClickOK /\ ServiceInv
  BY DEF PgInv, Snapshots, ServiceInv
<1>2. ServiceInv' /\ ApprovalsStay
  BY <1>1, QuietPg
<1>3. TransactionsOK'
  BY <1>1 DEF TransactionsOK
<1>4. RowReadOK'
  BY <1>1, <1>2, RowReadStays DEF vars
<1>5. ASSUME NEW b \in Clicks, click'[b] # NoClick
      PROVE  /\ IsFor(click[b].approvalId, click[b].approval.key)'
             /\ click'[b].row.latest # Null => click'[b].row.latest.key = click'[b].approval.key
             /\ click'[b].row.approval # Null => IsFor(click[b].row.approval, click[b].approval.key)'
  <2>1. approvals' = approvals
    BY DEF vars
  <2>2. CASE b = c
    <3>1. click'[b] = tx
      BY <1>1, <2>2 DEF TransactionsOK
    <3> QED
      BY <2>1, <3>1 DEF IsFor
  <2>3. CASE b # c
    <3>1. click'[b] = click[b]
      BY <1>1, <2>3 DEF TransactionsOK
    <3> QED
      BY <1>1, <1>5, <2>1, <3>1 DEF ClickOK, IsFor
  <2> QED
    BY <2>2, <2>3
<1>6. ClickOK'
  BY <1>5 DEF ClickOK, IsFor
<1> QED
  BY <1>2, <1>3, <1>4, <1>6 DEF PgInv, ServiceInv, Snapshots

LEMMA ReadApprovalPg ==
    ASSUME PgInv, NEW c \in Clicks, NEW a \in ApprovalIds, NEW d \in Decisions, NEW t \in Stamps,
           ReadApproval(c, a, d, t)
    PROVE  PgInv'
<1> DEFINE tx == [step |-> "row", approvalId |-> a, decision |-> d, at |-> t,
                  approval |-> approvals[a], row |-> NoIdem]
<1>1. approvals[a] \in ApprovalRow /\ IsFor(a, approvals[a].key)
  BY DEF ReadApproval, Undecided, PgInv, TypeInv, TypeOK, NoApproval, IsFor
<1>2. tx \in ClickTx
  BY <1>1 DEF ClickTx
<1>3. /\ tx.approvalId = a /\ tx.approval = approvals[a]
      /\ tx.row.latest = Null /\ tx.row.approval = Null
  BY DEF NoIdem
<1>4. UNCHANGED <<vars, rowRead>> /\ click' = [click EXCEPT ![c] = tx]
  BY DEF ReadApproval
<1> HIDE DEF tx
<1> QED
  BY <1>1, <1>2, <1>3, <1>4, ClickReads

LEMMA ReadApprovalRowPg ==
    ASSUME PgInv, NEW c \in Clicks, ReadApprovalRow(c)
    PROVE  PgInv'
<1> DEFINE old == click[c]
           k == old.approval.key
           tx == [old EXCEPT !.step = "write", !.row = idem[k]]
<1>1. /\ TypeOK /\ TransactionsOK /\ ClickOK /\ StatusMatchesReceipt /\ RowRefs
  BY DEF PgInv, Snapshots, TypeInv, Safe, Records, TableRefs
<1>2. old # NoClick
  BY DEF ReadApprovalRow, NoClick
<1>3. old \in ClickTx /\ k \in Keys
  BY <1>1, <1>2, ClickKeys
<1>4. IsFor(old.approvalId, k)
  BY <1>1, <1>2 DEF ClickOK
<1>5. idem[k] \in IdemRow \cup {NoIdem}
  BY <1>1, <1>3 DEF TypeOK
<1>6. /\ idem[k].latest # Null => idem[k].latest.key = k
      /\ idem[k].approval # Null => IsFor(idem[k].approval, k)
  BY <1>1, <1>3, <1>5 DEF RowRefs, StatusMatchesReceipt, NoIdem, IdemRow, IdemStatus
<1>7. /\ tx \in ClickTx /\ tx.approvalId = old.approvalId /\ tx.approval.key = k
      /\ tx.row = idem[k]
  BY <1>3, <1>5 DEF ClickTx
<1>8. UNCHANGED <<vars, rowRead>> /\ click' = [click EXCEPT ![c] = tx]
  BY <1>1 DEF ReadApprovalRow, TransactionsOK
<1> HIDE DEF tx, old, k
<1> QED
  BY <1>4, <1>6, <1>7, <1>8, ClickReads

(* The decision is written over what the callback read of both rows.       *)
LEMMA WriteClickPg ==
    ASSUME PgInv, NEW c \in Clicks, WriteClick(c)
    PROVE  PgInv'
<1> DEFINE tx == click[c]
           a == tx.approvalId
<1>1. /\ TypeInv /\ Safe /\ Records /\ TransactionsOK /\ RowReadOK /\ ClickOK /\ TypeOK
  BY DEF PgInv, Snapshots, TypeInv
<1>2. tx # NoClick
  BY DEF WriteClick, NoClick
<1>3. /\ tx \in ClickTx /\ a \in ApprovalIds /\ tx.decision \in Decisions /\ tx.at \in Stamps
      /\ tx.approval \in ApprovalRow /\ tx.row \in IdemRow \cup {NoIdem}
  BY <1>1, <1>2, ClickKeys
<1>4. /\ IsFor(a, tx.approval.key)
      /\ tx.row.latest # Null => tx.row.latest.key = tx.approval.key
      /\ tx.row.approval # Null => IsFor(tx.row.approval, tx.approval.key)
  BY <1>1, <1>2 DEF ClickOK
<1>5. approvals[a] \in ApprovalRow
  BY <1>1, <1>3, <1>4 DEF IsFor, TypeOK, NoApproval
<1>6. tx.row.latest \in Stored(receipts) => tx.row.latest.key = tx.approval.key
  BY <1>1, <1>4, StoredType, NullAssumption DEF TypeOK
<1>7. WriteDecision(a, tx.approval, tx.row, tx.decision, tx.at)
  BY DEF WriteClick
<1>8. /\ rowRead' = rowRead /\ pc' = pc
      /\ click' = [click EXCEPT ![c] = NoClick]
  BY DEF WriteClick, WriteDecision
<1> HIDE DEF tx, a
<1>9. TypeInv'
  BY <1>1, <1>3, <1>5, <1>7, WriteDecisionType
<1>10. Safe'
  BY <1>1, <1>3, <1>6, <1>7, WriteDecisionSafe
<1>11. Records' /\ ApprovalsStay
  BY <1>1, <1>3, <1>4, <1>6, <1>7, WriteDecisionRecords
<1>12. RowReadOK' /\ ClickOK' /\ TransactionsOK'
  <2>1. \A b \in Clicks : click'[b] \in {click[b], NoClick}
    BY <1>1, <1>8 DEF TransactionsOK
  <2>2. TransactionsOK'
    BY <1>1, <1>8 DEF TransactionsOK
  <2> QED
    BY <1>1, <1>8, <1>11, <2>1, <2>2, RowReadStays, OthersKeepClicks
<1> QED
  BY <1>9, <1>10, <1>11, <1>12 DEF PgInv, Snapshots

LEMMA AbortClickPg ==
    ASSUME PgInv, NEW c \in Clicks, AbortClick(c)
    PROVE  PgInv'
<1>1. TransactionsOK /\ RowReadOK /\ ClickOK /\ ServiceInv
  BY DEF PgInv, Snapshots, ServiceInv
<1>2. /\ UNCHANGED vars /\ rowRead' = rowRead /\ pc' = pc
      /\ click' = [click EXCEPT ![c] = NoClick]
  BY DEF AbortClick, vars
<1>3. ServiceInv' /\ ApprovalsStay
  BY <1>1, <1>2, QuietPg
<1>4. TransactionsOK' /\ \A b \in Clicks : click'[b] \in {click[b], NoClick}
  BY <1>1, <1>2 DEF TransactionsOK
<1>5. RowReadOK' /\ ClickOK'
  BY <1>1, <1>2, <1>3, <1>4, RowReadStays, OthersKeepClicks
<1> QED
  BY <1>3, <1>4, <1>5 DEF PgInv, ServiceInv, Snapshots

LEMMA PgEditStep ==
    ASSUME PgInv, PgEdit \/ UNCHANGED pgVars
    PROVE  PgInv'
<1>1. TransactionsOK /\ RowReadOK /\ ClickOK /\ ServiceInv
  BY DEF PgInv, Snapshots, ServiceInv
<1>2. [Next]_vars /\ UNCHANGED <<approvals, pc, rowRead, click>>
  BY DEF PgEdit, Next, EditPolicy, tables, pgVars, vars
<1>3. ServiceInv'
  BY <1>1, <1>2, TypeStep, SafeStep, RecordsStep DEF ServiceInv
<1>4. ApprovalsStay /\ TransactionsOK'
  BY <1>1, <1>2 DEF ApprovalsStay, IsFor, TransactionsOK
<1>5. RowReadOK' /\ ClickOK'
  BY <1>1, <1>2, <1>4, RowReadStays, OthersKeepClicks
<1> QED
  BY <1>3, <1>4, <1>5 DEF PgInv, ServiceInv, Snapshots

(* The connections die with the process, and their transactions with them. *)
LEMMA PgRestartStep ==
    ASSUME PgInv, PgRestart
    PROVE  PgInv'
<1>1. [Next]_vars
  BY DEF PgRestart, Next
<1>2. TypeInv' /\ Safe' /\ Records'
  BY <1>1, TypeStep, SafeStep, RecordsStep DEF PgInv
<1>3. Snapshots'
  BY DEF PgRestart, Snapshots, TransactionsOK, RowReadOK, ClickOK, Closed
<1> QED
  BY <1>2, <1>3 DEF PgInv

-----------------------------------------------------------------------------
LEMMA PgStep == PgInv /\ [PgNext]_pgVars => PgInv'
<1> SUFFICES ASSUME PgInv, [PgNext]_pgVars PROVE PgInv'
  OBVIOUS
<1>1. ASSUME NEW r \in Requests, ReadRow(r) \/ WriteRow(r) \/ OtherStep(r) \/ Abort(r)
      PROVE  PgInv'
  BY <1>1, ReadRowPg, RequestStepPg
<1>2. ASSUME NEW c \in Clicks,
             \/ \E a \in ApprovalIds, d \in Decisions, t \in Stamps : ReadApproval(c, a, d, t)
             \/ ReadApprovalRow(c) \/ WriteClick(c) \/ AbortClick(c)
      PROVE  PgInv'
  BY <1>2, ReadApprovalPg, ReadApprovalRowPg, WriteClickPg, AbortClickPg
<1> QED
  BY <1>1, <1>2, PgEditStep, PgRestartStep DEF PgNext

LEMMA PgAlways == PgSpec => []PgInv
BY PgInitInv, PgStep, PTL DEF PgSpec

(* Every row, variable and snapshot has its type under READ COMMITTED.     *)
THEOREM PgTypeCorrect == PgSpec => []PgTypeOK
<1>1. PgInv => PgTypeOK
  BY DEF PgInv, Snapshots, TransactionsOK, TypeInv, PgTypeOK
<1> QED
  BY <1>1, PgAlways, PTL

(* A row agrees with its receipts although it is written from a snapshot   *)
(* another transaction may have overwritten.                               *)
THEOREM PgStatusAlwaysMatches == PgSpec => []StatusMatchesReceipt
<1>1. PgInv => StatusMatchesReceipt
  BY DEF PgInv, Safe
<1> QED
  BY <1>1, PgAlways, PTL

(* Lost updates open no issuance that is not allowed or approved, ...      *)
THEOREM PgMintsAlwaysAuthorized == PgSpec => []MintsAreAuthorized
<1>1. PgInv => MintsAreAuthorized
  BY DEF PgInv, Safe, MintedOK, ReceiptsOK, MintsAreAuthorized, Stored
<1> QED
  BY <1>1, PgAlways, PTL

(* ... hide no issuance from its caller's receipt, ...                     *)
THEOREM PgCredentialsAlwaysRecorded == PgSpec => []CredentialsAreRecorded
<1>1. PgInv => CredentialsAreRecorded
  BY DEF PgInv, Safe
<1> QED
  BY <1>1, PgAlways, PTL

(* ... answer nobody with a receipt or approval that cannot be looked up,  *)
THEOREM PgAnswersAlwaysResolve == PgSpec => []AnswersResolve
<1>1. PgInv => AnswersResolve
  BY RecordsAnswer DEF PgInv
<1> QED
  BY <1>1, PgAlways, PTL

(* close no circle of receipts that supersede one another, ...             *)
THEOREM PgChainsAlwaysEnd == PgSpec => []ChainsEnd
<1>1. PgInv => ChainsEnd
  BY DEF PgInv, Records, TableRefs
<1> QED
  BY <1>1, PgAlways, PTL

(* ... and give the best grade to no receipt that does not deserve it.     *)
THEOREM PgBestGradeAlwaysEarned == PgSpec => []BestGradeIsEarned
<1>1. PgInv => BestGradeIsEarned
  BY SafeGrades DEF PgInv
<1> QED
  BY <1>1, PgAlways, PTL

=============================================================================
