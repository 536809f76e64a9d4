----------------------- MODULE AuthorizeGated_proofs -----------------------
(***************************************************************************)
(* Proofs about AuthorizeService for the keys every policy gates: what the *)
(* table approvals says of a key agrees with what its idempotency row      *)
(* says, for any number of requests, clicks, faults and restarts; what     *)
(* refines ApprovalLifecycle; and the jobs of AuthorizeClient, whose       *)
(* requests these are.                                                     *)
(***************************************************************************)
EXTENDS AuthorizeService_proofs, AuthorizeRefinement, AuthorizeClient, FiniteSetTheorems

-----------------------------------------------------------------------------
(* The inductive invariant.                                                *)

(* The row of a gated key names an approval of that key.                   *)
Linked == \A k \in GatedKeys : idem[k].status # "absent" => IsFor(idem[k].approval, k)

(* The UNIQUE constraint on approvals.idem_key.                            *)
OnePerKey == \A k \in Keys : \A a, b \in ApprovalIds : IsFor(a, k) /\ IsFor(b, k) => a = b

(* A request that goes to the broker, or comes from it, for a gated key    *)
(* does so about an issuance that has been opened.                         *)
Opened == \A r \in Requests :
    pc[r] \in {"mint", "final"} /\ KeyOf[r] \in GatedKeys =>
        idem[KeyOf[r]].status \in {"issuing", "allowed"}

GatedInv == Linked /\ OnePerKey /\ Opened /\ ApprovalMatchesStatus

LEMMA GatedInit == Init => GatedInv
BY KeyOfAssumption DEF Init, GatedInv, Linked, IsFor, OnePerKey, Opened, ApprovalMatchesStatus,
    NoIdem, NoApproval, GatedKeys

-----------------------------------------------------------------------------
(* A human approved: the rows a gated key can have from then on.           *)
Passed == {"approved_ready", "issuing", "allowed"}
PassedStay == \A k \in GatedKeys : idem[k].status \in Passed => idem'[k].status \in Passed

GatedStays == GatedInv' /\ ApprovalsStay /\ PassedStay

(* The step leaves both tables alone, and lets nobody pass to the broker   *)
(* but for an issuance that has been opened.                               *)
Passive ==
    /\ UNCHANGED <<idem, approvals>>
    /\ \A q \in Requests : pc'[q] \in {"mint", "final"} =>
            pc[q] \in {"mint", "final"} \/ idem[KeyOf[q]].status = "issuing"

LEMMA PassiveKeeps == ASSUME GatedInv, Passive PROVE GatedStays
BY DEF GatedStays, ApprovalsStay, PassedStay, GatedInv, Passive, Linked, IsFor, OnePerKey,
    Opened, ApprovalMatchesStatus, GatedKeys

LEMMA PassiveSteps ==
    ASSUME TypeOK, NEW r \in Requests, LocalStep(r)
    PROVE  Passive
<1>1. UNCHANGED <<idem, approvals>>
  BY LocalStepKeepsTables DEF tables, records
<1>2. pc \in [Requests -> Steps]
  BY DEF TypeOK
<1>3. ASSUME NEW from, NEW to, Goto(r, from, to),
             to \in {"mint", "final"} => from = "mint" \/ idem[KeyOf[r]].status = "issuing"
      PROVE  \A q \in Requests : pc'[q] \in {"mint", "final"} =>
                pc[q] \in {"mint", "final"} \/ idem[KeyOf[q]].status = "issuing"
  BY <1>2, <1>3 DEF Goto
<1>4. \E from, to : /\ Goto(r, from, to)
                    /\ to \in {"mint", "final"} => from = "mint" \/ idem[KeyOf[r]].status = "issuing"
  <2>1. CASE \E from, answer : Respond(r, from, answer)
    BY <2>1 DEF Respond
  <2>2. CASE Start(r) \/ LookupNone(r) \/ Evaluate(r) \/ FirstFail(r) \/ StartInline(r) \/ Mint(r)
    BY <2>2 DEF Start, LookupNone, Evaluate, FirstFail, StartInline, Mint
  <2>3. CASE LookupReady(r)
    BY <2>3 DEF LookupReady, Respond
  <2>4. CASE LookupIssuing(r)
    BY <2>4 DEF LookupIssuing, Respond
  <2>5. CASE \/ LookupExisting(r) \/ EvaluateFail(r) \/ Reread(r) \/ FinishInline(r)
             \/ ReadyLost(r) \/ MintFail(r) \/ StorageFault(r)
    <3>1. \E from, answer : Respond(r, from, answer)
      BY <2>5 DEF LookupExisting, EvaluateFail, Reread, FinishInline, ReadyLost, MintFail,
                  StorageFault
    <3> QED
      BY <2>1, <3>1
  <2> QED
    BY <2>2, <2>3, <2>4, <2>5, Zenon DEF LocalStep
<1> QED
  BY <1>1, <1>3, <1>4 DEF Passive

-----------------------------------------------------------------------------
(* The transactions.                                                       *)

(* A gated key that has no approval yet gets one and a pending row; of any *)
(* other gated key nothing changes.                                        *)
LEMMA FirstCommitGated ==
    ASSUME TypeInv, GatedInv, NEW r \in Requests, FirstCommit(r)
    PROVE  GatedStays
<1> DEFINE k == KeyOf[r]
           p == work[r].policy
           verdict == VerdictOf[p][k]
<1>1. /\ k \in Keys /\ p \in Policies /\ pc[r] = "first"
      /\ idem \in [Keys -> IdemRow \cup {NoIdem}]
      /\ approvals \in [ApprovalIds -> ApprovalRow \cup {NoApproval}]
      /\ pc \in [Requests -> Steps]
  BY KeyOfAssumption DEF TypeInv, TypeOK, WorkOK, FirstCommit
<1>2. PICK a, row :
        /\ a \in ApprovalIds \cup {Null}
        /\ DrawsApproval(a, k, verdict)
        /\ idem' = [idem EXCEPT ![k] = row]
        /\ row.status = InitialStatus(verdict) /\ row.approval = a
        /\ a = Null => approvals' = approvals
        /\ a # Null => approvals' = [approvals EXCEPT ![a] =
                                [key |-> k, status |-> "pending", posted |-> FALSE]]
        /\ \E to : Goto(r, "first", to) /\ (to \in {"mint", "final"} => verdict = "allow")
  <2>1. PICK a \in ApprovalIds \cup {Null} :
        LET base == BaseReceipt(k, work[r].at, p, a) IN
        /\ DrawsApproval(a, k, verdict)
        /\ idem' = [idem EXCEPT ![k] = FirstRow(base, verdict, a)]
        /\ IF a = Null
           THEN UNCHANGED <<approvals, outbox>>
           ELSE /\ approvals' = [approvals EXCEPT ![a] =
                                   [key |-> k, status |-> "pending", posted |-> FALSE]]
                /\ outbox' = Enqueue(outbox, a)
        /\ IF verdict = "allow" \/ (a # Null /\ SlackConfigured)
           THEN Goto(r, "first", IF verdict = "allow" THEN "mint" ELSE "posting")
           ELSE Respond(r, "first", Answer(verdict, base, a))
    BY DEF FirstCommit
  <2>2. PICK row : row = FirstRow(BaseReceipt(k, work[r].at, p, a), verdict, a)
    OBVIOUS
  <2>3. row.status = InitialStatus(verdict) /\ row.approval = a
    BY <2>2 DEF FirstRow
  <2>4. \E to : Goto(r, "first", to) /\ (to \in {"mint", "final"} => verdict = "allow")
    BY <2>1 DEF Respond
  <2> QED
    BY <2>1, <2>2, <2>3, <2>4
<1>3. \A q \in Requests \ {r} : pc'[q] = pc[q]
  BY <1>1, <1>2 DEF Goto
<1>4. k \in GatedKeys => verdict = "require_approval"
  BY <1>1 DEF GatedKeys
<1>5. a # Null => /\ a \in ApprovalIds
                  /\ \A b \in ApprovalIds : ~IsFor(b, k)
                  /\ \A c \in Keys : ~IsFor(a, c)
                  /\ IsFor(a, k)'
                  /\ approvals'[a].status = "pending"
                  /\ \A b \in ApprovalIds \ {a} : approvals'[b] = approvals[b]
  BY <1>1, <1>2 DEF DrawsApproval, MayInsertApproval, IsFor, NoApproval
<1>6. ApprovalsStay
  BY <1>1, <1>2, <1>5 DEF ApprovalsStay, IsFor
<1>7. k \in GatedKeys => /\ a # Null /\ idem[k].status = "absent"
                         /\ idem'[k].status = "pending_approval" /\ idem'[k].approval = a
  BY <1>1, <1>2, <1>4, <1>5 DEF DrawsApproval, InitialStatus, GatedInv, Linked, IsFor
<1>8. \A c \in Keys \ {k} : idem'[c] = idem[c]
  BY <1>1, <1>2
<1>9. GatedKeys \subseteq Keys
  BY DEF GatedKeys
<1>10. Linked'
  BY <1>5, <1>6, <1>7, <1>8, <1>9 DEF GatedInv, Linked, IsFor, ApprovalsStay, GatedKeys
<1>11. OnePerKey'
  BY <1>2, <1>5 DEF GatedInv, OnePerKey, IsFor
<1>12. Opened'
  <2>1. pc'[r] \in {"mint", "final"} => k \notin GatedKeys
    BY <1>1, <1>2, <1>4 DEF Goto
  <2> QED
    BY <1>3, <1>7, <1>8, <2>1, KeyOfAssumption DEF GatedInv, Opened, GatedKeys
<1>13. ApprovalMatchesStatus'
  <2> SUFFICES ASSUME NEW b \in ApprovalIds, approvals'[b].status # "absent",
                      approvals'[b].key \in GatedKeys
               PROVE  idem'[approvals'[b].key].status \in Expected(approvals'[b].status)
    BY DEF ApprovalMatchesStatus, GatedKeys
  <2>1. CASE b = a /\ a # Null
    BY <1>2, <1>5, <1>7, <2>1 DEF IsFor, Expected
  <2>2. CASE ~(b = a /\ a # Null)
    <3>1. approvals'[b] = approvals[b]
      BY <1>2, <1>5, <2>2
    <3>2. approvals[b].key # k
      BY <1>5, <1>7, <1>9, <3>1 DEF IsFor
    <3> QED
      BY <1>8, <1>9, <3>1, <3>2 DEF GatedInv, ApprovalMatchesStatus
  <2> QED
    BY <2>1, <2>2
<1>14. PassedStay
  BY <1>7, <1>8, <1>9 DEF PassedStay, Passed
<1> QED
  BY <1>6, <1>10, <1>11, <1>12, <1>13, <1>14 DEF GatedStays, GatedInv

(* A transaction that moves the row of an approved key on.                 *)
LEMMA MoveOnKeeps ==
    ASSUME TypeOK, GatedInv, NEW r \in Requests, NEW row,
           approvals' = approvals,
           idem' = [idem EXCEPT ![KeyOf[r]] = row],
           row.approval = idem[KeyOf[r]].approval,
           idem[KeyOf[r]].status # "absent",
           row.status \in {"issuing", "allowed"},
           KeyOf[r] \in GatedKeys => idem[KeyOf[r]].status \in Passed,
           \A q \in Requests \ {r} : pc'[q] = pc[q]
    PROVE  GatedStays
<1> DEFINE k == KeyOf[r]
<1>1. k \in Keys /\ GatedKeys \subseteq Keys
  BY KeyOfAssumption DEF GatedKeys
<1>2. /\ \A c \in Keys \ {k} : idem'[c] = idem[c]
      /\ idem'[k] = row
  BY <1>1 DEF TypeOK
<1>3. ApprovalsStay /\ OnePerKey' /\ Linked'
  BY <1>1, <1>2 DEF ApprovalsStay, GatedInv, OnePerKey, Linked, IsFor, GatedKeys
<1>4. Opened'
  BY <1>1, <1>2, KeyOfAssumption DEF GatedInv, Opened, GatedKeys
<1>5. PassedStay
  BY <1>1, <1>2 DEF PassedStay, Passed
<1>6. ASSUME NEW b \in ApprovalIds, approvals'[b].status # "absent",
             approvals'[b].key \in GatedKeys
      PROVE  idem'[approvals'[b].key].status \in Expected(approvals'[b].status)
  <2>1. idem[approvals[b].key].status \in Expected(approvals[b].status)
    BY <1>6 DEF GatedInv, ApprovalMatchesStatus, GatedKeys
  <2>2. CASE approvals[b].key # k
    BY <1>1, <1>2, <1>6, <2>1, <2>2
  <2>3. CASE approvals[b].key = k
    <3>1. approvals[b] \in ApprovalRow
      BY <1>6 DEF TypeOK, NoApproval
    <3>2. approvals[b].status = "approved"
      BY <1>6, <2>1, <2>3, <3>1 DEF Passed, Expected, ApprovalRow, ApprovalStatus
    <3> QED
      BY <1>2, <2>3, <3>2 DEF Expected
  <2> QED
    BY <2>2, <2>3
<1>7. ApprovalMatchesStatus'
  BY <1>6 DEF ApprovalMatchesStatus, GatedKeys
<1> QED
  BY <1>3, <1>4, <1>5, <1>7 DEF GatedStays, GatedInv

LEMMA ReadyCommitGated ==
    ASSUME TypeInv, GatedInv, NEW r \in Requests, ReadyCommit(r)
    PROVE  GatedStays
<1>1. PICK id : idem' = [idem EXCEPT ![KeyOf[r]] = IssuingRow(idem[KeyOf[r]], id)]
  BY DEF ReadyCommit, WriteIssuing
<1>2. TypeOK /\ KeyOf[r] \in Keys /\ idem[KeyOf[r]].status = "approved_ready"
  BY KeyOfAssumption DEF TypeInv, ReadyCommit, StillReady
<1>3. idem[KeyOf[r]] \in IdemRow
  BY <1>2 DEF TypeOK, NoIdem
<1>4. PICK row : row = IssuingRow(idem[KeyOf[r]], id)
  OBVIOUS
<1>5. row.status = "issuing" /\ row.approval = idem[KeyOf[r]].approval
  BY <1>3, <1>4 DEF IssuingRow, IdemRow
<1>6. approvals' = approvals /\ \A q \in Requests \ {r} : pc'[q] = pc[q]
  BY <1>2 DEF ReadyCommit, WriteIssuing, Goto, TypeOK
<1> QED
  BY <1>1, <1>2, <1>4, <1>5, <1>6, MoveOnKeeps DEF Passed

LEMMA FinalCommitGated ==
    ASSUME TypeInv, GatedInv, NEW r \in Requests, FinalCommit(r)
    PROVE  GatedStays
<1>1. PICK id : idem' = [idem EXCEPT ![KeyOf[r]] = AllowedRow(idem[KeyOf[r]], id)]
  BY DEF FinalCommit, WriteIssued
<1>2. TypeOK /\ KeyOf[r] \in Keys /\ pc[r] = "final" /\ idem[KeyOf[r]].status # "absent"
  BY KeyOfAssumption DEF TypeInv, FinalCommit
<1>3. idem[KeyOf[r]] \in IdemRow
  BY <1>2 DEF TypeOK, NoIdem
<1>4. PICK row : row = AllowedRow(idem[KeyOf[r]], id)
  OBVIOUS
<1>5. row.status = "allowed" /\ row.approval = idem[KeyOf[r]].approval
  BY <1>3, <1>4 DEF AllowedRow, IdemRow
<1>6. approvals' = approvals /\ \A q \in Requests \ {r} : pc'[q] = pc[q]
  BY <1>2 DEF FinalCommit, WriteIssued, Respond, Goto, TypeOK
<1>7. KeyOf[r] \in GatedKeys => idem[KeyOf[r]].status \in Passed
  BY <1>2 DEF GatedInv, Opened, Passed
<1> QED
  BY <1>1, <1>2, <1>4, <1>5, <1>6, <1>7, MoveOnKeeps

(* A click moves the approval and the row of its key together.             *)
LEMMA ApproveGated ==
    ASSUME TypeInv, GatedInv, NEW a \in ApprovalIds, NEW d \in Decisions, NEW at \in Stamps,
           Approve(a, d, at)
    PROVE  GatedStays
<1> DEFINE k == approvals[a].key
<1>1. /\ TypeOK
      /\ approvals[a].status = "pending" /\ approvals[a] \in ApprovalRow /\ k \in Keys
  <2>1. TypeOK /\ approvals[a].status = "pending"
    BY DEF TypeInv, Approve, Undecided
  <2>2. approvals[a] \in ApprovalRow
    BY <2>1 DEF TypeOK, NoApproval
  <2> QED
    BY <2>1, <2>2 DEF ApprovalRow
<1>2. PICK id :
        /\ approvals' = [approvals EXCEPT ![a] =
                            PutApproval(approvals[a], [approvals[a] EXCEPT !.status = d])]
        /\ idem' = [idem EXCEPT ![k] = DecidedRow(idem[k], id, d)]
        /\ pc' = pc
  BY DEF Approve, WriteDecision
<1>3. PICK row, new : /\ row = DecidedRow(idem[k], id, d)
                      /\ new = PutApproval(approvals[a], [approvals[a] EXCEPT !.status = d])
  OBVIOUS
<1>4. new.status = d /\ new.key = k /\ d \in {"approved", "denied"}
  BY <1>1, <1>3 DEF PutApproval, ApprovalRow, Decisions
<1>5. /\ \A b \in ApprovalIds \ {a} : approvals'[b] = approvals[b]
      /\ approvals'[a] = new
      /\ \A c \in Keys \ {k} : idem'[c] = idem[c]
      /\ idem'[k] = row
  BY <1>1, <1>2, <1>3 DEF TypeOK
<1>6. k \in GatedKeys => /\ idem[k].status = "pending_approval"
                         /\ row.approval = idem[k].approval
                         /\ row.status = IF d = "approved" THEN "approved_ready" ELSE "denied"
  <2> SUFFICES ASSUME k \in GatedKeys
               PROVE  /\ idem[k].status = "pending_approval"
                      /\ row.approval = idem[k].approval
                      /\ row.status = IF d = "approved" THEN "approved_ready" ELSE "denied"
    OBVIOUS
  <2>1. idem[k].status = "pending_approval"
    BY <1>1 DEF GatedInv, ApprovalMatchesStatus, Expected
  <2>2. idem[k] \in IdemRow
    BY <1>1, <2>1 DEF TypeOK, NoIdem
  <2> QED
    BY <1>3, <2>1, <2>2 DEF DecidedRow, IdemRow
<1>7. GatedKeys \subseteq Keys
  BY DEF GatedKeys
<1>8. \A b \in ApprovalIds, c \in Keys : IsFor(b, c)' <=> IsFor(b, c)
  BY <1>1, <1>4, <1>5 DEF IsFor
<1>9. ApprovalsStay /\ OnePerKey'
  BY <1>8 DEF ApprovalsStay, GatedInv, OnePerKey
<1>10. Linked'
  <2> SUFFICES ASSUME NEW c \in GatedKeys, idem'[c].status # "absent"
               PROVE  IsFor(idem[c].approval, c)'
    BY DEF Linked, GatedKeys, IsFor
  <2>1. CASE c = k
    <3>1. idem[c].status # "absent" /\ idem'[c].approval = idem[c].approval
      BY <1>5, <1>6, <2>1
    <3> QED
      BY <1>1, <1>8, <2>1, <3>1 DEF GatedInv, Linked, IsFor
  <2>2. CASE c # k
    <3>1. c \in Keys /\ idem'[c] = idem[c]
      BY <1>5, <1>7, <2>2
    <3> QED
      BY <1>8, <3>1 DEF GatedInv, Linked, IsFor
  <2> QED
    BY <2>1, <2>2
<1>11. Opened'
  <2>1. k \in GatedKeys => \A q \in Requests : KeyOf[q] = k => pc[q] \notin {"mint", "final"}
    BY <1>6 DEF GatedInv, Opened
  <2> QED
    BY <1>2, <1>5, <1>7, <2>1, KeyOfAssumption DEF GatedInv, Opened, GatedKeys
<1>12. ASSUME NEW b \in ApprovalIds, approvals'[b].status # "absent",
              approvals'[b].key \in GatedKeys
       PROVE  idem'[approvals'[b].key].status \in Expected(approvals'[b].status)
  <2>1. CASE b = a
    BY <1>4, <1>5, <1>6, <1>12, <2>1 DEF Expected
  <2>2. CASE b # a
    <3>1. approvals'[b] = approvals[b] /\ approvals[b].key # k
      BY <1>1, <1>5, <1>12, <2>2 DEF GatedInv, OnePerKey, IsFor
    <3> QED
      BY <1>5, <1>7, <1>12, <3>1 DEF GatedInv, ApprovalMatchesStatus
  <2> QED
    BY <2>1, <2>2
<1>13. ApprovalMatchesStatus'
  BY <1>12 DEF ApprovalMatchesStatus, GatedKeys
<1>14. PassedStay
  BY <1>5, <1>6, <1>7 DEF PassedStay, Passed
<1> QED
  BY <1>9, <1>10, <1>11, <1>13, <1>14 DEF GatedStays, GatedInv

-----------------------------------------------------------------------------
LEMMA GatedStep == TypeInv /\ GatedInv /\ [Next]_vars => GatedStays
<1> SUFFICES ASSUME TypeInv, GatedInv, [Next]_vars PROVE GatedStays
  OBVIOUS
<1>1. TypeOK
  BY DEF TypeInv
<1>2. CASE \E r \in Requests : Call(r)
  BY <1>1, <1>2, CallSplit, PassiveSteps, PassiveKeeps, FirstCommitGated, ReadyCommitGated,
     FinalCommitGated
<1>3. CASE Click
  BY <1>3, ApproveGated DEF Click
<1>4. Restart => Passive
  BY DEF Restart, Passive, tables, records
<1>5. (\E p \in Policies : EditPolicy(p)) \/ UNCHANGED vars => Passive
  BY DEF EditPolicy, Passive, vars, records, tables
<1> QED
  BY <1>2, <1>3, <1>4, <1>5, PassiveKeeps DEF Next

LEMMA GatedAlways == Spec => [](TypeInv /\ GatedInv)
<1>1. Init => TypeInv /\ GatedInv
  BY TypeInit, GatedInit
<1>2. TypeInv /\ GatedInv /\ [Next]_vars => (TypeInv /\ GatedInv)'
  BY TypeStep, GatedStep DEF GatedStays
<1> QED
  BY <1>1, <1>2, PTL DEF Spec

(* The approval a client polls and the row that issues never contradict    *)
(* each other, for a key every policy gates.                               *)
THEOREM ApprovalAlwaysMatches == Spec => []ApprovalMatchesStatus
<1>1. TypeInv /\ GatedInv => ApprovalMatchesStatus
  BY DEF GatedInv
<1> QED
  BY <1>1, GatedAlways, PTL

-----------------------------------------------------------------------------
(* One history per gated key: what receipts it has by now depends on the   *)
(* status of its row, and of each kind that must happen once, on one only. *)

Past(status) ==
    CASE status = "absent" -> {}
      [] status = "pending_approval" -> {"approval_pending"}
      [] status = "approved_ready" -> {"approval_pending", "approval_approved"}
      [] status = "denied" -> {"approval_pending", "approval_denied"}
      [] status = "issuing" -> {"approval_pending", "approval_approved", "issuing_credentials"}
      [] status = "allowed" -> {"approval_pending", "approval_approved", "issuing_credentials",
                                "issued_credentials"}

OnceOnly == {{"approval_pending"}, {"approval_approved", "approval_denied"},
             {"issuing_credentials"}}

HistoryOK ==
    \A k \in GatedKeys :
        /\ \A id \in Stored(receipts) : id.key = k => id.outcome \in Past(idem[k].status)
        /\ \A kinds \in OnceOnly : \A i, j \in Made(k, kinds) : i = j

(* A step writes a receipt of a kind only at its place in the history.     *)
InOrder(from, outcome, to) ==
    \/ from = "absent" /\ outcome = "approval_pending" /\ to = "pending_approval"
    \/ from = "pending_approval" /\ outcome = "approval_approved" /\ to = "approved_ready"
    \/ from = "pending_approval" /\ outcome = "approval_denied" /\ to = "denied"
    \/ from = "approved_ready" /\ outcome = "issuing_credentials" /\ to = "issuing"
    \/ from \in {"issuing", "allowed"} /\ outcome = "issued_credentials" /\ to = "allowed"

LEMMA InOrderIsNew ==
    ASSUME NEW from, NEW outcome, NEW to, InOrder(from, outcome, to)
    PROVE  /\ Past(from) \cup {outcome} \subseteq Past(to)
           /\ \A kinds \in OnceOnly : outcome \in kinds => kinds \cap Past(from) = {}
BY DEF InOrder, Past, OnceOnly

LEMMA WriteKeepsHistory ==
    ASSUME HistoryOK, TypeOK, NEW k \in Keys, NEW id, NEW prev, NEW row,
           receipts' = PutReceipt(receipts, Row(id, prev)),
           idem' = [idem EXCEPT ![k] = row],
           id.key = k,
           k \in GatedKeys => InOrder(idem[k].status, id.outcome, row.status)
    PROVE  HistoryOK'
<1>1. Stored(receipts)' = Stored(receipts) \cup {id}
  BY PutReceiptStores DEF Row, Stored
<1>2. idem'[k] = row /\ \A c \in Keys \ {k} : idem'[c] = idem[c]
  BY DEF TypeOK
<1> SUFFICES ASSUME NEW c \in GatedKeys
             PROVE  /\ \A i \in Stored(receipts)' : i.key = c => i.outcome \in Past(idem'[c].status)
                    /\ \A kinds \in OnceOnly : \A i, j \in Made(c, kinds)' : i = j
  BY DEF HistoryOK, GatedKeys
<1>3. c \in Keys
  BY DEF GatedKeys
<1>4. /\ \A i \in Stored(receipts) : i.key = c => i.outcome \in Past(idem[c].status)
      /\ \A kinds \in OnceOnly : \A i, j \in Made(c, kinds) : i = j
  BY DEF HistoryOK
<1>5. CASE c # k
  <2>1. \A kinds : Made(c, kinds)' = Made(c, kinds)
    BY <1>1, <1>5 DEF Made
  <2> QED
    BY <1>1, <1>2, <1>3, <1>4, <1>5, <2>1
<1>6. CASE c = k
  <2>1. /\ Past(idem[k].status) \cup {id.outcome} \subseteq Past(row.status)
        /\ \A kinds \in OnceOnly : id.outcome \in kinds => kinds \cap Past(idem[k].status) = {}
    BY <1>6, InOrderIsNew
  <2>2. \A i \in Stored(receipts)' : i.key = c => i.outcome \in Past(idem'[c].status)
    BY <1>1, <1>2, <1>4, <1>6, <2>1
  <2>3. ASSUME NEW kinds \in OnceOnly, NEW i \in Made(c, kinds)', NEW j \in Made(c, kinds)'
        PROVE  i = j
    <3>1. CASE id.outcome \in kinds
      <4>1. Made(c, kinds)' \subseteq {id}
        BY <1>1, <1>4, <1>6, <2>1, <3>1 DEF Made
      <4> QED
        BY <4>1
    <3>2. CASE id.outcome \notin kinds
      <4>1. Made(c, kinds)' = Made(c, kinds)
        BY <1>1, <3>2 DEF Made
      <4> QED
        BY <1>4, <4>1
    <3> QED
      BY <3>1, <3>2
  <2> QED
    BY <2>2, <2>3
<1> QED
  BY <1>5, <1>6

LEMMA HistoryInit == Init => HistoryOK
BY DEF Init, HistoryOK, Stored, Made

LEMMA UnchangedKeepsHistory == ASSUME HistoryOK, UNCHANGED <<idem, receipts>> PROVE HistoryOK'
BY DEF HistoryOK, Stored, Made, GatedKeys

-----------------------------------------------------------------------------
(* What the transactions do to the row and the receipts of a gated key.    *)
Writes(k, to) ==
    \E id, prev, row :
        /\ receipts' = PutReceipt(receipts, Row(id, prev))
        /\ idem' = [idem EXCEPT ![k] = row]
        /\ id.key = k /\ row.status = to
        /\ k \in GatedKeys => InOrder(idem[k].status, id.outcome, to)

LEMMA WritesKeepsHistory ==
    ASSUME HistoryOK, TypeOK, NEW k \in Keys, NEW to, Writes(k, to)
    PROVE  HistoryOK'
BY WriteKeepsHistory DEF Writes

LEMMA FirstCommitWrites ==
    ASSUME TypeInv, GatedInv, NEW r \in Requests, FirstCommit(r)
    PROVE  /\ \E to : Writes(KeyOf[r], to)
           /\ KeyOf[r] \in GatedKeys => /\ Writes(KeyOf[r], "pending_approval")
                                        /\ idem[KeyOf[r]].status = "absent"
<1> DEFINE k == KeyOf[r]
           p == work[r].policy
           verdict == VerdictOf[p][k]
           Base(a) == BaseReceipt(k, work[r].at, p, a)
<1>1. /\ k \in Keys /\ p \in Policies /\ work[r].at \in Stamps
  BY KeyOfAssumption DEF TypeInv, WorkOK, FirstCommit, Working
<1>2. PICK a \in ApprovalIds \cup {Null} :
        /\ DrawsApproval(a, k, verdict)
        /\ receipts' = PutReceipt(receipts, Row(Base(a), Null))
        /\ idem' = [idem EXCEPT ![k] = FirstRow(Base(a), verdict, a)]
  BY DEF FirstCommit
<1>3. Base(a).key = k /\ Base(a).outcome = OutcomeFor(verdict)
  BY <1>1, BaseReceiptType
<1>4. FirstRow(Base(a), verdict, a).status = InitialStatus(verdict)
  BY DEF FirstRow
<1>5. ASSUME k \in GatedKeys
      PROVE  /\ idem[k].status = "absent"
             /\ OutcomeFor(verdict) = "approval_pending"
             /\ InitialStatus(verdict) = "pending_approval"
  <2>1. verdict = "require_approval"
    BY <1>1, <1>5 DEF GatedKeys
  <2>2. \A b \in ApprovalIds : ~IsFor(b, k)
    BY <1>2, <2>1 DEF DrawsApproval, MayInsertApproval, IsFor
  <2> QED
    BY <1>5, <2>1, <2>2 DEF GatedInv, Linked, IsFor, OutcomeFor, InitialStatus
<1> QED
  BY <1>2, <1>3, <1>4, <1>5 DEF Writes, InOrder

LEMMA ReadyCommitWrites ==
    ASSUME TypeInv, Safe, NEW r \in Requests, ReadyCommit(r)
    PROVE  Writes(KeyOf[r], "issuing") /\ idem[KeyOf[r]].status = "approved_ready"
<1> DEFINE k == KeyOf[r]
           prev == work[r].receipt
           issuing == NextReceipt(prev, work[r].at, "issuing_credentials", Null)
           row == IssuingRow(idem[k], issuing)
<1>1. /\ idem[k] \in IdemRow /\ idem[k].status = "approved_ready"
      /\ WriteIssuing(r, idem[k]) /\ pc[r] = "ready"
  BY ReadyCommitReads DEF TypeInv, ReadyCommit
<1>2. prev \in ReceiptId /\ work[r].at \in Stamps
  BY <1>1 DEF TypeInv, WorkOK, Working, Holding
<1>3. prev.key = k
  BY <1>1 DEF Safe, HeldOK
<1>4. issuing.key = k /\ issuing.outcome = "issuing_credentials"
  BY <1>2, <1>3, NextReceiptType DEF OutcomeStatus
<1>5. row.status = "issuing"
  BY <1>1 DEF IssuingRow, IdemRow
<1>6. /\ receipts' = PutReceipt(receipts, Row(issuing, prev))
      /\ idem' = [idem EXCEPT ![k] = row]
  BY <1>1 DEF WriteIssuing
<1> QED
  BY <1>1, <1>4, <1>5, <1>6 DEF Writes, InOrder

LEMMA FinalCommitWrites ==
    ASSUME TypeInv, Safe, GatedInv, NEW r \in Requests, FinalCommit(r)
    PROVE  /\ Writes(KeyOf[r], "allowed")
           /\ work[r].receipt \in minted /\ work[r].receipt.key = KeyOf[r]
           /\ KeyOf[r] \in GatedKeys => idem[KeyOf[r]].status \in {"issuing", "allowed"}
<1> DEFINE k == KeyOf[r]
           prev == work[r].receipt
           issued == NextReceipt(prev, work[r].at, "issued_credentials", Null)
           row == AllowedRow(idem[k], issued)
<1>1. idem[k] \in IdemRow /\ WriteIssued(r, idem[k]) /\ pc[r] = "final"
  BY FinalCommitReads DEF TypeInv, FinalCommit
<1>2. prev \in ReceiptId /\ work[r].at \in Stamps
  BY <1>1 DEF TypeInv, WorkOK, Working, Holding
<1>3. prev \in minted /\ prev.key = k
  BY <1>1 DEF Safe, HeldOK
<1>4. issued.key = k /\ issued.outcome = "issued_credentials"
  BY <1>2, <1>3, NextReceiptType DEF OutcomeStatus
<1>5. row.status = "allowed"
  BY <1>1 DEF AllowedRow, IdemRow
<1>6. /\ receipts' = PutReceipt(receipts, Row(issued, prev))
      /\ idem' = [idem EXCEPT ![k] = row]
  BY <1>1 DEF WriteIssued
<1>7. k \in GatedKeys => idem[k].status \in {"issuing", "allowed"}
  BY <1>1 DEF GatedInv, Opened
<1> QED
  BY <1>3, <1>4, <1>5, <1>6, <1>7 DEF Writes, InOrder

LEMMA ApproveWrites ==
    ASSUME TypeInv, Safe, GatedInv, NEW a \in ApprovalIds, NEW d \in Decisions,
           NEW t \in Stamps, Approve(a, d, t)
    PROVE  /\ approvals[a].key \in Keys
           /\ \E to \in {"approved_ready", "denied"} : Writes(approvals[a].key, to)
           /\ approvals[a].key \in GatedKeys => idem[approvals[a].key].status = "pending_approval"
<1> DEFINE k == approvals[a].key
           prev == idem[k].latest
           outcome == IF d = "approved" THEN "approval_approved" ELSE "approval_denied"
           id == NextReceipt(prev, t, outcome, a)
           row == DecidedRow(idem[k], id, d)
           to == IF d = "approved" THEN "approved_ready" ELSE "denied"
<1>1. /\ approvals[a].status = "pending" /\ k \in Keys /\ idem[k] \in IdemRow
      /\ WriteDecision(a, approvals[a], idem[k], d, t)
  BY ApproveReads DEF TypeInv
<1>2. prev \in Stored(receipts) /\ prev \in ReceiptId
  BY <1>1, StoredType DEF WriteDecision, TypeInv, TypeOK
<1>3. prev.key = k
  BY <1>1, <1>2, LatestIsOfKey DEF TypeInv, Safe
<1>4. id.key = k /\ id.outcome = outcome
  <2>1. outcome \in OutcomeStatus /\ a \in ApprovalIds \cup {Null}
    BY DEF OutcomeStatus
  <2> HIDE DEF outcome
  <2> QED
    BY <1>2, <1>3, <2>1, NextReceiptType
<1>5. row.status = to
  BY <1>1 DEF DecidedRow, IdemRow
<1>6. /\ receipts' = PutReceipt(receipts, Row(id, prev))
      /\ idem' = [idem EXCEPT ![k] = row]
  BY <1>1 DEF WriteDecision
<1>7. k \in GatedKeys => idem[k].status = "pending_approval"
  BY <1>1 DEF GatedInv, ApprovalMatchesStatus, Expected
<1>8. k \in GatedKeys => InOrder(idem[k].status, outcome, to)
  BY <1>7 DEF InOrder
<1>9. Writes(k, to) /\ to \in {"approved_ready", "denied"}
  <2> HIDE DEF row, id, prev
  <2> QED
    BY <1>4, <1>5, <1>6, <1>8 DEF Writes
<1> QED
  BY <1>1, <1>7, <1>9

LEMMA HistoryStep == TypeInv /\ Safe /\ GatedInv /\ HistoryOK /\ [Next]_vars => HistoryOK'
<1> SUFFICES ASSUME TypeInv, Safe, GatedInv, HistoryOK, [Next]_vars PROVE HistoryOK'
  OBVIOUS
<1>1. TypeOK
  BY DEF TypeInv
<1>2. ASSUME NEW r \in Requests, Call(r) PROVE HistoryOK'
  <2>1. KeyOf[r] \in Keys
    BY KeyOfAssumption
  <2>2. CASE FirstCommit(r)
    BY <1>1, <2>1, <2>2, FirstCommitWrites, WritesKeepsHistory
  <2>3. CASE ReadyCommit(r)
    BY <1>1, <2>1, <2>3, ReadyCommitWrites, WritesKeepsHistory
  <2>4. CASE FinalCommit(r)
    BY <1>1, <2>1, <2>4, FinalCommitWrites, WritesKeepsHistory
  <2>5. CASE LocalStep(r)
    BY <2>5, LocalStepKeepsTables, UnchangedKeepsHistory DEF tables
  <2> QED
    BY <1>2, <2>2, <2>3, <2>4, <2>5, CallSplit
<1>3. CASE Click
  BY <1>1, <1>3, ApproveWrites, WritesKeepsHistory DEF Click
<1>4. (\E p \in Policies : EditPolicy(p)) \/ Restart \/ UNCHANGED vars => UNCHANGED <<idem, receipts>>
  BY DEF EditPolicy, Restart, vars, tables
<1> QED
  BY <1>2, <1>3, <1>4, UnchangedKeepsHistory DEF Next

LEMMA HistoryAlways == Spec => [](TypeInv /\ Safe /\ GatedInv /\ HistoryOK)
<1>1. Init => TypeInv /\ Safe /\ GatedInv /\ HistoryOK
  BY TypeInit, SafeInit, GatedInit, HistoryInit
<1>2. TypeInv /\ Safe /\ GatedInv /\ HistoryOK /\ [Next]_vars
        => (TypeInv /\ Safe /\ GatedInv /\ HistoryOK)'
  BY TypeStep, SafeStep, GatedStep, HistoryStep DEF GatedStays
<1> QED
  BY <1>1, <1>2, PTL DEF Spec

LEMMA AtMostOne ==
    ASSUME NEW S, \A i, j \in S : i = j
    PROVE  Cardinality(S) <= 1
<1>1. CASE S = {}
  BY <1>1, FS_EmptySet
<1>2. CASE S # {}
  <2>1. PICK x : S = {x}
    BY <1>2
  <2> QED
    BY <2>1, FS_Singleton
<1> QED
  BY <1>1, <1>2

(* One approval opens one issuance: of a key every policy gates there is   *)
(* never more than one pending receipt, one decision and one issuance.     *)
THEOREM AlwaysSingleIssuance == Spec => []SingleIssuance
<1>1. HistoryOK => SingleIssuance
  BY AtMostOne DEF HistoryOK, OnceOnly, SingleIssuance
<1> QED
  BY <1>1, HistoryAlways, PTL

-----------------------------------------------------------------------------
(* The refinement: a write of a gated key's row is a move of its phase, a  *)
(* call of the broker a grant, and everything else a stutter.              *)

PhaseStep == [Lifecycle!Next]_<<phase, granted>>

LEMMA WritesMoves ==
    ASSUME TypeOK, NEW k \in Keys, NEW to, Writes(k, to), minted' = minted
    PROVE  /\ k \in GatedKeys => Lifecycle!Move(k, idem[k].status, to)
           /\ k \notin GatedKeys => UNCHANGED <<phase, granted>>
<1>1. granted' = granted
  BY DEF granted, GatedKeys
<1>2. PICK row : idem' = [idem EXCEPT ![k] = row] /\ row.status = to
  BY DEF Writes
<1>3. idem'[k].status = to /\ \A c \in Keys \ {k} : idem'[c] = idem[c]
  BY <1>2 DEF TypeOK
<1>4. phase' = [c \in GatedKeys |-> idem'[c].status]
  BY DEF phase, GatedKeys
<1>5. GatedKeys \subseteq Keys
  BY DEF GatedKeys
<1>6. ASSUME k \in GatedKeys PROVE Lifecycle!Move(k, idem[k].status, to)
  <2>1. phase[k] = idem[k].status
    BY <1>6 DEF phase
  <2>2. phase' = [phase EXCEPT ![k] = to]
    BY <1>3, <1>4, <1>5, <1>6 DEF phase
  <2> QED
    BY <1>1, <2>1, <2>2 DEF Lifecycle!Move
<1>7. ASSUME k \notin GatedKeys PROVE phase' = phase
  BY <1>3, <1>4, <1>5, <1>7 DEF phase
<1> QED
  BY <1>1, <1>6, <1>7

LEMMA UnchangedIsStutter == ASSUME UNCHANGED <<idem, minted>> PROVE PhaseStep
BY DEF PhaseStep, phase, granted, GatedKeys

LEMMA FirstCommitAsks ==
    ASSUME TypeInv, GatedInv, NEW r \in Requests, FirstCommit(r)
    PROVE  PhaseStep
<1>1. TypeOK /\ KeyOf[r] \in Keys /\ minted' = minted
  BY KeyOfAssumption DEF TypeInv, FirstCommit
<1>2. CASE KeyOf[r] \in GatedKeys
  <2>1. idem[KeyOf[r]].status = "absent"
    BY <1>1, <1>2, FirstCommitWrites
  <2>2. Lifecycle!Move(KeyOf[r], "absent", "pending_approval")
    BY <1>1, <1>2, <2>1, FirstCommitWrites, WritesMoves
  <2> QED
    BY <1>2, <2>2 DEF PhaseStep, Lifecycle!Next, Lifecycle!Ask
<1>3. CASE KeyOf[r] \notin GatedKeys
  BY <1>1, <1>3, FirstCommitWrites, WritesMoves DEF PhaseStep
<1> QED
  BY <1>2, <1>3

LEMMA ReadyCommitIssues ==
    ASSUME TypeInv, Safe, NEW r \in Requests, ReadyCommit(r)
    PROVE  PhaseStep
<1>1. TypeOK /\ KeyOf[r] \in Keys /\ minted' = minted
  BY KeyOfAssumption DEF TypeInv, ReadyCommit, WriteIssuing
<1>2. CASE KeyOf[r] \in GatedKeys
  <2>1. Lifecycle!Move(KeyOf[r], "approved_ready", "issuing")
    BY <1>1, <1>2, ReadyCommitWrites, WritesMoves
  <2> QED
    BY <1>2, <2>1 DEF PhaseStep, Lifecycle!Next, Lifecycle!Issue
<1>3. CASE KeyOf[r] \notin GatedKeys
  BY <1>1, <1>3, ReadyCommitWrites, WritesMoves DEF PhaseStep
<1> QED
  BY <1>2, <1>3

(* The second of two attempts at one issuance records it again.            *)
LEMMA FinalCommitRecords ==
    ASSUME TypeInv, Safe, GatedInv, NEW r \in Requests, FinalCommit(r)
    PROVE  PhaseStep
<1> DEFINE k == KeyOf[r]
<1>1. TypeOK /\ k \in Keys /\ minted' = minted
  BY KeyOfAssumption DEF TypeInv, FinalCommit, WriteIssued
<1>2. CASE k \in GatedKeys
  <2>1. Lifecycle!Move(k, idem[k].status, "allowed")
    BY <1>1, <1>2, FinalCommitWrites, WritesMoves
  <2>2. k \in granted
    BY <1>2, FinalCommitWrites DEF granted
  <2>3. CASE idem[k].status = "issuing"
    BY <1>2, <2>1, <2>2, <2>3 DEF PhaseStep, Lifecycle!Next, Lifecycle!Record
  <2>4. CASE idem[k].status = "allowed"
    <3>1. phase' = phase /\ granted' = granted
      BY <1>2, <2>1, <2>4 DEF Lifecycle!Move, phase
    <3> QED
      BY <3>1 DEF PhaseStep
  <2> QED
    BY <1>2, <2>3, <2>4, FinalCommitWrites
<1>3. CASE k \notin GatedKeys
  BY <1>1, <1>3, FinalCommitWrites, WritesMoves DEF PhaseStep
<1> QED
  BY <1>2, <1>3

LEMMA ApproveDecides ==
    ASSUME TypeInv, Safe, GatedInv, NEW a \in ApprovalIds, NEW d \in Decisions,
           NEW t \in Stamps, Approve(a, d, t)
    PROVE  PhaseStep
<1> DEFINE k == approvals[a].key
<1>1. TypeOK /\ minted' = minted
  BY DEF TypeInv, Approve, WriteDecision
<1>2. PICK to \in {"approved_ready", "denied"} : Writes(k, to)
  BY ApproveWrites
<1>3. k \in Keys /\ (k \in GatedKeys => idem[k].status = "pending_approval")
  BY ApproveWrites
<1>4. CASE k \in GatedKeys
  <2>1. Lifecycle!Move(k, "pending_approval", to)
    BY <1>1, <1>2, <1>3, <1>4, WritesMoves
  <2> QED
    BY <1>4, <2>1 DEF PhaseStep, Lifecycle!Next, Lifecycle!Decide
<1>5. CASE k \notin GatedKeys
  BY <1>1, <1>2, <1>3, <1>5, WritesMoves DEF PhaseStep
<1> QED
  BY <1>4, <1>5

LEMMA MintGrants ==
    ASSUME TypeInv, Safe, GatedInv, NEW r \in Requests, Mint(r)
    PROVE  PhaseStep
<1> DEFINE k == KeyOf[r]
<1>1. /\ pc[r] = "mint" /\ idem' = idem
      /\ minted' = minted \cup {work[r].receipt}
  BY DEF Mint, Goto, tables
<1>2. work[r].receipt.key = k
  BY <1>1 DEF Safe, HeldOK
<1>3. phase' = phase
  BY <1>1 DEF phase, GatedKeys
<1>4. granted' = IF k \in GatedKeys THEN granted \cup {k} ELSE granted
  BY <1>1, <1>2 DEF granted, GatedKeys
<1>5. CASE k \in GatedKeys
  <2>1. phase[k] \in {"issuing", "allowed"}
    BY <1>1, <1>5 DEF GatedInv, Opened, phase
  <2> QED
    BY <1>3, <1>4, <1>5, <2>1 DEF PhaseStep, Lifecycle!Next, Lifecycle!Grant
<1>6. CASE k \notin GatedKeys
  BY <1>3, <1>4, <1>6 DEF PhaseStep
<1> QED
  BY <1>5, <1>6

LEMMA OtherStepsGrantNothing ==
    ASSUME NEW r, LocalStep(r), ~Mint(r)
    PROVE  minted' = minted
BY DEF LocalStep, Start, LookupNone, LookupExisting, LookupReady, LookupIssuing, Evaluate,
       EvaluateFail, FirstFail, Reread, StartInline, FinishInline, ReadyLost, MintFail,
       StorageFault

LEMMA LifecycleInit == Init => Lifecycle!Init
<1> SUFFICES ASSUME Init PROVE Lifecycle!Init
  OBVIOUS
<1>1. phase = [k \in GatedKeys |-> "absent"]
  BY DEF Init, phase, NoIdem, GatedKeys
<1>2. granted = {}
  BY DEF Init, granted
<1> QED
  BY <1>1, <1>2 DEF Lifecycle!Init

LEMMA LifecycleStep == TypeInv /\ Safe /\ GatedInv /\ [Next]_vars => PhaseStep
<1> SUFFICES ASSUME TypeInv, Safe, GatedInv, [Next]_vars PROVE PhaseStep
  OBVIOUS
<1>1. ASSUME NEW r \in Requests, LocalStep(r) PROVE PhaseStep
  <2>1. CASE Mint(r)
    BY <2>1, MintGrants
  <2>2. CASE ~Mint(r)
    BY <1>1, <2>2, LocalStepKeepsTables, OtherStepsGrantNothing, UnchangedIsStutter DEF tables
  <2> QED
    BY <2>1, <2>2
<1>2. CASE \E r \in Requests : Call(r)
  BY <1>1, <1>2, CallSplit, FirstCommitAsks, ReadyCommitIssues, FinalCommitRecords
<1>3. CASE Click
  BY <1>3, ApproveDecides DEF Click
<1>4. (\E p \in Policies : EditPolicy(p)) \/ Restart \/ UNCHANGED vars => UNCHANGED <<idem, minted>>
  BY DEF EditPolicy, Restart, vars, tables
<1> QED
  BY <1>2, <1>3, <1>4, UnchangedIsStutter DEF Next

(* The service implements the lifecycle: a key every policy gates is asked *)
(* for once, decided once, issued once, and granted only in between, for   *)
(* any number of calls, clicks, edits, faults and restarts.                *)
THEOREM ImplementsLifecycle == Spec => LifecycleSpec
<1>1. Init => Lifecycle!Init
  BY LifecycleInit
<1>2. TypeInv /\ Safe /\ GatedInv /\ [Next]_vars => [Lifecycle!Next]_<<phase, granted>>
  BY LifecycleStep DEF PhaseStep
<1> QED
  BY <1>1, <1>2, HistoryAlways, PTL DEF Spec, LifecycleSpec, Lifecycle!Spec

-----------------------------------------------------------------------------
(* A property of the lifecycle alone, which the service inherits.          *)
GrantedWhenOpened == \A k \in granted : phase[k] \in {"issuing", "allowed"}

LEMMA GrantedStep == GrantedWhenOpened /\ [Lifecycle!Next]_<<phase, granted>> => GrantedWhenOpened'
<1> SUFFICES ASSUME GrantedWhenOpened, [Lifecycle!Next]_<<phase, granted>>
             PROVE  GrantedWhenOpened'
  OBVIOUS
<1>1. granted \subseteq GatedKeys /\ DOMAIN phase = GatedKeys
  BY DEF granted, phase
<1>2. ASSUME NEW k \in GatedKeys, NEW from, NEW to, Lifecycle!Move(k, from, to),
             from = "issuing" => to = "allowed", from # "allowed"
      PROVE  GrantedWhenOpened'
  BY <1>1, <1>2 DEF GrantedWhenOpened, Lifecycle!Move
<1>3. ASSUME NEW k \in GatedKeys,
             \/ Lifecycle!Ask(k) \/ Lifecycle!Decide(k) \/ Lifecycle!Issue(k)
             \/ Lifecycle!Record(k)
      PROVE  GrantedWhenOpened'
  BY <1>2, <1>3 DEF Lifecycle!Ask, Lifecycle!Decide, Lifecycle!Issue, Lifecycle!Record
<1>4. ASSUME NEW k \in GatedKeys, Lifecycle!Grant(k) PROVE GrantedWhenOpened'
  BY <1>4 DEF GrantedWhenOpened, Lifecycle!Grant
<1>5. CASE UNCHANGED <<phase, granted>>
  BY <1>5 DEF GrantedWhenOpened
<1> QED
  BY <1>3, <1>4, <1>5 DEF Lifecycle!Next

(* A denial is for good: what the lifecycle says of a denied key holds of  *)
(* the service, whose broker is never called for one.                      *)
THEOREM DeniedAlwaysGetsNothing == Spec => []DeniedGetsNothing
<1>1. Lifecycle!Init => GrantedWhenOpened
  BY DEF Lifecycle!Init, GrantedWhenOpened
<1>2. GrantedWhenOpened => DeniedGetsNothing
  BY DEF GrantedWhenOpened, DeniedGetsNothing, Lifecycle!DeniedGetsNothing
<1>3. LifecycleSpec => []DeniedGetsNothing
  BY <1>1, <1>2, GrantedStep, PTL DEF LifecycleSpec, Lifecycle!Spec
<1> QED
  BY <1>3, ImplementsLifecycle, PTL

-----------------------------------------------------------------------------
(* The jobs of AuthorizeClient: what is proved of the service holds under  *)
(* them, and a job that polled an approval of a gated key is let through.  *)

LEMMA JobStepIsServiceStep == JobsNext => [Next]_vars
<1> SUFFICES ASSUME JobsNext PROVE [Next]_vars
  OBVIOUS
<1>1. CASE \E r \in Requests : Job(r) \/ HangUp(r)
  BY <1>1 DEF Job, HangUp, Post, Poll, Next, Call
<1>2. CASE (Background \/ \E r \in Requests : Serve(r)) /\ UNCHANGED stage
  BY <1>2 DEF Background, Serve, Next
<1> QED
  BY <1>1, <1>2 DEF JobsNext

(* The jobs only restrict when a call starts: whatever they do is a        *)
(* behaviour of the service, so what holds of it holds under them.         *)
THEOREM JobsImplementService == JobsSpec => Spec
<1>1. JobsInit => Init
  BY DEF JobsInit
<1>2. [JobsNext]_jobVars => [Next]_vars
  BY JobStepIsServiceStep DEF jobVars, vars, records
<1> QED
  BY <1>1, <1>2, PTL DEF JobsSpec, Spec

-----------------------------------------------------------------------------
(* The inductive invariant.                                                *)

Stage == stage \in [Requests -> Stages]

(* An answer that asks for approval, and a call about to give one, name an *)
(* approval of the caller's key.                                           *)
Named ==
    \A r \in Requests : KeyOf[r] \in GatedKeys =>
        /\ resp[r].verdict = "require_approval" => IsFor(resp[r].approval, KeyOf[r])
        /\ pc[r] \in {"posting", "inline"} => IsFor(work[r].receipt.approval, KeyOf[r])

(* Where a call is that has found no row.                                  *)
Missed == {"evaluate", "first", "reread"}

(* What a cleared job may be told: a denial only in error.                 *)
Settled(answer) ==
    /\ answer.verdict # "require_approval"
    /\ answer.verdict = "deny" => ReadFaults /\ answer.error = "unsupported"

(* A job that polled an approval finds a row that was approved, and its    *)
(* second post takes the path of one, unless it failed to read it.         *)
Cleared ==
    \A r \in Requests : KeyOf[r] \in GatedKeys =>
        /\ stage[r] \in {"cleared", "resumed"} => idem[KeyOf[r]].status \in Passed
        /\ stage[r] = "resumed" =>
            /\ pc[r] \notin {"posting", "inline"}
            /\ pc[r] \in Missed => ReadFaults
            /\ pc[r] = "done" => Settled(resp[r])

JobsInv == Stage /\ Named /\ Cleared

LEMMA JobsInvInit == JobsInit => JobsInv
BY KeyOfAssumption DEF JobsInit, Init, JobsInv, Stage, Stages, Named, Cleared, Missed, NoAnswer, Answer, Steps

-----------------------------------------------------------------------------
(* What a step of a call leaves.                                           *)

WillBeFor(a, k) == a \in ApprovalIds /\ approvals'[a].status # "absent" /\ approvals'[a].key = k

(* An answer names an approval of the caller's key, and is neither a       *)
(* request for approval nor, but in error, a denial if the row was         *)
(* approved.                                                               *)
Fair(r, answer) ==
    /\ answer.verdict = "require_approval" => WillBeFor(answer.approval, KeyOf[r])
    /\ idem[KeyOf[r]].status \in Passed /\ pc[r] \notin {"posting", "inline"} =>
            /\ answer.verdict # "require_approval"
            /\ answer.verdict = "deny" => pc[r] = "reread" /\ answer.error = "unsupported"

CallStep(r) ==
    /\ \A q \in Requests \ {r} : pc'[q] = pc[q] /\ work'[q] = work[q] /\ resp'[q] = resp[q]
    /\ KeyOf[r] \in GatedKeys =>
        /\ resp'[r] = resp[r] \/ Fair(r, resp'[r])
        /\ pc'[r] = "done" => Fair(r, resp'[r])
        /\ pc'[r] \in {"posting", "inline"} =>
            /\ WillBeFor(work'[r].receipt.approval, KeyOf[r])
            /\ idem[KeyOf[r]].status \in Passed => pc[r] \in {"posting", "inline"}
        /\ pc'[r] \in Missed => \/ pc[r] \in Missed
                               \/ idem[KeyOf[r]].status = "absent" \/ ReadFaults

LEMMA RespondStep ==
    ASSUME TypeOK, NEW r \in Requests, NEW from, NEW answer, Respond(r, from, answer),
           KeyOf[r] \in GatedKeys => Fair(r, answer)
    PROVE  CallStep(r)
BY DEF TypeOK, Respond, Goto, CallStep, Missed

LEMMA GotoStep ==
    ASSUME TypeOK, NEW r \in Requests, NEW from, NEW to, Goto(r, from, to),
           to \notin {"posting", "inline", "done"}, NEW w, work' = [work EXCEPT ![r] = w],
           resp' = resp,
           to \in Missed => from \in Missed \/ idem[KeyOf[r]].status = "absent" \/ ReadFaults
    PROVE  CallStep(r)
BY DEF TypeOK, Goto, CallStep

LEMMA BareFair ==
    ASSUME NEW r
    PROVE  /\ Fair(r, NoAnswer)
           /\ \A why : Fair(r, Error(why))
BY DEF Fair, NoAnswer, Error, Answer

LEMMA HandleExistingFair ==
    ASSUME TypeOK, GatedInv, ApprovalsStay, NEW r \in Requests, KeyOf[r] \in GatedKeys,
           idem[KeyOf[r]].status # "absent",
           pc[r] # "reread" => idem[KeyOf[r]].status \in {"allowed", "denied", "pending_approval"}
    PROVE  Fair(r, HandleExisting(idem[KeyOf[r]]))
<1> DEFINE k == KeyOf[r]
<1>1. k \in Keys /\ idem[k] \in IdemRow
  BY DEF TypeOK, NoIdem, GatedKeys
<1>2. WillBeFor(idem[k].approval, k)
  BY <1>1 DEF GatedInv, Linked, IsFor, ApprovalsStay, WillBeFor
<1> QED
  BY <1>1, <1>2 DEF Fair, HandleExisting, Answer, Error, Passed

-----------------------------------------------------------------------------
(* Every step of a call is one.                                            *)

LEMMA StartStep == ASSUME TypeOK, NEW r \in Requests, Start(r) PROVE CallStep(r)
BY BareFair DEF TypeOK, Start, Goto, CallStep, Missed

LEMMA MoveSteps ==
    ASSUME TypeOK, NEW r \in Requests,
           LookupNone(r) \/ Evaluate(r) \/ FirstFail(r) \/ ReadyCommit(r) \/ Mint(r)
    PROVE  CallStep(r)
<1>1. work \in [Requests -> Work]
  BY DEF TypeOK
<1>2. CASE LookupNone(r) \/ FirstFail(r) \/ Mint(r)
  <2>1. resp' = resp /\ work' = [work EXCEPT ![r] = work[r]]
    BY <1>1, <1>2 DEF LookupNone, FirstFail, Mint
  <2>2. CASE LookupNone(r)
    <3>1. Goto(r, "lookup", "evaluate") /\ (idem[KeyOf[r]].status = "absent" \/ ReadFaults)
      BY <2>2 DEF LookupNone
    <3> QED
      BY <2>1, <3>1, GotoStep
  <2>3. CASE FirstFail(r)
    BY <2>1, <2>3, GotoStep DEF FirstFail, Missed
  <2>4. CASE Mint(r)
    BY <2>1, <2>4, GotoStep DEF Mint, Missed
  <2> QED
    BY <1>2, <2>2, <2>3, <2>4
<1>3. CASE Evaluate(r)
  <2>1. PICK w : /\ Goto(r, "evaluate", "first") /\ resp' = resp
                 /\ work' = [work EXCEPT ![r] = w]
    BY <1>3 DEF Evaluate
  <2> QED
    BY <2>1, GotoStep DEF Missed
<1>4. CASE ReadyCommit(r)
  <2>1. Goto(r, "ready", "mint") /\ resp' = resp
    BY <1>4 DEF ReadyCommit, WriteIssuing
  <2>2. PICK w : work' = [work EXCEPT ![r] = w]
    BY <1>4 DEF ReadyCommit, WriteIssuing
  <2> QED
    <3>1. "mint" \notin Missed \cup {"posting", "inline", "done"}
      BY DEF Missed
    <3> QED
      BY <2>1, <2>2, <3>1, GotoStep
<1> QED
  BY <1>2, <1>3, <1>4

LEMMA ErrorSteps ==
    ASSUME TypeOK, NEW r \in Requests,
           EvaluateFail(r) \/ ReadyLost(r) \/ MintFail(r) \/ StorageFault(r)
    PROVE  CallStep(r)
<1>1. PICK from, why : Respond(r, from, Error(why))
  BY DEF EvaluateFail, ReadyLost, MintFail, StorageFault
<1> QED
  BY <1>1, BareFair, RespondStep

LEMMA ResumeSteps ==
    ASSUME TypeOK, NEW r \in Requests, LookupReady(r) \/ LookupIssuing(r)
    PROVE  CallStep(r)
<1>1. CASE \E why : Respond(r, "lookup", Error(why))
  BY <1>1, BareFair, RespondStep
<1>2. CASE ~\E why : Respond(r, "lookup", Error(why))
  <2>1. PICK to, w : /\ Goto(r, "lookup", to) /\ to \in {"ready", "mint"}
                     /\ work' = [work EXCEPT ![r] = w] /\ resp' = resp
    BY <1>2 DEF LookupReady, LookupIssuing
  <2> QED
    BY <2>1, GotoStep DEF Missed
<1> QED
  BY <1>1, <1>2

LEMMA ExistingSteps ==
    ASSUME TypeOK, GatedInv, ApprovalsStay, NEW r \in Requests, LookupExisting(r) \/ Reread(r)
    PROVE  CallStep(r)
<1>1. CASE LookupExisting(r)
  BY <1>1, HandleExistingFair, RespondStep DEF LookupExisting, Respond, Goto
<1>2. CASE Reread(r)
  <2>1. PICK answer : /\ Respond(r, "reread", answer)
                      /\ answer = IF idem[KeyOf[r]].status = "absent" THEN Error("storage")
                                  ELSE HandleExisting(idem[KeyOf[r]])
    BY <1>2 DEF Reread
  <2>2. KeyOf[r] \in GatedKeys => Fair(r, answer)
    BY <2>1, BareFair, HandleExistingFair DEF Respond, Goto
  <2> QED
    BY <2>1, <2>2, RespondStep
<1> QED
  BY <1>1, <1>2

LEMMA InlineSteps ==
    ASSUME TypeOK, Named, ApprovalsStay, NEW r \in Requests, StartInline(r) \/ FinishInline(r)
    PROVE  CallStep(r)
<1>1. KeyOf[r] \in Keys
  BY KeyOfAssumption
<1>2. KeyOf[r] \in GatedKeys => WillBeFor(work[r].receipt.approval, KeyOf[r])
  BY <1>1 DEF StartInline, FinishInline, Respond, Goto, Named, IsFor, ApprovalsStay, WillBeFor
<1>3. CASE StartInline(r)
  BY <1>2, <1>3 DEF TypeOK, StartInline, Goto, CallStep, Missed
<1>4. CASE FinishInline(r)
  <2>1. PICK answer : /\ Respond(r, "inline", answer)
                      /\ answer = Answer("require_approval", work[r].receipt,
                                         work[r].receipt.approval)
    BY <1>4 DEF FinishInline
  <2>2. KeyOf[r] \in GatedKeys => Fair(r, answer)
    BY <1>2, <2>1 DEF Fair, Answer, Respond, Goto
  <2> QED
    BY <2>1, <2>2, RespondStep
<1> QED
  BY <1>3, <1>4

LEMMA FinalCommitStep == ASSUME TypeOK, NEW r \in Requests, FinalCommit(r) PROVE CallStep(r)
<1>1. PICK id : Respond(r, "final", [Answer("allow", id, Null) EXCEPT !.credentials = TRUE])
  BY DEF FinalCommit, WriteIssued
<1>2. Fair(r, [Answer("allow", id, Null) EXCEPT !.credentials = TRUE])
  BY DEF Fair, Answer
<1> QED
  BY <1>1, <1>2, RespondStep

(* The only step that asks a human of a gated key: there was no row.       *)
LEMMA FirstCommitStep ==
    ASSUME TypeInv, GatedInv, NEW r \in Requests, FirstCommit(r)
    PROVE  CallStep(r)
<1> DEFINE k == KeyOf[r]
           p == work[r].policy
           verdict == VerdictOf[p][k]
<1>1. /\ TypeOK /\ k \in Keys /\ p \in Policies /\ pc[r] = "first"
      /\ work[r] \in Work /\ work[r].at \in Stamps
  BY KeyOfAssumption DEF TypeInv, TypeOK, WorkOK, FirstCommit, Working
<1>2. PICK a \in ApprovalIds \cup {Null} :
        LET base == BaseReceipt(k, work[r].at, p, a) IN
        /\ DrawsApproval(a, k, verdict)
        /\ a # Null => approvals' = [approvals EXCEPT ![a] =
                                [key |-> k, status |-> "pending", posted |-> FALSE]]
        /\ IF verdict = "allow" \/ (a # Null /\ SlackConfigured)
           THEN /\ Goto(r, "first", IF verdict = "allow" THEN "mint" ELSE "posting")
                /\ work' = [work EXCEPT ![r].receipt = base]
                /\ UNCHANGED resp
           ELSE Respond(r, "first", Answer(verdict, base, a))
  BY DEF FirstCommit
<1>3. PICK base : base = BaseReceipt(k, work[r].at, p, a)
  OBVIOUS
<1>4. base.approval = a
  BY <1>1, <1>3, BaseReceiptType
<1>5. k \in GatedKeys => /\ verdict = "require_approval" /\ a \in ApprovalIds
                         /\ WillBeFor(a, k) /\ idem[k].status = "absent"
  BY <1>1, <1>2 DEF GatedKeys, DrawsApproval, MayInsertApproval, WillBeFor, TypeOK, GatedInv,
                    Linked, IsFor
<1>6. CASE verdict = "allow" \/ (a # Null /\ SlackConfigured)
  <2>1. /\ Goto(r, "first", IF verdict = "allow" THEN "mint" ELSE "posting")
        /\ work' = [work EXCEPT ![r] = [work[r] EXCEPT !.receipt = base]]
        /\ resp' = resp
    BY <1>2, <1>3, <1>6
  <2>2. work'[r].receipt = base
    BY <1>1, <2>1 DEF TypeOK, Work
  <2>3. pc'[r] # "done" /\ \A q \in Requests \ {r} : pc'[q] = pc[q] /\ work'[q] = work[q]
    BY <1>1, <2>1 DEF TypeOK, Goto
  <2> QED
    BY <1>4, <1>5, <2>1, <2>2, <2>3 DEF CallStep, Passed, Missed
<1>7. CASE ~(verdict = "allow" \/ (a # Null /\ SlackConfigured))
  <2>1. Respond(r, "first", Answer(verdict, base, a))
    BY <1>2, <1>3, <1>7
  <2>2. k \in GatedKeys => Fair(r, Answer(verdict, base, a))
    BY <1>5 DEF Fair, Answer, Passed
  <2> QED
    BY <1>1, <2>1, <2>2, RespondStep
<1> QED
  BY <1>6, <1>7

LEMMA CallSteps ==
    ASSUME TypeInv, GatedInv, Named, ApprovalsStay, NEW r \in Requests, Call(r)
    PROVE  CallStep(r)
<1>1. TypeOK
  BY DEF TypeInv
<1> QED
  BY <1>1, StartStep, MoveSteps, ErrorSteps, ResumeSteps, ExistingSteps, InlineSteps,
     FinalCommitStep, FirstCommitStep DEF Call

-----------------------------------------------------------------------------
(* The invariant under the steps of the jobs.                              *)

LEMMA CallKeepsNamed ==
    ASSUME Named, ApprovalsStay, NEW r \in Requests, CallStep(r)
    PROVE  Named'
<1> SUFFICES ASSUME NEW q \in Requests, KeyOf[q] \in GatedKeys
             PROVE  /\ resp'[q].verdict = "require_approval" => WillBeFor(resp'[q].approval, KeyOf[q])
                    /\ pc'[q] \in {"posting", "inline"} =>
                            WillBeFor(work'[q].receipt.approval, KeyOf[q])
  BY DEF Named, IsFor, WillBeFor, GatedKeys
<1>1. KeyOf[q] \in Keys
  BY KeyOfAssumption
<1>2. /\ resp[q].verdict = "require_approval" => WillBeFor(resp[q].approval, KeyOf[q])
      /\ pc[q] \in {"posting", "inline"} => WillBeFor(work[q].receipt.approval, KeyOf[q])
  BY <1>1 DEF Named, IsFor, ApprovalsStay, WillBeFor
<1>3. CASE q # r
  BY <1>2, <1>3 DEF CallStep
<1>4. CASE q = r
  BY <1>2, <1>4 DEF CallStep, Fair
<1> QED
  BY <1>3, <1>4

LEMMA CallKeepsCleared ==
    ASSUME Cleared, PassedStay, NEW r \in Requests, CallStep(r), stage' = stage
    PROVE  Cleared'
<1> SUFFICES ASSUME NEW q \in Requests, KeyOf[q] \in GatedKeys
             PROVE  /\ stage[q] \in {"cleared", "resumed"} => idem'[KeyOf[q]].status \in Passed
                    /\ stage[q] = "resumed" =>
                        /\ pc'[q] \notin {"posting", "inline"}
                        /\ pc'[q] \in Missed => ReadFaults
                        /\ pc'[q] = "done" => Settled(resp'[q])
  BY DEF Cleared, GatedKeys, Settled
<1>1. stage[q] \in {"cleared", "resumed"} => idem'[KeyOf[q]].status \in Passed
  BY DEF Cleared, PassedStay
<1>2. CASE q # r
  BY <1>1, <1>2 DEF Cleared, CallStep
<1>3. CASE q = r
  BY <1>1, <1>3 DEF Cleared, CallStep, Fair, Settled, Passed, Missed
<1> QED
  BY <1>2, <1>3

LEMMA PostKeeps ==
    ASSUME TypeOK, JobsInv, NEW r \in Requests, Post(r), ApprovalsStay
    PROVE  JobsInv'
<1>1. Start(r) /\ UNCHANGED <<idem, approvals>>
  BY DEF Post, Start, tables, records
<1>2. PICK to \in Stages : /\ stage' = [stage EXCEPT ![r] = to]
                           /\ to \notin {"cleared"}
                           /\ to = "resumed" => stage[r] = "cleared"
  BY DEF Post, Move, Stages
<1>3. Named'
  BY <1>1, StartStep, CallKeepsNamed DEF JobsInv
<1>4. Stage'
  BY <1>2 DEF JobsInv, Stage
<1>5. pc'[r] = "lookup" /\ \A q \in Requests \ {r} : pc'[q] = pc[q] /\ resp'[q] = resp[q]
  BY <1>1 DEF Start, Goto, TypeOK
<1>6. stage'[r] = to /\ \A q \in Requests \ {r} : stage'[q] = stage[q]
  BY <1>2 DEF JobsInv, Stage
<1>7. Cleared'
  BY <1>1, <1>2, <1>5, <1>6 DEF JobsInv, Cleared, GatedKeys, Settled, Missed
<1> QED
  BY <1>3, <1>4, <1>7 DEF JobsInv

(* The poll reads an approval of the job's key, and that says what the row *)
(* says.                                                                   *)
LEMMA PollKeeps ==
    ASSUME TypeOK, GatedInv, JobsInv, NEW r \in Requests, Poll(r)
    PROVE  JobsInv'
<1>1. UNCHANGED vars /\ pc[r] = "done"
  BY DEF Poll
<1>2. PICK to : /\ stage' = [stage EXCEPT ![r] = to]
                /\ to \in {"cleared", "over", "timedout"}
                /\ to = "cleared" => /\ NeedsApproval(resp[r])
                                     /\ approvals[resp[r].approval].status = "approved"
  BY DEF Poll, PolledStatus, Move, AfterPoll
<1>3. to = "cleared" /\ KeyOf[r] \in GatedKeys => idem[KeyOf[r]].status \in Passed
  <2> SUFFICES ASSUME to = "cleared", KeyOf[r] \in GatedKeys
               PROVE  idem[KeyOf[r]].status \in Passed
    OBVIOUS
  <2>1. IsFor(resp[r].approval, KeyOf[r])
    BY <1>2 DEF NeedsApproval, JobsInv, Named
  <2> QED
    BY <1>2, <2>1 DEF IsFor, GatedInv, ApprovalMatchesStatus, Expected, Passed
<1>4. Stage'
  BY <1>2 DEF JobsInv, Stage, Stages
<1>5. Named'
  BY <1>1 DEF JobsInv, Named, IsFor, GatedKeys, vars, records
<1>6. stage'[r] = to /\ \A q \in Requests \ {r} : stage'[q] = stage[q]
  BY <1>2 DEF JobsInv, Stage
<1>7. Cleared'
  BY <1>1, <1>2, <1>3, <1>6 DEF JobsInv, Cleared, Settled, GatedKeys, vars, records
<1> QED
  BY <1>4, <1>5, <1>7 DEF JobsInv

LEMMA HangUpKeeps ==
    ASSUME JobsInv, NEW r \in Requests, HangUp(r)
    PROVE  JobsInv'
<1>1. UNCHANGED vars /\ stage' = [stage EXCEPT ![r] = "over"]
  BY DEF HangUp
<1>2. Stage'
  BY <1>1 DEF JobsInv, Stage, Stages
<1>3. Named'
  BY <1>1 DEF JobsInv, Named, IsFor, GatedKeys, vars, records
<1>4. stage'[r] = "over" /\ \A q \in Requests \ {r} : stage'[q] = stage[q]
  BY <1>1 DEF JobsInv, Stage
<1>5. Cleared'
  BY <1>1, <1>4 DEF JobsInv, Cleared, Settled, GatedKeys, vars, records
<1> QED
  BY <1>2, <1>3, <1>5 DEF JobsInv

LEMMA ServeKeeps ==
    ASSUME TypeInv, GatedInv, JobsInv, ApprovalsStay, PassedStay,
           NEW r \in Requests, Serve(r), stage' = stage
    PROVE  JobsInv'
<1>1. CallStep(r)
  BY CallSteps DEF Serve, JobsInv
<1> QED
  BY <1>1, CallKeepsNamed, CallKeepsCleared DEF JobsInv, Stage

LEMMA BackgroundKeeps ==
    ASSUME TypeOK, JobsInv, ApprovalsStay, PassedStay, Background, stage' = stage
    PROVE  JobsInv'
<1>1. /\ resp' = resp
      /\ \A q \in Requests : \/ pc'[q] = pc[q] /\ work'[q] = work[q]
                             \/ pc'[q] = "idle"
                             \/ pc[q] = "done" /\ pc'[q] = "done"
  <2>1. CASE Click
    BY <2>1 DEF Click, Approve, WriteDecision
  <2>2. CASE Restart
    BY <2>2 DEF Restart
  <2>3. CASE \E p \in Policies : EditPolicy(p)
    BY <2>3 DEF EditPolicy
  <2> QED
    BY <2>1, <2>2, <2>3 DEF Background
<1>2. Named'
  <2> SUFFICES ASSUME NEW q \in Requests, KeyOf[q] \in GatedKeys
               PROVE  /\ resp'[q].verdict = "require_approval" => WillBeFor(resp'[q].approval, KeyOf[q])
                      /\ pc'[q] \in {"posting", "inline"} =>
                            WillBeFor(work'[q].receipt.approval, KeyOf[q])
    BY DEF Named, IsFor, WillBeFor, GatedKeys
  <2>1. KeyOf[q] \in Keys
    BY KeyOfAssumption
  <2> QED
    BY <1>1, <2>1 DEF JobsInv, Named, IsFor, ApprovalsStay, WillBeFor
<1>3. Cleared'
  <2> SUFFICES ASSUME NEW q \in Requests, KeyOf[q] \in GatedKeys
               PROVE  /\ stage[q] \in {"cleared", "resumed"} => idem'[KeyOf[q]].status \in Passed
                      /\ stage[q] = "resumed" =>
                        /\ pc'[q] \notin {"posting", "inline"}
                        /\ pc'[q] \in Missed => ReadFaults
                        /\ pc'[q] = "done" => Settled(resp'[q])
    BY DEF Cleared, GatedKeys, Settled
  <2> QED
    BY <1>1 DEF JobsInv, Cleared, PassedStay, Missed
<1> QED
  BY <1>2, <1>3 DEF JobsInv, Stage

LEMMA JobsStep == TypeInv /\ GatedInv /\ JobsInv /\ [JobsNext]_jobVars => JobsInv'
<1> SUFFICES ASSUME TypeInv, GatedInv, JobsInv, [JobsNext]_jobVars PROVE JobsInv'
  OBVIOUS
<1>1. TypeOK
  BY DEF TypeInv
<1>2. CASE JobsNext
  <2>1. ApprovalsStay /\ PassedStay
    BY <1>2, JobStepIsServiceStep, GatedStep DEF GatedStays
  <2> QED
    BY <1>1, <1>2, <2>1, PostKeeps, PollKeeps, HangUpKeeps, ServeKeeps, BackgroundKeeps
       DEF JobsNext, Job
<1>3. CASE UNCHANGED jobVars
  BY <1>3 DEF jobVars, JobsInv, Stage, Named, Cleared, Settled, IsFor, GatedKeys
<1> QED
  BY <1>2, <1>3

LEMMA JobsAlways == JobsSpec => [](TypeInv /\ JobsInv)
<1>1. JobsInit => JobsInv
  BY JobsInvInit
<1>2. (TypeInv /\ GatedInv) /\ JobsInv /\ [JobsNext]_jobVars => JobsInv'
  BY JobsStep
<1> QED
  BY <1>1, <1>2, JobsImplementService, GatedAlways, PTL DEF JobsSpec

(* Types of the service's state and the jobs' places.                      *)
THEOREM JobsTypeCorrect == JobsSpec => []JobsTypeOK
<1>1. TypeInv /\ JobsInv => JobsTypeOK
  BY DEF TypeInv, JobsInv, Stage, JobsTypeOK
<1> QED
  BY <1>1, JobsAlways, PTL

(* A job that polled an approval of a gated key is never asked again, and  *)
(* is denied only in error and only where reads fail, for any number of    *)
(* jobs, clicks, faults and restarts.                                      *)
THEOREM ClearedNeverAskedAgain == JobsSpec => []ClearedIsNotAskedAgain
<1>1. TypeInv /\ JobsInv => ClearedIsNotAskedAgain
  BY DEF JobsInv, Cleared, Settled, ClearedIsNotAskedAgain
<1> QED
  BY <1>1, JobsAlways, PTL

=============================================================================
