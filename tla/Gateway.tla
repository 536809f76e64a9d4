------------------------------ MODULE Gateway ------------------------------
(***************************************************************************)
(* One gateway process over one SQLite database with Slack configured:     *)
(* cmd/relia-gateway/main.go wires the authorize service, the Slack        *)
(* callback handler and the outbox worker to the same store.  The service  *)
(* and the outbox share the tables approvals and slack_outbox; a call that *)
(* asked for approval runs ProcessOutboxDue itself before it answers.      *)
(***************************************************************************)
EXTENDS AuthorizeService

CONSTANTS Workers, WorkerLimit, MaxPosts, Unreliable

ASSUME GatewayAssumption ==
    /\ SlackConfigured
    /\ WorkerLimit \in Nat \ {0} /\ MaxPosts \in Nat /\ Unreliable \in BOOLEAN
    /\ IsFiniteSet(Requests) /\ IsFiniteSet(Workers)

VARIABLES posts, at, batch, current, snapshot

(* Restarts are not counted here.                                          *)
Outbox == INSTANCE SlackOutbox WITH Inline <- Requests, MaxCrashes <- 0, crashes <- 0

outboxLocal == <<posts, at, batch, current, snapshot>>
serviceOnly == <<policyFile, records, idem, receipts, keyRow, signer,
                 minted, pc, work, resp>>
gatewayVars == <<vars, outboxLocal>>

GatewayInit == Init /\ Outbox!OutboxInit

(* The call goes into ProcessOutboxDue and comes back when it is done.     *)
EnterOutbox(r) == StartInline(r) /\ Outbox!List(r)

LeaveOutbox(r) ==
    /\ at[r] = "idle"
    /\ FinishInline(r)
    /\ UNCHANGED outboxLocal

(* The steps of a call that leave the outbox loops alone.                  *)
ServiceStep(r) ==
    /\ \/ Start(r)
       \/ LookupNone(r) \/ LookupExisting(r) \/ LookupReady(r) \/ LookupIssuing(r)
       \/ Evaluate(r) \/ EvaluateFail(r)
       \/ FirstCommit(r) \/ FirstFail(r) \/ Reread(r)
       \/ ReadyCommit(r) \/ ReadyLost(r)
       \/ Mint(r) \/ MintFail(r) \/ FinalCommit(r)
       \/ StorageFault(r)
    /\ UNCHANGED outboxLocal

OutboxStep ==
    /\ \/ \E w \in Workers : Outbox!List(w)
       \/ \E p \in Outbox!Processors : Outbox!Process(p)
       \/ \E a \in ApprovalIds : Outbox!Elapse(a)
    /\ UNCHANGED serviceOnly

(* A signed callback carries the approval_id of a message in the channel.  *)
ClickMessage ==
    /\ \E a \in ApprovalIds, d \in Decisions, t \in Stamps : posts[a] > 0 /\ Approve(a, d, t)
    /\ UNCHANGED outboxLocal

EditFile == (\E p \in Policies : EditPolicy(p)) /\ UNCHANGED outboxLocal

RestartAll == Restart /\ Outbox!Crash

GatewayNext ==
    \/ \E r \in Requests : EnterOutbox(r) \/ LeaveOutbox(r) \/ ServiceStep(r)
    \/ OutboxStep
    \/ ClickMessage
    \/ EditFile
    \/ RestartAll

GatewaySpec == GatewayInit /\ [][GatewayNext]_gatewayVars

-----------------------------------------------------------------------------
(* An approval waits for a human only if the human is told: from the       *)
(* transaction that creates it on, its message is queued or in the         *)
(* channel, whatever call or worker dies between the two.                  *)
ApprovalIsAnnounced ==
    \A a \in ApprovalIds :
        approvals[a].status # "absent" => outbox[a].status = "pending" \/ posts[a] > 0

(* Nobody is asked about an action that needs no human: a message in the   *)
(* channel is about a stored pending receipt of the same approval.         *)
MessagesAreBacked ==
    \A a \in ApprovalIds :
        posts[a] > 0 => \E id \in Stored(receipts) :
                            /\ id.outcome = "approval_pending"
                            /\ id.approval = a
                            /\ id.key = approvals[a].key

(* "repeat clicks don't append multiple approvals to the receipt chain".   *)
OneDecisionPerApproval ==
    \A a \in ApprovalIds :
        Cardinality({id \in Stored(receipts) :
            id.approval = a /\ id.outcome \in {"approval_approved", "approval_denied"}}) <= 1

=============================================================================
