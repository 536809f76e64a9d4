-------------------------- MODULE AuthorizeClient --------------------------
(***************************************************************************)
(* .github/actions/relia-authorize/authorize.sh: the jobs that call the    *)
(* service.  A job posts its request; if a human is needed it polls the    *)
(* approval until it is decided or 60 polls are over, and then posts the   *)
(* same request once more.  The job of slot r is run again after it ended: *)
(* a re-run of a workflow run has the same run id and so the same key.     *)
(***************************************************************************)
EXTENDS AuthorizeService

VARIABLE stage  \* where the job of each slot is

jobVars == <<policyFile, records, idem, approvals, outbox, receipts,
             keyRow, signer, minted, pc, work, resp, stage>>

(* "over": nothing the job still does depends on an answer: it has ended,  *)
(* or waits for its last one.  "first" is the first post and the polling   *)
(* after it; "cleared" has polled an approval and "timedout" in vain;      *)
(* "resumed" is the second post of the one, that of the other is "over".   *)
Stages == {"over", "first", "cleared", "timedout", "resumed"}

JobsInit == Init /\ stage = [r \in Requests |-> "over"]

-----------------------------------------------------------------------------
Move(r, from, to) == stage[r] = from /\ stage' = [stage EXCEPT ![r] = to]

Post(r) ==
    /\ Start(r)
    /\ \/ Move(r, "over", "first") \/ Move(r, "resumed", "first")
       \/ Move(r, "cleared", "resumed") \/ Move(r, "timedout", "over")

\* Seeded fault: a job whose approval was denied waits for the next answer.
WaitsForMore(status) == IF status = "approved" THEN "cleared" ELSE "denied"
AfterPoll(status) == IF status = "approved" THEN "cleared" ELSE "over"

NeedsApproval(answer) == answer.verdict = "require_approval" /\ answer.approval # Null

(* GET /v1/approvals/:id.                                                  *)
PolledStatus(id) == approvals[id].status

(* The first answer.  If it asks for approval, the job polls until the     *)
(* status is approved or denied; what is neither, a failing read included, *)
(* is polled again, and after the last poll the job goes on.               *)
Poll(r) ==
    /\ pc[r] = "done" /\ stage[r] = "first"
    /\ IF NeedsApproval(resp[r])
       THEN LET status == PolledStatus(resp[r].approval) IN
            \/ status \in {"approved", "denied"} /\ Move(r, "first", AfterPoll(status))
            \/ (status \notin {"approved", "denied"} \/ ReadFaults) /\ Move(r, "first", "timedout")
       ELSE Move(r, "first", "over")
    /\ UNCHANGED vars

(* The connection breaks or the runner dies ("set -e"); a call that the    *)
(* gateway has begun goes on without it and its answer is lost.            *)
HangUp(r) ==
    /\ stage[r] # "over"
    /\ stage' = [stage EXCEPT ![r] = "over"]
    /\ UNCHANGED vars

Job(r) == Post(r) \/ Poll(r)

(* The gateway's part of a call.                                           *)
Serve(r) == pc[r] \notin {"idle", "done"} /\ Call(r)

(* The gateway's other steps.                                              *)
Background == Click \/ (\E p \in Policies : EditPolicy(p)) \/ Restart

JobsNext ==
    \/ \E r \in Requests : Job(r) \/ HangUp(r)
    \/ (Background \/ \E r \in Requests : Serve(r)) /\ UNCHANGED stage

JobsSpec == JobsInit /\ [][JobsNext]_jobVars

(* Somebody re-runs a job that ended, jobs and calls go on, and a job      *)
(* whose call died with the gateway ends.  What is tried for ever succeeds *)
(* at some point, for one caller or another: reading the row, a            *)
(* transaction, the broker.  Faults, restarts and lost connections may     *)
(* still come back without end.                                            *)
JobsFairness ==
    /\ \A r \in Requests :
        /\ WF_jobVars(Job(r))
        /\ WF_jobVars(pc[r] = "idle" /\ HangUp(r))
        /\ WF_jobVars(Serve(r) /\ UNCHANGED stage)
    /\ SF_jobVars((\E r \in Requests : LookupReady(r) \/ LookupIssuing(r)) /\ UNCHANGED stage)
    /\ SF_jobVars((\E r \in Requests : ReadyCommit(r)) /\ UNCHANGED stage)
    /\ SF_jobVars((\E r \in Requests : Mint(r)) /\ UNCHANGED stage)
    /\ SF_jobVars((\E r \in Requests : FinalCommit(r)) /\ UNCHANGED stage)

JobsFairSpec == JobsSpec /\ JobsFairness

-----------------------------------------------------------------------------
(* Properties.                                                             *)

(* The service's types, and every job at a place of the script.            *)
JobsTypeOK == TypeOK /\ stage \in [Requests -> Stages]

(* A job that polled "approved" is not sent back: its second post is       *)
(* answered with no new request for approval, and with no denial either,   *)
(* except in error, where the call failed to read the row of its key, lost *)
(* its transaction and met a row it has no answer for.  The poll reads the *)
(* table approvals and the post reads idempotency_keys, and other calls,   *)
(* clicks and restarts come between them.                                  *)
ClearedIsNotAskedAgain ==
    \A r \in Requests :
        (stage[r] = "resumed" /\ pc[r] = "done" /\ KeyOf[r] \in GatedKeys) =>
            /\ resp[r].verdict # "require_approval"
            /\ resp[r].verdict = "deny" => ReadFaults /\ resp[r].error = "unsupported"

=============================================================================
