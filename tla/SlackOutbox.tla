---------------------------- MODULE SlackOutbox ----------------------------
(***************************************************************************)
(* internal/slack/outbox.go: ProcessOutboxDue, run by the polling worker   *)
(* over up to 25 due rows and inline by an authorize call over one.  The   *)
(* processors share the tables approvals and slack_outbox with each other  *)
(* and with the Slack callbacks; every read and every write below is a     *)
(* transaction of its own, and the post to Slack happens between them.     *)
(***************************************************************************)
EXTENDS Ledger, Naturals, FiniteSets

CONSTANTS
    Inline,      \* processors that are authorize calls
    Workers,     \* processors that are polling workers
    WorkerLimit, \* rows a worker takes per poll (25 in RunOutboxWorker)
    MaxPosts,    \* bound of the model: messages Slack accepts per approval
    MaxCrashes,  \* bound of the model: crashes of the process
    Unreliable   \* reads and writes may fail, Slack may accept and report an error

Processors == Inline \cup Workers

ASSUME LimitAssumption == WorkerLimit \in Nat \ {0} /\ MaxPosts \in Nat /\ MaxCrashes \in Nat
ASSUME UnreliableAssumption == Unreliable \in BOOLEAN
ASSUME ProcessorsAssumption == IsFiniteSet(Inline) /\ IsFiniteSet(Workers)

VARIABLES
    approvals,   \* table approvals
    outbox,      \* table slack_outbox
    posts,       \* [ApprovalIds -> Nat]: messages in the Slack channel
    at,          \* where each processor is in the loop
    batch,       \* approvals of the due rows it listed and has not handled
    current,     \* the row it is handling
    snapshot,    \* what GetApproval returned for it, or NoApproval
    crashes      \* how often the process died (history)

local == <<at, batch, current, snapshot>>
outboxVars == <<approvals, outbox, posts, at, batch, current, snapshot>>

Places == {"idle", "next", "post", "record", "mark", "backoff"}

OutboxTypeOK ==
    /\ approvals \in [ApprovalIds -> ApprovalRow \cup {NoApproval}]
    /\ outbox \in [ApprovalIds -> OutboxRow \cup {NoOutbox}]
    /\ posts \in [ApprovalIds -> 0..MaxPosts]
    /\ at \in [Processors -> Places]
    /\ batch \in [Processors -> SUBSET ApprovalIds]
    /\ current \in [Processors -> ApprovalIds \cup {Null}]
    /\ snapshot \in [Processors -> ApprovalRow \cup {NoApproval}]
    /\ crashes \in 0..MaxCrashes

OutboxInit ==
    /\ posts = [a \in ApprovalIds |-> 0]
    /\ at = [p \in Processors |-> "idle"]
    /\ batch = [p \in Processors |-> {}]
    /\ current = [p \in Processors |-> Null]
    /\ snapshot = [p \in Processors |-> NoApproval]

-----------------------------------------------------------------------------
Go(p, from, to) == at[p] = from /\ at' = [at EXCEPT ![p] = to]

\* Seeded fault: rows of decided approvals are not listed.
DueUndecided == {a \in ApprovalIds : /\ outbox[a].status = "pending" /\ outbox[a].due
                                      /\ approvals[a].status = "pending"}
Due == {a \in ApprovalIds : outbox[a].status = "pending" /\ outbox[a].due}
Limit(p) == IF p \in Inline THEN 1 ELSE WorkerLimit

(* ListSlackOutboxDue: a snapshot of the oldest due rows.                  *)
List(p) ==
    /\ Go(p, "idle", "next")
    /\ \E rows \in SUBSET Due :
        /\ rows = Due \/ (Cardinality(rows) = Limit(p) /\ rows # Due)
        /\ Cardinality(rows) <= Limit(p)
        /\ batch' = [batch EXCEPT ![p] = rows]
    /\ UNCHANGED <<approvals, outbox, posts, current, snapshot>>

(* The listed rows are done, or the list could not be read.                *)
Finish(p) ==
    /\ batch[p] = {} \/ Unreliable
    /\ Go(p, "next", "idle")
    /\ batch' = [batch EXCEPT ![p] = {}]
    /\ UNCHANGED <<approvals, outbox, posts, current, snapshot>>

(* GetApproval of the next row.  An approval that already has a message    *)
(* timestamp is not posted again.  A failing read looks like no approval,  *)
(* and then the message is posted without the check.                       *)
\* Seeded fault: the timestamp is not looked at.
NeverPosted(row) == FALSE
AlreadyPosted(row) == row.posted

Take(p) ==
    \E a \in batch[p] : \E row \in {approvals[a]} \cup (IF Unreliable THEN {NoApproval} ELSE {}) :
        /\ Go(p, "next", IF AlreadyPosted(row) THEN "mark" ELSE "post")
        /\ batch' = [batch EXCEPT ![p] = @ \ {a}]
        /\ current' = [current EXCEPT ![p] = a]
        /\ snapshot' = [snapshot EXCEPT ![p] = row]
        /\ UNCHANGED <<approvals, outbox, posts>>

(* chat.postMessage (external).                                            *)
Deliver(p) ==
    /\ posts[current[p]] < MaxPosts
    /\ posts' = [posts EXCEPT ![current[p]] = @ + 1]

Post(p) ==
    /\ Go(p, "post", "record")
    /\ Deliver(p)
    /\ UNCHANGED <<approvals, outbox, batch, current, snapshot>>

PostFail(p) ==
    /\ Go(p, "post", "backoff")
    /\ UNCHANGED posts \/ (Unreliable /\ Deliver(p))
    /\ UNCHANGED <<approvals, outbox, batch, current, snapshot>>

(* PutApproval of the row read before the post, now with the message's     *)
(* timestamp: its status is as old as that read.  Best effort.             *)
\* Seeded fault: the timestamp overwrites the status.
StampedAsStatus(row) == [row EXCEPT !.status = "posted"]
Stamped(row) == [row EXCEPT !.posted = TRUE]

Record(p) ==
    /\ Go(p, "record", "mark")
    /\ \/ /\ snapshot[p] # NoApproval
          /\ approvals' = [approvals EXCEPT ![current[p]] = PutApproval(@, Stamped(snapshot[p]))]
       \/ /\ snapshot[p] = NoApproval \/ Unreliable
          /\ UNCHANGED approvals
    /\ UNCHANGED <<outbox, posts, batch, current, snapshot>>

(* PutSlackOutbox of the listed row; when it fails the rest of the batch   *)
(* is left for a later poll.                                               *)
Write(p, from, row) ==
    /\ Go(p, from, "next")
    /\ \/ outbox' = [outbox EXCEPT ![current[p]] = row] /\ UNCHANGED batch
       \/ Unreliable /\ batch' = [batch EXCEPT ![p] = {}] /\ UNCHANGED outbox
    /\ current' = [current EXCEPT ![p] = Null]
    /\ snapshot' = [snapshot EXCEPT ![p] = NoApproval]
    /\ UNCHANGED <<approvals, posts>>

MarkSent(p) == Write(p, "mark", [status |-> "sent", due |-> TRUE])

\* Seeded fault: a failed post is marked sent.
BackoffAsSent(p) == Write(p, "backoff", [status |-> "sent", due |-> TRUE])
Backoff(p) == Write(p, "backoff", [status |-> "pending", due |-> FALSE])

Process(p) ==
    \/ Finish(p) \/ Take(p) \/ Post(p) \/ PostFail(p)
    \/ Record(p) \/ MarkSent(p) \/ Backoff(p)

(* next_attempt_at of a row passes.                                        *)
Elapse(a) ==
    /\ outbox[a].status = "pending" /\ ~outbox[a].due
    /\ outbox' = [outbox EXCEPT ![a].due = TRUE]
    /\ UNCHANGED <<approvals, posts, local>>

(* The process dies: the loops are gone, the tables stay.                  *)
Crash ==
    /\ at' = [p \in Processors |-> "idle"]
    /\ batch' = [p \in Processors |-> {}]
    /\ current' = [p \in Processors |-> Null]
    /\ snapshot' = [p \in Processors |-> NoApproval]
    /\ UNCHANGED <<approvals, outbox, posts>>

-----------------------------------------------------------------------------
(* The component on its own: what the service does to the two tables.      *)

\* The first transaction of an authorize call that needs approval.
Enqueue(a) ==
    /\ approvals[a] = NoApproval
    /\ \E k \in Keys :
        /\ MayInsertApproval(approvals, k)
        /\ approvals' = [approvals EXCEPT ![a] = [key |-> k, status |-> "pending", posted |-> FALSE]]
    /\ outbox' = [outbox EXCEPT ![a] = QueuedRow]
    /\ UNCHANGED <<posts, local>>

\* A click on the message.
Decide(a, decision) ==
    /\ approvals[a].status = "pending"
    /\ posts[a] > 0
    /\ approvals' = [approvals EXCEPT ![a] = PutApproval(@, [@ EXCEPT !.status = decision])]
    /\ UNCHANGED <<outbox, posts, local>>

Init ==
    /\ crashes = 0
    /\ approvals = [a \in ApprovalIds |-> NoApproval]
    /\ outbox = [a \in ApprovalIds |-> NoOutbox]
    /\ OutboxInit

Step ==
    \/ \E p \in Processors : List(p) \/ Process(p)
    \/ \E a \in ApprovalIds : Enqueue(a) \/ Elapse(a) \/ \E d \in Decisions : Decide(a, d)

Next ==
    \/ Step /\ UNCHANGED crashes
    \/ crashes < MaxCrashes /\ Crash /\ crashes' = crashes + 1

Spec == Init /\ [][Next]_<<outboxVars, crashes>>

(* A worker polls for ever, every loop that runs goes on, and time passes. *)
(* Slack accepts a message that is tried again and again, whoever tries.   *)
(* Faults are left out: the writes around the post are local.              *)
Fairness ==
    /\ \A p \in Workers : WF_outboxVars(List(p))
    /\ \A p \in Processors : WF_outboxVars(Process(p))
    /\ \A a \in ApprovalIds :
        /\ WF_outboxVars(Elapse(a))
        /\ SF_outboxVars(\E p \in Processors : current[p] = a /\ Post(p))

FairSpec == Spec /\ Fairness

-----------------------------------------------------------------------------
(* Properties.                                                             *)

(* No silent loss: a row is marked sent only when its message reached the  *)
(* channel, so an approval a human must see is queued or was shown, over   *)
(* failing posts, stale rows of two processors, and crashes.               *)
QueuedOrShown ==
    \A a \in ApprovalIds :
        approvals[a].status # "absent" => outbox[a].status = "pending" \/ posts[a] > 0

(* Without failing reads and writes a processor posts a message at most   *)
(* once in a life of the process: only one that read the approval before   *)
(* the first timestamp was recorded can post it again.                     *)
RepeatsBounded ==
    ~Unreliable => \A a \in ApprovalIds : posts[a] <= (crashes + 1) * Cardinality(Processors)

(* "dedupe on (approval_id, channel) so retries don't spam".               *)
PostedOnce == \A a \in ApprovalIds : posts[a] <= 1

(* Every approval is shown in Slack in the end and its row marked sent,    *)
(* though the process may die on the way.                                  *)
EventuallySent ==
    \A a \in ApprovalIds : approvals[a].status # "absent" ~> outbox[a].status = "sent"

=============================================================================
