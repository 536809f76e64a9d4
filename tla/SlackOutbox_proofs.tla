------------------------- MODULE SlackOutbox_proofs -------------------------
(***************************************************************************)
(* Proofs about SlackOutbox, for every set of approvals, inline calls and  *)
(* workers, any batch size, and with any number of faults and crashes.     *)
(***************************************************************************)
EXTENDS SlackOutbox, FiniteSetTheorems, TLAPS

Handling == {"post", "record", "mark", "backoff"}

-----------------------------------------------------------------------------
(* What a processor holds: a row it is handling, and of its approval at    *)
(* most an older state, never one of an approval that does not exist, nor  *)
(* one of another key.                                                     *)
HeldOK ==
    \A p \in Processors :
        /\ at[p] \in Handling => current[p] \in ApprovalIds
        /\ snapshot[p] # NoApproval =>
             /\ current[p] \in ApprovalIds
             /\ approvals[current[p]] # NoApproval
             /\ approvals[current[p]].key = snapshot[p].key

(* Who says a message was posted is right: the timestamp of the approval,  *)
(* a processor about to record it or to mark the row, the row itself.      *)
ShownOK ==
    /\ \A a \in ApprovalIds :
        /\ approvals[a].posted => posts[a] > 0
        /\ outbox[a].status = "sent" => posts[a] > 0
    /\ \A p \in Processors : at[p] \in {"record", "mark"} => posts[current[p]] > 0

(* No approval without a row in the outbox.                                *)
EnqueuedOK == \A a \in ApprovalIds : approvals[a] # NoApproval => outbox[a] # NoOutbox

(* Nothing is posted, handled, listed or queued but for an approval that   *)
(* exists.                                                                 *)
Exists(a) == a \in ApprovalIds /\ approvals[a] # NoApproval

BackedOK ==
    /\ \A a \in ApprovalIds : outbox[a] # NoOutbox \/ posts[a] > 0 => Exists(a)
    /\ \A p \in Processors :
        /\ at[p] \in Handling => Exists(current[p])
        /\ \A a \in batch[p] : Exists(a)

OutboxInv == OutboxTypeOK /\ HeldOK /\ ShownOK /\ EnqueuedOK /\ BackedOK

-----------------------------------------------------------------------------
(* Lemmas about the operators.                                             *)

LEMMA PutApprovalType ==
    ASSUME NEW old \in ApprovalRow \cup {NoApproval}, NEW new \in ApprovalRow
    PROVE  /\ PutApproval(old, new) \in ApprovalRow
           /\ PutApproval(old, new).posted = (old.posted \/ new.posted)
           /\ PutApproval(old, new).key = new.key
BY DEF PutApproval, ApprovalRow, NoApproval

LEMMA RowsDiffer ==
    /\ \A row \in ApprovalRow : row # NoApproval /\ row.status # "absent"
    /\ \A row \in OutboxRow : row # NoOutbox
BY DEF ApprovalRow, NoApproval, ApprovalStatus, OutboxRow, NoOutbox

-----------------------------------------------------------------------------
LEMMA InitInv == Init => OutboxInv
BY LimitAssumption DEF Init, OutboxInit, OutboxInv, OutboxTypeOK, HeldOK, ShownOK, EnqueuedOK,
    BackedOK, Places, Handling, NoApproval, NoOutbox

-----------------------------------------------------------------------------
(* The steps of a processor that change no table.                          *)

LEMMA ListInv ==
    ASSUME OutboxInv, NEW p \in Processors, List(p), UNCHANGED crashes
    PROVE  OutboxInv'
<1>1. OutboxTypeOK'
  BY DEF OutboxInv, OutboxTypeOK, List, Go, Due, Places
<1>2. HeldOK'
  BY DEF OutboxInv, OutboxTypeOK, HeldOK, List, Go, Handling
<1>3. ShownOK' /\ EnqueuedOK'
  BY DEF OutboxInv, OutboxTypeOK, ShownOK, EnqueuedOK, List, Go
<1>4. BackedOK'
  BY DEF OutboxInv, OutboxTypeOK, BackedOK, Exists, List, Go, Due, NoOutbox, Handling
<1> QED
  BY <1>1, <1>2, <1>3, <1>4 DEF OutboxInv

LEMMA FinishInv ==
    ASSUME OutboxInv, NEW p \in Processors, Finish(p), UNCHANGED crashes
    PROVE  OutboxInv'
<1>1. OutboxTypeOK'
  BY DEF OutboxInv, OutboxTypeOK, Finish, Go, Places
<1>2. HeldOK'
  BY DEF OutboxInv, OutboxTypeOK, HeldOK, Finish, Go, Handling
<1>3. ShownOK' /\ EnqueuedOK'
  BY DEF OutboxInv, OutboxTypeOK, ShownOK, EnqueuedOK, Finish, Go
<1>4. BackedOK'
  BY DEF OutboxInv, OutboxTypeOK, BackedOK, Exists, Finish, Go, Handling
<1> QED
  BY <1>1, <1>2, <1>3, <1>4 DEF OutboxInv

(* The row it takes is the one it will mark; it only marks it at once if   *)
(* the approval says that the message was shown.                           *)
LEMMA TakeInv ==
    ASSUME OutboxInv, NEW p \in Processors, Take(p), UNCHANGED crashes
    PROVE  OutboxInv'
<1> DEFINE Taken(a, row) ==
        /\ Go(p, "next", IF AlreadyPosted(row) THEN "mark" ELSE "post")
        /\ batch' = [batch EXCEPT ![p] = @ \ {a}]
        /\ current' = [current EXCEPT ![p] = a]
        /\ snapshot' = [snapshot EXCEPT ![p] = row]
        /\ UNCHANGED <<approvals, outbox, posts>>
<1>0. PICK a \in batch[p] :
        \E row \in {approvals[a]} \cup (IF Unreliable THEN {NoApproval} ELSE {}) : Taken(a, row)
  BY Zenon DEF Take
<1>1. PICK row \in {approvals[a], NoApproval} : Taken(a, row)
  BY <1>0
<1>2. a \in ApprovalIds /\ row \in ApprovalRow \cup {NoApproval}
  BY <1>0, <1>1 DEF OutboxInv, OutboxTypeOK
<1>3. OutboxTypeOK'
  BY <1>1, <1>2 DEF OutboxInv, OutboxTypeOK, Go, Places
<1>4. HeldOK'
  BY <1>1, <1>2 DEF OutboxInv, OutboxTypeOK, HeldOK, Go, Handling
<1>5. AlreadyPosted(row) => posts[a] > 0
  BY <1>1, <1>2 DEF OutboxInv, ShownOK, AlreadyPosted, NoApproval
<1>6. ShownOK' /\ EnqueuedOK'
  BY <1>1, <1>2, <1>5 DEF OutboxInv, OutboxTypeOK, ShownOK, EnqueuedOK, Go
<1>7. BackedOK'
  BY <1>0, <1>1 DEF OutboxInv, OutboxTypeOK, BackedOK, Exists, Go, Handling
<1> QED
  BY <1>3, <1>4, <1>6, <1>7 DEF OutboxInv

-----------------------------------------------------------------------------
(* The call to Slack.                                                      *)

LEMMA PostInv ==
    ASSUME OutboxInv, NEW p \in Processors, Post(p), UNCHANGED crashes
    PROVE  OutboxInv'
<1>1. current[p] \in ApprovalIds
  BY DEF OutboxInv, HeldOK, Post, Go, Handling
<1>2. OutboxTypeOK'
  BY <1>1, LimitAssumption DEF OutboxInv, OutboxTypeOK, Post, Go, Deliver, Places
<1>3. HeldOK'
  BY DEF OutboxInv, OutboxTypeOK, HeldOK, Post, Go, Handling
<1>4. ShownOK' /\ EnqueuedOK'
  BY <1>1, LimitAssumption DEF OutboxInv, OutboxTypeOK, ShownOK, EnqueuedOK, HeldOK, Handling, Post, Go, Deliver
<1>5. BackedOK'
  BY <1>1 DEF OutboxInv, OutboxTypeOK, BackedOK, Exists, Post, Go, Deliver, Handling
<1> QED
  BY <1>2, <1>3, <1>4, <1>5 DEF OutboxInv

LEMMA PostFailInv ==
    ASSUME OutboxInv, NEW p \in Processors, PostFail(p), UNCHANGED crashes
    PROVE  OutboxInv'
<1>1. current[p] \in ApprovalIds
  BY DEF OutboxInv, HeldOK, PostFail, Go, Handling
<1>2. OutboxTypeOK'
  BY <1>1, LimitAssumption DEF OutboxInv, OutboxTypeOK, PostFail, Go, Deliver, Places
<1>3. HeldOK'
  BY DEF OutboxInv, OutboxTypeOK, HeldOK, PostFail, Go, Handling
<1>4. ShownOK' /\ EnqueuedOK'
  BY <1>1, LimitAssumption DEF OutboxInv, OutboxTypeOK, ShownOK, EnqueuedOK, HeldOK, Handling, PostFail, Go, Deliver
<1>5. BackedOK'
  BY <1>1 DEF OutboxInv, OutboxTypeOK, BackedOK, Exists, PostFail, Go, Deliver, Handling
<1> QED
  BY <1>2, <1>3, <1>4, <1>5 DEF OutboxInv

-----------------------------------------------------------------------------
(* The writes after it.  The approval it writes back may be older than the *)
(* stored one; its message is in the channel all the same.                 *)

LEMMA RecordInv ==
    ASSUME OutboxInv, NEW p \in Processors, Record(p), UNCHANGED crashes
    PROVE  OutboxInv'
<1> DEFINE a == current[p]
<1>1. a \in ApprovalIds /\ posts[a] > 0
  BY DEF OutboxInv, HeldOK, ShownOK, Record, Go, Handling
<1>2. CASE UNCHANGED approvals
  BY <1>2 DEF OutboxInv, OutboxTypeOK, HeldOK, ShownOK, EnqueuedOK, BackedOK, Exists, Record, Go, Handling, Places
<1>3. CASE /\ snapshot[p] # NoApproval
           /\ approvals' = [approvals EXCEPT ![a] = PutApproval(@, Stamped(snapshot[p]))]
  <2>1. /\ snapshot[p] \in ApprovalRow
        /\ approvals[a] \in ApprovalRow
        /\ approvals[a] # NoApproval
        /\ approvals[a].key = snapshot[p].key
    BY <1>1, <1>3 DEF OutboxInv, OutboxTypeOK, HeldOK
  <2>2. Stamped(snapshot[p]) \in ApprovalRow /\ Stamped(snapshot[p]).key = snapshot[p].key
    BY <2>1 DEF Stamped, ApprovalRow
  <2>3. approvals'[a] \in ApprovalRow /\ approvals'[a].key = approvals[a].key
    BY <1>1, <1>3, <2>1, <2>2, PutApprovalType DEF OutboxInv, OutboxTypeOK
  <2>4. \A b \in ApprovalIds \ {a} : approvals'[b] = approvals[b]
    BY <1>3 DEF OutboxInv, OutboxTypeOK
  <2>5. OutboxTypeOK'
    BY <1>1, <1>3, <2>3 DEF OutboxInv, OutboxTypeOK, Record, Go, Places
  <2>6. HeldOK'
    BY <1>1, <2>3, <2>4, RowsDiffer DEF OutboxInv, OutboxTypeOK, HeldOK, Record, Go, Handling
  <2>7. ShownOK'
    BY <1>1, <2>4 DEF OutboxInv, OutboxTypeOK, ShownOK, Record, Go
  <2>8. EnqueuedOK'
    BY <1>1, <2>1, <2>4 DEF OutboxInv, EnqueuedOK, Record
  <2>9. BackedOK'
    BY <1>1, <2>3, <2>4, RowsDiffer DEF OutboxInv, OutboxTypeOK, BackedOK, Exists, Record, Go, Handling
  <2> QED
    BY <2>5, <2>6, <2>7, <2>8, <2>9 DEF OutboxInv
<1> QED
  BY <1>2, <1>3 DEF Record

(* Common to MarkSent and Backoff.                                         *)
LEMMA WriteInv ==
    ASSUME OutboxInv, NEW p \in Processors, NEW from \in {"mark", "backoff"},
           NEW row \in OutboxRow, Write(p, from, row), UNCHANGED crashes,
           row.status = "sent" => from = "mark"
    PROVE  OutboxInv'
<1>1. current[p] \in ApprovalIds /\ at[p] = from
  BY DEF OutboxInv, HeldOK, Write, Go, Handling
<1>2. row.status = "sent" => posts[current[p]] > 0
  BY <1>1 DEF OutboxInv, ShownOK
<1>3. OutboxTypeOK'
  BY <1>1 DEF OutboxInv, OutboxTypeOK, Write, Go, Places
<1>4. HeldOK'
  BY DEF OutboxInv, OutboxTypeOK, HeldOK, Write, Go, Handling
<1>5. ShownOK'
  BY <1>1, <1>2 DEF OutboxInv, OutboxTypeOK, ShownOK, Write, Go
<1>6. EnqueuedOK'
  BY <1>1, RowsDiffer DEF OutboxInv, OutboxTypeOK, EnqueuedOK, Write
<1>7. BackedOK'
  BY <1>1 DEF OutboxInv, OutboxTypeOK, BackedOK, Exists, Write, Go, Handling
<1> QED
  BY <1>3, <1>4, <1>5, <1>6, <1>7 DEF OutboxInv

LEMMA ProcessInv ==
    ASSUME OutboxInv, NEW p \in Processors, Process(p), UNCHANGED crashes
    PROVE  OutboxInv'
<1>1. CASE MarkSent(p)
  BY <1>1, WriteInv DEF MarkSent, OutboxRow
<1>2. CASE Backoff(p)
  BY <1>2, WriteInv DEF Backoff, OutboxRow
<1> QED
  BY <1>1, <1>2, FinishInv, TakeInv, PostInv, PostFailInv, RecordInv DEF Process

-----------------------------------------------------------------------------
(* What others do to the tables, and the crash.                            *)

LEMMA EnqueueInv ==
    ASSUME OutboxInv, NEW a \in ApprovalIds, Enqueue(a), UNCHANGED crashes
    PROVE  OutboxInv'
<1>1. PICK k \in Keys :
        approvals' = [approvals EXCEPT ![a] = [key |-> k, status |-> "pending", posted |-> FALSE]]
  BY DEF Enqueue
<1>2. [key |-> k, status |-> "pending", posted |-> FALSE] \in ApprovalRow
  BY DEF ApprovalRow, ApprovalStatus
<1>3. QueuedRow \in OutboxRow /\ QueuedRow.status # "sent"
  BY DEF QueuedRow, OutboxRow
<1>4. OutboxTypeOK'
  BY <1>1, <1>2, <1>3 DEF OutboxInv, OutboxTypeOK, Enqueue, local
<1>5. HeldOK'
  BY <1>1, <1>2, RowsDiffer DEF OutboxInv, OutboxTypeOK, HeldOK, Enqueue, local
<1>6. ShownOK'
  BY <1>1, <1>3 DEF OutboxInv, OutboxTypeOK, ShownOK, Enqueue, local
<1>7. EnqueuedOK'
  BY <1>1, <1>3, RowsDiffer DEF OutboxInv, OutboxTypeOK, EnqueuedOK, Enqueue
<1>8. BackedOK'
  BY <1>1, <1>2, RowsDiffer DEF OutboxInv, OutboxTypeOK, BackedOK, Exists, Enqueue, local
<1> QED
  BY <1>4, <1>5, <1>6, <1>7, <1>8 DEF OutboxInv

LEMMA DecideInv ==
    ASSUME OutboxInv, NEW a \in ApprovalIds, NEW d \in Decisions, Decide(a, d), UNCHANGED crashes
    PROVE  OutboxInv'
<1> DEFINE new == [approvals[a] EXCEPT !.status = d]
<1>1. approvals[a] \in ApprovalRow
  BY DEF OutboxInv, OutboxTypeOK, Decide, NoApproval
<1>2. new \in ApprovalRow /\ new.key = approvals[a].key
  BY <1>1 DEF ApprovalRow, ApprovalStatus, Decisions
<1>3. approvals' = [approvals EXCEPT ![a] = PutApproval(approvals[a], new)]
  BY DEF Decide
<1>4. approvals'[a] \in ApprovalRow /\ approvals'[a].key = approvals[a].key
  BY <1>1, <1>2, <1>3, PutApprovalType DEF OutboxInv, OutboxTypeOK
<1>5. \A b \in ApprovalIds \ {a} : approvals'[b] = approvals[b]
  BY <1>3 DEF OutboxInv, OutboxTypeOK
<1>6. OutboxTypeOK'
  BY <1>3, <1>4 DEF OutboxInv, OutboxTypeOK, Decide, local
<1>7. HeldOK'
  BY <1>4, <1>5, RowsDiffer DEF OutboxInv, OutboxTypeOK, HeldOK, Decide, local
<1>8. ShownOK'
  BY <1>5 DEF OutboxInv, OutboxTypeOK, ShownOK, Decide, local
<1>9. EnqueuedOK'
  BY <1>1, <1>5, RowsDiffer DEF OutboxInv, EnqueuedOK, Decide
<1>10. BackedOK'
  BY <1>4, <1>5, RowsDiffer DEF OutboxInv, OutboxTypeOK, BackedOK, Exists, Decide, local
<1> QED
  BY <1>6, <1>7, <1>8, <1>9, <1>10 DEF OutboxInv

LEMMA ElapseInv ==
    ASSUME OutboxInv, NEW a \in ApprovalIds, Elapse(a), UNCHANGED crashes
    PROVE  OutboxInv'
<1>1. outbox[a] \in OutboxRow
  BY DEF OutboxInv, OutboxTypeOK, Elapse, NoOutbox
<1>2. /\ outbox'[a] \in OutboxRow /\ outbox'[a].status = "pending"
      /\ \A b \in ApprovalIds \ {a} : outbox'[b] = outbox[b]
  BY <1>1 DEF OutboxInv, OutboxTypeOK, Elapse, OutboxRow
<1>3. OutboxTypeOK'
  BY <1>2 DEF OutboxInv, OutboxTypeOK, Elapse, local
<1>4. HeldOK'
  BY DEF OutboxInv, HeldOK, Elapse, local
<1>5. ShownOK' /\ EnqueuedOK'
  BY <1>2, RowsDiffer DEF OutboxInv, ShownOK, EnqueuedOK, Elapse, local
<1>6. BackedOK'
  BY <1>1, <1>2, RowsDiffer DEF OutboxInv, BackedOK, Exists, Elapse, local
<1> QED
  BY <1>3, <1>4, <1>5, <1>6 DEF OutboxInv

LEMMA CrashInv ==
    ASSUME OutboxInv, Crash, crashes' \in 0..MaxCrashes
    PROVE  OutboxInv'
<1>1. OutboxTypeOK'
  BY LimitAssumption DEF OutboxInv, OutboxTypeOK, Crash, Places
<1>2. HeldOK' /\ ShownOK' /\ EnqueuedOK' /\ BackedOK'
  BY DEF OutboxInv, HeldOK, ShownOK, EnqueuedOK, BackedOK, Exists, Crash, Handling
<1> QED
  BY <1>1, <1>2 DEF OutboxInv

-----------------------------------------------------------------------------
LEMMA StepInv == OutboxInv /\ [Next]_<<outboxVars, crashes>> => OutboxInv'
<1> SUFFICES ASSUME OutboxInv, [Next]_<<outboxVars, crashes>>
             PROVE  OutboxInv'
  OBVIOUS
<1>1. CASE Step /\ UNCHANGED crashes
  BY <1>1, ListInv, ProcessInv, EnqueueInv, ElapseInv, DecideInv DEF Step
<1>2. CASE crashes < MaxCrashes /\ Crash /\ crashes' = crashes + 1
  <2>1. crashes' \in 0..MaxCrashes
    BY <1>2, LimitAssumption DEF OutboxInv, OutboxTypeOK
  <2> QED
    BY <1>2, <2>1, CrashInv
<1>3. CASE UNCHANGED <<outboxVars, crashes>>
  BY <1>3 DEF OutboxInv, OutboxTypeOK, HeldOK, ShownOK, EnqueuedOK, BackedOK, Exists, outboxVars
<1> QED
  BY <1>1, <1>2, <1>3 DEF Next

(* No processor adds an approval, takes one away or gives it another key.  *)
LEMMA KeysStay ==
    ASSUME OutboxInv, NEW a \in ApprovalIds,
           \/ \E p \in Processors : List(p) \/ Process(p)
           \/ \E b \in ApprovalIds : Elapse(b)
    PROVE  (Exists(a) <=> Exists(a)') /\ approvals'[a].key = approvals[a].key
<1>1. CASE UNCHANGED approvals
  BY <1>1 DEF Exists
<1>2. CASE \E p \in Processors : Record(p)
  <2>1. PICK p \in Processors : Record(p)
    BY <1>2
  <2>2. CASE /\ snapshot[p] # NoApproval
             /\ approvals' = [approvals EXCEPT ![current[p]] = PutApproval(@, Stamped(snapshot[p]))]
    <3> DEFINE b == current[p]
    <3>1. /\ snapshot[p] \in ApprovalRow /\ b \in ApprovalIds /\ approvals[b] \in ApprovalRow
          /\ approvals[b].key = snapshot[p].key
      BY <2>2 DEF OutboxInv, OutboxTypeOK, HeldOK
    <3>2. Stamped(snapshot[p]) \in ApprovalRow /\ Stamped(snapshot[p]).key = snapshot[p].key
      BY <3>1 DEF Stamped, ApprovalRow
    <3>3. approvals'[b] \in ApprovalRow /\ approvals'[b].key = approvals[b].key
      BY <2>2, <3>1, <3>2, PutApprovalType DEF OutboxInv, OutboxTypeOK
    <3>4. \A c \in ApprovalIds \ {b} : approvals'[c] = approvals[c]
      BY <2>2, <3>1 DEF OutboxInv, OutboxTypeOK
    <3>5. CASE a = b
      BY <3>1, <3>3, <3>5, RowsDiffer DEF Exists
    <3>6. CASE a # b
      BY <3>4, <3>6 DEF Exists
    <3> QED
      BY <3>5, <3>6
  <2> QED
    BY <1>1, <2>1, <2>2 DEF Record
<1> QED
  BY <1>1, <1>2 DEF List, Process, Finish, Take, Post, PostFail, MarkSent, Backoff, Write, Elapse

(* Every table and every loop variable of the outbox keeps its type.       *)
THEOREM OutboxTypeCorrect == Spec => []OutboxTypeOK
<1>1. OutboxInv => OutboxTypeOK
  BY DEF OutboxInv
<1> QED
  BY <1>1, InitInv, StepInv, PTL DEF Spec

(* No approval is silently lost: its message is queued or was shown.       *)
THEOREM AlwaysQueuedOrShown == Spec => []QueuedOrShown
<1>1. OutboxInv => QueuedOrShown
  BY DEF OutboxInv, OutboxTypeOK, ShownOK, EnqueuedOK, QueuedOrShown, NoApproval, OutboxRow
<1> QED
  BY <1>1, InitInv, StepInv, PTL DEF Spec

-----------------------------------------------------------------------------
(* Repeats.  With reads and writes that do not fail, a processor posts a   *)
(* message only if no timestamp was recorded when it read the approval:    *)
(* the processors that still may are counted with the posts made.          *)

Going(a) == {p \in Processors : at[p] = "post" /\ current[p] = a}
Shown(a) == {p \in Processors : at[p] = "record" /\ current[p] = a}

(* Until the first timestamp of an approval is recorded, the posts of this *)
(* life of the process are those of processors about to record one.        *)
Bounded(a) ==
    IF approvals[a].posted
    THEN posts[a] + Cardinality(Going(a)) <= (crashes + 1) * Cardinality(Processors)
    ELSE posts[a] <= crashes * Cardinality(Processors) + Cardinality(Shown(a))

(* A processor about to record a timestamp has read the approval.          *)
ReadOK == \A p \in Processors : at[p] \in {"post", "record"} => snapshot[p] # NoApproval

RepeatsInv == ~Unreliable => ReadOK /\ \A a \in ApprovalIds : Bounded(a)

LEMMA Counts ==
    ASSUME NEW S \in SUBSET Processors, NEW T \in SUBSET Processors
    PROVE  /\ IsFiniteSet(S) /\ Cardinality(S) \in Nat /\ Cardinality(Processors) \in Nat
           /\ S \subseteq T => Cardinality(S) <= Cardinality(T)
           /\ S \cap T = {} => Cardinality(S) + Cardinality(T) <= Cardinality(Processors)
<1>1. IsFiniteSet(Processors)
  BY ProcessorsAssumption, FS_Union DEF Processors
<1>2. IsFiniteSet(S) /\ IsFiniteSet(T)
  BY <1>1, FS_Subset
<1>3. Cardinality(Processors) \in Nat /\ Cardinality(S) \in Nat /\ Cardinality(T) \in Nat
  BY <1>1, <1>2, FS_CardinalityType
<1>4. ASSUME S \cap T = {}
      PROVE  Cardinality(S \cup T) = Cardinality(S) + Cardinality(T)
  <2>1. Cardinality(S \cap T) = 0
    BY <1>4, FS_EmptySet
  <2>2. Cardinality(S \cup T) = Cardinality(S) + Cardinality(T) - Cardinality(S \cap T)
    BY <1>2, FS_Union
  <2> QED
    BY <1>3, <2>1, <2>2
<1>5. Cardinality(S \cup T) <= Cardinality(Processors)
  BY <1>1, FS_Subset
<1>6. S \subseteq T => Cardinality(S) <= Cardinality(T)
  BY <1>2, FS_Subset
<1> QED
  BY <1>2, <1>3, <1>4, <1>5, <1>6

LEMMA Multiples ==
    ASSUME NEW c \in Nat, NEW n \in Nat
    PROVE  c * n \in Nat /\ (c + 1) * n = c * n + n
OBVIOUS

LEMMA Numbers ==
    ASSUME OutboxTypeOK, NEW a \in ApprovalIds
    PROVE  posts[a] \in Nat /\ crashes \in Nat
BY LimitAssumption DEF OutboxTypeOK

(* Nothing happens to the message but that processors turn away from it or *)
(* towards it.                                                             *)
LEMMA NothingPosted ==
    ASSUME OutboxTypeOK, NEW a \in ApprovalIds, Bounded(a), UNCHANGED crashes,
           posts'[a] = posts[a], approvals'[a].posted = approvals[a].posted,
           approvals[a].posted => Going(a)' \subseteq Going(a),
           ~approvals[a].posted => Shown(a) \subseteq Shown(a)'
    PROVE  Bounded(a)'
<1>1. /\ Going(a) \in SUBSET Processors /\ Going(a)' \in SUBSET Processors
      /\ Shown(a) \in SUBSET Processors /\ Shown(a)' \in SUBSET Processors
  BY DEF Going, Shown, Processors
<1>2. /\ Cardinality(Going(a)) \in Nat /\ Cardinality(Going(a)') \in Nat
      /\ Cardinality(Shown(a)) \in Nat /\ Cardinality(Shown(a)') \in Nat
      /\ Cardinality(Processors) \in Nat
  BY <1>1, Counts
<1>3. /\ approvals[a].posted => Cardinality(Going(a)') <= Cardinality(Going(a))
      /\ ~approvals[a].posted => Cardinality(Shown(a)) <= Cardinality(Shown(a)')
  BY <1>1, Counts
<1>4. (crashes + 1) * Cardinality(Processors) \in Nat /\ crashes * Cardinality(Processors) \in Nat
  BY <1>2, Numbers, Multiples
<1>5. Processors' = Processors
  BY DEF Processors
<1>6. CASE approvals[a].posted
  BY <1>2, <1>3, <1>4, <1>5, <1>6, Numbers DEF Bounded
<1>7. CASE ~approvals[a].posted
  BY <1>2, <1>3, <1>4, <1>5, <1>7, Numbers DEF Bounded
<1> QED
  BY <1>6, <1>7

(* A processor posts the message: one more post, one fewer to come.        *)
LEMMA OnePosted ==
    ASSUME OutboxTypeOK, NEW a \in ApprovalIds, Bounded(a), UNCHANGED <<crashes, approvals>>,
           NEW p \in Processors, posts'[a] = posts[a] + 1,
           p \in Going(a), p \in Shown(a)',
           Going(a)' \subseteq Going(a) \ {p}, Shown(a) \subseteq Shown(a)' \ {p}
    PROVE  Bounded(a)'
<1>1. /\ Going(a) \in SUBSET Processors /\ Going(a)' \in SUBSET Processors
      /\ Shown(a) \in SUBSET Processors /\ Shown(a)' \in SUBSET Processors
  BY DEF Going, Shown, Processors
<1>2. /\ Cardinality(Going(a)) \in Nat /\ Cardinality(Going(a)') \in Nat
      /\ Cardinality(Shown(a)) \in Nat /\ Cardinality(Shown(a)') \in Nat
      /\ Cardinality(Processors) \in Nat
      /\ IsFiniteSet(Going(a)) /\ IsFiniteSet(Shown(a)')
  BY <1>1, Counts
<1>3. Cardinality(Going(a)') <= Cardinality(Going(a)) - 1
  <2>1. Cardinality(Going(a) \ {p}) = Cardinality(Going(a)) - 1
    BY <1>2, FS_RemoveElement
  <2>2. Cardinality(Going(a)') <= Cardinality(Going(a) \ {p})
    BY <1>1, Counts
  <2> QED
    BY <1>2, <2>1, <2>2
<1>4. Cardinality(Shown(a)) <= Cardinality(Shown(a)') - 1
  <2>1. Cardinality(Shown(a)' \ {p}) = Cardinality(Shown(a)') - 1
    BY <1>2, FS_RemoveElement
  <2>2. Cardinality(Shown(a)) <= Cardinality(Shown(a)' \ {p})
    BY <1>1, Counts
  <2> QED
    BY <1>2, <2>1, <2>2
<1>5. (crashes + 1) * Cardinality(Processors) \in Nat /\ crashes * Cardinality(Processors) \in Nat
  BY <1>2, Numbers, Multiples
<1>6. Processors' = Processors
  BY DEF Processors
<1>7. CASE approvals[a].posted
  BY <1>2, <1>3, <1>5, <1>6, <1>7, Numbers DEF Bounded
<1>8. CASE ~approvals[a].posted
  BY <1>2, <1>4, <1>5, <1>6, <1>8, Numbers DEF Bounded
<1> QED
  BY <1>7, <1>8

(* The first timestamp is recorded: those that still may post are not      *)
(* among those that have.                                                  *)
LEMMA FirstRecorded ==
    ASSUME OutboxTypeOK, NEW a \in ApprovalIds, Bounded(a), UNCHANGED <<crashes, posts>>,
           ~approvals[a].posted, approvals'[a].posted = TRUE, Going(a)' \subseteq Going(a)
    PROVE  Bounded(a)'
<1>1. /\ Going(a) \in SUBSET Processors /\ Going(a)' \in SUBSET Processors
      /\ Shown(a) \in SUBSET Processors /\ Going(a)' \cap Shown(a) = {}
  BY DEF Going, Shown, Processors
<1>2. /\ Cardinality(Going(a)') \in Nat /\ Cardinality(Shown(a)) \in Nat
      /\ Cardinality(Processors) \in Nat
      /\ Cardinality(Going(a)') + Cardinality(Shown(a)) <= Cardinality(Processors)
  BY <1>1, Counts
<1>3. /\ crashes * Cardinality(Processors) \in Nat
      /\ (crashes + 1) * Cardinality(Processors)
           = crashes * Cardinality(Processors) + Cardinality(Processors)
  BY <1>2, Numbers, Multiples
<1>4. posts[a] <= crashes * Cardinality(Processors) + Cardinality(Shown(a))
  BY DEF Bounded
<1>5. posts'[a] + Cardinality(Going(a)') <= (crashes' + 1) * Cardinality(Processors)
  BY <1>2, <1>3, <1>4, Numbers
<1>6. Processors' = Processors
  BY DEF Processors
<1> QED
  BY <1>5, <1>6 DEF Bounded

(* The process dies: whoever was about to post starts again.               *)
LEMMA CrashBounded ==
    ASSUME OutboxTypeOK, NEW a \in ApprovalIds, Bounded(a), Crash, crashes' = crashes + 1
    PROVE  Bounded(a)'
<1>1. Going(a)' = {} /\ Shown(a)' = {} /\ Processors' = Processors
  BY DEF Crash, Going, Shown, Processors
<1>2. /\ Going(a) \in SUBSET Processors /\ Shown(a) \in SUBSET Processors
      /\ Processors \in SUBSET Processors
  BY DEF Going, Shown
<1>3. /\ Cardinality(Going(a)) \in Nat /\ Cardinality(Shown(a)) \in Nat
      /\ Cardinality(Processors) \in Nat /\ Cardinality(Shown(a)) <= Cardinality(Processors)
      /\ Cardinality({}) = 0
  BY <1>2, Counts, FS_EmptySet
<1>4. /\ crashes * Cardinality(Processors) \in Nat
      /\ (crashes + 1) * Cardinality(Processors)
           = crashes * Cardinality(Processors) + Cardinality(Processors)
      /\ (crashes + 1 + 1) * Cardinality(Processors)
           = (crashes + 1) * Cardinality(Processors) + Cardinality(Processors)
  BY <1>3, Numbers, Multiples
<1>5. posts'[a] = posts[a] /\ approvals'[a].posted = approvals[a].posted
  BY DEF Crash
<1>6. posts[a] <= (crashes + 1) * Cardinality(Processors)
  BY <1>3, <1>4, Numbers DEF Bounded
<1>7. /\ posts'[a] + Cardinality({}) <= (crashes' + 1) * Cardinality(Processors)
      /\ posts'[a] <= crashes' * Cardinality(Processors) + Cardinality({})
  BY <1>3, <1>4, <1>5, <1>6, Numbers
<1> QED
  BY <1>1, <1>7 DEF Bounded

(* A processor reads the approval before it posts; it turns to posting     *)
(* only when it found no timestamp.                                        *)
LEMMA TakeBounded ==
    ASSUME OutboxInv, ~Unreliable, ReadOK, \A a \in ApprovalIds : Bounded(a),
           NEW p \in Processors, Take(p), UNCHANGED crashes
    PROVE  ReadOK' /\ \A a \in ApprovalIds : Bounded(a)'
<1> DEFINE to(b) == IF AlreadyPosted(approvals[b]) THEN "mark" ELSE "post"
<1>1. PICK b \in batch[p] :
        /\ at[p] = "next" /\ at' = [at EXCEPT ![p] = to(b)]
        /\ current' = [current EXCEPT ![p] = b]
        /\ snapshot' = [snapshot EXCEPT ![p] = approvals[b]]
        /\ UNCHANGED <<approvals, outbox, posts>>
  BY DEF Take, Go
<1>2. approvals[b] # NoApproval
  BY <1>1 DEF OutboxInv, BackedOK, Exists
<1>3. ReadOK'
  BY <1>1, <1>2 DEF OutboxInv, OutboxTypeOK, ReadOK, Processors
<1>4. ASSUME NEW a \in ApprovalIds
      PROVE  Bounded(a)'
  <2>1. approvals[a].posted => Going(a)' \subseteq Going(a)
    BY <1>1 DEF OutboxInv, OutboxTypeOK, Going, AlreadyPosted, Processors
  <2>2. Shown(a) \subseteq Shown(a)'
    BY <1>1 DEF OutboxInv, OutboxTypeOK, Shown, Processors
  <2> QED
    BY <1>1, <2>1, <2>2, NothingPosted DEF OutboxInv
<1> QED
  BY <1>3, <1>4

LEMMA PostBounded ==
    ASSUME OutboxInv, ReadOK, \A a \in ApprovalIds : Bounded(a),
           NEW p \in Processors, Post(p), UNCHANGED crashes
    PROVE  ReadOK' /\ \A a \in ApprovalIds : Bounded(a)'
<1>1. /\ at[p] = "post" /\ at' = [at EXCEPT ![p] = "record"]
      /\ posts' = [posts EXCEPT ![current[p]] = @ + 1]
      /\ UNCHANGED <<approvals, outbox, batch, current, snapshot>>
  BY DEF Post, Go, Deliver
<1>2. ReadOK'
  BY <1>1 DEF OutboxInv, OutboxTypeOK, ReadOK, Processors
<1>3. ASSUME NEW a \in ApprovalIds, a = current[p]
      PROVE  Bounded(a)'
  <2>1. p \in Going(a) /\ p \in Shown(a)' /\ Going(a)' \subseteq Going(a) \ {p}
    BY <1>1, <1>3 DEF OutboxInv, OutboxTypeOK, Going, Shown, Processors
  <2>2. Shown(a) \subseteq Shown(a)' \ {p}
    BY <1>1 DEF OutboxInv, OutboxTypeOK, Shown, Processors
  <2>3. posts'[a] = posts[a] + 1
    BY <1>1, <1>3 DEF OutboxInv, OutboxTypeOK
  <2> QED
    BY <1>1, <2>1, <2>2, <2>3, OnePosted DEF OutboxInv
<1>4. ASSUME NEW a \in ApprovalIds, a # current[p]
      PROVE  Bounded(a)'
  <2>1. Going(a)' \subseteq Going(a) /\ Shown(a) \subseteq Shown(a)'
    BY <1>1, <1>4 DEF OutboxInv, OutboxTypeOK, Going, Shown, Processors
  <2>2. posts'[a] = posts[a]
    BY <1>1, <1>4 DEF OutboxInv, OutboxTypeOK
  <2> QED
    BY <1>1, <2>1, <2>2, NothingPosted DEF OutboxInv
<1> QED
  BY <1>2, <1>3, <1>4

LEMMA RecordBounded ==
    ASSUME OutboxInv, ~Unreliable, ReadOK, \A a \in ApprovalIds : Bounded(a),
           NEW p \in Processors, Record(p), UNCHANGED crashes
    PROVE  ReadOK' /\ \A a \in ApprovalIds : Bounded(a)'
<1>1. /\ at[p] = "record" /\ at' = [at EXCEPT ![p] = "mark"]
      /\ UNCHANGED <<outbox, posts, batch, current, snapshot>>
  BY DEF Record, Go
<1>2. /\ snapshot[p] \in ApprovalRow /\ current[p] \in ApprovalIds
      /\ approvals[current[p]] \in ApprovalRow \cup {NoApproval}
      /\ approvals' = [approvals EXCEPT ![current[p]] = PutApproval(@, Stamped(snapshot[p]))]
  BY <1>1 DEF OutboxInv, OutboxTypeOK, HeldOK, Handling, ReadOK, Record
<1>3. Stamped(snapshot[p]) \in ApprovalRow /\ Stamped(snapshot[p]).posted = TRUE
  BY <1>2 DEF Stamped, ApprovalRow
<1>4. approvals'[current[p]].posted = TRUE
  BY <1>2, <1>3, PutApprovalType DEF OutboxInv, OutboxTypeOK
<1>5. ReadOK'
  BY <1>1 DEF OutboxInv, OutboxTypeOK, ReadOK, Processors
<1>6. ASSUME NEW a \in ApprovalIds
      PROVE  Going(a)' \subseteq Going(a)
  BY <1>1 DEF OutboxInv, OutboxTypeOK, Going, Processors
<1>7. ASSUME NEW a \in ApprovalIds, a = current[p], ~approvals[a].posted
      PROVE  Bounded(a)'
  BY <1>1, <1>4, <1>6, <1>7, FirstRecorded DEF OutboxInv
<1>8. ASSUME NEW a \in ApprovalIds, a = current[p], approvals[a].posted
      PROVE  Bounded(a)'
  <2>1. approvals[a].posted = TRUE
    BY <1>8, <1>2 DEF ApprovalRow, NoApproval
  <2> QED
    BY <1>1, <1>4, <1>6, <1>8, <2>1, NothingPosted DEF OutboxInv
<1>9. ASSUME NEW a \in ApprovalIds, a # current[p]
      PROVE  Bounded(a)'
  <2>1. approvals'[a] = approvals[a]
    BY <1>2, <1>9 DEF OutboxInv, OutboxTypeOK
  <2>2. Shown(a) \subseteq Shown(a)'
    BY <1>1, <1>9 DEF OutboxInv, OutboxTypeOK, Shown, Processors
  <2> QED
    BY <1>1, <1>6, <2>1, <2>2, NothingPosted DEF OutboxInv
<1> QED
  BY <1>5, <1>7, <1>8, <1>9

(* Every other step of a processor leaves posts and timestamps alone, and  *)
(* comes neither from "record" nor to "post".                              *)
LEMMA ProcessorBounded ==
    ASSUME OutboxInv, ~Unreliable, ReadOK, \A a \in ApprovalIds : Bounded(a),
           NEW p \in Processors, List(p) \/ Process(p), UNCHANGED crashes
    PROVE  ReadOK' /\ \A a \in ApprovalIds : Bounded(a)'
<1>1. CASE List(p) \/ Finish(p) \/ PostFail(p) \/ MarkSent(p) \/ Backoff(p)
  <2>1. /\ UNCHANGED <<approvals, posts>>
        /\ at[p] # "record"
        /\ \E to \in {"next", "idle", "backoff"} : at' = [at EXCEPT ![p] = to]
        /\ \A q \in Processors \ {p} : current'[q] = current[q] /\ snapshot'[q] = snapshot[q]
    BY <1>1 DEF OutboxInv, OutboxTypeOK, List, Finish, PostFail, MarkSent, Backoff, Write, Go
  <2>2. ReadOK'
    BY <2>1 DEF OutboxInv, OutboxTypeOK, ReadOK, Processors
  <2>3. ASSUME NEW a \in ApprovalIds
        PROVE  Going(a)' \subseteq Going(a) /\ Shown(a) \subseteq Shown(a)'
    BY <2>1 DEF OutboxInv, OutboxTypeOK, Going, Shown, Processors
  <2> QED
    BY <2>1, <2>2, <2>3, NothingPosted DEF OutboxInv
<1> QED
  BY <1>1, TakeBounded, PostBounded, RecordBounded DEF Process

LEMMA OthersBounded ==
    ASSUME OutboxInv, ReadOK, \A a \in ApprovalIds : Bounded(a), UNCHANGED crashes,
           NEW b \in ApprovalIds,
           Enqueue(b) \/ Elapse(b) \/ \E d \in Decisions : Decide(b, d)
    PROVE  ReadOK' /\ \A a \in ApprovalIds : Bounded(a)'
<1>1. UNCHANGED <<at, current, snapshot, posts>>
  BY DEF Enqueue, Elapse, Decide, local
<1>2. ASSUME NEW a \in ApprovalIds
      PROVE  approvals'[a].posted = approvals[a].posted
  <2>1. CASE Enqueue(b)
    <3>1. PICK k \in Keys : approvals' =
              [approvals EXCEPT ![b] = [key |-> k, status |-> "pending", posted |-> FALSE]]
      BY <2>1 DEF Enqueue
    <3>2. approvals[b].posted = FALSE
      BY <2>1 DEF Enqueue, NoApproval
    <3> QED
      BY <3>1, <3>2 DEF OutboxInv, OutboxTypeOK
  <2>2. CASE Elapse(b)
    BY <2>2 DEF Elapse
  <2>3. ASSUME NEW d \in Decisions, Decide(b, d)
        PROVE  approvals'[a].posted = approvals[a].posted
    <3> DEFINE new == [approvals[b] EXCEPT !.status = d]
    <3>1. approvals[b] \in ApprovalRow
      BY <2>3 DEF OutboxInv, OutboxTypeOK, Decide, NoApproval
    <3>2. new \in ApprovalRow /\ new.posted = approvals[b].posted
      BY <3>1 DEF ApprovalRow, ApprovalStatus, Decisions
    <3>3. PutApproval(approvals[b], new).posted = approvals[b].posted
      BY <3>1, <3>2, PutApprovalType DEF ApprovalRow
    <3>4. approvals' = [approvals EXCEPT ![b] = PutApproval(approvals[b], new)]
      BY <2>3 DEF Decide
    <3> QED
      BY <3>3, <3>4 DEF OutboxInv, OutboxTypeOK
  <2> QED
    BY <2>1, <2>2, <2>3
<1>3. ReadOK'
  BY <1>1 DEF ReadOK, Processors
<1>4. ASSUME NEW a \in ApprovalIds
      PROVE  Going(a)' = Going(a) /\ Shown(a)' = Shown(a)
  BY <1>1 DEF Going, Shown, Processors
<1> QED
  BY <1>1, <1>2, <1>3, <1>4, NothingPosted DEF OutboxInv

LEMMA RepeatsStep ==
    OutboxInv /\ RepeatsInv /\ [Next]_<<outboxVars, crashes>> => RepeatsInv'
<1> SUFFICES ASSUME OutboxInv, ~Unreliable, ReadOK, \A a \in ApprovalIds : Bounded(a),
                    [Next]_<<outboxVars, crashes>>
             PROVE  ReadOK' /\ \A a \in ApprovalIds : Bounded(a)'
  BY DEF RepeatsInv
<1>1. CASE Step /\ UNCHANGED crashes
  BY <1>1, ProcessorBounded, OthersBounded DEF Step
<1>2. CASE Crash /\ crashes' = crashes + 1
  <2>1. ReadOK'
    BY <1>2 DEF Crash, ReadOK, Processors
  <2> QED
    BY <1>2, <2>1, CrashBounded DEF OutboxInv
<1>3. CASE UNCHANGED <<outboxVars, crashes>>
  BY <1>3 DEF outboxVars, ReadOK, Bounded, Going, Shown, Processors
<1> QED
  BY <1>1, <1>2, <1>3 DEF Next

LEMMA RepeatsInit == Init => RepeatsInv
<1>1. ASSUME Init
      PROVE  ReadOK
  BY <1>1 DEF Init, OutboxInit, ReadOK, Processors
<1>2. ASSUME Init, NEW a \in ApprovalIds
      PROVE  Bounded(a)
  <2>1. posts[a] = 0 /\ crashes = 0 /\ ~approvals[a].posted
    BY <1>2 DEF Init, OutboxInit, NoApproval
  <2>2. Cardinality(Shown(a)) \in Nat /\ Cardinality(Processors) \in Nat
    BY Counts DEF Shown
  <2>3. crashes * Cardinality(Processors) = 0
    BY <2>1, <2>2
  <2> QED
    BY <2>1, <2>2, <2>3 DEF Bounded
<1> QED
  BY <1>1, <1>2 DEF RepeatsInv

(* With reads and writes that do not fail, a processor posts a message at  *)
(* most once in a life of the process, whatever the batches and crashes.   *)
THEOREM RepeatsAlwaysBounded == Spec => []RepeatsBounded
<1>1. ASSUME OutboxInv, RepeatsInv, ~Unreliable, NEW a \in ApprovalIds
      PROVE  posts[a] <= (crashes + 1) * Cardinality(Processors)
  <2>1. Going(a) \in SUBSET Processors /\ Shown(a) \in SUBSET Processors
        /\ Processors \in SUBSET Processors
    BY DEF Going, Shown
  <2>2. /\ Cardinality(Going(a)) \in Nat /\ Cardinality(Shown(a)) \in Nat
        /\ Cardinality(Processors) \in Nat /\ Cardinality(Shown(a)) <= Cardinality(Processors)
    BY <2>1, Counts
  <2>3. posts[a] \in Nat /\ crashes \in Nat
    BY <1>1, Numbers DEF OutboxInv
  <2>4. /\ crashes * Cardinality(Processors) \in Nat
        /\ (crashes + 1) * Cardinality(Processors)
             = crashes * Cardinality(Processors) + Cardinality(Processors)
    BY <2>2, <2>3, Multiples
  <2>5. Bounded(a)
    BY <1>1 DEF RepeatsInv
  <2> QED
    BY <2>2, <2>3, <2>4, <2>5 DEF Bounded
<1>2. OutboxInv /\ RepeatsInv => RepeatsBounded
  BY <1>1 DEF RepeatsBounded
<1> QED
  BY <1>2, InitInv, StepInv, RepeatsInit, RepeatsStep, PTL DEF Spec

=============================================================================
