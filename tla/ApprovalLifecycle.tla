------------------------- MODULE ApprovalLifecycle -------------------------
(***************************************************************************)
(* What the gateway promises for an action that needs a human's approval:  *)
(* it is asked for once, decided once, issued once, and credentials are    *)
(* granted only between the start and the record of that one issuance.     *)
(* Nothing is said of receipts, calls, clicks, storage or restarts.        *)
(***************************************************************************)
CONSTANT Gated  \* the keys that need approval

VARIABLES
    phase,      \* [Gated -> Phases]
    granted     \* the keys credentials have been handed out for

Phases == {"absent", "pending_approval", "approved_ready", "issuing", "allowed", "denied"}

Init == phase = [k \in Gated |-> "absent"] /\ granted = {}

Move(k, from, to) ==
    /\ phase[k] = from
    /\ phase' = [phase EXCEPT ![k] = to]
    /\ UNCHANGED granted

Ask(k) == Move(k, "absent", "pending_approval")
Decide(k) == Move(k, "pending_approval", "approved_ready") \/ Move(k, "pending_approval", "denied")
Issue(k) == Move(k, "approved_ready", "issuing")
Record(k) == k \in granted /\ Move(k, "issuing", "allowed")

\* A second attempt at an issuance that looked dead may be granted again,
\* even after the first one has been recorded.
Grant(k) ==
    /\ phase[k] \in {"issuing", "allowed"}
    /\ granted' = granted \cup {k}
    /\ UNCHANGED phase

Next == \E k \in Gated : Ask(k) \/ Decide(k) \/ Issue(k) \/ Grant(k) \/ Record(k)

Spec == Init /\ [][Next]_<<phase, granted>>

(* Credentials are only ever granted for approved actions, and a denial is *)
(* for good: a denied key has been granted nothing.                        *)
DeniedGetsNothing == \A k \in Gated : phase[k] = "denied" => k \notin granted
=============================================================================
