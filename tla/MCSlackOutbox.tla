--------------------------- MODULE MCSlackOutbox ---------------------------
(* Instances of SlackOutbox for TLC. *)
EXTENDS SlackOutbox, TLC

GatedVerdicts == [p \in Policies |-> [k \in Keys |-> "require_approval"]]
AllRoles == [p \in Policies |-> [k \in Keys |-> TRUE]]
=============================================================================
