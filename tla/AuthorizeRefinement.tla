------------------------ MODULE AuthorizeRefinement ------------------------
(***************************************************************************)
(* AuthorizeService implements ApprovalLifecycle for the gated keys: the   *)
(* phase of a key is the status of its row in idempotency_keys, and a key  *)
(* has been granted when the broker was called for one of its receipts.    *)
(***************************************************************************)
EXTENDS AuthorizeService

phase == [k \in GatedKeys |-> idem[k].status]
granted == {k \in GatedKeys : \E id \in minted : id.key = k}

Lifecycle == INSTANCE ApprovalLifecycle WITH Gated <- GatedKeys

(* Every step of the service is a step of the lifecycle of one gated key,  *)
(* or none: no race, retry, click, failing read or restart skips a phase,  *)
(* returns to one, or grants credentials outside an issuance.              *)
LifecycleSpec == Lifecycle!Spec

(* A denial is for good: a denied gated key has been granted nothing.      *)
DeniedGetsNothing == Lifecycle!DeniedGetsNothing
=============================================================================
