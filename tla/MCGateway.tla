----------------------------- MODULE MCGateway -----------------------------
(* Instances of Gateway for TLC. *)
EXTENDS MCAuthorizeService, Gateway
=============================================================================
