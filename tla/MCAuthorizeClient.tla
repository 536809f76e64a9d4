------------------------- MODULE MCAuthorizeClient -------------------------
(* Instances of AuthorizeClient for TLC. *)
EXTENDS MCAuthorizeService, AuthorizeClient
=============================================================================
