------------------------ MODULE MCAuthorizePostgres ------------------------
(* Instances of AuthorizePostgres for TLC. *)
EXTENDS MCAuthorizeService, AuthorizePostgres

PgSymmetry == Permutations(Requests) \cup Permutations(Clicks)
=============================================================================
