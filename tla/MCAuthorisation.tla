--------------------------- MODULE MCAuthorisation ---------------------------
(* Small instances of Authorisation for TLC. *)
EXTENDS Authorisation
=============================================================================
