------------------------------- MODULE MCRelay -------------------------------
(* Relay with three trigger calls and the two begin_shutdown calls of a shutdown. *)
EXTENDS Relay
=============================================================================
