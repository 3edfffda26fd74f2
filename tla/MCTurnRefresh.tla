---------------------------- MODULE MCTurnRefresh ----------------------------
(* Small instances of TurnRefresh for TLC. *)
EXTENDS TurnRefresh
=============================================================================
