----------------------------- MODULE MCActuation -----------------------------
(* Small instances of Actuation for TLC. *)
EXTENDS Actuation

\* A wall clock that is right or a whole run behind: it can step both ways.
SteppedSkews == {-3, 0}
=============================================================================
