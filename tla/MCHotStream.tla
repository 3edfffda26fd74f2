----------------------------- MODULE MCHotStream -----------------------------
(* Small instances of HotStream for TLC. *)
EXTENDS HotStream
=============================================================================
