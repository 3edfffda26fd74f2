---------------------------- MODULE MCRecognition ----------------------------
(* Small instances of Recognition for TLC. *)
EXTENDS Recognition
=============================================================================
