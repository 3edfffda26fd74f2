------------------------------ MODULE MCUpdater ------------------------------
(* Small instances of Updater for TLC. *)
EXTENDS Updater

CONSTANTS s1, s2, s3, s4

TwoInstalled == <<s1, s2>>
ThreeInstalled == <<s1, s2, s3>>
=============================================================================
