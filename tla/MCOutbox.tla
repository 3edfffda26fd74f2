------------------------------- MODULE MCOutbox -------------------------------
(* Small instances of Outbox for TLC. *)
EXTENDS Outbox, TLC

CONSTANTS p1, p2, d1

\* The burst processor meets both events, which have the same first image unless it
\* cannot be normalised; the collector meets one of them.
MCOffered == p1 :> {<<1, d1>>, <<2, d1>>, <<2, NoImage>>} @@ p2 :> {<<1, d1>>}
=============================================================================
