-------------------------------- MODULE Gate --------------------------------
(***************************************************************************)
(* What the actuation path promises, with no database, threads, processes   *)
(* or clocks to step: a key opens the gate at most once and never after its *)
(* outcome was settled; outcomes are never withdrawn; and every opening is  *)
(* charged to an instant not later than the opening, the instants of        *)
(* successive openings being at least Cooldown apart in true time.          *)
(***************************************************************************)
EXTENDS Integers

CONSTANTS Keys, Cooldown

VARIABLES
    now,       \* true time
    opened,    \* keys that have opened the gate
    settled,   \* keys whose terminal outcome is known
    charged    \* the instant the latest opening is charged to

vars == <<now, opened, settled, charged>>

Init == now = 0 /\ opened = {} /\ settled = {} /\ charged = 0

Open(k, instant) ==
    /\ k \notin opened \cup settled
    /\ instant <= now
    /\ opened # {} => instant - charged >= Cooldown
    /\ opened' = opened \cup {k} /\ charged' = instant
    /\ UNCHANGED <<now, settled>>

Settle(S) ==
    /\ settled' = settled \cup S
    /\ UNCHANGED <<now, opened, charged>>

Tick == now' = now + 1 /\ UNCHANGED <<opened, settled, charged>>

Next ==
    \/ \E k \in Keys, instant \in 0..now : Open(k, instant)
    \/ \E S \in SUBSET Keys : Settle(S)
    \/ Tick

Spec == Init /\ [][Next]_vars
=============================================================================
