------------------------------ MODULE Actuation ------------------------------
(***************************************************************************)
(* The actuation path of the gate controller: every way a request to open   *)
(* the gate travels from a caller to the relay and into SQLite.             *)
(*                                                                         *)
(* Modelled: ActuationCoordinator.actuate, the claim / marker / finalise    *)
(* transactions and the start-up recovery of LocalStore, the part of        *)
(* GateProcessor and DirectCommandExecutor that calls them, the collector   *)
(* thread that records skipped bursts, the relay as the coordinator sees it *)
(* and its shutdown latch, process crashes, reboots and clock steps.        *)
(*                                                                         *)
(* Every database transaction is one step; a crash can fall between any two *)
(* of them.  The three clocks are kept apart as in the code: the monotonic  *)
(* clock restarts at every boot, the wall clock can be stepped, and "now"   *)
(* is true time, which no code reads.                                       *)
(***************************************************************************)
EXTENDS Integers

CONSTANTS
    BurstKeys,        \* idempotency keys of image bursts (content digests)
    CommandKeys,      \* idempotency keys of remote commands ("command:...")
    Processor,        \* the burst processing thread
    Collector,        \* the thread that reports coalesced or rejected bursts
    Clients,          \* command server threads
    Free,             \* value of the coordinator lock when nobody holds it
    Cooldown,         \* the coordinator's cooldown
    MaxLifetime,      \* DirectCommandExecutor's max_command_lifetime
    Lifetimes,        \* offsets of expires_at that clients send
    Skews,            \* possible offsets of the wall clock from true time
    MaxNow,           \* bound: true time at which the model stops ticking
    MaxBoots          \* bound: number of boots

Keys == BurstKeys \cup CommandKeys
Threads == {Processor, Collector} \cup Clients

ASSUME ConstantsAssumption ==
    /\ Cooldown \in Nat \ {0} /\ MaxLifetime \in Nat /\ Lifetimes \subseteq Int
    /\ Skews \subseteq Int /\ 0 \in Skews
    /\ MaxNow \in Nat /\ MaxBoots \in Nat
    /\ BurstKeys \cap CommandKeys = {} /\ Keys # {}
    /\ Processor # Collector /\ Processor \notin Clients /\ Collector \notin Clients
    /\ Free \notin Threads

VARIABLES
    \* SQLite
    claims,       \* actuation_claims by key
    events,       \* events by idempotency key
    outbox,       \* keys whose event has an outbox row
    \* clocks
    now, bootAt, boot, skew,
    \* the process
    up,           \* the controller process is running
    pc, req,      \* per thread: where it is, and the request it carries
    lock,         \* holder of ActuationCoordinator._lock
    call,         \* locals of the actuate call that holds the lock
    lastAttempt,  \* _last_attempt_monotonic, with its None case
    shutdown,     \* RelayController._shutdown_requested
    latched,      \* RelayController._latched
    gpio,         \* the relay pin is HIGH
    \* history, read by no action
    pulses,       \* number of times a key raised the pin
    lastPulse     \* the latest rise of the pin

store == <<claims, events, outbox>>
clocks == <<now, bootAt, boot, skew>>
relayState == <<shutdown, latched, gpio>>
history == <<pulses, lastPulse>>
vars == <<store, clocks, up, pc, req, lock, call, lastAttempt, relayState, history>>

Mono == now - bootAt
Wall == now + skew
-----------------------------------------------------------------------------
(* Rows and locals. *)

Claim == [state : {"none", "claimed", "finalized"},
          pending : BOOLEAN,      \* pending_event IS NOT NULL
          marked : BOOLEAN,       \* activation_attempt_at IS NOT NULL
          wall : Int, mono : Int, boot : Nat,
          status : {"none", "completed", "failed", "expired"},
          detail : {"none", "cooldown", "burst_inhibited",
                    "expired_before_activation", "invalid_expiry_window",
                    "relay_latched", "relay_error", "relay_deenergize_error",
                    "indeterminate_claim", "interrupted_before_activation",
                    "invalid_prompt"}]

NoClaim == [state |-> "none", pending |-> FALSE, marked |-> FALSE,
            wall |-> 0, mono |-> 0, boot |-> 0,
            status |-> "none", detail |-> "none"]

Event == [recorded : BOOLEAN, opened : BOOLEAN, stamped : BOOLEAN, at : Int]
NoEvent == [recorded |-> FALSE, opened |-> FALSE, stamped |-> FALSE, at |-> 0]
ClosedEvent == [NoEvent EXCEPT !.recorded = TRUE]

Request == [key : Keys, decisionAt : Int, expiresAt : Int]

Call == [mono : Int, markAt : Int, status : {"none", "completed", "failed", "expired"},
         detail : {"none", "cooldown", "burst_inhibited",
                   "expired_before_activation", "invalid_expiry_window",
                   "relay_latched", "relay_error", "relay_deenergize_error"},
         activated : BOOLEAN, stamped : BOOLEAN, at : Int, attempted : BOOLEAN]
NoCall == [mono |-> 0, markAt |-> 0, status |-> "none", detail |-> "none",
           activated |-> FALSE, stamped |-> FALSE, at |-> 0, attempted |-> FALSE]

\* The latest rise of the pin: for which key, when it rose, the instant its marker records, and
\* whether no process crash has since wiped _last_attempt_monotonic in this boot.
Pulse == [any : BOOLEAN, key : Keys, at : Int, markAt : Int, exact : BOOLEAN]
NoPulse == [any |-> FALSE, key |-> CHOOSE k \in Keys : TRUE, at |-> 0, markAt |-> 0, exact |-> TRUE]

Steps == {"idle", "deciding", "skipping", "raised", "queued", "claim",
          "cooldown", "mem_cooldown", "mark", "check", "on", "pulse", "finalize",
          "prompt"}

\* What a thread's request variable holds while it has no request.
NoRequest == [key |-> CHOOSE k \in Keys : TRUE, decisionAt |-> 0, expiresAt |-> 0]
\* _last_attempt_monotonic is None: no reading of the clock is within Cooldown of it.
NoAttempt == -Cooldown

TypeOK ==
    /\ claims \in [Keys -> Claim] /\ events \in [Keys -> Event] /\ outbox \subseteq Keys
    /\ now \in Nat /\ bootAt \in 0..now /\ boot \in Nat /\ skew \in Skews
    /\ up \in BOOLEAN /\ pc \in [Threads -> Steps] /\ req \in [Threads -> Request]
    /\ lock \in Threads \cup {Free} /\ call \in Call /\ lastAttempt \in Int
    /\ shutdown \in BOOLEAN /\ latched \in BOOLEAN /\ gpio \in BOOLEAN
    /\ pulses \in [Keys -> Nat] /\ lastPulse \in Pulse

Init ==
    /\ claims = [k \in Keys |-> NoClaim] /\ events = [k \in Keys |-> NoEvent] /\ outbox = {}
    /\ now = 0 /\ bootAt = 0 /\ boot = 1 /\ skew = 0
    /\ up = TRUE /\ pc = [t \in Threads |-> "idle"] /\ req = [t \in Threads |-> NoRequest]
    /\ lock = Free /\ call = NoCall /\ lastAttempt = NoAttempt
    /\ shutdown = FALSE /\ latched = FALSE /\ gpio = FALSE
    /\ pulses = [k \in Keys |-> 0] /\ lastPulse = NoPulse
-----------------------------------------------------------------------------
(* What the store answers. *)

EventExists(k) == claims[k].state # "none" \/ events[k].recorded

Marked == {k \in Keys : claims[k].marked}
\* ORDER BY activation_attempt_at DESC LIMIT 1: any of the latest by wall clock.
LatestMarked == {k \in Marked : \A j \in Marked : claims[j].wall <= claims[k].wall}

\* Mutant of WasOpenedSince: no look at the previous boot.
WasOpenedSinceThisBoot(cutoff, monoCutoff, latest) ==
    \/ \E k \in Marked : claims[k].boot = boot /\ claims[k].mono >= monoCutoff
    \/ \E k \in Marked : claims[k].wall >= cutoff

\* LocalStore._was_opened_since; latest is the row its second query returns.
WasOpenedSince(cutoff, monoCutoff, latest) ==
    \/ \E k \in Marked : claims[k].boot = boot /\ claims[k].mono >= monoCutoff
    \/ \E k \in latest : claims[k].boot # boot /\ monoCutoff < 0
    \/ \E k \in Keys : events[k].stamped /\ events[k].at >= cutoff
    \/ \E k \in Marked : claims[k].wall >= cutoff

\* _ensure_outbox: only bursts carry a payload; one row per event.
EnsureOutbox(k) == outbox' = IF k \in BurstKeys THEN outbox \cup {k} ELSE outbox

\* Mutants of Finalized: only an opened gate keeps its marker; retain is ignored.
FinalizedOpenedOnly(c, status, detail, retain) ==
    [state |-> "finalized", pending |-> FALSE, marked |-> c.marked /\ status = "completed",
     wall |-> c.wall, mono |-> c.mono, boot |-> c.boot, status |-> status, detail |-> detail]
FinalizedRetaining(c, status, detail, retain) ==
    [state |-> "finalized", pending |-> FALSE, marked |-> c.marked /\ status # "expired",
     wall |-> c.wall, mono |-> c.mono, boot |-> c.boot, status |-> status, detail |-> detail]

\* finalize_actuation's UPDATE: the markers go unless the pin may have moved.
Finalized(c, status, detail, retain) ==
    LET keep == retain /\ status # "expired" IN
    [state |-> "finalized", pending |-> FALSE, marked |-> c.marked /\ keep,
     wall |-> IF keep THEN c.wall ELSE 0, mono |-> IF keep THEN c.mono ELSE 0,
     boot |-> IF keep THEN c.boot ELSE 0, status |-> status, detail |-> detail]

\* One committed finalize_actuation, or its exception: the row must be claimed
\* and events.idempotency_key is unique.
FinalizeActuation(k, status, detail, event, retain) ==
    \/ /\ claims[k].state = "claimed" /\ ~events[k].recorded
       /\ claims' = [claims EXCEPT ![k] = Finalized(@, status, detail, retain)]
       /\ events' = [events EXCEPT ![k] = event]
       /\ EnsureOutbox(k)
    \/ UNCHANGED store
-----------------------------------------------------------------------------
(* Threads. *)

At(t, step) == up /\ pc[t] = step
Goto(t, step) == pc' = [pc EXCEPT ![t] = step]
Key(t) == req[t].key

\* The thread's call ends and it forgets its request.
Finish(t) == Goto(t, "idle") /\ req' = [req EXCEPT ![t] = NoRequest]

\* actuate returns: _lock is released.
Return(t) == Finish(t) /\ lock' = Free /\ call' = NoCall

Answer(status, detail) == [call EXCEPT !.status = status, !.detail = detail]

quiet == <<clocks, up, lastAttempt, relayState, history>>
-----------------------------------------------------------------------------
(* Bursts: GateProcessor.process and record_skipped. *)

\* process begins: a known key only reconciles its outbox row.
ReceiveBurst(k) ==
    /\ At(Processor, "idle")
    /\ IF EventExists(k)
       THEN /\ IF events[k].recorded THEN EnsureOutbox(k) ELSE UNCHANGED outbox
            /\ UNCHANGED <<claims, events, pc, req>>
       ELSE /\ Goto(Processor, "deciding")
            /\ req' = [req EXCEPT ![Processor] =
                  [NoRequest EXCEPT !.key = k]]
            /\ UNCHANGED store
    /\ UNCHANGED <<quiet, lock, call>>

\* Mutant of RecordEvent: the event is stored without its outbox row.
RecordEventAlone(k) ==
    /\ events' = [events EXCEPT ![k] = IF @.recorded THEN @ ELSE ClosedEvent]
    /\ UNCHANGED <<claims, outbox>>

\* record_event_with_outbox: an event that already exists is reused.
RecordEvent(k) ==
    /\ events' = [events EXCEPT ![k] = IF @.recorded THEN @ ELSE ClosedEvent]
    /\ EnsureOutbox(k)
    /\ UNCHANGED claims

\* The decision is not to open: no match, OCR failure, timeout or stale burst.
DenyBurst ==
    /\ At(Processor, "deciding")
    /\ RecordEvent(Key(Processor))
    /\ Finish(Processor)
    /\ UNCHANGED <<quiet, lock, call>>

\* decide_access allowed the burst in time; it now waits for the coordinator with
\* the decision_at it has just read.
AllowBurst ==
    /\ At(Processor, "deciding")
    /\ Goto(Processor, "queued")
    /\ req' = [req EXCEPT ![Processor].decisionAt = Wall]
    /\ UNCHANGED <<quiet, store, lock, call>>

\* record_skipped up to its event_exists test, from the collector (a coalesced or
\* rejected burst) or after process raised.
SkipBurst(t, k) ==
    /\ \/ t = Collector /\ At(t, "idle")
       \/ t = Processor /\ At(t, "raised") /\ k = Key(t)
    /\ IF EventExists(k)
       THEN /\ IF events[k].recorded THEN EnsureOutbox(k) ELSE UNCHANGED outbox
            /\ Finish(t)
       ELSE /\ Goto(t, "skipping")
            /\ req' = [req EXCEPT ![t] = [NoRequest EXCEPT !.key = k]]
            /\ UNCHANGED outbox
    /\ UNCHANGED <<quiet, claims, events, lock, call>>

\* ... and the event it then records.
RecordSkipped(t) ==
    /\ At(t, "skipping")
    /\ RecordEvent(Key(t))
    /\ Finish(t)
    /\ UNCHANGED <<quiet, lock, call>>
-----------------------------------------------------------------------------
(* Commands: DirectCommandExecutor.execute. *)

SubmitCommand(t, k, lifetime) ==
    /\ At(t, "idle")
    /\ Goto(t, "queued")
    /\ req' = [req EXCEPT ![t] = [key |-> k, decisionAt |-> Wall,
                                  expiresAt |-> Wall + lifetime]]
    /\ UNCHANGED <<quiet, store, lock, call>>

\* play_prompt claims a key of the same namespace without cooldown, event or
\* coordinator lock; _prompt_lock admits one prompt at a time.
ClaimPrompt(t, k, lifetime) ==
    /\ At(t, "idle") /\ \A u \in Threads : pc[u] # "prompt"
    /\ claims[k].state = "none"
    /\ claims' = [claims EXCEPT ![k] = [NoClaim EXCEPT !.state = "claimed"]]
    /\ Goto(t, "prompt")
    /\ req' = [req EXCEPT ![t] = [key |-> k, decisionAt |-> Wall,
                                  expiresAt |-> Wall + lifetime]]
    /\ UNCHANGED <<quiet, events, outbox, lock, call>>

NotInhibited == [status |-> "none", detail |-> "none"]

\* DirectCommandExecutor._expiry_inhibition
ExpiryInhibition(t) ==
    LET remaining == req[t].expiresAt - Wall IN
    IF remaining <= 0
    THEN [status |-> "expired", detail |-> "expired_before_activation"]
    ELSE IF remaining > MaxLifetime
    THEN [status |-> "expired", detail |-> "invalid_expiry_window"]
    ELSE NotInhibited

\* The prompt is played (or refused) and its claim finalised.
FinishPrompt(t) ==
    LET inhibition == ExpiryInhibition(t)
        k == Key(t)
    IN
    /\ At(t, "prompt")
    /\ \E answer \in IF inhibition = NotInhibited
                     THEN {[status |-> "completed", detail |-> "none"],
                           [status |-> "failed", detail |-> "invalid_prompt"]}
                     ELSE {inhibition} :
          FinalizeActuation(k, answer.status, answer.detail, ClosedEvent, FALSE)
    /\ Finish(t)
    /\ UNCHANGED <<quiet, lock, call>>
-----------------------------------------------------------------------------
(* ActuationCoordinator.actuate *)

\* Take _lock and look for a terminal outcome; a finished key is answered from it.
Acquire(t) ==
    /\ At(t, "queued") /\ lock = Free
    /\ IF claims[Key(t)].state = "finalized"
       THEN /\ EnsureOutbox(Key(t))
            /\ Finish(t) /\ UNCHANGED lock
       ELSE /\ lock' = t
            /\ Goto(t, "claim") /\ UNCHANGED <<outbox, req>>
    /\ UNCHANGED <<quiet, claims, events, call>>

\* claim_actuation, then the in-memory cooldown.
ClaimActuation(t) ==
    LET k == Key(t)
        cutoff == req[t].decisionAt - Cooldown
        fresh == [NoClaim EXCEPT !.state = "claimed", !.pending = TRUE]
    IN
    /\ At(t, "claim")
    /\ \/ /\ claims[k].state # "none"            \* indeterminate_claim
          /\ Return(t) /\ UNCHANGED claims
       \/ /\ claims[k].state = "none"
          /\ \E latest \in {{j} : j \in LatestMarked} \cup (IF Marked = {} THEN {{}} ELSE {}) :
                IF WasOpenedSince(cutoff, Mono - Cooldown, latest)
                THEN Goto(t, "cooldown") /\ UNCHANGED claims
                ELSE /\ claims' = [claims EXCEPT ![k] = fresh]
                     /\ Goto(t, IF Mono - lastAttempt < Cooldown
                                THEN "mem_cooldown" ELSE "mark")
          /\ call' = [call EXCEPT !.mono = Mono, !.markAt = now]
          /\ UNCHANGED <<req, lock>>
       \/ Return(t) /\ UNCHANGED claims          \* the store raised
    /\ UNCHANGED <<quiet, events, outbox>>

\* record_terminal_outcome(failed, cooldown); its exceptions leave actuate.
RecordCooldown(t) ==
    LET k == Key(t) IN
    /\ At(t, "cooldown")
    /\ \/ /\ claims[k].state # "none"
          /\ IF events[k].recorded THEN EnsureOutbox(k) ELSE UNCHANGED outbox
          /\ UNCHANGED <<claims, events>>
          /\ Return(t)
       \/ /\ claims[k].state = "none" /\ ~events[k].recorded
          /\ claims' = [claims EXCEPT ![k] = Finalized(@, "failed", "cooldown", FALSE)]
          /\ events' = [events EXCEPT ![k] = ClosedEvent]
          /\ EnsureOutbox(k)
          /\ Return(t)
       \/ /\ UNCHANGED store
          /\ lock' = Free /\ call' = NoCall
          /\ IF t = Processor THEN Goto(t, "raised") /\ UNCHANGED req ELSE Finish(t)
    /\ UNCHANGED quiet

\* The in-memory cooldown finalises the claim it has just taken.
FinalizeCooldown(t) ==
    /\ At(t, "mem_cooldown")
    /\ FinalizeActuation(Key(t), "failed", "cooldown", ClosedEvent, TRUE)
    /\ Return(t)
    /\ UNCHANGED quiet

\* mark_actuation_attempt: the durable marker, before any GPIO call.
MarkAttempt(t) ==
    LET k == Key(t) IN
    /\ At(t, "mark")
    /\ \/ /\ claims[k].state = "claimed" /\ ~claims[k].marked
          /\ claims' = [claims EXCEPT ![k] =
                [@ EXCEPT !.marked = TRUE, !.wall = req[t].decisionAt,
                          !.mono = call.mono, !.boot = boot]]
          /\ Goto(t, "check") /\ UNCHANGED <<req, lock, call>>
       \/ Return(t) /\ UNCHANGED claims
    /\ UNCHANGED <<quiet, events, outbox>>
-----------------------------------------------------------------------------
(* RelayController.trigger, as the coordinator calls it *)

\* What GateProcessor's activation_inhibition can answer.  Whether the processor is
\* closed, the plate snapshot, the age of the burst and the decision deadline all
\* change on their own between two evaluations; "burst_inhibited" stands for the
\* five reasons of FINAL_INHIBITION_REASONS.
BurstInhibitions == {NotInhibited, [status |-> "failed", detail |-> "burst_inhibited"]}

PreActivationInhibit(t) ==
    IF t = Processor THEN BurstInhibitions ELSE {ExpiryInhibition(t)}

\* The trigger ends without touching the pin.
Refuse(t, inhibition) ==
    /\ call' = IF inhibition # NotInhibited THEN Answer(inhibition.status, inhibition.detail)
                                            ELSE Answer("failed", "relay_latched")
    /\ Goto(t, "finalize")
    /\ UNCHANGED <<gpio, latched, lastAttempt, pulses, lastPulse>>

\* Inhibition and latch are tested once under the relay lock ...
CheckTrigger(t) ==
    /\ At(t, "check")
    /\ \E inhibition \in PreActivationInhibit(t) :
          IF inhibition # NotInhibited \/ shutdown \/ latched
          THEN Refuse(t, inhibition)
          ELSE /\ Goto(t, "on")
               /\ UNCHANGED <<call, gpio, latched, lastAttempt, pulses, lastPulse>>
    /\ UNCHANGED <<store, clocks, up, req, lock, shutdown>>

\* Mutant of Settle: a relay fault after the rise is reported as an opening.
SettleActivated(t, status, detail) ==
    /\ call' = [Answer(status, detail) EXCEPT !.attempted = TRUE, !.activated = TRUE]
    /\ lastAttempt' = Mono
    /\ Goto(t, "finalize")

\* The trigger ends after the pin may have moved; actuate then reads its clock.
Settle(t, status, detail) ==
    /\ call' = [Answer(status, detail) EXCEPT !.attempted = TRUE,
                                              !.activated = status = "completed"]
    /\ lastAttempt' = Mono
    /\ Goto(t, "finalize")

\* The pin rises for the thread's key: what an observer of the gate sees.
PinRises(t) ==
    /\ pulses' = [pulses EXCEPT ![Key(t)] = @ + 1]
    /\ lastPulse' = [any |-> TRUE, key |-> Key(t), at |-> now,
                     markAt |-> call.markAt, exact |-> TRUE]

\* GPIO HIGH; relay_activated_at is read right after it.
RaisePin(t) ==
    /\ gpio' = TRUE /\ PinRises(t)
    /\ call' = [call EXCEPT !.stamped = TRUE, !.at = Wall]
    /\ Goto(t, "pulse")
    /\ UNCHANGED <<latched, lastAttempt>>

\* ... and again at the activation boundary, in one step with the pin.  An on()
\* that raises may or may not have raised the pin; off() follows, and three failing
\* off() latch the relay.
Energize(t) ==
    /\ At(t, "on")
    /\ \E inhibition \in PreActivationInhibit(t) :
          IF inhibition # NotInhibited \/ shutdown
          THEN Refuse(t, inhibition)
          ELSE \/ RaisePin(t)
               \/ /\ PinRises(t) \/ UNCHANGED history          \* on() raised
                  /\ \/ Settle(t, "failed", "relay_error") /\ gpio' = FALSE /\ UNCHANGED latched
                     \/ /\ Settle(t, "failed", "relay_deenergize_error")
                        /\ latched' = TRUE /\ gpio' \in {gpio, TRUE}
    /\ UNCHANGED <<store, clocks, up, req, lock, shutdown>>

\* The pulse ends, by its timer, by shutdown or by an exception.
EndPulse(t) ==
    /\ At(t, "pulse")
    /\ \/ /\ gpio' = FALSE /\ UNCHANGED latched
          /\ Settle(t, "completed", "none") \/ Settle(t, "failed", "relay_error")
       \/ /\ latched' = TRUE /\ UNCHANGED gpio
          /\ Settle(t, "failed", "relay_deenergize_error")
    /\ UNCHANGED <<store, clocks, up, req, lock, shutdown, history>>

\* finalize_actuation with the trigger's outcome.
Finalize(t) ==
    /\ At(t, "finalize")
    /\ FinalizeActuation(Key(t), call.status, call.detail,
                         [recorded |-> TRUE, opened |-> call.activated,
                          stamped |-> call.stamped, at |-> call.at],
                         call.attempted)
    /\ Return(t)
    /\ UNCHANGED quiet
-----------------------------------------------------------------------------
(* Shutdown, crash, start-up *)

\* RelayController.begin_shutdown
BeginShutdown ==
    /\ up /\ ~shutdown
    /\ shutdown' = TRUE /\ latched' = TRUE
    /\ gpio' \in {FALSE, gpio}
    /\ UNCHANGED <<store, clocks, up, pc, req, lock, call, lastAttempt, history>>

\* Everything the process kept in memory is gone.
Forget ==
    /\ up' = FALSE
    /\ pc' = [t \in Threads |-> "idle"] /\ req' = [t \in Threads |-> NoRequest]
    /\ lock' = Free /\ call' = NoCall /\ lastAttempt' = NoAttempt
    /\ shutdown' = FALSE /\ latched' = FALSE

\* The process exits or is killed; the stop hook lowers the pin when it runs.
Crash ==
    /\ up /\ Forget
    /\ gpio' \in {FALSE, gpio}
    /\ lastPulse' = [lastPulse EXCEPT !.exact = FALSE]
    /\ UNCHANGED <<store, clocks, pulses>>

\* The Pi reboots: a new boot id, a monotonic clock at zero, the pin low.
Reboot ==
    /\ boot < MaxBoots
    /\ Forget
    /\ boot' = boot + 1 /\ bootAt' = now /\ gpio' = FALSE
    /\ lastPulse' = [lastPulse EXCEPT !.exact = TRUE]
    /\ UNCHANGED <<store, now, skew, pulses>>

\* Mutants of Recovered: the claim is dropped so that the request can be retried;
\* the row keeps a state of its own.
RecoveredByRelease(c) == IF c.state = "claimed" /\ c.pending THEN NoClaim ELSE c
RecoveredState(c) ==
    IF c.state = "claimed" /\ c.pending THEN [c EXCEPT !.state = "recovered"] ELSE c

\* recover_interrupted_actuations, one transaction.
Recovered(c) ==
    IF c.state = "claimed" /\ c.pending
    THEN [c EXCEPT !.state = "finalized", !.pending = FALSE, !.status = "failed",
                   !.detail = IF c.marked THEN "indeterminate_claim"
                                          ELSE "interrupted_before_activation"]
    ELSE c

Interrupted == {k \in Keys : claims[k].state = "claimed" /\ claims[k].pending}

\* The process starts: the relay is forced off (or starts latched), then the
\* store is recovered before any worker runs.
Start ==
    /\ ~up /\ up' = TRUE
    /\ \/ gpio' = FALSE /\ latched' = FALSE
       \/ UNCHANGED gpio /\ latched' = TRUE
    /\ claims' = [k \in Keys |-> Recovered(claims[k])]
    /\ events' = [k \in Keys |-> IF k \in Interrupted /\ ~events[k].recorded
                                 THEN ClosedEvent ELSE events[k]]
    /\ outbox' = outbox \cup (Interrupted \cap BurstKeys)
    /\ UNCHANGED <<clocks, pc, req, lock, call, lastAttempt, shutdown, history>>
-----------------------------------------------------------------------------
(* The environment *)

Tick ==
    /\ now < MaxNow
    /\ now' = now + 1
    /\ UNCHANGED <<store, bootAt, boot, skew, up, pc, req, lock, call, lastAttempt,
                   relayState, history>>

StepWallClock ==
    /\ skew' \in Skews \ {skew}
    /\ UNCHANGED <<store, now, bootAt, boot, up, pc, req, lock, call, lastAttempt,
                   relayState, history>>

Next ==
    \/ \E k \in BurstKeys : ReceiveBurst(k) \/ SkipBurst(Collector, k) \/ SkipBurst(Processor, k)
    \/ DenyBurst \/ AllowBurst
    \/ \E t \in {Processor, Collector} : RecordSkipped(t)
    \/ \E t \in Clients, k \in CommandKeys, l \in Lifetimes :
          SubmitCommand(t, k, l) \/ ClaimPrompt(t, k, l)
    \/ \E t \in Clients : FinishPrompt(t)
    \/ \E t \in {Processor} \cup Clients :
          \/ Acquire(t) \/ ClaimActuation(t) \/ RecordCooldown(t) \/ FinalizeCooldown(t)
          \/ MarkAttempt(t) \/ CheckTrigger(t) \/ Energize(t) \/ EndPulse(t) \/ Finalize(t)
    \/ BeginShutdown \/ Crash \/ Reboot \/ Start
    \/ Tick \/ StepWallClock

Spec == Init /\ [][Next]_vars
-----------------------------------------------------------------------------
(* Properties *)

\* An idempotency key moves the gate at most once: whatever is retried, replayed,
\* interrupted or recovered, claim_actuation lets one actuate call per key through.
PulseOncePerKey == \A k \in Keys : pulses[k] <= 1

\* Once a key has raised the pin its durable marker is never lost: not by
\* finalize_actuation's CASE expressions, not by a crash at any point, not by
\* the recovery (README: "a durable global activation marker is committed before
\* GPIO is energized").
MarkerOutlivesPulse == \A k \in Keys : pulses[k] > 0 => claims[k].marked

\* No outcome lies about the gate: an opened event means the pin rose for that
\* key, and a key answered expired, inhibited, cooldown, latched or
\* interrupted_before_activation has never raised it.
OutcomeTruthful ==
    \A k \in Keys :
        /\ events[k].opened => pulses[k] = 1 /\ claims[k].status = "completed"
        /\ claims[k].state = "finalized" /\ pulses[k] > 0 =>
             \/ events[k].opened
             \/ claims[k].detail \in {"relay_error", "relay_deenergize_error",
                                      "indeterminate_claim"}

\* An attempt that provably never raised the pin costs nobody the cooldown: a
\* marker that survives finalisation belongs to a pulse, to a relay fault or to
\* an interrupted attempt.
NoPhantomMarker ==
    \A k \in Keys :
        claims[k].state = "finalized" /\ claims[k].marked =>
            \/ pulses[k] > 0
            \/ claims[k].detail \in {"relay_error", "relay_deenergize_error",
                                     "indeterminate_claim"}

\* Every recorded burst event is queued for delivery, whichever of the five
\* transactions recorded it.
BurstEventsQueued == \A k \in BurstKeys : events[k].recorded => k \in outbox

\* What the store tells the owner and the cloud is true and complete.
EventsAccounted == OutcomeTruthful /\ BurstEventsQueued

\* Two rises of the pin: the instants their markers record are always a cooldown
\* apart in true time, and so are the rises themselves unless the process died
\* in between and the boot goes on (the new process knows only the markers).
\* Wall clock steps, crashes and reboots do not shorten it.
CooldownSpacing ==
    [][pulses' # pulses /\ lastPulse.any =>
          /\ lastPulse'.markAt - lastPulse.markAt >= Cooldown
          /\ lastPulse.exact => lastPulse'.at - lastPulse.at >= Cooldown]_vars

\* The actuation path implements Gate: the openings are the rises of the pin, the
\* settled keys the finalised claims, and a rise is charged to its marker.
Promise == INSTANCE Gate WITH
    opened <- {k \in Keys : pulses[k] > 0},
    settled <- {k \in Keys : claims[k].state = "finalized"},
    charged <- lastPulse.markAt

ImplementsGate == Promise!Spec
=============================================================================
