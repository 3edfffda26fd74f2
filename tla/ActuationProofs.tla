--------------------------- MODULE ActuationProofs ---------------------------
(***************************************************************************)
(* Theorems about Actuation, for every set of keys and clients, every       *)
(* cooldown, every wall clock step and any number of boots.                 *)
(***************************************************************************)
EXTENDS Actuation, TLAPS

USE ConstantsAssumption
-----------------------------------------------------------------------------
(* Types *)

Statuses == {"none", "completed", "failed", "expired"}
Details == {"none", "cooldown", "burst_inhibited", "expired_before_activation",
            "invalid_expiry_window", "relay_latched", "relay_error",
            "relay_deenergize_error", "indeterminate_claim",
            "interrupted_before_activation", "invalid_prompt"}

\* The rows and locals the operators start from have their types.
LEMMA InitialValues ==
    /\ NoClaim \in Claim /\ NoEvent \in Event /\ ClosedEvent \in Event
    /\ NoRequest \in Request /\ NoCall \in Call /\ NoPulse \in Pulse /\ NoAttempt \in Int
<1>1. (CHOOSE k \in Keys : TRUE) \in Keys
  OBVIOUS
<1>2. NoClaim \in Claim
  BY DEF NoClaim, Claim
<1>3. NoEvent \in Event /\ ClosedEvent \in Event
  BY DEF NoEvent, ClosedEvent, Event
<1>4. NoRequest \in Request /\ NoPulse \in Pulse
  BY <1>1 DEF NoRequest, Request, NoPulse, Pulse
<1>5. NoCall \in Call /\ NoAttempt \in Int
  BY DEF NoCall, Call, NoAttempt
<1>6. QED
  BY <1>2, <1>3, <1>4, <1>5

\* finalize_actuation's UPDATE yields a row of the table.
LEMMA FinalizedType ==
    ASSUME NEW c \in Claim, NEW status \in Statuses, NEW detail \in Details,
           NEW retain \in BOOLEAN
    PROVE  Finalized(c, status, detail, retain) \in Claim
<1>1. (retain /\ status # "expired") \in BOOLEAN
  OBVIOUS
<1>2. (c.marked /\ (retain /\ status # "expired")) \in BOOLEAN
  OBVIOUS
<1>3. QED
  BY <1>1, <1>2 DEF Finalized, Claim, Statuses, Details

\* So does the start-up recovery.
LEMMA RecoveredType == ASSUME NEW c \in Claim PROVE Recovered(c) \in Claim
  BY DEF Recovered, Claim

\* What a trigger call can be told before the pin moves.
AllInhibitions ==
    {[status |-> "none", detail |-> "none"],
     [status |-> "failed", detail |-> "burst_inhibited"],
     [status |-> "expired", detail |-> "expired_before_activation"],
     [status |-> "expired", detail |-> "invalid_expiry_window"]}

\* Both callers' inhibitions are among them ...
LEMMA InhibitionType ==
    ASSUME NEW t
    PROVE  /\ ExpiryInhibition(t) \in AllInhibitions
           /\ PreActivationInhibit(t) \subseteq AllInhibitions
<1>1. ExpiryInhibition(t) \in AllInhibitions
  BY DEF ExpiryInhibition, NotInhibited, AllInhibitions
<1>2. BurstInhibitions \subseteq AllInhibitions
  BY DEF BurstInhibitions, NotInhibited, AllInhibitions
<1>3. QED
  BY <1>1, <1>2 DEF PreActivationInhibit

\* ... and are answers the coordinator can store.
LEMMA AnswerType ==
    ASSUME NEW i \in AllInhibitions
    PROVE  /\ i.status \in Statuses /\ i.detail \in Details
           /\ call \in Call => Answer(i.status, i.detail) \in Call
<1>1. i.status \in Statuses /\ i.detail \in {"none", "burst_inhibited",
                                "expired_before_activation", "invalid_expiry_window"}
  BY DEF AllInhibitions, Statuses
<1>2. call \in Call => Answer(i.status, i.detail) \in Call
  BY <1>1 DEF Call, Answer, Statuses
<1>3. QED
  BY <1>1, <1>2 DEF Details

\* The transaction FinalizeActuation keeps the tables typed.
LEMMA FinalizeActuationType ==
    ASSUME TypeOK, NEW k \in Keys, NEW status \in Statuses, NEW detail \in Details,
           NEW event \in Event, NEW retain \in BOOLEAN,
           FinalizeActuation(k, status, detail, event, retain)
    PROVE  claims' \in [Keys -> Claim] /\ events' \in [Keys -> Event] /\ outbox' \subseteq Keys
<1>1. Finalized(claims[k], status, detail, retain) \in Claim
  BY FinalizedType DEF TypeOK
<1>2. QED
  BY <1>1 DEF FinalizeActuation, EnsureOutbox, TypeOK, store, Keys

\* record_event_with_outbox too.
LEMMA RecordEventType ==
    ASSUME TypeOK, NEW k \in Keys, RecordEvent(k)
    PROVE  claims' \in [Keys -> Claim] /\ events' \in [Keys -> Event] /\ outbox' \subseteq Keys
  BY InitialValues DEF RecordEvent, EnsureOutbox, TypeOK, Keys

\* Ending a thread's call leaves it idle without a request.
LEMMA FinishType ==
    ASSUME TypeOK, NEW t \in Threads, Finish(t)
    PROVE  pc' \in [Threads -> Steps] /\ req' \in [Threads -> Request]
  BY InitialValues DEF Finish, Goto, TypeOK, Steps

\* A call that returns leaves its thread, its request, the lock and the call's locals typed.
LEMMA ReturnType ==
    ASSUME TypeOK, NEW t \in Threads, Return(t)
    PROVE  /\ pc' \in [Threads -> Steps] /\ req' \in [Threads -> Request]
           /\ lock' \in Threads \cup {Free} /\ call' \in Call
  BY FinishType, InitialValues DEF Return

\* A thread's request names a key, and clock readings are integers.
LEMMA Readings ==
    ASSUME TypeOK
    PROVE  /\ \A t \in Threads : Key(t) \in Keys /\ req[t] \in Request
           /\ Wall \in Int /\ Mono \in Int /\ now \in Int
  BY DEF TypeOK, Key, Request, Wall, Mono

\* The rows and locals that the actions build from others.
LEMMA RequestUpdate == \A k \in Keys : [NoRequest EXCEPT !.key = k] \in Request
  BY InitialValues DEF Request

\* The two rows a claim may insert are rows: with the pending event of a burst or without.
LEMMA ClaimUpdate ==
    /\ [NoClaim EXCEPT !.state = "claimed"] \in Claim
    /\ [NoClaim EXCEPT !.state = "claimed", !.pending = TRUE] \in Claim
<1>1. [NoClaim EXCEPT !.state = "claimed"] \in Claim
  BY InitialValues DEF Claim
<1>2. [NoClaim EXCEPT !.state = "claimed", !.pending = TRUE] \in Claim
  BY InitialValues DEF Claim
<1>3. QED
  BY <1>1, <1>2

\* Noting whether a pulse was exact keeps it a pulse.
LEMMA PulseUpdate ==
    \A p \in Pulse : [p EXCEPT !.exact = TRUE] \in Pulse /\ [p EXCEPT !.exact = FALSE] \in Pulse
  BY DEF Pulse

\* Every step of every thread, a crash, a reboot, a restart and a clock step
\* keep the state typed.
LEMMA TypeStep == TypeOK /\ [Next]_vars => TypeOK'
<1> SUFFICES ASSUME TypeOK, [Next]_vars PROVE TypeOK'
  OBVIOUS
<1> USE InitialValues, Readings
<1>1. ASSUME NEW k \in BurstKeys, ReceiveBurst(k) PROVE TypeOK'
  BY <1>1, RequestUpdate DEF ReceiveBurst, TypeOK, EnsureOutbox, Goto, Steps, Keys, Threads,
              quiet, clocks, relayState, history, store
<1>2. ASSUME NEW t \in {Collector, Processor}, NEW k \in BurstKeys, SkipBurst(t, k) PROVE TypeOK'
  BY <1>2, RequestUpdate DEF SkipBurst, TypeOK, EnsureOutbox, Goto, Finish, Steps, Keys, Threads,
              quiet, clocks, relayState, history, store
<1>3. CASE DenyBurst
  BY <1>3, RecordEventType, FinishType DEF DenyBurst, TypeOK, Threads,
              quiet, clocks, relayState, history
<1>4. CASE AllowBurst
  BY <1>4 DEF AllowBurst, TypeOK, Request, Goto, Steps, Threads, Wall,
              quiet, clocks, relayState, history, store
<1>5. ASSUME NEW t \in {Processor, Collector}, RecordSkipped(t) PROVE TypeOK'
  BY <1>5, RecordEventType, FinishType DEF RecordSkipped, TypeOK, Threads,
              quiet, clocks, relayState, history
<1>6. ASSUME NEW t \in Clients, NEW k \in CommandKeys, NEW l \in Lifetimes,
             SubmitCommand(t, k, l)
      PROVE  TypeOK'
  BY <1>6 DEF SubmitCommand, TypeOK, Request, Goto, Steps, Keys, Threads, Wall,
              quiet, clocks, relayState, history, store
<1>7. ASSUME NEW t \in Clients, NEW k \in CommandKeys, NEW l \in Lifetimes,
             ClaimPrompt(t, k, l)
      PROVE  TypeOK'
  <2>1. [key |-> k, decisionAt |-> Wall, expiresAt |-> Wall + l] \in Request
    BY DEF Request, Keys
  <2>2. QED
    BY <1>7, <2>1, ClaimUpdate DEF ClaimPrompt, TypeOK, Goto, Steps, Keys, Threads,
              quiet, clocks, relayState, history
<1>8. ASSUME NEW t \in Clients, FinishPrompt(t) PROVE TypeOK'
  <2> t \in Threads
    BY DEF Threads
  <2>1. PICK status \in Statuses, detail \in Details :
             FinalizeActuation(Key(t), status, detail, ClosedEvent, FALSE)
    <3>1. PICK answer \in AllInhibitions \cup {[status |-> "completed", detail |-> "none"],
                                          [status |-> "failed", detail |-> "invalid_prompt"]} :
             FinalizeActuation(Key(t), answer.status, answer.detail, ClosedEvent, FALSE)
      BY <1>8, InhibitionType DEF FinishPrompt
    <3>2. answer.status \in Statuses /\ answer.detail \in Details
      BY AnswerType DEF Statuses, Details
    <3>3. QED
      BY <3>1, <3>2
  <2>2. claims' \in [Keys -> Claim] /\ events' \in [Keys -> Event] /\ outbox' \subseteq Keys
    BY <2>1, FinalizeActuationType
  <2>3. QED
    BY <1>8, <2>2, FinishType DEF FinishPrompt, TypeOK, quiet, clocks, relayState, history
<1>9. ASSUME NEW t \in {Processor} \cup Clients,
             Acquire(t) \/ ClaimActuation(t) \/ RecordCooldown(t) \/ FinalizeCooldown(t)
             \/ MarkAttempt(t)
      PROVE  TypeOK'
  <2> t \in Threads
    BY DEF Threads
  <2>1. CASE Acquire(t)
    BY <2>1, FinishType DEF Acquire, TypeOK, EnsureOutbox, Goto, Steps, Keys,
              quiet, clocks, relayState, history
  <2>2. CASE ClaimActuation(t)
    <3>1. claims' \in [Keys -> Claim] /\ pc' \in [Threads -> Steps]
      BY <2>2, ReturnType, ClaimUpdate DEF ClaimActuation, TypeOK, Goto, Steps
    <3>2. req' \in [Threads -> Request] /\ lock' \in Threads \cup {Free} /\ call' \in Call
      <4>1. [call EXCEPT !.mono = Mono, !.markAt = now] \in Call
        BY DEF TypeOK, Call
      <4>2. QED
        BY <2>2, <4>1, ReturnType DEF ClaimActuation, TypeOK
    <3>3. QED
      BY <2>2, <3>1, <3>2 DEF ClaimActuation, TypeOK, quiet, clocks, relayState, history
  <2>3. CASE RecordCooldown(t)
    <3>1. Finalized(claims[Key(t)], "failed", "cooldown", FALSE) \in Claim
      BY FinalizedType DEF TypeOK, Statuses, Details
    <3>2. claims' \in [Keys -> Claim] /\ events' \in [Keys -> Event] /\ outbox' \subseteq Keys
      <4>1. CASE UNCHANGED claims /\ UNCHANGED events
        <5>1. outbox' = outbox \/ outbox' = outbox \cup {Key(t)}
          BY <2>3 DEF RecordCooldown, EnsureOutbox, store
        <5>2. QED
          BY <4>1, <5>1 DEF TypeOK
      <4>2. CASE /\ claims' = [claims EXCEPT ![Key(t)] = Finalized(@, "failed", "cooldown", FALSE)]
                 /\ events' = [events EXCEPT ![Key(t)] = ClosedEvent]
                 /\ EnsureOutbox(Key(t))
        BY <3>1, <4>2 DEF TypeOK, EnsureOutbox
      <4>3. QED
        BY <2>3, <4>1, <4>2 DEF RecordCooldown, store
    <3>3. /\ pc' \in [Threads -> Steps] /\ req' \in [Threads -> Request]
          /\ lock' \in Threads \cup {Free} /\ call' \in Call
      BY <2>3, ReturnType, FinishType DEF RecordCooldown, TypeOK, Goto, Steps
    <3>4. QED
      BY <2>3, <3>2, <3>3 DEF RecordCooldown, TypeOK, quiet, clocks, relayState, history
  <2>4. CASE FinalizeCooldown(t)
    BY <2>4, ReturnType, FinalizeActuationType DEF FinalizeCooldown, TypeOK, Statuses, Details,
              quiet, clocks, relayState, history
  <2>5. CASE MarkAttempt(t)
    <3>1. req[t].decisionAt \in Int /\ call.mono \in Int /\ boot \in Nat
      BY DEF TypeOK, Request, Call
    <3>2. [claims[Key(t)] EXCEPT !.marked = TRUE, !.wall = req[t].decisionAt,
                                 !.mono = call.mono, !.boot = boot] \in Claim
      <4>1. claims[Key(t)] \in Claim
        BY DEF TypeOK
      <4>2. QED
        BY <3>1, <4>1 DEF Claim
    <3>3. claims' \in [Keys -> Claim]
      BY <2>5, <3>2 DEF MarkAttempt, TypeOK
    <3>4. /\ pc' \in [Threads -> Steps] /\ req' \in [Threads -> Request]
          /\ lock' \in Threads \cup {Free} /\ call' \in Call
      BY <2>5, ReturnType DEF MarkAttempt, TypeOK, Goto, Steps
    <3>5. QED
      BY <2>5, <3>3, <3>4 DEF MarkAttempt, TypeOK, quiet, clocks, relayState, history
  <2>6. QED
    BY <1>9, <2>1, <2>2, <2>3, <2>4, <2>5
<1>10. ASSUME NEW t \in {Processor} \cup Clients,
              CheckTrigger(t) \/ Energize(t) \/ EndPulse(t) \/ Finalize(t)
       PROVE  TypeOK'
  <2> t \in Threads
    BY DEF Threads
  <2> USE InhibitionType, AnswerType DEF NotInhibited
  <2>a. ASSUME NEW i \in AllInhibitions, Refuse(t, i)
        PROVE  call' \in Call /\ pc' \in [Threads -> Steps]
    BY <2>a DEF Refuse, TypeOK, Goto, Steps, Call, Answer
  <2>b. ASSUME NEW status \in {"completed", "failed"},
               NEW detail \in {"none", "relay_error", "relay_deenergize_error"},
               Settle(t, status, detail)
        PROVE  call' \in Call /\ pc' \in [Threads -> Steps] /\ lastAttempt' \in Int
    <3>1. (status = "completed") \in BOOLEAN
      OBVIOUS
    <3>2. QED
      BY <2>b, <3>1 DEF Settle, TypeOK, Goto, Steps, Call, Answer
  <2>c. ASSUME PinRises(t) PROVE pulses' \in [Keys -> Nat] /\ lastPulse' \in Pulse
    BY <2>c DEF PinRises, TypeOK, Pulse, Call
  <2>1. CASE CheckTrigger(t)
    <3>1. call' \in Call /\ pc' \in [Threads -> Steps]
      BY <2>1, <2>a DEF CheckTrigger, TypeOK, Goto, Steps
    <3>2. UNCHANGED <<gpio, latched, lastAttempt, pulses, lastPulse>>
      BY <2>1 DEF CheckTrigger, Refuse
    <3>3. QED
      BY <2>1, <3>1, <3>2 DEF CheckTrigger, TypeOK, store, clocks
  <2>2. CASE Energize(t)
    <3>1. PICK i \in PreActivationInhibit(t) : 
             IF i # NotInhibited \/ shutdown
             THEN Refuse(t, i)
             ELSE \/ RaisePin(t)
                  \/ /\ PinRises(t) \/ UNCHANGED history
                     /\ \/ Settle(t, "failed", "relay_error") /\ gpio' = FALSE /\ UNCHANGED latched
                        \/ /\ Settle(t, "failed", "relay_deenergize_error")
                           /\ latched' = TRUE /\ gpio' \in {gpio, TRUE}
      BY <2>2 DEF Energize
    <3>2. CASE Refuse(t, i)
      BY <2>2, <3>2, <2>a DEF Energize, Refuse, TypeOK, store, clocks
    <3>3. CASE RaisePin(t)
      <4>1. call' \in Call /\ pc' \in [Threads -> Steps]
        <5>1. [call EXCEPT !.stamped = TRUE, !.at = Wall] \in Call
          BY DEF TypeOK, Call
        <5>2. QED
          BY <3>3, <5>1 DEF RaisePin, TypeOK, Goto, Steps
      <4>2. QED
        BY <2>2, <3>3, <4>1, <2>c DEF Energize, RaisePin, TypeOK, store, clocks
    <3>4. CASE /\ PinRises(t) \/ UNCHANGED history
               /\ \/ Settle(t, "failed", "relay_error") /\ gpio' = FALSE /\ UNCHANGED latched
                  \/ /\ Settle(t, "failed", "relay_deenergize_error")
                     /\ latched' = TRUE /\ gpio' \in {gpio, TRUE}
      <4>1. call' \in Call /\ pc' \in [Threads -> Steps] /\ lastAttempt' \in Int
        BY <3>4, <2>b
      <4>2. pulses' \in [Keys -> Nat] /\ lastPulse' \in Pulse
        BY <3>4, <2>c DEF TypeOK, history
      <4>3. QED
        BY <2>2, <3>4, <4>1, <4>2 DEF Energize, TypeOK, store, clocks
    <3>5. QED
      BY <3>1, <3>2, <3>3, <3>4
  <2>3. CASE EndPulse(t)
    <3>1. call' \in Call /\ pc' \in [Threads -> Steps] /\ lastAttempt' \in Int
      BY <2>3, <2>b DEF EndPulse
    <3>2. QED
      BY <2>3, <3>1 DEF EndPulse, TypeOK, store, clocks, history
  <2>4. CASE Finalize(t)
    <3>1. /\ call.status \in Statuses /\ call.detail \in Details /\ call.attempted \in BOOLEAN
          /\ [recorded |-> TRUE, opened |-> call.activated,
              stamped |-> call.stamped, at |-> call.at] \in Event
      BY DEF TypeOK, Call, Event, Statuses, Details
    <3>2. claims' \in [Keys -> Claim] /\ events' \in [Keys -> Event] /\ outbox' \subseteq Keys
      BY <2>4, <3>1, FinalizeActuationType DEF Finalize
    <3>3. QED
      BY <2>4, <3>2, ReturnType DEF Finalize, TypeOK, quiet, clocks, relayState, history
  <2>5. QED
    BY <1>10, <2>1, <2>2, <2>3, <2>4
<1>11. CASE BeginShutdown
  BY <1>11 DEF BeginShutdown, TypeOK, store, clocks, history
<1>12. CASE Crash
  BY <1>12, PulseUpdate DEF Crash, Forget, TypeOK, Steps, store, clocks
<1>13. CASE Reboot
  <2>1. bootAt' \in 0..now' /\ boot' \in Nat
    BY <1>13 DEF Reboot, TypeOK
  <2>2. lastPulse' \in Pulse
    BY <1>13, PulseUpdate DEF Reboot, TypeOK
  <2>3. QED
    BY <1>13, <2>1, <2>2 DEF Reboot, Forget, TypeOK, Steps, store
<1>14. CASE Start
  BY <1>14, RecoveredType DEF Start, TypeOK, Interrupted, Keys, clocks, history
<1>15. CASE Tick
  BY <1>15 DEF Tick, TypeOK, store, relayState, history
<1>16. CASE StepWallClock
  BY <1>16 DEF StepWallClock, TypeOK, store, relayState, history
<1>17. CASE UNCHANGED vars
  BY <1>17 DEF TypeOK, vars, store, clocks, relayState, history
<1>18. QED
  BY <1>1, <1>2, <1>3, <1>4, <1>5, <1>6, <1>7, <1>8, <1>9, <1>10, <1>11, <1>12, <1>13,
     <1>14, <1>15, <1>16, <1>17 DEF Next

\* The controller starts, with an empty database, in a typed state.
LEMMA InitType == Init => TypeOK
<1> SUFFICES ASSUME Init PROVE TypeOK
  OBVIOUS
<1>1. /\ claims \in [Keys -> Claim] /\ events \in [Keys -> Event] /\ outbox \subseteq Keys
      /\ now \in Nat /\ bootAt \in 0..now /\ boot \in Nat /\ skew \in Skews
  BY InitialValues DEF Init
<1>2. /\ pc \in [Threads -> Steps] /\ req \in [Threads -> Request]
      /\ lock \in Threads \cup {Free} /\ call \in Call /\ lastAttempt \in Int
      /\ pulses \in [Keys -> Nat] /\ lastPulse \in Pulse
  BY InitialValues DEF Init, Steps
<1>3. QED
  BY <1>1, <1>2 DEF Init, TypeOK

\* Types: the database rows, the threads, the lock, the clocks and the relay
\* always hold values of their types, in particular no recovery, clock step or
\* refused call leaves a row or a local half written.
THEOREM TypeCorrect == Spec => []TypeOK
  BY InitType, TypeStep, PTL DEF Spec
-----------------------------------------------------------------------------
(* One attempt per key *)

\* The steps between claim_actuation and the release of _lock.
Locked == {"claim", "cooldown", "mem_cooldown", "mark", "check", "on", "pulse", "finalize"}

\* Those steps belong to the holder of _lock; a dead process has no thread.
Mutex ==
    /\ \A t \in Threads : pc[t] \in Locked => lock = t
    /\ ~up => \A t \in Threads : pc[t] = "idle"
    /\ \A t \in Threads, u \in Threads : pc[t] = "prompt" /\ pc[u] = "prompt" => t = u

\* What a thread knows of its claim between two transactions: the one it has just
\* taken has no marker and no pulse, a marked one no pulse until the pin rises.
OwnClaim(t) ==
    LET c == claims[Key(t)]
        n == pulses[Key(t)]
    IN
    /\ pc[t] \in {"mem_cooldown", "mark"} =>
          c.state = "claimed" /\ c.pending /\ ~c.marked /\ n = 0
    /\ pc[t] \in {"check", "on", "pulse", "finalize"} =>
          c.state = "claimed" /\ c.pending /\ c.marked
    /\ pc[t] \in {"check", "on"} => n = 0
    /\ pc[t] = "finalize" /\ n > 0 => call.attempted /\ call.status # "expired"
    /\ pc[t] = "prompt" => c.state = "claimed" /\ ~c.pending /\ n = 0

\* What is known of a key whatever the threads do.
KeyInv(k) ==
    /\ claims[k].state = "none" => pulses[k] = 0
    /\ pulses[k] > 0 => claims[k].marked
    /\ pulses[k] <= 1

IInv ==
    /\ TypeOK /\ Mutex
    /\ \A t \in Threads : OwnClaim(t)
    /\ \A k \in Keys : KeyInv(k)

\* finalize_actuation touches one row, and only a claimed one; the marker stays
\* exactly when the caller says the pin may have moved.
LEMMA FinalizeFacts ==
    ASSUME TypeOK, NEW k \in Keys, NEW status, NEW detail, NEW event, NEW retain \in BOOLEAN,
           FinalizeActuation(k, status, detail, event, retain)
    PROVE  /\ \A j \in Keys \ {k} : claims'[j] = claims[j]
           /\ \/ claims'[k] = claims[k]
              \/ /\ claims[k].state = "claimed" /\ claims'[k].state = "finalized"
                 /\ ~retain \/ status = "expired" => ~claims'[k].marked
                 /\ retain /\ status # "expired" /\ claims[k].marked => claims'[k].marked
<1>1. /\ Finalized(claims[k], status, detail, retain).state = "finalized"
      /\ Finalized(claims[k], status, detail, retain).marked
            = (claims[k].marked /\ (retain /\ status # "expired"))
  BY DEF Finalized
<1>2. claims[k].marked \in BOOLEAN
  BY DEF TypeOK, Claim
<1>3. CASE UNCHANGED claims
  BY <1>3
<1>4. CASE /\ claims[k].state = "claimed"
           /\ claims' = [claims EXCEPT ![k] = Finalized(@, status, detail, retain)]
  <2>1. claims'[k] = Finalized(claims[k], status, detail, retain)
    BY <1>4 DEF TypeOK
  <2>2. \A j \in Keys \ {k} : claims'[j] = claims[j]
    BY <1>4 DEF TypeOK
  <2>3. QED
    BY <1>1, <1>2, <1>4, <2>1, <2>2
<1>5. QED
  BY <1>3, <1>4 DEF FinalizeActuation, store

\* The holder of _lock is alone between claim_actuation and its release.
LEMMA Alone ==
    ASSUME IInv, NEW t \in Threads, pc[t] \in Locked
    PROVE  lock = t /\ up /\ \A u \in Threads \ {t} : pc[u] \notin Locked
  BY DEF IInv, Mutex, Locked

\* A thread's step preserves Mutex when it enters the locked steps with the lock
\* and a prompt only when nobody plays one.
LEMMA MutexKept ==
    ASSUME IInv, NEW t \in Threads, up, UNCHANGED up,
           \A u \in Threads \ {t} : pc'[u] = pc[u],
           pc'[t] \in Locked => lock' = t,
           lock' = lock \/ \A u \in Threads \ {t} : pc[u] \notin Locked,
           pc'[t] = "prompt" => \A u \in Threads \ {t} : pc[u] # "prompt"
    PROVE  Mutex'
  BY DEF IInv, Mutex

\* Steps at which a thread relies on the row of its key.
Owning == {"mem_cooldown", "mark", "check", "on", "pulse", "finalize", "prompt"}

\* A thread's step that writes at most the row of k and counts pulses of k at most
\* keeps what everybody knows, if it does so for itself and for k and no other
\* thread relies on that row.
LEMMA RowStep ==
    ASSUME IInv, NEW t \in Threads, NEW k \in Keys,
           \A u \in Threads \ {t} : pc'[u] = pc[u] /\ req'[u] = req[u],
           \A j \in Keys \ {k} : claims'[j] = claims[j] /\ pulses'[j] = pulses[j],
           \A u \in Threads \ {t} : Key(u) = k => pc[u] \notin Owning,
           UNCHANGED call \/ \A u \in Threads \ {t} : pc[u] # "finalize",
           OwnClaim(t)', KeyInv(k)'
    PROVE  /\ \A u \in Threads : OwnClaim(u)'
           /\ \A j \in Keys : KeyInv(j)'
<1>1. ASSUME NEW u \in Threads \ {t} PROVE OwnClaim(u)'
  <2>1. Key(u)' = Key(u) /\ Key(u) \in Keys /\ pc'[u] = pc[u]
    BY Readings DEF IInv, Key
  <2>2. CASE Key(u) = k
    BY <2>1, <2>2 DEF OwnClaim, Owning
  <2>3. CASE Key(u) # k
    BY <2>1, <2>3 DEF IInv, OwnClaim
  <2>4. QED
    BY <2>2, <2>3
<1>2. ASSUME NEW j \in Keys \ {k} PROVE KeyInv(j)'
  BY <1>2 DEF IInv, KeyInv
<1>3. QED
  BY <1>1, <1>2

\* A step that writes no row and counts no pulse: only the thread itself matters.
LEMMA QuietStep ==
    ASSUME IInv, NEW t \in Threads, UNCHANGED <<claims, pulses>>,
           \A u \in Threads \ {t} : pc'[u] = pc[u] /\ req'[u] = req[u],
           UNCHANGED call \/ \A u \in Threads \ {t} : pc[u] # "finalize",
           OwnClaim(t)'
    PROVE  /\ \A u \in Threads : OwnClaim(u)'
           /\ \A j \in Keys : KeyInv(j)'
<1>1. ASSUME NEW u \in Threads \ {t} PROVE OwnClaim(u)'
  BY DEF IInv, OwnClaim, Key
<1>2. QED
  BY <1>1 DEF IInv, KeyInv

\* Nobody else relies on a row whose claim t holds pending, or on one that is free.
LEMMA RowIsMine ==
    ASSUME IInv, NEW t \in Threads, pc[t] \in Locked, NEW k \in Keys,
           claims[k].pending \/ claims[k].state # "claimed"
    PROVE  \A u \in Threads \ {t} : Key(u) = k => pc[u] \notin Owning
  BY Alone DEF IInv, OwnClaim, Owning, Locked

\* Where a thread stands after its call ended.
LEMMA Ended ==
    ASSUME TypeOK, NEW t \in Threads, Finish(t)
    PROVE  /\ pc'[t] = "idle" /\ OwnClaim(t)'
           /\ \A u \in Threads \ {t} : pc'[u] = pc[u] /\ req'[u] = req[u]
  BY DEF Finish, Goto, TypeOK, OwnClaim

\* Every step keeps the inductive invariant.  A thread step is one of three kinds:
\* it only moves the thread (QuietStep), it writes the row of its key, or it raises
\* the pin for its key (RowStep, with RowIsMine).
LEMMA InvStep == IInv /\ [Next]_vars => IInv'
<1> SUFFICES ASSUME IInv, [Next]_vars PROVE IInv'
  OBVIOUS
<1> TypeOK /\ TypeOK'
  BY TypeStep DEF IInv
<1> SUFFICES /\ Mutex'
             /\ \A u \in Threads : OwnClaim(u)'
             /\ \A j \in Keys : KeyInv(j)'
  BY DEF IInv
<1> DEFINE Goal == /\ Mutex'
                   /\ \A u \in Threads : OwnClaim(u)'
                   /\ \A j \in Keys : KeyInv(j)'
<1> USE Readings
<1> HIDE DEF Goal
<1>a. ASSUME NEW t \in Threads, up, UNCHANGED <<up, claims, pulses, lock, call>>,
             NEW s \in {"idle", "deciding", "skipping", "queued"},
             pc' = [pc EXCEPT ![t] = s],
             \A u \in Threads \ {t} : req'[u] = req[u]
      PROVE  Goal
  <2>1. pc'[t] = s /\ \A u \in Threads \ {t} : pc'[u] = pc[u]
    BY <1>a DEF TypeOK
  <2>2. OwnClaim(t)'
    BY <1>a, <2>1 DEF OwnClaim
  <2>3. Mutex'
    BY <1>a, <2>1, MutexKept DEF Locked
  <2>4. QED
    BY <1>a, <2>1, <2>2, <2>3, QuietStep DEF Goal
<1>1. ASSUME NEW k \in BurstKeys, ReceiveBurst(k) PROVE Goal
  <2>1. Processor \in Threads /\ up /\ UNCHANGED <<up, claims, pulses, lock, call>>
    BY <1>1 DEF ReceiveBurst, At, Threads, store, quiet, history
  <2>2. CASE UNCHANGED <<pc, req>>
    BY <2>1, <2>2 DEF IInv, Mutex, OwnClaim, KeyInv, Key, Goal
  <2>3. CASE /\ Goto(Processor, "deciding")
             /\ req' = [req EXCEPT ![Processor] = [NoRequest EXCEPT !.key = k]]
    BY <2>1, <2>3, <1>a DEF Goto, TypeOK
  <2>4. QED
    BY <1>1, <2>2, <2>3 DEF ReceiveBurst
<1>2. ASSUME NEW t \in {Collector, Processor}, NEW k \in BurstKeys, SkipBurst(t, k) PROVE Goal
  <2>1. t \in Threads /\ up /\ UNCHANGED <<up, claims, pulses, lock, call>>
    BY <1>2 DEF SkipBurst, At, Threads, quiet, history
  <2>2. PICK s \in {"idle", "skipping"} : pc' = [pc EXCEPT ![t] = s]
    BY <1>2 DEF SkipBurst, Finish, Goto
  <2>3. \A u \in Threads \ {t} : req'[u] = req[u]
    BY <1>2 DEF SkipBurst, Finish, TypeOK
  <2>4. QED
    BY <2>1, <2>2, <2>3, <1>a
<1>3. CASE DenyBurst
  <2>1. PICK t \in Threads : t = Processor
    BY DEF Threads
  <2>2. up /\ UNCHANGED <<up, claims, pulses, lock, call>> /\ Finish(t)
    BY <1>3, <2>1 DEF DenyBurst, RecordEvent, At, quiet, history
  <2>3. pc' = [pc EXCEPT ![t] = "idle"] /\ \A u \in Threads \ {t} : req'[u] = req[u]
    BY <2>2 DEF Finish, Goto, TypeOK
  <2>4. QED
    BY <2>2, <2>3, <1>a DEF Goal
<1>4. CASE AllowBurst
  <2>1. PICK t \in Threads : t = Processor
    BY DEF Threads
  <2>2. up /\ UNCHANGED <<up, claims, pulses, lock, call>>
    BY <1>4 DEF AllowBurst, At, quiet, history, store
  <2>3. pc' = [pc EXCEPT ![t] = "queued"] /\ \A u \in Threads \ {t} : req'[u] = req[u]
    BY <1>4, <2>1 DEF AllowBurst, Goto, TypeOK
  <2>4. QED
    BY <2>2, <2>3, <1>a DEF Goal
<1>5. ASSUME NEW t \in {Processor, Collector}, RecordSkipped(t) PROVE Goal
  BY <1>5, <1>a DEF RecordSkipped, RecordEvent, Finish, Goto, Threads, At, quiet, history, TypeOK
<1>6. ASSUME NEW t \in Clients, NEW k \in CommandKeys, NEW l \in Lifetimes,
             SubmitCommand(t, k, l)
      PROVE  Goal
  BY <1>6, <1>a DEF SubmitCommand, Goto, Threads, At, quiet, history, store, TypeOK
<1>7. ASSUME NEW t \in Clients, NEW k \in CommandKeys, NEW l \in Lifetimes,
             ClaimPrompt(t, k, l)
      PROVE  Goal
  <2>1. /\ t \in Threads /\ k \in Keys /\ up /\ UNCHANGED <<up, pulses, lock, call>>
        /\ claims[k].state = "none" /\ \A u \in Threads : pc[u] # "prompt"
    BY <1>7 DEF ClaimPrompt, Keys, Threads, At, quiet, history
  <2>2. pc'[t] = "prompt" /\ req'[t].key = k
    BY <1>7, <2>1 DEF ClaimPrompt, Goto, TypeOK
  <2>3. \A u \in Threads \ {t} : pc'[u] = pc[u] /\ req'[u] = req[u]
    BY <1>7 DEF ClaimPrompt, Goto, TypeOK
  <2>4. /\ claims'[k].state = "claimed" /\ ~claims'[k].pending /\ pulses'[k] = 0
        /\ \A j \in Keys \ {k} : claims'[j] = claims[j]
    BY <1>7, <2>1 DEF ClaimPrompt, NoClaim, TypeOK, IInv, KeyInv
  <2>5. Mutex'
    BY <2>1, <2>2, <2>3, MutexKept DEF Locked
  <2>6. OwnClaim(t)' /\ KeyInv(k)'
    BY <2>2, <2>4 DEF OwnClaim, KeyInv, Key
  <2>7. \A u \in Threads \ {t} : Key(u) = k => pc[u] \notin Owning
    BY <2>1 DEF IInv, OwnClaim, Owning
  <2>8. QED
    BY <2>1, <2>3, <2>4, <2>5, <2>6, <2>7, RowStep DEF Goal
<1>8. ASSUME NEW t \in Clients, FinishPrompt(t) PROVE Goal
  <2>1. PICK k \in Keys : k = Key(t)
    BY DEF Threads
  <2>2. /\ t \in Threads /\ pc[t] = "prompt" /\ up /\ UNCHANGED <<up, pulses, lock, call>>
        /\ Finish(t)
    BY <1>8 DEF FinishPrompt, Threads, At, quiet, history
  <2>3. PICK status, detail : FinalizeActuation(k, status, detail, ClosedEvent, FALSE)
    BY <1>8, <2>1 DEF FinishPrompt
  <2>4. /\ \A j \in Keys \ {k} : claims'[j] = claims[j]
        /\ claims'[k].state \in {"claimed", "finalized"} /\ pulses[k] = 0
    BY <2>1, <2>2, <2>3, FinalizeFacts DEF IInv, OwnClaim
  <2>5. KeyInv(k)'
    BY <2>2, <2>4 DEF KeyInv
  <2>6. \A u \in Threads \ {t} : Key(u) = k => pc[u] \notin Owning
    BY <2>1, <2>2 DEF IInv, Mutex, OwnClaim, Owning
  <2>7. Mutex'
    BY <2>2, Ended, MutexKept DEF Locked
  <2>8. QED
    BY <2>2, <2>4, <2>5, <2>6, <2>7, Ended, RowStep DEF Goal
<1>9. ASSUME NEW t \in {Processor} \cup Clients,
             \/ Acquire(t) \/ ClaimActuation(t) \/ RecordCooldown(t) \/ FinalizeCooldown(t)
             \/ MarkAttempt(t) \/ CheckTrigger(t) \/ Energize(t) \/ EndPulse(t) \/ Finalize(t)
      PROVE  Goal
  <2> t \in Threads
    BY DEF Threads
  <2>k. PICK k \in Keys : k = Key(t)
    OBVIOUS
  <2>a. ASSUME pc[t] \in Locked, UNCHANGED <<up, pulses>>, Return(t),
               \A j \in Keys \ {k} : claims'[j] = claims[j],
               claims'[k] = claims[k] \/ (KeyInv(k)' /\ (claims[k].pending \/ claims[k].state = "none"))
        PROVE  Goal
    <3>1. up /\ Finish(t) /\ \A u \in Threads \ {t} : pc[u] \notin Locked
      BY <2>a, Alone DEF Return
    <3>2. Mutex'
      BY <2>a, <3>1, Ended, MutexKept DEF Locked
    <3>3. \A u \in Threads \ {t} : pc[u] # "finalize"
      BY <3>1 DEF Locked
    <3>4. CASE claims'[k] = claims[k]
      <4>1. claims' = claims
        BY <2>a, <3>4 DEF TypeOK
      <4>2. QED
        BY <2>a, <3>1, <3>2, <3>3, <4>1, Ended, QuietStep DEF Goal
    <3>5. CASE KeyInv(k)' /\ (claims[k].pending \/ claims[k].state = "none")
      <4>1. \A u \in Threads \ {t} : Key(u) = k => pc[u] \notin Owning
        BY <2>a, <3>5, RowIsMine
      <4>2. QED
        BY <2>a, <3>1, <3>2, <3>3, <3>5, <4>1, Ended, RowStep DEF Goal
    <3>6. QED
      BY <2>a, <3>4, <3>5
  <2>b. ASSUME pc[t] \in Locked, UNCHANGED <<up, lock, req>>, NEW s \in Locked,
               pc' = [pc EXCEPT ![t] = s],
               \A j \in Keys \ {k} : claims'[j] = claims[j] /\ pulses'[j] = pulses[j],
               claims[k].pending \/ claims[k].state = "none",
               KeyInv(k)', OwnClaim(t)'
        PROVE  Goal
    <3>1. up /\ lock = t /\ \A u \in Threads \ {t} : pc[u] \notin Locked
      BY <2>b, Alone
    <3>2. pc'[t] = s /\ \A u \in Threads \ {t} : pc'[u] = pc[u] /\ req'[u] = req[u]
      BY <2>b DEF TypeOK
    <3>3. Mutex'
      BY <2>b, <3>1, <3>2, MutexKept DEF Locked
    <3>4. \A u \in Threads \ {t} : pc[u] # "finalize"
      BY <3>1 DEF Locked
    <3>5. \A u \in Threads \ {t} : Key(u) = k => pc[u] \notin Owning
      BY <2>b, RowIsMine
    <3>6. QED
      BY <2>b, <3>2, <3>3, <3>4, <3>5, RowStep DEF Goal
  <2>1. CASE Acquire(t)
    <3>1. up /\ lock = Free /\ pc[t] = "queued" /\ UNCHANGED <<up, claims, pulses, call>>
      BY <2>1 DEF Acquire, At, quiet, history
    <3>2. \A u \in Threads : pc[u] \notin Locked
      BY <3>1 DEF IInv, Mutex
    <3>3. CASE Finish(t) /\ UNCHANGED lock
      BY <3>1, <3>2, <3>3, Ended, MutexKept, QuietStep DEF Goal, Locked
    <3>4. CASE lock' = t /\ Goto(t, "claim") /\ UNCHANGED req
      <4>1. pc'[t] = "claim" /\ \A u \in Threads \ {t} : pc'[u] = pc[u] /\ req'[u] = req[u]
        BY <3>4 DEF Goto, TypeOK
      <4>2. OwnClaim(t)'
        BY <4>1 DEF OwnClaim
      <4>3. QED
        BY <3>1, <3>2, <3>4, <4>1, <4>2, MutexKept, QuietStep DEF Goal, Locked
    <3>5. QED
      BY <2>1, <3>3, <3>4 DEF Acquire
  <2>2. CASE ClaimActuation(t)
    <3>1. pc[t] = "claim" /\ UNCHANGED <<up, pulses>>
      BY <2>2 DEF ClaimActuation, At, quiet, history
    <3>2. CASE Return(t) /\ UNCHANGED claims
      BY <3>1, <3>2, <2>a DEF Locked
    <3>3. CASE /\ claims[k].state = "none" /\ UNCHANGED <<req, lock, claims>>
               /\ Goto(t, "cooldown")
      <4>1. PICK s \in Locked : s = "cooldown" /\ pc' = [pc EXCEPT ![t] = s] /\ pc'[t] = s
        BY <3>3 DEF Goto, Locked, TypeOK
      <4>2. OwnClaim(t)' /\ KeyInv(k)'
        BY <3>1, <3>3, <4>1 DEF IInv, OwnClaim, KeyInv
      <4>3. QED
        BY <3>1, <3>3, <4>1, <4>2, <2>b DEF Locked
    <3>4. CASE /\ claims[k].state = "none" /\ UNCHANGED <<req, lock>>
               /\ claims' = [claims EXCEPT ![k] =
                     [NoClaim EXCEPT !.state = "claimed", !.pending = TRUE]]
               /\ Goto(t, "mem_cooldown") \/ Goto(t, "mark")
      <4>1. PICK s \in Locked : /\ s \in {"mem_cooldown", "mark"}
                                /\ pc' = [pc EXCEPT ![t] = s] /\ pc'[t] = s
        BY <3>4 DEF Goto, Locked, TypeOK
      <4>2. /\ claims'[k].state = "claimed" /\ claims'[k].pending /\ ~claims'[k].marked
            /\ pulses'[k] = 0
        BY <3>1, <3>4 DEF NoClaim, TypeOK, IInv, KeyInv
      <4>3. OwnClaim(t)' /\ KeyInv(k)'
        BY <2>k, <3>4, <4>1, <4>2 DEF OwnClaim, KeyInv, Key
      <4>4. \A j \in Keys \ {k} : claims'[j] = claims[j] /\ pulses'[j] = pulses[j]
        BY <3>1, <3>4 DEF TypeOK
      <4>5. QED
        BY <3>1, <3>4, <4>1, <4>3, <4>4, <2>b DEF Locked
    <3>5. QED
      BY <2>2, <2>k, <3>2, <3>3, <3>4 DEF ClaimActuation
  <2>3. CASE RecordCooldown(t)
    <3>1. pc[t] = "cooldown" /\ UNCHANGED <<up, pulses>>
      BY <2>3 DEF RecordCooldown, At, quiet, history
    <3>2. CASE Return(t) /\ UNCHANGED claims
      BY <3>1, <3>2, <2>a DEF Locked
    <3>3. CASE /\ Return(t) /\ claims[k].state = "none"
               /\ claims' = [claims EXCEPT ![k] = Finalized(@, "failed", "cooldown", FALSE)]
      <4>1. /\ claims'[k].state = "finalized" /\ pulses'[k] = 0
            /\ \A j \in Keys \ {k} : claims'[j] = claims[j]
        BY <3>1, <3>3 DEF Finalized, TypeOK, IInv, KeyInv
      <4>2. KeyInv(k)'
        BY <4>1 DEF KeyInv
      <4>3. QED
        BY <3>1, <3>3, <4>1, <4>2, <2>a DEF Locked
    <3>4. CASE /\ UNCHANGED claims /\ lock' = Free
               /\ (Goto(t, "raised") /\ UNCHANGED req) \/ Finish(t)
      <4>1. /\ pc'[t] \in {"raised", "idle"}
            /\ \A u \in Threads \ {t} : pc'[u] = pc[u] /\ req'[u] = req[u]
        BY <3>4 DEF Goto, Finish, TypeOK
      <4>2. up /\ \A u \in Threads \ {t} : pc[u] \notin Locked
        BY <3>1, Alone DEF Locked
      <4>3. Mutex'
        BY <3>1, <4>1, <4>2, MutexKept DEF Locked
      <4>4. OwnClaim(t)' /\ \A u \in Threads \ {t} : pc[u] # "finalize"
        BY <4>1, <4>2 DEF OwnClaim, Locked
      <4>5. QED
        BY <3>1, <3>4, <4>1, <4>3, <4>4, QuietStep DEF Goal
    <3>5. QED
      BY <2>3, <2>k, <3>2, <3>3, <3>4 DEF RecordCooldown, store
  <2>4. CASE FinalizeCooldown(t)
    <3>1. /\ pc[t] = "mem_cooldown" /\ UNCHANGED <<up, pulses>> /\ Return(t)
          /\ FinalizeActuation(k, "failed", "cooldown", ClosedEvent, TRUE)
      BY <2>4, <2>k DEF FinalizeCooldown, At, quiet, history
    <3>2. claims[k].pending /\ pulses[k] = 0
      BY <2>k, <3>1 DEF IInv, OwnClaim
    <3>3. /\ \A j \in Keys \ {k} : claims'[j] = claims[j]
          /\ claims'[k] = claims[k] \/ claims'[k].state = "finalized"
      BY <3>1, FinalizeFacts
    <3>4. claims'[k].state = "finalized" => KeyInv(k)'
      BY <3>1, <3>2 DEF KeyInv
    <3>5. QED
      BY <3>1, <3>2, <3>3, <3>4, <2>a DEF Locked
  <2>5. CASE MarkAttempt(t)
    <3>1. pc[t] = "mark" /\ UNCHANGED <<up, pulses>>
      BY <2>5 DEF MarkAttempt, At, quiet, history
    <3>2. CASE Return(t) /\ UNCHANGED claims
      BY <3>1, <3>2, <2>a DEF Locked
    <3>3. CASE /\ Goto(t, "check") /\ UNCHANGED <<req, lock>>
               /\ claims' = [claims EXCEPT ![k] =
                     [@ EXCEPT !.marked = TRUE, !.wall = req[t].decisionAt,
                               !.mono = call.mono, !.boot = boot]]
      <4>1. PICK s \in Locked : s = "check" /\ pc' = [pc EXCEPT ![t] = s] /\ pc'[t] = s
        BY <3>3 DEF Goto, Locked, TypeOK
      <4>2. claims[k].state = "claimed" /\ claims[k].pending /\ pulses[k] = 0
        BY <2>k, <3>1 DEF IInv, OwnClaim
      <4>3. claims'[k].state = "claimed" /\ claims'[k].pending /\ claims'[k].marked
        BY <3>3, <4>2 DEF TypeOK, Claim
      <4>4. OwnClaim(t)' /\ KeyInv(k)'
        BY <2>k, <3>1, <3>3, <4>1, <4>2, <4>3 DEF OwnClaim, KeyInv, Key
      <4>5. \A j \in Keys \ {k} : claims'[j] = claims[j] /\ pulses'[j] = pulses[j]
        BY <3>1, <3>3 DEF TypeOK
      <4>6. QED
        BY <3>1, <3>3, <4>1, <4>2, <4>4, <4>5, <2>b DEF Locked
    <3>4. QED
      BY <2>5, <2>k, <3>2, <3>3 DEF MarkAttempt
  <2>c. ASSUME pc[t] \in {"check", "on"}, UNCHANGED <<up, claims, pulses, req, lock>>,
               NEW s \in {"on", "finalize"}, Goto(t, s)
        PROVE  Goal
    <3>1. s \in Locked /\ pc' = [pc EXCEPT ![t] = s] /\ pc'[t] = s
      BY <2>c DEF Goto, Locked, TypeOK
    <3>2. claims[k].state = "claimed" /\ claims[k].pending /\ claims[k].marked /\ pulses[k] = 0
      BY <2>k, <2>c DEF IInv, OwnClaim
    <3>3. OwnClaim(t)' /\ KeyInv(k)'
      BY <2>k, <2>c, <3>1, <3>2 DEF OwnClaim, KeyInv, Key
    <3>4. QED
      BY <2>c, <3>1, <3>2, <3>3, <2>b DEF Locked
  <2>d. ASSUME pc[t] \in {"on", "pulse"}, UNCHANGED <<up, claims, req, lock>>,
               UNCHANGED pulses \/ (pc[t] = "on" /\ PinRises(t)),
               NEW s \in {"pulse", "finalize"}, Goto(t, s),
               s = "finalize" => call'.attempted /\ call'.status # "expired"
        PROVE  Goal
    <3>1. s \in Locked /\ pc' = [pc EXCEPT ![t] = s] /\ pc'[t] = s
      BY <2>d DEF Goto, Locked, TypeOK
    <3>2. /\ claims[k].state = "claimed" /\ claims[k].pending /\ claims[k].marked
          /\ pulses[k] <= 1
          /\ pc[t] = "on" => pulses[k] = 0
      BY <2>k, <2>d DEF IInv, OwnClaim, KeyInv
    <3>3. pulses'[k] <= 1 /\ \A j \in Keys \ {k} : pulses'[j] = pulses[j]
      <4>1. CASE UNCHANGED pulses
        BY <3>2, <4>1
      <4>2. CASE pc[t] = "on" /\ pulses' = [pulses EXCEPT ![k] = @ + 1]
        BY <3>2, <4>2 DEF TypeOK
      <4>3. QED
        BY <2>k, <2>d, <4>1, <4>2 DEF PinRises
    <3>4. OwnClaim(t)' /\ KeyInv(k)'
      BY <2>k, <2>d, <3>1, <3>2, <3>3 DEF OwnClaim, KeyInv, Key
    <3>5. QED
      BY <2>d, <3>1, <3>2, <3>3, <3>4, <2>b DEF Locked
  <2>e. ASSUME NEW status \in {"completed", "failed"}, NEW detail, Settle(t, status, detail)
        PROVE  Goto(t, "finalize") /\ call'.attempted /\ call'.status # "expired"
    BY <2>e DEF Settle, Answer, TypeOK, Call
  <2>6. CASE CheckTrigger(t)
    <3>1. /\ pc[t] = "check" /\ UNCHANGED <<up, claims, pulses, req, lock>>
          /\ Goto(t, "on") \/ Goto(t, "finalize")
      BY <2>6 DEF CheckTrigger, Refuse, At, store
    <3>2. QED
      BY <3>1, <2>c
  <2>7. CASE Energize(t)
    <3>1. pc[t] = "on" /\ UNCHANGED <<up, claims, req, lock>>
      BY <2>7 DEF Energize, At, store
    <3>2. CASE Goto(t, "finalize") /\ UNCHANGED pulses /\ \E i : Refuse(t, i)
      BY <3>1, <3>2, <2>c
    <3>3. CASE RaisePin(t)
      <4>1. Goto(t, "pulse") /\ PinRises(t)
        BY <3>3 DEF RaisePin
      <4>2. QED
        BY <3>1, <4>1, <2>d
    <3>4. CASE /\ PinRises(t) \/ UNCHANGED history
               /\ Settle(t, "failed", "relay_error") \/ Settle(t, "failed", "relay_deenergize_error")
      BY <3>1, <3>4, <2>d, <2>e DEF history
    <3>5. QED
      BY <2>7, <3>2, <3>3, <3>4 DEF Energize, Refuse
  <2>8. CASE EndPulse(t)
    <3>1. pc[t] = "pulse" /\ UNCHANGED <<up, claims, req, lock, pulses>>
      BY <2>8 DEF EndPulse, At, store, history
    <3>2. Goto(t, "finalize") /\ call'.attempted /\ call'.status # "expired"
      BY <2>8, <2>e DEF EndPulse
    <3>3. QED
      BY <3>1, <3>2, <2>d
  <2>9. CASE Finalize(t)
    <3>1. /\ pc[t] = "finalize" /\ UNCHANGED <<up, pulses>> /\ Return(t)
      BY <2>9 DEF Finalize, At, quiet, history
    <3>2. PICK event : FinalizeActuation(k, call.status, call.detail, event, call.attempted)
      BY <2>9, <2>k DEF Finalize
    <3>3. /\ claims[k].pending /\ claims[k].marked /\ pulses[k] \in {0, 1}
          /\ pulses[k] > 0 => call.attempted /\ call.status # "expired"
      <4>1. OwnClaim(t) /\ KeyInv(k) /\ pulses[k] \in Nat
        BY DEF IInv, TypeOK
      <4>2. pulses[k] \in {0, 1}
        BY <4>1 DEF KeyInv
      <4>3. /\ claims[k].pending /\ claims[k].marked
            /\ pulses[k] > 0 => call.attempted /\ call.status # "expired"
        BY <2>k, <3>1, <4>1 DEF OwnClaim
      <4>4. QED
        BY <4>2, <4>3
    <3>4. call.attempted \in BOOLEAN
      BY DEF TypeOK, Call
    <3>5. /\ \A j \in Keys \ {k} : claims'[j] = claims[j]
          /\ \/ claims'[k] = claims[k]
             \/ /\ claims'[k].state = "finalized"
                /\ call.attempted /\ call.status # "expired" /\ claims[k].marked => claims'[k].marked
      BY <3>2, <3>4, FinalizeFacts
    <3>6. claims'[k] = claims[k] \/ KeyInv(k)'
      <4>1. CASE pulses[k] = 0
        BY <3>1, <3>5, <4>1 DEF KeyInv
      <4>2. CASE pulses[k] = 1
        <5>1. (claims'[k].state # "none" /\ claims'[k].marked) \/ claims'[k] = claims[k]
          BY <3>3, <3>5, <4>2
        <5>2. QED
          BY <3>1, <4>2, <5>1 DEF KeyInv
      <4>3. QED
        BY <3>3, <4>1, <4>2
    <3>7. QED
      BY <3>1, <3>3, <3>5, <3>6, <2>a DEF Locked
  <2>10. QED
    BY <1>9, <2>1, <2>2, <2>3, <2>4, <2>5, <2>6, <2>7, <2>8, <2>9
<1>10. CASE BeginShutdown
  BY <1>10 DEF BeginShutdown, store, clocks, history, IInv, Mutex, OwnClaim, KeyInv, Key, Goal
<1>11. CASE Crash \/ Reboot
  <2>1. ~up' /\ pc' = [t \in Threads |-> "idle"] /\ UNCHANGED <<claims, pulses>>
    BY <1>11 DEF Crash, Reboot, Forget, store
  <2>2. Mutex' /\ \A u \in Threads : OwnClaim(u)'
    BY <2>1 DEF Mutex, OwnClaim, Locked
  <2>3. QED
    BY <2>1, <2>2 DEF IInv, KeyInv, Goal
<1>12. CASE Start
  <2>1. \A t \in Threads : pc'[t] = "idle"
    BY <1>12 DEF Start, IInv, Mutex
  <2>2. Mutex' /\ \A u \in Threads : OwnClaim(u)'
    BY <2>1, <1>12 DEF Mutex, OwnClaim, Locked, Start
  <2>3. ASSUME NEW k \in Keys PROVE KeyInv(k)'
    <3>1. claims'[k] = Recovered(claims[k]) /\ pulses' = pulses
      BY <1>12 DEF Start, history
    <3>2. /\ Recovered(claims[k]).marked = claims[k].marked
          /\ Recovered(claims[k]).state = "none" => claims[k].state = "none"
      BY DEF Recovered, TypeOK, Claim
    <3>3. QED
      BY <3>1, <3>2 DEF IInv, KeyInv
  <2>4. QED
    BY <2>2, <2>3 DEF Goal
<1>13. CASE Tick \/ StepWallClock \/ UNCHANGED vars
  BY <1>13 DEF Tick, StepWallClock, vars, store, clocks, relayState, history,
               IInv, Mutex, OwnClaim, KeyInv, Key, Goal
<1>14. QED
  BY <1>1, <1>2, <1>3, <1>4, <1>5, <1>6, <1>7, <1>8, <1>9, <1>10, <1>11, <1>12, <1>13
     DEF Next, Goal

\* The inductive invariant holds in every reachable state.
LEMMA InvHolds == Spec => []IInv
<1>1. Init => IInv
  BY InitType DEF Init, IInv, Mutex, OwnClaim, KeyInv, Locked, NoClaim
<1>2. QED
  BY <1>1, InvStep, PTL DEF Spec

\* An idempotency key moves the gate at most once, however often its request is
\* retried, replayed, interrupted or recovered.
THEOREM AtMostOnePulse == Spec => []PulseOncePerKey
<1>1. IInv => PulseOncePerKey
  BY DEF IInv, KeyInv, PulseOncePerKey
<1>2. QED
  BY <1>1, InvHolds, PTL

\* The durable marker of a key that has raised the pin survives finalisation, crash
\* and recovery, so the cooldown of the next request can rely on it.
THEOREM MarkerIsDurable == Spec => []MarkerOutlivesPulse
<1>1. IInv => MarkerOutlivesPulse
  BY DEF IInv, KeyInv, MarkerOutlivesPulse
<1>2. QED
  BY <1>1, InvHolds, PTL
-----------------------------------------------------------------------------
(* The outbox *)

\* A step that writes no event and takes no row out of the outbox.
LEMMA NothingRecorded ==
    ASSUME BurstEventsQueued, UNCHANGED events, outbox \subseteq outbox'
    PROVE  BurstEventsQueued'
  BY DEF BurstEventsQueued

\* A step that records at most the event of k, together with its outbox row.
LEMMA RecordedWithRow ==
    ASSUME TypeOK, BurstEventsQueued, NEW k \in Keys, EnsureOutbox(k),
           \A j \in Keys \ {k} : events'[j] = events[j]
    PROVE  BurstEventsQueued'
  BY DEF BurstEventsQueued, EnsureOutbox, Keys

\* So finalize_actuation keeps the outbox complete, whatever it stores ...
LEMMA FinalizeQueues ==
    ASSUME TypeOK, BurstEventsQueued, NEW k \in Keys, NEW status, NEW detail, NEW event,
           NEW retain, FinalizeActuation(k, status, detail, event, retain)
    PROVE  BurstEventsQueued'
<1>1. CASE UNCHANGED store
  BY <1>1, NothingRecorded DEF store
<1>2. CASE events' = [events EXCEPT ![k] = event] /\ EnsureOutbox(k)
  BY <1>2, RecordedWithRow DEF TypeOK
<1>3. QED
  BY <1>1, <1>2 DEF FinalizeActuation

\* ... and so does record_event_with_outbox.
LEMMA RecordQueues ==
    ASSUME TypeOK, BurstEventsQueued, NEW k \in Keys, RecordEvent(k)
    PROVE  BurstEventsQueued'
  BY RecordedWithRow DEF RecordEvent, TypeOK

\* No step of any thread and no recovery leaves a burst's event without its row.
LEMMA QueuedStep == TypeOK /\ BurstEventsQueued /\ [Next]_vars => BurstEventsQueued'
<1> SUFFICES ASSUME TypeOK, BurstEventsQueued, [Next]_vars PROVE BurstEventsQueued'
  OBVIOUS
<1> USE Readings
<1>1. ASSUME NEW k \in BurstKeys,
             ReceiveBurst(k) \/ SkipBurst(Collector, k) \/ SkipBurst(Processor, k)
      PROVE  BurstEventsQueued'
  BY <1>1, NothingRecorded DEF ReceiveBurst, SkipBurst, EnsureOutbox, store
<1>2. CASE DenyBurst \/ \E t \in {Processor, Collector} : RecordSkipped(t)
  BY <1>2, RecordQueues DEF DenyBurst, RecordSkipped, Threads
<1>3. CASE AllowBurst
  BY <1>3, NothingRecorded DEF AllowBurst, store
<1>4. ASSUME NEW t \in Clients, NEW k \in CommandKeys, NEW l \in Lifetimes,
             SubmitCommand(t, k, l) \/ ClaimPrompt(t, k, l)
      PROVE  BurstEventsQueued'
  BY <1>4, NothingRecorded DEF SubmitCommand, ClaimPrompt, store
<1>5. ASSUME NEW t \in Clients, FinishPrompt(t) PROVE BurstEventsQueued'
  BY <1>5, FinalizeQueues DEF FinishPrompt, Threads
<1>6. ASSUME NEW t \in {Processor} \cup Clients, Finalize(t) \/ FinalizeCooldown(t)
      PROVE  BurstEventsQueued'
  BY <1>6, FinalizeQueues DEF Finalize, FinalizeCooldown, Threads
<1>7. ASSUME NEW t \in {Processor} \cup Clients, RecordCooldown(t) PROVE BurstEventsQueued'
  <2>1. PICK k \in Keys : k = Key(t)
    BY DEF Threads
  <2>2. CASE UNCHANGED events /\ outbox \subseteq outbox'
    BY <2>2, NothingRecorded
  <2>3. CASE events' = [events EXCEPT ![k] = ClosedEvent] /\ EnsureOutbox(k)
    BY <2>3, RecordedWithRow DEF TypeOK
  <2>4. QED
    BY <1>7, <2>1, <2>2, <2>3 DEF RecordCooldown, EnsureOutbox, store
<1>8. ASSUME NEW t \in {Processor} \cup Clients,
             Acquire(t) \/ ClaimActuation(t) \/ MarkAttempt(t)
             \/ CheckTrigger(t) \/ Energize(t) \/ EndPulse(t)
      PROVE  BurstEventsQueued'
  BY <1>8, NothingRecorded DEF Acquire, ClaimActuation, MarkAttempt, CheckTrigger, Energize,
              EndPulse, EnsureOutbox, store
<1>9. CASE BeginShutdown \/ Crash \/ Reboot \/ Tick \/ StepWallClock \/ UNCHANGED vars
  BY <1>9, NothingRecorded DEF BeginShutdown, Crash, Reboot, Tick, StepWallClock, vars, store
<1>10. CASE Start
  BY <1>10 DEF Start, BurstEventsQueued, Keys
<1>11. QED
  BY <1>1, <1>2, <1>3, <1>4, <1>5, <1>6, <1>7, <1>8, <1>9, <1>10 DEF Next

\* Every recorded burst event is queued for delivery in every reachable state.
LEMMA AlwaysQueued == Spec => []BurstEventsQueued
<1>1. Init => BurstEventsQueued
  BY DEF Init, BurstEventsQueued, NoEvent, Keys
<1>2. QED
  BY <1>1, TypeCorrect, QueuedStep, PTL DEF Spec
-----------------------------------------------------------------------------
(* What the outcomes say *)

Faults == {"relay_error", "relay_deenergize_error"}

\* The locals of actuate: nothing is attempted before the trigger has ended, a pulse
\* in progress is a rise of its own key, and the outcome that will be stored says
\* activated only of a completed pulse and blames a fault for every other attempt.
CallTruth ==
    /\ (\A t \in Threads : pc[t] # "finalize") => ~call.activated /\ ~call.attempted
    /\ \A t \in Threads : pc[t] = "pulse" => pulses[Key(t)] = 1
    /\ \A t \in Threads : pc[t] = "finalize" =>
          /\ call.activated => call.status = "completed" /\ pulses[Key(t)] = 1
          /\ call.attempted => call.activated \/ call.detail \in Faults

\* The rows of a key: an opened event belongs to a completed claim, and a final row
\* accounts for the pulse and for the marker of its key.
KeyTruth(k) ==
    /\ events[k].opened => /\ events[k].recorded /\ pulses[k] = 1
                           /\ claims[k].state = "finalized" /\ claims[k].status = "completed"
    /\ claims[k].state = "finalized" /\ pulses[k] > 0 =>
          events[k].opened \/ claims[k].detail \in Faults \cup {"indeterminate_claim"}
    /\ claims[k].state = "finalized" /\ claims[k].marked =>
          pulses[k] > 0 \/ claims[k].detail \in Faults \cup {"indeterminate_claim"}

Truth == CallTruth /\ \A k \in Keys : KeyTruth(k)

\* Rows nobody finalises: the event stays, or a skipped burst's closed one is new.
LEMMA RowUntouched ==
    ASSUME NEW k \in Keys, KeyTruth(k), claims'[k] = claims[k], pulses'[k] = pulses[k],
           events'[k] = events[k] \/ (~events[k].recorded /\ events'[k] = ClosedEvent)
    PROVE  KeyTruth(k)'
  BY DEF KeyTruth, ClosedEvent, NoEvent

\* A row that is not final before or after a step says nothing yet.
LEMMA RowOpen ==
    ASSUME NEW k \in Keys, KeyTruth(k), claims[k].state # "finalized",
           claims'[k].state # "finalized", events'[k] = events[k]
    PROVE  KeyTruth(k)'
  BY DEF KeyTruth

\* Another thread's step does not disturb the call in progress.
LEMMA CallKept ==
    ASSUME IInv, CallTruth, NEW t \in Threads, UNCHANGED <<call, pulses>>,
           \A u \in Threads \ {t} : pc'[u] = pc[u] /\ req'[u] = req[u],
           pc[t] \notin {"pulse", "finalize"}, pc'[t] \notin {"pulse", "finalize"}
    PROVE  CallTruth'
<1>1. ASSUME NEW u \in Threads, pc'[u] \in {"pulse", "finalize"}
      PROVE  u # t /\ pc'[u] = pc[u] /\ Key(u)' = Key(u)
  BY <1>1 DEF Key
<1>2. (\A u \in Threads : pc'[u] # "finalize") => \A u \in Threads : pc[u] # "finalize"
  OBVIOUS
<1>3. QED
  BY <1>1, <1>2 DEF CallTruth

\* A call that ends leaves nothing behind.
LEMMA CallReset ==
    ASSUME call' = NoCall, \A u \in Threads : pc'[u] \notin {"pulse", "finalize"}
    PROVE  CallTruth'
  BY DEF CallTruth, NoCall

\* When actuate returns, no thread is left in the locked steps.
LEMMA ReturnResets ==
    ASSUME IInv, NEW t \in Threads, pc[t] \in Locked, Return(t)
    PROVE  CallTruth'
<1>1. \A u \in Threads : pc'[u] \notin {"pulse", "finalize"}
  <2>1. pc'[t] = "idle" /\ \A u \in Threads \ {t} : pc'[u] = pc[u] /\ pc[u] \notin Locked
    BY Alone, Ended DEF IInv, Return
  <2>2. QED
    BY <2>1 DEF Locked
<1>2. QED
  BY <1>1, CallReset DEF Return

\* What finalize_actuation writes, if it writes at all.
LEMMA FinalizedRow ==
    ASSUME TypeOK, NEW k \in Keys, NEW status, NEW detail, NEW event, NEW retain \in BOOLEAN,
           FinalizeActuation(k, status, detail, event, retain)
    PROVE  \/ UNCHANGED store
           \/ /\ claims[k].state = "claimed" /\ ~events[k].recorded
              /\ claims'[k].state = "finalized" /\ events'[k] = event
              /\ claims'[k].status = status /\ claims'[k].detail = detail
              /\ claims'[k].marked => claims[k].marked /\ retain
              /\ \A j \in Keys \ {k} : claims'[j] = claims[j] /\ events'[j] = events[j]
<1>1. CASE UNCHANGED store
  BY <1>1
<1>2. CASE /\ claims[k].state = "claimed" /\ ~events[k].recorded
           /\ claims' = [claims EXCEPT ![k] = Finalized(@, status, detail, retain)]
           /\ events' = [events EXCEPT ![k] = event]
  <2>1. claims'[k] = Finalized(claims[k], status, detail, retain) /\ events'[k] = event
    BY <1>2 DEF TypeOK
  <2>2. \A j \in Keys \ {k} : claims'[j] = claims[j] /\ events'[j] = events[j]
    BY <1>2 DEF TypeOK
  <2>3. LET f == Finalized(claims[k], status, detail, retain) IN
        /\ f.state = "finalized" /\ f.status = status /\ f.detail = detail
        /\ f.marked => claims[k].marked /\ retain
    BY DEF Finalized
  <2>4. QED
    BY <1>2, <2>1, <2>2, <2>3
<1>3. QED
  BY <1>1, <1>2 DEF FinalizeActuation

\* A claim without pulse and without retained marker is finalised with a closed event.
LEMMA FinalizeClosed ==
    ASSUME TypeOK, \A j \in Keys : KeyTruth(j), UNCHANGED pulses,
           NEW k \in Keys, pulses[k] = 0, NEW status, NEW detail, NEW retain \in BOOLEAN,
           ~claims[k].marked \/ ~retain,
           FinalizeActuation(k, status, detail, ClosedEvent, retain)
    PROVE  \A j \in Keys : KeyTruth(j)'
<1>1. CASE UNCHANGED store
  BY <1>1, RowUntouched DEF store
<1>2. CASE /\ claims'[k].state = "finalized" /\ events'[k] = ClosedEvent
           /\ ~claims'[k].marked
           /\ \A j \in Keys \ {k} : claims'[j] = claims[j] /\ events'[j] = events[j]
  <2>1. KeyTruth(k)'
    BY <1>2 DEF KeyTruth, ClosedEvent, NoEvent
  <2>2. ASSUME NEW j \in Keys \ {k} PROVE KeyTruth(j)'
    BY <1>2, RowUntouched
  <2>3. QED
    BY <2>1, <2>2
<1>3. QED
  BY <1>1, <1>2, FinalizedRow

\* Every step keeps the outcomes truthful.
LEMMA TruthStep == IInv /\ Truth /\ [Next]_vars => Truth'
<1> SUFFICES ASSUME IInv, CallTruth, \A k \in Keys : KeyTruth(k), [Next]_vars
             PROVE  CallTruth' /\ \A k \in Keys : KeyTruth(k)'
  BY DEF Truth
<1> DEFINE Goal == CallTruth' /\ \A k \in Keys : KeyTruth(k)'
<1> TypeOK
  BY DEF IInv
<1> USE Readings
<1> HIDE DEF Goal
<1>a. ASSUME NEW t \in Threads, UNCHANGED <<claims, pulses, call>>,
             pc[t] \notin {"pulse", "finalize"}, pc'[t] \notin {"pulse", "finalize"},
             \A u \in Threads \ {t} : pc'[u] = pc[u] /\ req'[u] = req[u],
             \A k \in Keys : events'[k] = events[k]
                             \/ (~events[k].recorded /\ events'[k] = ClosedEvent)
      PROVE  Goal
  BY <1>a, CallKept, RowUntouched DEF Goal
<1>b. ASSUME UNCHANGED <<claims, events, pulses>> PROVE \A k \in Keys : KeyTruth(k)'
  BY <1>b, RowUntouched
<1>1. ASSUME NEW k \in BurstKeys, ReceiveBurst(k) PROVE Goal
  BY <1>1, <1>a DEF ReceiveBurst, Goto, At, Threads, TypeOK, store, quiet, history
<1>2. ASSUME NEW t \in {Collector, Processor}, NEW k \in BurstKeys, SkipBurst(t, k) PROVE Goal
  BY <1>2, <1>a DEF SkipBurst, Finish, Goto, At, Threads, TypeOK, quiet, history
<1>3. ASSUME NEW t \in {Processor, Collector}, (t = Processor /\ DenyBurst) \/ RecordSkipped(t)
      PROVE  Goal
  <2>1. /\ t \in Threads /\ pc[t] \in {"deciding", "skipping"} /\ Finish(t)
        /\ RecordEvent(Key(t)) /\ UNCHANGED <<pulses, call>>
    BY <1>3 DEF DenyBurst, RecordSkipped, At, Threads, quiet, history
  <2>2. \A k \in Keys : events'[k] = events[k]
                        \/ (~events[k].recorded /\ events'[k] = ClosedEvent)
    BY <2>1 DEF RecordEvent, TypeOK
  <2>3. UNCHANGED claims
    BY <2>1 DEF RecordEvent
  <2>4. QED
    BY <2>1, <2>2, <2>3, <1>a, Ended
<1>4. CASE AllowBurst
  <2>1. PICK t \in Threads : t = Processor
    BY DEF Threads
  <2>2. /\ UNCHANGED <<claims, pulses, call, events>> /\ pc[t] = "deciding"
        /\ pc' = [pc EXCEPT ![t] = "queued"]
    BY <1>4, <2>1 DEF AllowBurst, Goto, At, quiet, history, store
  <2>3. pc'[t] = "queued" /\ \A u \in Threads \ {t} : pc'[u] = pc[u] /\ req'[u] = req[u]
    BY <1>4, <2>1, <2>2 DEF AllowBurst, TypeOK
  <2>4. QED
    BY <2>2, <2>3, <1>a DEF Goal
<1>5. ASSUME NEW t \in Clients, NEW k \in CommandKeys, NEW l \in Lifetimes,
             SubmitCommand(t, k, l)
      PROVE  Goal
  BY <1>5, <1>a DEF SubmitCommand, Goto, At, Threads, TypeOK, store, quiet, history
<1>6. ASSUME NEW t \in Clients, NEW k \in CommandKeys, NEW l \in Lifetimes,
             ClaimPrompt(t, k, l)
      PROVE  Goal
  <2>1. /\ t \in Threads /\ k \in Keys /\ UNCHANGED <<pulses, call, events>>
        /\ claims[k].state = "none" /\ pc[t] = "idle"
        /\ claims' = [claims EXCEPT ![k] = [NoClaim EXCEPT !.state = "claimed"]]
    BY <1>6 DEF ClaimPrompt, Keys, Threads, At, quiet, history
  <2>2. pc'[t] = "prompt" /\ \A u \in Threads \ {t} : pc'[u] = pc[u] /\ req'[u] = req[u]
    BY <1>6, <2>1 DEF ClaimPrompt, Goto, TypeOK
  <2>3. claims'[k].state = "claimed" /\ \A j \in Keys \ {k} : claims'[j] = claims[j]
    BY <2>1 DEF NoClaim, TypeOK
  <2>4. KeyTruth(k)'
    BY <2>1, <2>3, RowOpen
  <2>5. ASSUME NEW j \in Keys \ {k} PROVE KeyTruth(j)'
    BY <2>1, <2>3, RowUntouched
  <2>6. QED
    BY <2>1, <2>2, <2>4, <2>5, CallKept DEF Goal
<1>7. ASSUME NEW t \in Clients, FinishPrompt(t) PROVE Goal
  <2>1. /\ t \in Threads /\ pc[t] = "prompt" /\ UNCHANGED <<pulses, call>> /\ Finish(t)
    BY <1>7 DEF FinishPrompt, Threads, At, quiet, history
  <2>2. CallTruth'
    BY <2>1, Ended, CallKept
  <2>3. pulses[Key(t)] = 0 /\ Key(t) \in Keys
    BY <2>1 DEF IInv, OwnClaim
  <2>4. PICK status, detail : FinalizeActuation(Key(t), status, detail, ClosedEvent, FALSE)
    BY <1>7 DEF FinishPrompt
  <2>5. \A j \in Keys : KeyTruth(j)'
    BY <2>1, <2>3, <2>4, FinalizeClosed
  <2>6. QED
    BY <2>2, <2>5 DEF Goal
<1>8. ASSUME NEW t \in {Processor} \cup Clients,
             \/ Acquire(t) \/ ClaimActuation(t) \/ RecordCooldown(t) \/ FinalizeCooldown(t)
             \/ MarkAttempt(t) \/ CheckTrigger(t) \/ Energize(t) \/ EndPulse(t) \/ Finalize(t)
      PROVE  Goal
  <2> t \in Threads
    BY DEF Threads
  <2>k. PICK k \in Keys : k = Key(t)
    OBVIOUS
  <2>1. CASE Acquire(t)
    <3>1. /\ UNCHANGED <<claims, pulses, call, events>> /\ pc[t] = "queued"
          /\ Finish(t) \/ (Goto(t, "claim") /\ UNCHANGED req)
      BY <2>1 DEF Acquire, At, quiet, history
    <3>2. /\ pc'[t] \in {"idle", "claim"}
          /\ \A u \in Threads \ {t} : pc'[u] = pc[u] /\ req'[u] = req[u]
      BY <3>1, Ended DEF Goto, TypeOK
    <3>3. QED
      BY <3>1, <3>2, <1>a
  <2>a. ASSUME pc[t] \in Locked, Return(t), UNCHANGED <<claims, events, pulses>> PROVE Goal
    BY <2>a, <1>b, ReturnResets DEF Goal
  \* The holder of the lock moves on, before anything is attempted.
  <2>b. ASSUME pc[t] \in {"claim", "mark", "check"}, UNCHANGED <<req, pulses, events>>,
               NEW s \in {"cooldown", "mem_cooldown", "mark", "check", "on"}, Goto(t, s),
               call'.activated = call.activated, call'.attempted = call.attempted,
               \A j \in Keys \ {k} : claims'[j] = claims[j],
               \/ claims'[k] = claims[k]
               \/ claims[k].state # "finalized" /\ claims'[k].state # "finalized"
        PROVE  Goal
    <3>1. \A u \in Threads : /\ pc[u] \notin {"pulse", "finalize"}
                             /\ pc'[u] \notin {"pulse", "finalize"}
      <4>1. \A u \in Threads \ {t} : pc[u] \notin Locked
        BY <2>b, Alone DEF Locked
      <4>2. QED
        BY <2>b, <4>1 DEF Goto, TypeOK, Locked
    <3>2. CallTruth'
      BY <2>b, <3>1 DEF CallTruth
    <3>3. ASSUME NEW j \in Keys PROVE KeyTruth(j)'
      BY <2>b, RowUntouched, RowOpen
    <3>4. QED
      BY <3>2, <3>3 DEF Goal
  <2>2. CASE ClaimActuation(t)
    <3>1. pc[t] = "claim" /\ UNCHANGED <<pulses, events>>
      BY <2>2 DEF ClaimActuation, At, quiet, history
    <3>2. CASE Return(t) /\ UNCHANGED claims
      BY <3>1, <3>2, <2>a DEF Locked
    <3>3. CASE /\ claims[k].state = "none" /\ UNCHANGED req
               /\ call' = [call EXCEPT !.mono = Mono, !.markAt = now]
               /\ \/ Goto(t, "cooldown") /\ UNCHANGED claims
                  \/ /\ claims' = [claims EXCEPT ![k] =
                           [NoClaim EXCEPT !.state = "claimed", !.pending = TRUE]]
                     /\ Goto(t, "mem_cooldown") \/ Goto(t, "mark")
      <4>1. call'.activated = call.activated /\ call'.attempted = call.attempted
        BY <3>3 DEF TypeOK, Call
      <4>2. claims'[k].state # "finalized" /\ \A j \in Keys \ {k} : claims'[j] = claims[j]
        <5>1. [NoClaim EXCEPT !.state = "claimed", !.pending = TRUE].state = "claimed"
          BY DEF NoClaim
        <5>2. claims \in [Keys -> Claim]
          BY DEF TypeOK
        <5>3. \/ UNCHANGED claims
              \/ claims' = [claims EXCEPT ![k] = [NoClaim EXCEPT !.state = "claimed", !.pending = TRUE]]
          BY <3>3
        <5>4. QED
          BY <3>3, <5>1, <5>2, <5>3
      <4>3. QED
        BY <3>1, <3>3, <4>1, <4>2, <2>b
    <3>4. QED
      BY <2>2, <2>k, <3>2, <3>3 DEF ClaimActuation
  <2>3. CASE RecordCooldown(t)
    <3>1. pc[t] = "cooldown" /\ UNCHANGED pulses
      BY <2>3 DEF RecordCooldown, At, quiet, history
    <3>2. CASE Return(t) /\ UNCHANGED <<claims, events>>
      BY <3>1, <3>2, <2>a DEF Locked
    <3>3. CASE /\ Return(t) /\ claims[k].state = "none"
               /\ claims' = [claims EXCEPT ![k] = Finalized(@, "failed", "cooldown", FALSE)]
               /\ events' = [events EXCEPT ![k] = ClosedEvent]
      <4>1. /\ claims'[k] = Finalized(claims[k], "failed", "cooldown", FALSE)
            /\ events'[k] = ClosedEvent
            /\ \A j \in Keys \ {k} : claims'[j] = claims[j] /\ events'[j] = events[j]
        BY <3>3 DEF TypeOK
      <4>2. pulses'[k] = 0
        BY <3>1, <3>3 DEF IInv, KeyInv
      <4>3. ~claims'[k].marked
        <5>1. ~Finalized(claims[k], "failed", "cooldown", FALSE).marked
          BY Zenon DEF Finalized
        <5>2. QED
          BY <4>1, <5>1
      <4>4. KeyTruth(k)'
        <5>1. ~events'[k].opened
          BY <4>1 DEF ClosedEvent, NoEvent
        <5>2. QED
          BY <4>2, <4>3, <5>1 DEF KeyTruth
      <4>5. ASSUME NEW j \in Keys \ {k} PROVE KeyTruth(j)'
        BY <3>1, <4>1, RowUntouched
      <4>6. QED
        BY <3>1, <3>3, <4>4, <4>5, ReturnResets DEF Locked, Goal
    <3>4. CASE /\ UNCHANGED <<claims, events>> /\ call' = NoCall
               /\ Goto(t, "raised") \/ Finish(t)
      <4>1. \A u \in Threads \ {t} : pc[u] \notin Locked
        BY <3>1, Alone DEF Locked
      <4>2. \A u \in Threads : pc'[u] \notin {"pulse", "finalize"}
        BY <3>4, <4>1 DEF Goto, Finish, TypeOK, Locked
      <4>3. QED
        BY <3>1, <3>4, <4>2, <1>b, CallReset DEF Goal
    <3>5. QED
      BY <2>3, <2>k, <3>2, <3>3, <3>4 DEF RecordCooldown, store
  <2>4. CASE FinalizeCooldown(t)
    <3>1. /\ pc[t] = "mem_cooldown" /\ UNCHANGED pulses /\ Return(t)
          /\ FinalizeActuation(k, "failed", "cooldown", ClosedEvent, TRUE)
      BY <2>4, <2>k DEF FinalizeCooldown, At, quiet, history
    <3>2. pulses[k] = 0 /\ ~claims[k].marked
      BY <2>k, <3>1 DEF IInv, OwnClaim
    <3>3. QED
      BY <3>1, <3>2, FinalizeClosed, ReturnResets DEF Locked, Goal
  <2>5. CASE MarkAttempt(t)
    <3>1. pc[t] = "mark" /\ UNCHANGED <<pulses, events>>
      BY <2>5 DEF MarkAttempt, At, quiet, history
    <3>2. CASE Return(t) /\ UNCHANGED claims
      BY <3>1, <3>2, <2>a DEF Locked
    <3>3. CASE /\ Goto(t, "check") /\ UNCHANGED <<req, call>> /\ claims[k].state = "claimed"
               /\ claims' = [claims EXCEPT ![k] =
                     [@ EXCEPT !.marked = TRUE, !.wall = req[t].decisionAt,
                               !.mono = call.mono, !.boot = boot]]
      <4>1. claims'[k].state = "claimed" /\ \A j \in Keys \ {k} : claims'[j] = claims[j]
        BY <3>3 DEF TypeOK, Claim
      <4>2. QED
        BY <3>1, <3>3, <4>1, <2>b
    <3>4. QED
      BY <2>5, <2>k, <3>2, <3>3 DEF MarkAttempt
  \* The trigger ends, before or after the pin rose.
  <2>c. ASSUME pc[t] \in {"check", "on", "pulse"}, UNCHANGED <<claims, events, req>>,
               NEW s \in {"pulse", "finalize"}, Goto(t, s),
               \A j \in Keys \ {k} : pulses'[j] = pulses[j],
               s = "pulse" => pulses'[k] = 1 /\ ~call'.activated /\ ~call'.attempted,
               s = "finalize" =>
                  /\ call'.activated => call'.status = "completed" /\ pulses'[k] = 1
                  /\ call'.attempted => call'.activated \/ call'.detail \in Faults
        PROVE  Goal
    <3>1. /\ pc'[t] = s /\ Key(t)' = k
          /\ \A u \in Threads \ {t} : pc'[u] \notin {"pulse", "finalize"}
      <4>1. \A u \in Threads \ {t} : pc[u] \notin Locked
        BY <2>c, Alone DEF Locked
      <4>2. QED
        BY <2>c, <2>k, <4>1 DEF Goto, TypeOK, Locked, Key
    <3>2. CallTruth'
      <4>1. CASE s = "pulse"
        BY <2>c, <3>1, <4>1 DEF CallTruth
      <4>2. CASE s = "finalize"
        BY <2>c, <3>1, <4>2 DEF CallTruth
      <4>3. QED
        BY <4>1, <4>2
    <3>3. claims[k].state = "claimed"
      BY <2>k, <2>c DEF IInv, OwnClaim
    <3>4. ASSUME NEW j \in Keys PROVE KeyTruth(j)'
      BY <2>c, <3>3, RowUntouched, RowOpen
    <3>5. QED
      BY <3>2, <3>4 DEF Goal
  <2>d. ASSUME pc[t] \in {"check", "on"}, NEW i, Refuse(t, i)
        PROVE  ~call'.activated /\ ~call'.attempted /\ UNCHANGED pulses /\ Goto(t, "finalize")
    <3>1. \A u \in Threads : pc[u] # "finalize"
      BY <2>d, Alone DEF Locked
    <3>2. ~call.activated /\ ~call.attempted
      BY <3>1 DEF CallTruth
    <3>3. call'.activated = call.activated /\ call'.attempted = call.attempted
      BY <2>d DEF Refuse, Answer, TypeOK, Call
    <3>4. QED
      BY <2>d, <3>2, <3>3 DEF Refuse
  <2>e. ASSUME NEW status, NEW detail, Settle(t, status, detail)
        PROVE  /\ call'.activated <=> status = "completed"
               /\ call'.status = status /\ call'.detail = detail
               /\ Goto(t, "finalize")
    BY <2>e DEF Settle, Answer, TypeOK, Call
  <2>6. CASE CheckTrigger(t)
    <3>1. pc[t] = "check" /\ UNCHANGED <<claims, events, req>>
      BY <2>6 DEF CheckTrigger, At, store
    <3>2. CASE Goto(t, "on") /\ UNCHANGED <<call, pulses>>
      BY <3>1, <3>2, <2>b
    <3>3. CASE \E i : Refuse(t, i)
      BY <3>1, <3>3, <2>c, <2>d
    <3>4. QED
      BY <2>6, <3>2, <3>3 DEF CheckTrigger
  <2>7. CASE Energize(t)
    <3>1. pc[t] = "on" /\ UNCHANGED <<claims, events, req>>
      BY <2>7 DEF Energize, At, store
    <3>2. pulses[k] = 0 /\ ~call.activated /\ ~call.attempted
      <4>1. \A u \in Threads : pc[u] # "finalize"
        BY <3>1, Alone DEF Locked
      <4>2. QED
        BY <2>k, <3>1, <4>1 DEF IInv, OwnClaim, CallTruth
    <3>3. CASE \E i : Refuse(t, i)
      BY <3>1, <3>3, <2>c, <2>d
    <3>4. PinRises(t) => pulses'[k] = 1 /\ \A j \in Keys \ {k} : pulses'[j] = pulses[j]
      BY <2>k, <3>2 DEF PinRises, TypeOK
    <3>5. CASE RaisePin(t)
      <4>1. Goto(t, "pulse") /\ PinRises(t)
        BY <3>5 DEF RaisePin
      <4>2. ~call'.activated /\ ~call'.attempted
        BY <3>2, <3>5 DEF RaisePin, TypeOK, Call
      <4>3. QED
        BY <3>1, <3>4, <4>1, <4>2, <2>c
    <3>6. CASE /\ PinRises(t) \/ UNCHANGED history
               /\ Settle(t, "failed", "relay_error") \/ Settle(t, "failed", "relay_deenergize_error")
      <4>1. \A j \in Keys \ {k} : pulses'[j] = pulses[j]
        BY <3>4, <3>6 DEF history
      <4>2. ~call'.activated /\ call'.detail \in Faults /\ Goto(t, "finalize")
        BY <3>6, <2>e DEF Faults
      <4>3. QED
        BY <3>1, <4>1, <4>2, <2>c
    <3>7. QED
      BY <2>7, <3>3, <3>5, <3>6 DEF Energize
  <2>8. CASE EndPulse(t)
    <3>1. /\ pc[t] = "pulse" /\ UNCHANGED <<claims, events, req, pulses>>
          /\ \/ Settle(t, "completed", "none")
             \/ Settle(t, "failed", "relay_error") \/ Settle(t, "failed", "relay_deenergize_error")
      BY <2>8 DEF EndPulse, At, store, history
    <3>2. pulses'[k] = 1
      BY <2>k, <3>1 DEF CallTruth
    <3>3. /\ Goto(t, "finalize")
          /\ call'.activated => call'.status = "completed"
          /\ call'.activated \/ call'.detail \in Faults
      BY <3>1, <2>e DEF Faults
    <3>4. QED
      BY <3>1, <3>2, <3>3, <2>c
  <2>9. CASE Finalize(t)
    <3> DEFINE event == [recorded |-> TRUE, opened |-> call.activated,
                         stamped |-> call.stamped, at |-> call.at]
    <3>1. /\ pc[t] = "finalize" /\ UNCHANGED pulses /\ Return(t)
          /\ FinalizeActuation(k, call.status, call.detail, event, call.attempted)
      BY <2>9, <2>k DEF Finalize, At, quiet, history
    <3>2. call.attempted \in BOOLEAN /\ call.activated \in BOOLEAN
      BY DEF TypeOK, Call
    <3>3. /\ call.activated => call.status = "completed" /\ pulses[k] = 1
          /\ call.attempted => call.activated \/ call.detail \in Faults
          /\ pulses[k] > 0 => call.attempted
      BY <2>k, <3>1 DEF CallTruth, IInv, OwnClaim
    <3>4. event.recorded /\ event.opened = call.activated
      OBVIOUS
    <3> HIDE DEF event
    <3>5. CASE UNCHANGED <<claims, events>>
      BY <3>1, <3>5, <2>a DEF Locked
    <3>6. CASE /\ claims'[k].state = "finalized" /\ events'[k] = event
               /\ claims'[k].status = call.status /\ claims'[k].detail = call.detail
               /\ claims'[k].marked => call.attempted
               /\ \A j \in Keys \ {k} : claims'[j] = claims[j] /\ events'[j] = events[j]
      <4>1. KeyTruth(k)'
        <5>1. events'[k].opened <=> call.activated
          BY <3>2, <3>4, <3>6
        <5>2. QED
          BY <3>1, <3>3, <3>4, <3>6, <5>1 DEF KeyTruth
      <4>2. ASSUME NEW j \in Keys \ {k} PROVE KeyTruth(j)'
        BY <3>1, <3>6, RowUntouched
      <4>3. QED
        BY <3>1, <4>1, <4>2, ReturnResets DEF Locked, Goal
    <3>7. QED
      BY <3>1, <3>2, <3>5, <3>6, FinalizedRow DEF store
  <2>10. QED
    BY <1>8, <2>1, <2>2, <2>3, <2>4, <2>5, <2>6, <2>7, <2>8, <2>9
<1>9. CASE BeginShutdown \/ Tick \/ StepWallClock \/ UNCHANGED vars
  BY <1>9, <1>b DEF BeginShutdown, Tick, StepWallClock, vars, store, clocks, relayState, history,
               CallTruth, Key, Goal
<1>10. CASE Crash \/ Reboot
  <2>1. /\ call' = NoCall /\ pc' = [t \in Threads |-> "idle"]
        /\ UNCHANGED <<claims, events, pulses>>
    BY <1>10 DEF Crash, Reboot, Forget, store
  <2>2. QED
    BY <2>1, <1>b, CallReset DEF Goal
<1>11. CASE Start
  <2>1. ~up /\ UNCHANGED <<pc, req, call, pulses>>
    BY <1>11 DEF Start, history
  <2>2. CallTruth'
    BY <2>1 DEF CallTruth, Key
  <2>3. ASSUME NEW k \in Keys PROVE KeyTruth(k)'
    <3>1. claims'[k] = Recovered(claims[k])
      BY <1>11 DEF Start
    <3>2. CASE claims[k].state = "claimed" /\ claims[k].pending
      <4>1. /\ claims'[k].state = "finalized" /\ claims'[k].marked = claims[k].marked
            /\ claims[k].marked => claims'[k].detail = "indeterminate_claim"
        BY <3>1, <3>2 DEF Recovered, TypeOK, Claim
      <4>2. events'[k] = events[k] \/ events'[k] = ClosedEvent
        BY <1>11 DEF Start
      <4>3. ~events'[k].opened
        BY <3>2, <4>2 DEF KeyTruth, ClosedEvent, NoEvent
      <4>4. pulses[k] > 0 => claims[k].marked
        BY DEF IInv, KeyInv
      <4>5. QED
        BY <2>1, <4>1, <4>3, <4>4 DEF KeyTruth
    <3>3. CASE ~(claims[k].state = "claimed" /\ claims[k].pending)
      <4>1. claims'[k] = claims[k] /\ events'[k] = events[k]
        BY <1>11, <3>1, <3>3 DEF Recovered, Start, Interrupted
      <4>2. QED
        BY <2>1, <4>1, RowUntouched
    <3>4. QED
      BY <3>2, <3>3
  <2>4. QED
    BY <2>2, <2>3 DEF Goal
<1>12. QED
  BY <1>1, <1>2, <1>3, <1>4, <1>5, <1>6, <1>7, <1>8, <1>9, <1>10, <1>11 DEF Next, Goal

\* Truth holds in every reachable state.
LEMMA AlwaysTruthful == Spec => []Truth
<1>1. Init => Truth
  BY DEF Init, Truth, CallTruth, KeyTruth, NoCall, NoEvent, NoClaim
<1>2. QED
  BY <1>1, InvHolds, TruthStep, PTL DEF Spec

\* What the store tells the owner and the cloud is true and complete: an opened event
\* means that the pin rose once for that key and its claim is completed; a final row of a
\* key that raised the pin says so or names a fault or an interruption; and every recorded
\* burst event has its outbox row.
THEOREM OutcomesAreTrue == Spec => []EventsAccounted
<1>1. Truth => OutcomeTruthful
  BY DEF Truth, KeyTruth, OutcomeTruthful, Faults
<1>2. QED
  BY <1>1, AlwaysTruthful, AlwaysQueued, PTL DEF EventsAccounted

\* An attempt that never raised the pin costs nobody the cooldown: a marker on a final
\* row belongs to a rise, to a relay fault or to an interrupted attempt.
THEOREM MarkersHaveCause == Spec => []NoPhantomMarker
<1>1. Truth => NoPhantomMarker
  BY DEF Truth, KeyTruth, NoPhantomMarker, Faults
<1>2. QED
  BY <1>1, AlwaysTruthful, PTL
-----------------------------------------------------------------------------
(* The cooldown *)

\* Steps that use the instants claim_actuation read.
Timed == {"cooldown", "mem_cooldown", "mark", "check", "on", "pulse", "finalize"}

\* The instant actuate works with is one of this boot, as true time and as a reading of
\* the monotonic clock, and between the marker and the rise it is the one on disk.
CallTime(t) ==
    /\ pc[t] \in Timed => call.mono = call.markAt - bootAt /\ call.markAt \in bootAt..now
    /\ pc[t] \in {"check", "on"} =>
          claims[Key(t)].boot = boot /\ claims[Key(t)].mono = call.mono

\* A marker is of this boot or an earlier one, and no boot's clock starts below zero.
MarkerTime(k) ==
    claims[k].marked => /\ claims[k].boot <= boot
                        /\ claims[k].boot = boot => claims[k].mono >= 0

\* Where the latest rise lies: its marker gives its instant if it is of this boot,
\* otherwise it is older than the boot; in memory the coordinator remembers a moment
\* not before it, unless a crash made it forget.
PulseTime ==
    /\ \A k \in Keys : pulses[k] > 0 => lastPulse.any
    /\ lastPulse.any =>
          LET c == claims[lastPulse.key] IN
          /\ pulses[lastPulse.key] > 0
          /\ lastPulse.markAt <= lastPulse.at /\ lastPulse.at <= now
          /\ c.boot = boot => lastPulse.markAt = bootAt + c.mono
          /\ c.boot # boot => lastPulse.at <= bootAt
          /\ c.boot = boot /\ lastPulse.exact /\ (\A t \in Threads : pc[t] # "pulse") =>
                lastAttempt >= lastPulse.at - bootAt

\* A call that passed both cooldown tests is a cooldown away from the latest rise.
Spaced(t) ==
    pc[t] \in {"mark", "check", "on"} /\ lastPulse.any =>
        /\ call.markAt - lastPulse.markAt >= Cooldown
        /\ lastPulse.exact => call.markAt - lastPulse.at >= Cooldown

Time ==
    /\ PulseTime
    /\ \A t \in Threads : CallTime(t) /\ Spaced(t)
    /\ \A k \in Keys : MarkerTime(k)

\* The numbers these statements compare are integers.
LEMMA Numbers ==
    ASSUME TypeOK
    PROVE  /\ now \in Int /\ bootAt \in Int /\ bootAt >= 0 /\ bootAt <= now /\ boot \in Int
           /\ Cooldown \in Int /\ Cooldown > 0 /\ lastAttempt \in Int
           /\ call.mono \in Int /\ call.markAt \in Int
           /\ lastPulse.any \in BOOLEAN /\ lastPulse.exact \in BOOLEAN /\ lastPulse.key \in Keys
           /\ lastPulse.at \in Int /\ lastPulse.markAt \in Int
           /\ \A k \in Keys : claims[k].boot \in Int /\ claims[k].mono \in Int
           /\ \A k \in Keys : pulses[k] \in Int
<1>1. /\ lastPulse.any \in BOOLEAN /\ lastPulse.exact \in BOOLEAN /\ lastPulse.key \in Keys
      /\ lastPulse.at \in Int /\ lastPulse.markAt \in Int
  BY DEF TypeOK, Pulse
<1>2. call.mono \in Int /\ call.markAt \in Int
  BY DEF TypeOK, Call
<1>3. \A k \in Keys : claims[k].boot \in Int /\ claims[k].mono \in Int
  BY DEF TypeOK, Claim
<1>4. QED
  BY <1>1, <1>2, <1>3 DEF TypeOK

\* The point of the two cooldown tests.  A rise of this boot is seen by its monotonic
\* marker and, unless a crash intervened, by memory.  A rise of an earlier boot lies
\* before this boot, and either the latest marker by wall clock is of an earlier boot,
\* which asks for a boot of at least a cooldown, or it is of this boot and itself a
\* cooldown old.  The wall clock is not relied upon.
LEMMA ClaimSpaced ==
    ASSUME IInv, PulseTime, \A k \in Keys : MarkerTime(k), lastPulse.any,
           \A t \in Threads : pc[t] # "pulse", NEW cutoff,
           NEW latest \in {{j} : j \in LatestMarked} \cup (IF Marked = {} THEN {{}} ELSE {}),
           ~WasOpenedSince(cutoff, Mono - Cooldown, latest),
           ~(Mono - lastAttempt < Cooldown)
    PROVE  /\ now - lastPulse.markAt >= Cooldown
           /\ lastPulse.exact => now - lastPulse.at >= Cooldown
<1> USE Numbers
<1> TypeOK
  BY DEF IInv
<1>1. PICK k \in Keys : k = lastPulse.key
  OBVIOUS
<1>2. pulses[k] > 0 /\ claims[k].marked /\ k \in Marked
  BY <1>1 DEF PulseTime, IInv, KeyInv, Marked
<1>3. PICK i \in Keys : i \in Marked /\ latest = {i}
  BY <1>2 DEF LatestMarked, Marked
<1>4. \A j \in Marked : claims[j].boot = boot => claims[j].mono < Mono - Cooldown
  BY DEF WasOpenedSince, Mono, Marked
<1>5. claims[i].boot # boot => Mono - Cooldown >= 0
  BY <1>3 DEF WasOpenedSince, Mono
<1>6. CASE claims[k].boot = boot
  <2>1. claims[k].mono < Mono - Cooldown /\ lastPulse.markAt = bootAt + claims[k].mono
    BY <1>1, <1>2, <1>4, <1>6 DEF PulseTime
  <2>2. lastPulse.exact => lastAttempt >= lastPulse.at - bootAt
    BY <1>1, <1>6 DEF PulseTime
  <2>3. QED
    BY <2>1, <2>2 DEF Mono
<1>7. CASE claims[k].boot # boot
  <2>1. lastPulse.at <= bootAt /\ lastPulse.markAt <= lastPulse.at
    BY <1>1, <1>7 DEF PulseTime
  <2>2. Mono - Cooldown >= 0
    <3>1. CASE claims[i].boot # boot
      BY <1>5, <3>1
    <3>2. CASE claims[i].boot = boot
      <4>1. claims[i].mono >= 0
        BY <1>3, <3>2 DEF MarkerTime, Marked
      <4>2. QED
        BY <1>3, <1>4, <3>2, <4>1 DEF Mono
    <3>3. QED
      BY <3>1, <3>2
  <2>3. QED
    BY <2>1, <2>2 DEF Mono
<1>8. QED
  BY <1>6, <1>7

\* A step does not invent a marker or move its instant.
InstantKept(k) ==
    claims'[k].marked => /\ claims[k].marked /\ claims'[k].boot = claims[k].boot
                         /\ claims'[k].mono = claims[k].mono

\* finalize_actuation keeps the instant of every marker it keeps.
LEMMA FinalizeKeepsInstants ==
    ASSUME TypeOK, NEW k \in Keys, NEW status, NEW detail, NEW event, NEW retain \in BOOLEAN,
           FinalizeActuation(k, status, detail, event, retain)
    PROVE  \A j \in Keys : InstantKept(j)
<1>1. CASE UNCHANGED claims
  BY <1>1 DEF InstantKept
<1>2. CASE claims' = [claims EXCEPT ![k] = Finalized(@, status, detail, retain)]
  <2>1. claims'[k] = Finalized(claims[k], status, detail, retain)
    BY <1>2 DEF TypeOK
  <2>2. LET f == Finalized(claims[k], status, detail, retain) IN
        f.marked => claims[k].marked /\ f.boot = claims[k].boot /\ f.mono = claims[k].mono
    BY DEF Finalized
  <2>3. InstantKept(k)
    BY <2>1, <2>2 DEF InstantKept
  <2>4. \A j \in Keys \ {k} : InstantKept(j)
    BY <1>2 DEF TypeOK, InstantKept
  <2>5. QED
    BY <2>3, <2>4
<1>3. QED
  BY <1>1, <1>2 DEF FinalizeActuation, store

\* A thread's step without rise of the pin: the other threads' instants and the latest
\* rise stay where they are.
LEMMA TimeKept ==
    ASSUME IInv, IInv', Time, NEW t \in Threads,
           \A u \in Threads \ {t} : pc'[u] = pc[u] /\ req'[u] = req[u],
           UNCHANGED <<now, bootAt, boot, lastAttempt, pulses, lastPulse>>,
           \A k \in Keys : InstantKept(k), pc[t] # "pulse",
           UNCHANGED call \/ \A u \in Threads \ {t} : pc[u] \notin Locked,
           CallTime(t)', Spaced(t)'
    PROVE  Time'
<1> USE Readings, Numbers
<1> TypeOK /\ TypeOK'
  BY DEF IInv
<1>1. ASSUME NEW k \in Keys, pulses[k] > 0
      PROVE  claims'[k].boot = claims[k].boot /\ claims'[k].mono = claims[k].mono
  BY <1>1 DEF IInv, KeyInv, InstantKept
<1>2. PulseTime'
  <2>1. lastPulse.any => pulses[lastPulse.key] > 0 /\ lastPulse.key \in Keys
    BY DEF Time, PulseTime
  <2>2. (\A u \in Threads : pc'[u] # "pulse") => \A u \in Threads : pc[u] # "pulse"
    OBVIOUS
  <2>3. QED
    BY <1>1, <2>1, <2>2 DEF Time, PulseTime
<1>3. ASSUME NEW k \in Keys PROVE MarkerTime(k)'
  BY DEF Time, MarkerTime, InstantKept
<1>4. ASSUME NEW u \in Threads \ {t} PROVE CallTime(u)' /\ Spaced(u)'
  <2>1. pc'[u] = pc[u] /\ Key(u)' = Key(u) /\ Key(u) \in Keys
    BY DEF Key
  <2>2. CASE pc[u] \notin Locked
    BY <2>1, <2>2 DEF CallTime, Spaced, Timed, Locked
  <2>3. CASE UNCHANGED call
    <3>1. pc[u] \in {"check", "on"} => claims'[Key(u)].marked
      BY <2>1 DEF IInv, OwnClaim
    <3>2. CallTime(u)'
      BY <2>1, <2>3, <3>1 DEF Time, CallTime, InstantKept
    <3>3. Spaced(u)'
      BY <2>1, <2>3 DEF Time, Spaced
    <3>4. QED
      BY <3>2, <3>3
  <2>4. QED
    BY <2>2, <2>3
<1>5. QED
  BY <1>2, <1>3, <1>4 DEF Time

\* A thread outside the locked steps has no instants to keep.
LEMMA Untimed ==
    ASSUME NEW t \in Threads, pc'[t] \notin Locked
    PROVE  CallTime(t)' /\ Spaced(t)'
  BY DEF CallTime, Spaced, Timed, Locked

\* Every step keeps the times.
LEMMA TimeStep == IInv /\ IInv' /\ Time /\ [Next]_vars => Time'
<1> SUFFICES ASSUME IInv, IInv', Time, [Next]_vars PROVE Time'
  OBVIOUS
<1> TypeOK /\ TypeOK'
  BY DEF IInv
<1> USE Readings, Numbers
<1> DEFINE Still == UNCHANGED <<now, bootAt, boot, lastAttempt, pulses, lastPulse>>
<1>u. UNCHANGED claims => \A k \in Keys : InstantKept(k)
  BY DEF InstantKept
\* A thread that stays outside the lock, or enters it.
<1>a. ASSUME NEW t \in Threads, Still, UNCHANGED call, pc[t] \notin Locked,
             pc'[t] \notin Timed, \A u \in Threads \ {t} : pc'[u] = pc[u] /\ req'[u] = req[u],
             \A k \in Keys : InstantKept(k)
      PROVE  Time'
  <2>1. CallTime(t)' /\ Spaced(t)' /\ pc[t] # "pulse"
    BY <1>a DEF CallTime, Spaced, Timed, Locked
  <2>2. QED
    BY <1>a, <2>1, TimeKept
\* A call that returns.
<1>b. ASSUME NEW t \in Threads, Still, pc[t] \in Locked, pc[t] # "pulse", pc'[t] \notin Locked,
             \A u \in Threads \ {t} : pc'[u] = pc[u] /\ req'[u] = req[u],
             \A k \in Keys : InstantKept(k)
      PROVE  Time'
  <2>1. \A u \in Threads \ {t} : pc[u] \notin Locked
    BY <1>b, Alone
  <2>2. QED
    BY <1>b, <2>1, Untimed, TimeKept
<1>1. ASSUME NEW k \in BurstKeys, ReceiveBurst(k) PROVE Time'
  <2>1. /\ Processor \in Threads /\ Still /\ UNCHANGED <<call, claims>>
        /\ pc[Processor] = "idle" /\ pc'[Processor] \in {"idle", "deciding"}
        /\ \A u \in Threads \ {Processor} : pc'[u] = pc[u] /\ req'[u] = req[u]
    BY <1>1 DEF ReceiveBurst, Goto, At, Threads, TypeOK, store, quiet, history, clocks
  <2>2. QED
    BY <2>1, <1>a, <1>u DEF Locked, Timed
<1>2. ASSUME NEW t \in {Collector, Processor}, NEW k \in BurstKeys, SkipBurst(t, k) PROVE Time'
  <2>1. /\ t \in Threads /\ Still /\ UNCHANGED <<call, claims>>
        /\ pc[t] \in {"idle", "raised"} /\ pc'[t] \in {"idle", "skipping"}
        /\ \A u \in Threads \ {t} : pc'[u] = pc[u] /\ req'[u] = req[u]
    BY <1>2 DEF SkipBurst, Finish, Goto, At, Threads, TypeOK, quiet, history, clocks
  <2>2. QED
    BY <2>1, <1>a, <1>u DEF Locked, Timed
<1>3. ASSUME NEW t \in {Processor, Collector},
             (t = Processor /\ (DenyBurst \/ AllowBurst)) \/ RecordSkipped(t)
      PROVE  Time'
  <2>1. /\ t \in Threads /\ Still /\ UNCHANGED <<call, claims>>
        /\ pc[t] \in {"deciding", "skipping"}
    BY <1>3 DEF DenyBurst, AllowBurst, RecordSkipped, RecordEvent, At, Threads, store,
                quiet, history, clocks
  <2>2. pc'[t] \in {"idle", "queued"} /\ \A u \in Threads \ {t} : pc'[u] = pc[u] /\ req'[u] = req[u]
    BY <1>3, <2>1 DEF DenyBurst, AllowBurst, RecordSkipped, Finish, Goto, TypeOK
  <2>3. QED
    BY <2>1, <2>2, <1>a, <1>u DEF Locked, Timed
<1>4. ASSUME NEW t \in Clients, NEW k \in CommandKeys, NEW l \in Lifetimes,
             SubmitCommand(t, k, l) \/ ClaimPrompt(t, k, l)
      PROVE  Time'
  <2>1. t \in Threads /\ k \in Keys /\ Still /\ UNCHANGED call /\ pc[t] = "idle"
    BY <1>4 DEF SubmitCommand, ClaimPrompt, At, Threads, Keys, quiet, history, clocks
  <2>2. /\ pc'[t] \in {"queued", "prompt"}
        /\ \A u \in Threads \ {t} : pc'[u] = pc[u] /\ req'[u] = req[u]
    BY <1>4, <2>1 DEF SubmitCommand, ClaimPrompt, Goto, TypeOK
  <2>3. \A j \in Keys : InstantKept(j)
    <3>1. CASE UNCHANGED claims
      BY <3>1, <1>u
    <3>2. CASE claims' = [claims EXCEPT ![k] = [NoClaim EXCEPT !.state = "claimed"]]
      BY <2>1, <3>2 DEF InstantKept, NoClaim, TypeOK
    <3>3. QED
      BY <1>4, <3>1, <3>2 DEF SubmitCommand, ClaimPrompt, store
  <2>4. QED
    BY <2>1, <2>2, <2>3, <1>a DEF Locked, Timed
<1>5. ASSUME NEW t \in Clients, FinishPrompt(t) PROVE Time'
  <2>1. t \in Threads /\ Still /\ UNCHANGED call /\ pc[t] = "prompt" /\ Finish(t)
    BY <1>5 DEF FinishPrompt, At, Threads, quiet, history, clocks
  <2>2. PICK status, detail : FinalizeActuation(Key(t), status, detail, ClosedEvent, FALSE)
    BY <1>5 DEF FinishPrompt
  <2>3. \A j \in Keys : InstantKept(j)
    BY <2>1, <2>2, FinalizeKeepsInstants
  <2>4. QED
    BY <2>1, <2>3, <1>a, Ended DEF Locked, Timed
<1>6. ASSUME NEW t \in {Processor} \cup Clients,
             \/ Acquire(t) \/ ClaimActuation(t) \/ RecordCooldown(t) \/ FinalizeCooldown(t)
             \/ MarkAttempt(t) \/ CheckTrigger(t) \/ Energize(t) \/ EndPulse(t) \/ Finalize(t)
      PROVE  Time'
  <2> t \in Threads
    BY DEF Threads
  <2>k. PICK k \in Keys : k = Key(t)
    OBVIOUS
  <2>1. CASE Acquire(t)
    <3>1. Still /\ UNCHANGED <<call, claims>> /\ pc[t] = "queued"
      BY <2>1 DEF Acquire, At, quiet, history, clocks
    <3>2. /\ pc'[t] \in {"idle", "claim"}
          /\ \A u \in Threads \ {t} : pc'[u] = pc[u] /\ req'[u] = req[u]
      BY <2>1 DEF Acquire, Finish, Goto, TypeOK
    <3>3. QED
      BY <3>1, <3>2, <1>a, <1>u DEF Locked, Timed
  <2>2. CASE ClaimActuation(t)
    <3>1. Still /\ pc[t] = "claim"
      BY <2>2 DEF ClaimActuation, At, quiet, history, clocks
    <3>2. CASE Return(t) /\ UNCHANGED claims
      BY <3>1, <3>2, <1>b, <1>u, Ended DEF Return, Locked
    <3>3. CASE /\ claims[k].state = "none" /\ UNCHANGED <<req, lock>>
               /\ call' = [call EXCEPT !.mono = Mono, !.markAt = now]
               /\ \E latest \in {{j} : j \in LatestMarked} \cup (IF Marked = {} THEN {{}} ELSE {}) :
                     IF WasOpenedSince(req[t].decisionAt - Cooldown, Mono - Cooldown, latest)
                     THEN Goto(t, "cooldown") /\ UNCHANGED claims
                     ELSE /\ claims' = [claims EXCEPT ![k] =
                                [NoClaim EXCEPT !.state = "claimed", !.pending = TRUE]]
                          /\ Goto(t, IF Mono - lastAttempt < Cooldown
                                     THEN "mem_cooldown" ELSE "mark")
      <4>1. /\ pc'[t] \in {"cooldown", "mem_cooldown", "mark"}
            /\ \A u \in Threads \ {t} : pc'[u] = pc[u] /\ req'[u] = req[u]
        BY <3>3 DEF Goto, TypeOK
      <4>2. call'.mono = Mono /\ call'.markAt = now
        BY <3>3 DEF TypeOK, Call
      <4>3. CallTime(t)'
        BY <3>1, <4>1, <4>2 DEF CallTime, Mono
      <4>4. \A u \in Threads \ {t} : pc[u] \notin Locked
        BY <3>1, Alone DEF Locked
      <4>5. Spaced(t)'
        <5>1. ASSUME pc'[t] = "mark", lastPulse.any
              PROVE  /\ now - lastPulse.markAt >= Cooldown
                     /\ lastPulse.exact => now - lastPulse.at >= Cooldown
          <6>1. PICK latest \in {{j} : j \in LatestMarked} \cup (IF Marked = {} THEN {{}} ELSE {}) :
                   /\ ~WasOpenedSince(req[t].decisionAt - Cooldown, Mono - Cooldown, latest)
                   /\ ~(Mono - lastAttempt < Cooldown)
            BY <3>3, <5>1 DEF Goto, TypeOK
          <6>2. \A u \in Threads : pc[u] # "pulse"
            BY <3>1, <4>4 DEF Locked
          <6>3. QED
            BY <5>1, <6>1, <6>2, ClaimSpaced DEF Time
        <5>2. QED
          BY <3>1, <4>1, <4>2, <5>1 DEF Spaced
      <4>6. \A j \in Keys : InstantKept(j)
        <5>1. CASE UNCHANGED claims
          BY <5>1, <1>u
        <5>2. CASE claims' = [claims EXCEPT ![k] =
                                 [NoClaim EXCEPT !.state = "claimed", !.pending = TRUE]]
          BY <5>2 DEF InstantKept, NoClaim, TypeOK
        <5>3. QED
          BY <3>3, <5>1, <5>2
      <4>7. QED
        BY <3>1, <4>1, <4>3, <4>4, <4>5, <4>6, TimeKept
    <3>4. QED
      BY <2>2, <2>k, <3>2, <3>3 DEF ClaimActuation
  <2>3. CASE RecordCooldown(t)
    <3>1. Still /\ pc[t] = "cooldown"
      BY <2>3 DEF RecordCooldown, At, quiet, history, clocks
    <3>2. /\ pc'[t] \in {"idle", "raised"}
          /\ \A u \in Threads \ {t} : pc'[u] = pc[u] /\ req'[u] = req[u]
      BY <2>3 DEF RecordCooldown, Return, Finish, Goto, TypeOK
    <3>3. \A j \in Keys : InstantKept(j)
      <4>1. CASE UNCHANGED claims
        BY <4>1, <1>u
      <4>2. CASE claims' = [claims EXCEPT ![k] = Finalized(@, "failed", "cooldown", FALSE)]
        <5>1. claims'[k] = Finalized(claims[k], "failed", "cooldown", FALSE)
          BY <4>2 DEF TypeOK
        <5>2. ~Finalized(claims[k], "failed", "cooldown", FALSE).marked
          BY Zenon DEF Finalized
        <5>3. InstantKept(k)
          BY <5>1, <5>2 DEF InstantKept
        <5>4. \A j \in Keys \ {k} : InstantKept(j)
          BY <4>2 DEF InstantKept, TypeOK
        <5>5. QED
          BY <5>3, <5>4
      <4>3. QED
        BY <2>3, <2>k, <4>1, <4>2 DEF RecordCooldown, store
    <3>4. QED
      BY <3>1, <3>2, <3>3, <1>b DEF Locked
  <2>4. CASE FinalizeCooldown(t) \/ Finalize(t)
    <3>1. Still /\ pc[t] \in {"mem_cooldown", "finalize"} /\ Return(t)
      BY <2>4 DEF FinalizeCooldown, Finalize, At, quiet, history, clocks
    <3>2. \A j \in Keys : InstantKept(j)
      <4>1. call.attempted \in BOOLEAN
        BY DEF TypeOK, Call
      <4>2. CASE FinalizeCooldown(t)
        BY <2>k, <4>2, FinalizeKeepsInstants DEF FinalizeCooldown
      <4>3. CASE Finalize(t)
        BY <2>k, <4>1, <4>3, FinalizeKeepsInstants DEF Finalize
      <4>4. QED
        BY <2>4, <4>2, <4>3
    <3>3. QED
      BY <3>1, <3>2, <1>b, Ended DEF Return, Locked
  <2>5. CASE MarkAttempt(t)
    <3>1. Still /\ pc[t] = "mark"
      BY <2>5 DEF MarkAttempt, At, quiet, history, clocks
    <3>2. CASE Return(t) /\ UNCHANGED claims
      BY <3>1, <3>2, <1>b, <1>u, Ended DEF Return, Locked
    <3>3. CASE /\ Goto(t, "check") /\ UNCHANGED <<req, lock, call>>
               /\ claims' = [claims EXCEPT ![k] =
                     [@ EXCEPT !.marked = TRUE, !.wall = req[t].decisionAt,
                               !.mono = call.mono, !.boot = boot]]
      <4>1. pc'[t] = "check" /\ \A u \in Threads \ {t} : pc'[u] = pc[u] /\ pc[u] \notin Locked
        BY <3>1, <3>3, Alone DEF Goto, TypeOK, Locked
      <4>2. /\ claims'[k].boot = boot /\ claims'[k].mono = call.mono
            /\ \A j \in Keys \ {k} : claims'[j] = claims[j]
        BY <3>3 DEF TypeOK, Claim
      <4>3. pulses[k] = 0 /\ call.mono = call.markAt - bootAt /\ call.markAt \in bootAt..now
        BY <2>k, <3>1 DEF IInv, OwnClaim, Time, CallTime, Timed
      <4>4. MarkerTime(k)'
        BY <3>1, <4>2, <4>3 DEF MarkerTime
      <4>5. \A j \in Keys \ {k} : MarkerTime(j)'
        BY <3>1, <4>2 DEF Time, MarkerTime
      <4>6. CallTime(t)' /\ Spaced(t)'
        BY <2>k, <3>1, <3>3, <4>1, <4>2, <4>3 DEF Time, CallTime, Spaced, Key
      <4>7. \A u \in Threads \ {t} : CallTime(u)' /\ Spaced(u)'
        BY <4>1, Untimed
      <4>8. PulseTime'
        <5>1. \A u \in Threads : pc[u] # "pulse"
          BY <3>1, <4>1 DEF Locked
        <5>2. lastPulse.any => lastPulse.key # k
          BY <4>3 DEF Time, PulseTime
        <5>3. QED
          BY <3>1, <4>2, <5>1, <5>2 DEF Time, PulseTime
      <4>9. QED
        BY <4>4, <4>5, <4>6, <4>7, <4>8 DEF Time
    <3>4. QED
      BY <2>5, <2>k, <3>2, <3>3 DEF MarkAttempt
  \* The trigger ends without a rise of the pin, or before one.
  <2>c. ASSUME pc[t] \in {"check", "on"}, Still, UNCHANGED <<claims, req>>,
               NEW s \in {"on", "finalize"}, Goto(t, s),
               call'.mono = call.mono, call'.markAt = call.markAt
        PROVE  Time'
    <3>1. pc'[t] = s /\ \A u \in Threads \ {t} : pc'[u] = pc[u] /\ pc[u] \notin Locked
      BY <2>c, Alone DEF Goto, TypeOK, Locked
    <3>2. CallTime(t)'
      BY <2>c, <3>1 DEF Time, CallTime, Timed, Key
    <3>3. Spaced(t)'
      BY <2>c, <3>1 DEF Time, Spaced
    <3>4. QED
      BY <2>c, <3>1, <3>2, <3>3, <1>u, TimeKept
  \* After a rise, or at the end of one.
  <2>d. ASSUME pc[t] \in {"on", "pulse"}, UNCHANGED <<now, bootAt, boot, claims, req>>,
               NEW s \in {"pulse", "finalize"}, Goto(t, s),
               call'.mono = call.mono, call'.markAt = call.markAt,
               \/ UNCHANGED <<pulses, lastPulse>>
               \/ pc[t] = "on" /\ PinRises(t),
               s = "finalize" => lastAttempt' = Mono
        PROVE  Time'
    <3>1. pc'[t] = s /\ \A u \in Threads \ {t} : pc'[u] = pc[u] /\ pc[u] \notin Locked
      BY <2>c, <2>d, Alone DEF Goto, TypeOK, Locked
    <3>2. CallTime(t)' /\ Spaced(t)'
      BY <2>d, <3>1 DEF Time, CallTime, Spaced, Timed
    <3>3. \A u \in Threads \ {t} : CallTime(u)' /\ Spaced(u)'
      BY <3>1, Untimed
    <3>4. \A j \in Keys : MarkerTime(j)'
      BY <2>d DEF Time, MarkerTime
    <3>5. PulseTime'
      <4>1. (\A u \in Threads : pc'[u] # "pulse") => lastAttempt' = now - bootAt
        BY <2>d, <3>1 DEF Mono
      <4>2. CASE UNCHANGED <<pulses, lastPulse>>
        BY <2>d, <4>1, <4>2 DEF Time, PulseTime
      <4>3. CASE pc[t] = "on" /\ PinRises(t)
        <5>1. /\ lastPulse'.key = k /\ lastPulse'.at = now /\ lastPulse'.markAt = call.markAt
              /\ lastPulse'.any /\ pulses'[k] > 0
          <6>1. pulses' = [pulses EXCEPT ![k] = @ + 1] /\ pulses[k] \in Nat
            BY <2>k, <4>3 DEF PinRises, TypeOK
          <6>2. pulses'[k] > 0
            BY <6>1 DEF TypeOK
          <6>3. QED
            BY <2>k, <4>3, <6>2 DEF PinRises
        <5>2. /\ claims[k].boot = boot /\ claims[k].mono = call.mono
              /\ call.mono = call.markAt - bootAt /\ call.markAt \in bootAt..now
          BY <2>k, <4>3 DEF Time, CallTime, Timed
        <5>3. QED
          BY <2>d, <4>1, <5>1, <5>2 DEF PulseTime
      <4>4. QED
        BY <2>d, <4>2, <4>3
    <3>6. QED
      BY <3>2, <3>3, <3>4, <3>5 DEF Time
  <2>e. ASSUME NEW i, Refuse(t, i)
        PROVE  /\ Goto(t, "finalize") /\ UNCHANGED <<lastAttempt, pulses, lastPulse>>
               /\ call'.mono = call.mono /\ call'.markAt = call.markAt
    BY <2>e DEF Refuse, Answer, TypeOK, Call
  <2>f. ASSUME NEW status, NEW detail, Settle(t, status, detail)
        PROVE  /\ Goto(t, "finalize") /\ lastAttempt' = Mono
               /\ call'.mono = call.mono /\ call'.markAt = call.markAt
    BY <2>f DEF Settle, Answer, TypeOK, Call
  <2>6. CASE CheckTrigger(t)
    <3>1. pc[t] = "check" /\ UNCHANGED <<now, bootAt, boot, claims, req>>
      BY <2>6 DEF CheckTrigger, At, store, clocks
    <3>2. CASE Goto(t, "on") /\ UNCHANGED <<call, lastAttempt, pulses, lastPulse>>
      BY <3>1, <3>2, <2>c
    <3>3. CASE \E i : Refuse(t, i)
      BY <3>1, <3>3, <2>c, <2>e
    <3>4. QED
      BY <2>6, <3>2, <3>3 DEF CheckTrigger
  <2>7. CASE Energize(t)
    <3>1. pc[t] = "on" /\ UNCHANGED <<now, bootAt, boot, claims, req>>
      BY <2>7 DEF Energize, At, store, clocks
    <3>2. CASE \E i : Refuse(t, i)
      BY <3>1, <3>2, <2>c, <2>e
    <3>3. CASE RaisePin(t)
      <4>1. Goto(t, "pulse") /\ PinRises(t)
        BY <3>3 DEF RaisePin
      <4>2. call'.mono = call.mono /\ call'.markAt = call.markAt
        BY <3>3 DEF RaisePin, TypeOK, Call
      <4>3. QED
        BY <3>1, <4>1, <4>2, <2>d
    <3>4. CASE /\ PinRises(t) \/ UNCHANGED history
               /\ Settle(t, "failed", "relay_error") \/ Settle(t, "failed", "relay_deenergize_error")
      BY <3>1, <3>4, <2>d, <2>f DEF history
    <3>5. QED
      BY <2>7, <3>2, <3>3, <3>4 DEF Energize
  <2>8. CASE EndPulse(t)
    <3>1. /\ pc[t] = "pulse" /\ UNCHANGED <<now, bootAt, boot, claims, req, pulses, lastPulse>>
      BY <2>8 DEF EndPulse, At, store, clocks, history
    <3>2. PICK status, detail : Settle(t, status, detail)
      BY <2>8 DEF EndPulse
    <3>3. QED
      BY <3>1, <3>2, <2>d, <2>f
  <2>9. QED
    BY <1>6, <2>1, <2>2, <2>3, <2>4, <2>5, <2>6, <2>7, <2>8
<1>7. CASE BeginShutdown \/ StepWallClock \/ UNCHANGED vars
  <2>1. Still /\ UNCHANGED <<claims, pc, req, call>>
    BY <1>7 DEF BeginShutdown, StepWallClock, vars, store, clocks, relayState, history
  <2>2. QED
    BY <2>1 DEF Time, PulseTime, CallTime, Spaced, MarkerTime, Key
<1>8. CASE Tick
  <2>1. /\ now' = now + 1
        /\ UNCHANGED <<bootAt, boot, lastAttempt, pulses, lastPulse, claims, pc, req, call>>
    BY <1>8 DEF Tick, store, history
  <2>2. PulseTime'
    BY <2>1 DEF Time, PulseTime
  <2>3. ASSUME NEW t \in Threads PROVE CallTime(t)' /\ Spaced(t)'
    BY <2>1 DEF Time, CallTime, Spaced, Key
  <2>4. \A k \in Keys : MarkerTime(k)'
    BY <2>1 DEF Time, MarkerTime
  <2>5. QED
    BY <2>2, <2>3, <2>4 DEF Time
<1>9. CASE Crash \/ Reboot
  <2>1. pc' = [t \in Threads |-> "idle"] /\ UNCHANGED <<claims, pulses, now>>
    BY <1>9 DEF Crash, Reboot, Forget, store, clocks
  <2>2. \A t \in Threads : CallTime(t)' /\ Spaced(t)'
    BY <2>1, Untimed DEF Locked
  <2>3. /\ lastPulse'.any = lastPulse.any /\ lastPulse'.key = lastPulse.key
        /\ lastPulse'.at = lastPulse.at /\ lastPulse'.markAt = lastPulse.markAt
    BY <1>9 DEF Crash, Reboot, TypeOK, Pulse
  <2>4. CASE Crash
    <3>1. ~lastPulse'.exact /\ UNCHANGED <<bootAt, boot>>
      BY <2>4 DEF Crash, clocks, TypeOK, Pulse
    <3>2. PulseTime'
      BY <2>1, <2>3, <3>1 DEF Time, PulseTime
    <3>3. \A k \in Keys : MarkerTime(k)'
      BY <2>1, <3>1 DEF Time, MarkerTime
    <3>4. QED
      BY <2>2, <3>2, <3>3 DEF Time
  <2>5. CASE Reboot
    <3>1. boot' = boot + 1 /\ bootAt' = now
      BY <2>5 DEF Reboot
    <3>2. \A k \in Keys : claims[k].marked => claims[k].boot # boot'
      BY <3>1 DEF Time, MarkerTime
    <3>3. lastPulse.any => claims[lastPulse.key].marked
      BY DEF Time, PulseTime, IInv, KeyInv
    <3>4. PulseTime'
      BY <2>1, <2>3, <3>1, <3>2, <3>3 DEF Time, PulseTime
    <3>5. \A k \in Keys : MarkerTime(k)'
      BY <2>1, <3>1, <3>2 DEF Time, MarkerTime
    <3>6. QED
      BY <2>2, <3>4, <3>5 DEF Time
  <2>6. QED
    BY <1>9, <2>4, <2>5
<1>10. CASE Start
  <2>1. ~up /\ Still /\ UNCHANGED <<pc, req, call>>
    BY <1>10 DEF Start, history, clocks
  <2>2. \A t \in Threads : pc[t] = "idle"
    BY <2>1 DEF IInv, Mutex
  <2>3. \A t \in Threads : CallTime(t)' /\ Spaced(t)'
    BY <2>1, <2>2, Untimed DEF Locked
  <2>4. ASSUME NEW k \in Keys
        PROVE  /\ claims'[k].marked = claims[k].marked
               /\ claims'[k].boot = claims[k].boot /\ claims'[k].mono = claims[k].mono
    <3>1. claims'[k] = Recovered(claims[k]) /\ claims[k] \in Claim
      BY <1>10 DEF Start, TypeOK
    <3>2. /\ Recovered(claims[k]).marked = claims[k].marked
          /\ Recovered(claims[k]).boot = claims[k].boot
          /\ Recovered(claims[k]).mono = claims[k].mono
      BY <3>1 DEF Recovered, Claim
    <3>3. QED
      BY <3>1, <3>2
  <2>5. PulseTime'
    BY <2>1, <2>4 DEF Time, PulseTime
  <2>6. \A k \in Keys : MarkerTime(k)'
    BY <2>1, <2>4 DEF Time, MarkerTime
  <2>7. QED
    BY <2>3, <2>5, <2>6 DEF Time
<1>11. QED
  BY <1>1, <1>2, <1>3, <1>4, <1>5, <1>6, <1>7, <1>8, <1>9, <1>10 DEF Next

\* Time holds in every reachable state.
LEMMA AlwaysTimed == Spec => []Time
<1>1. Init => Time
  BY DEF Init, Time, PulseTime, CallTime, Spaced, MarkerTime, Timed, NoClaim, NoPulse
<1>2. QED
  BY <1>1, InvHolds, TimeStep, PTL DEF Spec

\* Only the step at the activation boundary raises the pin, and it writes nothing else
\* that the gate's promise is about; every other step leaves the latest rise alone.
LEMMA RiseOrNot ==
    ASSUME TypeOK, [Next]_vars
    PROVE  \/ \E t \in Threads : pc[t] = "on" /\ PinRises(t) /\ UNCHANGED <<claims, now>>
           \/ UNCHANGED pulses /\ lastPulse'.markAt = lastPulse.markAt
<1>1. CASE Crash \/ Reboot
  BY <1>1 DEF Crash, Reboot, TypeOK, Pulse
<1>2. ASSUME NEW t \in {Processor} \cup Clients, Energize(t)
      PROVE  (PinRises(t) /\ pc[t] = "on" /\ UNCHANGED <<claims, now>>) \/ UNCHANGED history
  BY <1>2 DEF Energize, Refuse, RaisePin, At, store, clocks, history
<1>3. ASSUME NEW k \in BurstKeys,
             ReceiveBurst(k) \/ SkipBurst(Collector, k) \/ SkipBurst(Processor, k)
      PROVE  UNCHANGED history
  BY <1>3 DEF ReceiveBurst, SkipBurst, quiet
<1>4. ASSUME NEW t \in Clients, NEW k \in CommandKeys, NEW l \in Lifetimes,
             SubmitCommand(t, k, l) \/ ClaimPrompt(t, k, l)
      PROVE  UNCHANGED history
  BY <1>4 DEF SubmitCommand, ClaimPrompt, quiet
<1>5. ASSUME NEW t \in Threads,
             \/ RecordSkipped(t) \/ FinishPrompt(t) \/ Acquire(t) \/ ClaimActuation(t)
             \/ RecordCooldown(t) \/ FinalizeCooldown(t) \/ MarkAttempt(t) \/ CheckTrigger(t)
             \/ EndPulse(t) \/ Finalize(t)
      PROVE  UNCHANGED history
  BY <1>5 DEF RecordSkipped, FinishPrompt, Acquire, ClaimActuation, RecordCooldown,
              FinalizeCooldown, MarkAttempt, CheckTrigger, Refuse, EndPulse, Finalize,
              quiet, history
<1>6. CASE DenyBurst \/ AllowBurst \/ BeginShutdown \/ Start \/ Tick \/ StepWallClock
           \/ UNCHANGED vars
  BY <1>6 DEF DenyBurst, AllowBurst, BeginShutdown, Start, Tick, StepWallClock, vars, quiet, history
<1>7. QED
  BY <1>1, <1>2, <1>3, <1>4, <1>5, <1>6 DEF Next, Threads, history

\* True time moves in Tick only, which leaves the claims alone.
LEMMA NowOrNot == [Next]_vars => UNCHANGED now \/ (now' = now + 1 /\ UNCHANGED <<claims, history>>)
<1> SUFFICES ASSUME [Next]_vars PROVE UNCHANGED now \/ (now' = now + 1 /\ UNCHANGED <<claims, history>>)
  OBVIOUS
<1>1. ASSUME NEW k \in BurstKeys,
             ReceiveBurst(k) \/ SkipBurst(Collector, k) \/ SkipBurst(Processor, k)
      PROVE  UNCHANGED now
  BY <1>1 DEF ReceiveBurst, SkipBurst, quiet, clocks
<1>2. ASSUME NEW t \in Clients, NEW k \in CommandKeys, NEW l \in Lifetimes,
             SubmitCommand(t, k, l) \/ ClaimPrompt(t, k, l)
      PROVE  UNCHANGED now
  BY <1>2 DEF SubmitCommand, ClaimPrompt, quiet, clocks
<1>3. ASSUME NEW t,
             \/ RecordSkipped(t) \/ FinishPrompt(t) \/ Acquire(t) \/ ClaimActuation(t)
             \/ RecordCooldown(t) \/ FinalizeCooldown(t) \/ MarkAttempt(t) \/ CheckTrigger(t)
             \/ Energize(t) \/ EndPulse(t) \/ Finalize(t)
      PROVE  UNCHANGED now
  BY <1>3 DEF RecordSkipped, FinishPrompt, Acquire, ClaimActuation, RecordCooldown,
              FinalizeCooldown, MarkAttempt, CheckTrigger, Energize, EndPulse, Finalize,
              quiet, clocks
<1>4. CASE Tick
  BY <1>4 DEF Tick, store
<1>5. CASE DenyBurst \/ AllowBurst \/ BeginShutdown \/ Crash \/ Reboot \/ Start \/ StepWallClock
           \/ UNCHANGED vars
  BY <1>5 DEF DenyBurst, AllowBurst, BeginShutdown, Crash, Reboot, Start, StepWallClock, vars,
              quiet, clocks
<1>6. QED
  BY <1>1, <1>2, <1>3, <1>4, <1>5 DEF Next

\* A terminal outcome is never withdrawn: no transaction takes a finalised claim, and
\* the recovery only adds to them.
LEMMA SettledStays ==
    ASSUME TypeOK, [Next]_vars, NEW k \in Keys, claims[k].state = "finalized"
    PROVE  claims'[k].state = "finalized"
<1> USE Readings
<1>a. ASSUME NEW j \in Keys, NEW status, NEW detail, NEW event, NEW retain \in BOOLEAN,
             FinalizeActuation(j, status, detail, event, retain)
      PROVE  claims'[k].state = "finalized"
  BY <1>a, FinalizeFacts
<1>b. ASSUME NEW j \in Keys, claims[j].state # "finalized", NEW row,
             claims' = [claims EXCEPT ![j] = row]
      PROVE  claims'[k].state = "finalized"
  BY <1>b DEF TypeOK
<1>1. ASSUME NEW t \in Threads, RecordSkipped(t) \/ Acquire(t) \/ CheckTrigger(t)
                                \/ Energize(t) \/ EndPulse(t)
      PROVE  UNCHANGED claims
  BY <1>1 DEF RecordSkipped, RecordEvent, Acquire, CheckTrigger, Energize, EndPulse, store
<1>2. ASSUME NEW j \in BurstKeys,
             ReceiveBurst(j) \/ SkipBurst(Collector, j) \/ SkipBurst(Processor, j)
      PROVE  UNCHANGED claims
  BY <1>2 DEF ReceiveBurst, SkipBurst, store
<1>3. CASE DenyBurst \/ AllowBurst \/ BeginShutdown \/ Crash \/ Reboot \/ Tick \/ StepWallClock
           \/ UNCHANGED vars
  BY <1>3 DEF DenyBurst, RecordEvent, AllowBurst, BeginShutdown, Crash, Reboot, Tick,
              StepWallClock, vars, store
<1>4. ASSUME NEW t \in Clients, NEW j \in CommandKeys, NEW l \in Lifetimes,
             SubmitCommand(t, j, l) \/ ClaimPrompt(t, j, l)
      PROVE  claims'[k].state = "finalized"
  BY <1>4, <1>b DEF SubmitCommand, ClaimPrompt, Keys, store
<1>5. ASSUME NEW t \in Threads, FinishPrompt(t) PROVE claims'[k].state = "finalized"
  BY <1>5, <1>a DEF FinishPrompt
<1>6. ASSUME NEW t \in Threads, FinalizeCooldown(t) \/ Finalize(t)
      PROVE  claims'[k].state = "finalized"
  <2>1. call.attempted \in BOOLEAN
    BY DEF TypeOK, Call
  <2>2. QED
    BY <1>6, <2>1, <1>a DEF FinalizeCooldown, Finalize
<1>7. ASSUME NEW t \in Threads, ClaimActuation(t) \/ RecordCooldown(t) \/ MarkAttempt(t)
      PROVE  claims'[k].state = "finalized"
  <2>1. \/ UNCHANGED claims
        \/ claims[Key(t)].state # "finalized" /\ \E row : claims' = [claims EXCEPT ![Key(t)] = row]
    BY <1>7 DEF ClaimActuation, RecordCooldown, MarkAttempt, store
  <2>2. QED
    BY <2>1, <1>b
<1>8. CASE Start
  BY <1>8 DEF Start, Recovered
<1>9. QED
  BY <1>1, <1>2, <1>3, <1>4, <1>5, <1>6, <1>7, <1>8 DEF Next, Threads

\* When the pin rises, its instant is a cooldown after that of the latest rise.
LEMMA RiseSpaced ==
    ASSUME TypeOK, Time, NEW t \in Threads, pc[t] = "on", PinRises(t), lastPulse.any, UNCHANGED now
    PROVE  /\ lastPulse'.markAt - lastPulse.markAt >= Cooldown
           /\ lastPulse.exact => lastPulse'.at - lastPulse.at >= Cooldown
<1> USE Numbers
<1>1. /\ call.markAt - lastPulse.markAt >= Cooldown /\ call.markAt <= now
      /\ lastPulse.exact => call.markAt - lastPulse.at >= Cooldown
  BY DEF Time, CallTime, Spaced, Timed
<1>2. lastPulse'.markAt = call.markAt /\ lastPulse'.at = now
  BY DEF PinRises
<1>3. QED
  BY <1>1, <1>2

\* Two rises of the pin are a cooldown apart in true time, by the instants of their
\* markers always and by the rises themselves unless the process died in between and the
\* boot went on; no step of the wall clock, crash or reboot shortens it.
THEOREM RisesAreSpaced == Spec => CooldownSpacing
<1> DEFINE Step == pulses' # pulses /\ lastPulse.any =>
                      /\ lastPulse'.markAt - lastPulse.markAt >= Cooldown
                      /\ lastPulse.exact => lastPulse'.at - lastPulse.at >= Cooldown
<1>1. IInv /\ Time /\ [Next]_vars => [Step]_vars
  BY RiseOrNot, RiseSpaced DEF IInv
<1>2. QED
  BY <1>1, InvHolds, AlwaysTimed, PTL DEF Spec, CooldownSpacing

\* The database, threads, crashes and clocks of the actuation path implement the abstract
\* gate: each step raises the pin for a key that is neither opened nor settled, charged to
\* an instant a cooldown after the last, or settles keys, or lets time pass, or stutters.
THEOREM GateImplemented == Spec => ImplementsGate
<1> DEFINE opened == {k \in Keys : pulses[k] > 0}
           settled == {k \in Keys : claims[k].state = "finalized"}
<1>1. Init => Promise!Init
  BY DEF Init, Promise!Init, NoPulse, NoClaim
<1>2. IInv /\ Time /\ [Next]_vars => [Promise!Next]_(Promise!vars)
  <2> SUFFICES ASSUME IInv, Time, [Next]_vars
               PROVE  Promise!Next \/ UNCHANGED Promise!vars
    OBVIOUS
  <2> TypeOK
    BY DEF IInv
  <2> USE Numbers
  <2>1. CASE \E t \in Threads : pc[t] = "on" /\ PinRises(t) /\ UNCHANGED <<claims, now>>
    <3>1. PICK t \in Threads : pc[t] = "on" /\ PinRises(t) /\ UNCHANGED <<claims, now>>
      BY <2>1
    <3>2. PICK k \in Keys : k = Key(t)
      BY Readings
    <3>3. k \notin opened \cup settled
      BY <3>1, <3>2 DEF IInv, OwnClaim
    <3>4. PICK instant \in 0..now : instant = call.markAt
      BY <3>1 DEF Time, CallTime, Timed
    <3>5. opened # {} => instant - lastPulse.markAt >= Cooldown
      BY <3>1, <3>4 DEF Time, PulseTime, Spaced
    <3>6. opened' = opened \cup {k} /\ lastPulse'.markAt = instant
      BY <3>1, <3>2, <3>4 DEF PinRises, TypeOK
    <3>7. UNCHANGED settled
      BY <3>1
    <3>8. Promise!Open(k, instant)
      BY <3>1, <3>3, <3>4, <3>5, <3>6, <3>7 DEF Promise!Open
    <3>9. QED
      BY <3>8 DEF Promise!Next
  <2>2. CASE UNCHANGED pulses /\ lastPulse'.markAt = lastPulse.markAt /\ UNCHANGED now
    <3>1. settled \subseteq settled'
      BY SettledStays
    <3>2. PICK S \in SUBSET Keys : S = settled'
      OBVIOUS
    <3>3. Promise!Settle(S)
      BY <2>2, <3>1, <3>2 DEF Promise!Settle
    <3>4. QED
      BY <3>3 DEF Promise!Next
  <2>3. CASE now' = now + 1 /\ UNCHANGED <<claims, history>>
    BY <2>3 DEF Promise!Next, Promise!Tick, history
  <2>4. QED
    BY <2>1, <2>2, <2>3, RiseOrNot, NowOrNot DEF history
<1>3. QED
  BY <1>1, <1>2, InvHolds, AlwaysTimed, PTL DEF Spec, ImplementsGate, Promise!Spec
=============================================================================
