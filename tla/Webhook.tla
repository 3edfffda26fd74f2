------------------------------- MODULE Webhook -------------------------------
(***************************************************************************)
(* Where a burst came from: the camera's webhook server (a fixed number of  *)
(* connection slots, one handler thread and one deadline timer each) and    *)
(* ReolinkEventCorrelator, which keeps recent camera events and gives the   *)
(* nearest one to an FTP burst.                                             *)
(*                                                                         *)
(* A handler takes the time of an event before it waits for the             *)
(* correlator's lock, and so does the burst thread: what the lock admits    *)
(* can be older than what it admitted before.  The camera resends what it   *)
(* was not answered, and its clock need not agree with the controller's.    *)
(***************************************************************************)
EXTENDS Integers, Sequences, SequencesExt, FiniteSets

CONSTANTS
    Events,        \* identities (hashes) of camera events
    Connections,   \* bound: connections of the camera
    Capacity,      \* max_concurrent_connections
    TTL,           \* ttl_seconds
    Window,        \* correlation_window_seconds
    MaxEvents,     \* max_events
    MaxTime        \* bound: time

ASSUME WebhookAssumption ==
    /\ Capacity \in Nat \ {0} /\ MaxEvents \in Nat \ {0} /\ MaxTime \in Nat
    /\ TTL \in Nat /\ Window \in 0 .. TTL

Times == 0 .. MaxTime
NoTime == -1

VARIABLES
    now,
    alarm,      \* event_at of an event by the camera's clock, NoTime if it cannot be parsed
    slots,      \* free connection slots
    conn,       \* handler threads: step, the event they read and when
    burst,      \* the burst thread's call of correlate: step, arrival, when it was made
    events,     \* _events: camera events not yet matched, in the order recorded
    seen,       \* _seen: identities and times, in the order recorded
    last,       \* time of the latest acceptance of an event, NoTime before (history)
    evicted,    \* events dropped from _seen for want of room (history)
    horizon,    \* latest time _prune was called with (history)
    waiting     \* events accepted, not matched and not displaced by others (history)

webhookVars == <<now, alarm, slots, conn, burst, events, seen, last, evicted, horizon, waiting>>

Entry == [event : Events, at : Times]
NoEntry == [at |-> NoTime]

WebhookTypeOK ==
    /\ now \in Times /\ alarm \in [Events -> Times \cup {NoTime}]
    /\ slots \in 0 .. Capacity
    /\ conn \in [Connections -> [step : {"none", "reading", "read", "answering", "closed"},
                                entry : Entry \cup {NoEntry}]]
    /\ \A c \in Connections : conn[c].step = "read" => conn[c].entry \in Entry
    /\ burst \in [step : {"idle", "asked"}, received : Times, at : Times]
    /\ events \in Seq(Entry) /\ Len(events) <= MaxEvents
    /\ seen \in Seq(Entry) /\ Len(seen) <= 2 * MaxEvents
    /\ last \in [Events -> Times \cup {NoTime}] /\ evicted \subseteq Events
    /\ horizon \in Times /\ waiting \subseteq Entry

IdleBurst == [step |-> "idle", received |-> 0, at |-> 0]

WebhookInit ==
    /\ now = 0 /\ alarm \in [Events -> Times \cup {NoTime}] /\ slots = Capacity
    /\ conn = [c \in Connections |-> [step |-> "none", entry |-> NoEntry]]
    /\ burst = IdleBurst
    /\ events = <<>> /\ seen = <<>>
    /\ last = [v \in Events |-> NoTime] /\ evicted = {} /\ horizon = 0 /\ waiting = {}

\* Time only advances: a step of the wall clock, which every handler and the burst
\* thread read, is left out.
Tick ==
    /\ now < MaxTime /\ now' = now + 1
    /\ UNCHANGED <<alarm, slots, conn, burst, events, seen, last, evicted, horizon, waiting>>
-----------------------------------------------------------------------------
(* BoundedReolinkHTTPServer and its handler threads *)

memory == <<events, seen, last, evicted, horizon, waiting>>

Step(c) == conn[c].step
Close(c) == [conn EXCEPT ![c] = [step |-> "closed", entry |-> NoEntry]]

\* process_request: no slot, no thread.
Refuse(c) ==
    /\ Step(c) = "none" /\ slots = 0
    /\ conn' = Close(c)
    /\ UNCHANGED <<now, alarm, slots, burst, memory>>

\* Mutant of Accept: a thread that cannot be started keeps its slot.
AcceptLeaking(c) ==
    /\ Step(c) = "none" /\ slots > 0
    /\ slots' = slots - 1
    /\ conn' \in {[conn EXCEPT ![c].step = "reading"], Close(c)}
    /\ UNCHANGED <<now, alarm, burst, memory>>

\* A slot is taken and the thread started; if that fails the slot is given back.
Accept(c) ==
    /\ Step(c) = "none" /\ slots > 0
    /\ \/ slots' = slots - 1 /\ conn' = [conn EXCEPT ![c].step = "reading"]
       \/ conn' = Close(c) /\ UNCHANGED slots
    /\ UNCHANGED <<now, alarm, burst, memory>>

\* The whole body is there and is sanitised to an event received now ...
Receive(c, v) ==
    /\ Step(c) = "reading"
    /\ conn' = [conn EXCEPT ![c] = [step |-> "read", entry |-> [event |-> v, at |-> now]]]
    /\ UNCHANGED <<now, alarm, slots, burst, memory>>

\* ... or rejected: method, path, length, secret, fields.
Reject(c) ==
    /\ Step(c) = "reading"
    /\ conn' = [conn EXCEPT ![c].step = "answering"]
    /\ UNCHANGED <<now, alarm, slots, burst, memory>>

\* Mutant of Expire: the deadline of a stalled client does not close its socket.
ExpireIgnored(c) == Step(c) = "reading" /\ UNCHANGED webhookVars

\* _expire_request, or a body deadline: reading raises and the handler ends.
Expire(c) ==
    /\ Step(c) = "reading"
    /\ conn' = [conn EXCEPT ![c].step = "answering"]
    /\ UNCHANGED <<now, alarm, slots, burst, memory>>

\* The answer is sent, or cannot be; process_request_thread gives the slot back.
Answer(c) ==
    /\ Step(c) = "answering"
    /\ conn' = Close(c) /\ slots' = slots + 1
    /\ UNCHANGED <<now, alarm, burst, memory>>
-----------------------------------------------------------------------------
(* ReolinkEventCorrelator *)

\* The entries at the positions I, in their order: entry k has k positions of I up to its own.
Those(queue, I) ==
    [k \in 1 .. Cardinality(I) |-> queue[CHOOSE i \in I : Cardinality({j \in I : j <= i}) = k]]

\* Mutants of Kept: events are dropped when they leave the correlation window; what
\* is exactly as old as the limit is dropped.
KeptInWindow(queue, at) == Those(queue, {i \in DOMAIN queue : at - queue[i].at <= Window})
KeptYounger(queue, at) == Those(queue, {i \in DOMAIN queue : at - queue[i].at < TTL})

\* _prune(at)
Kept(queue, at) == Those(queue, {i \in DOMAIN queue : at - queue[i].at <= TTL})

\* Mutant of Newest: one more is kept.
NewestAndOne(queue, n) == IF Len(queue) > n + 1 THEN Tail(queue) ELSE queue

\* while len(...) > n: drop the oldest recorded
Newest(queue, n) == SubSeq(queue, Len(queue) - n + 1, Len(queue))

\* The event's own time is out of range; its reception never is, being now.
Stale(entry) ==
    LET age == entry.at - alarm[entry.event]
    IN alarm[entry.event] # NoTime /\ (age > TTL \/ age < -Window)

\* record accepts: in time, and not remembered.
Accepts(entry) ==
    /\ ~Stale(entry)
    /\ entry.event \notin {known.event : known \in ToSet(Kept(seen, entry.at))}

Later(at) == IF at > horizon THEN at ELSE horizon

Bounded(queue, n) == IF Len(queue) > n THEN Newest(queue, n) ELSE queue

\* record(event, now=received_at), under the lock.
Record(c) ==
    LET entry == conn[c].entry
        known == IF Accepts(entry) THEN Append(Kept(seen, entry.at), entry) ELSE Kept(seen, entry.at)
        queue == IF Accepts(entry) THEN Append(Kept(events, entry.at), entry)
                 ELSE Kept(events, entry.at)
    IN /\ Step(c) = "read"
       /\ seen' = Bounded(known, 2 * MaxEvents) /\ events' = Bounded(queue, MaxEvents)
       /\ evicted' = evicted \cup ({k.event : k \in ToSet(known) \ ToSet(seen')})
       /\ waiting' = (IF Accepts(entry) THEN waiting \cup {entry} ELSE waiting)
                     \ (ToSet(queue) \ ToSet(events'))
       /\ last' = IF Accepts(entry) THEN [last EXCEPT ![entry.event] = entry.at] ELSE last
       /\ horizon' = Later(entry.at)
       /\ conn' = [conn EXCEPT ![c] = [step |-> "answering", entry |-> NoEntry]]
       /\ UNCHANGED <<now, alarm, slots, burst>>

\* A burst that arrived at received is looked up: correlate takes the time ...
Ask(received) ==
    /\ burst.step = "idle" /\ received <= now
    /\ burst' = [step |-> "asked", received |-> received, at |-> now]
    /\ UNCHANGED <<now, alarm, slots, conn, memory>>

Distance(entry, time) == IF entry.at > time THEN entry.at - time ELSE time - entry.at

\* ... and, under the lock, consumes the nearest event or falls back to FTP.
Correlate ==
    LET queue == Kept(events, burst.at)
        near == {entry \in ToSet(queue) : Distance(entry, burst.received) <= Window}
    IN /\ burst.step = "asked"
       /\ IF near = {} THEN events' = queue
          ELSE \E entry \in near :
                 /\ \A other \in near : Distance(entry, burst.received) <= Distance(other, burst.received)
                 /\ events' = RemoveFirst(queue, entry)
       /\ waiting' = waiting \ (ToSet(queue) \ ToSet(events'))
       /\ seen' = Kept(seen, burst.at) /\ horizon' = Later(burst.at)
       /\ burst' = IdleBurst
       /\ UNCHANGED <<now, alarm, slots, conn, last, evicted>>
-----------------------------------------------------------------------------
HandlerStep(c) == Expire(c) \/ Record(c) \/ Answer(c)

WebhookNext ==
    \/ Tick
    \/ \E c \in Connections :
          Refuse(c) \/ Accept(c) \/ Reject(c) \/ HandlerStep(c) \/ (\E v \in Events : Receive(c, v))
    \/ \E received \in Times : Ask(received)
    \/ Correlate

WebhookSpec == WebhookInit /\ [][WebhookNext]_webhookVars

\* Handler threads and timers run; nothing is assumed of the client.
WebhookFairSpec == WebhookSpec /\ \A c \in Connections : WF_webhookVars(HandlerStep(c))
-----------------------------------------------------------------------------
(* Properties *)

\* Every slot is free or has its connection: none is lost to a thread that failed
\* to start, a stalled client or a late timer, and none is returned twice.
SlotsAccounted ==
    slots + Cardinality({c \in Connections : Step(c) \in {"reading", "read", "answering"}}) = Capacity

\* The limits on connections, pending events and identities hold and no slot is lost.
LimitsKept == WebhookTypeOK /\ SlotsAccounted

\* A resent event is not counted again.  It can be only where its identity was
\* displaced by newer ones, its time cannot be read or lies ahead of its first
\* reception, or a later call overtook this one at the lock.
AcceptedOnce ==
    [][\A c \in Connections :
        LET entry == conn[c].entry IN
        Step(c) = "read" /\ conn'[c].step = "answering" /\ Accepts(entry) /\ last[entry.event] # NoTime
        => \/ entry.event \in evicted
           \/ alarm[entry.event] = NoTime \/ alarm[entry.event] > last[entry.event]
           \/ horizon > entry.at]_webhookVars

\* A burst that is looked up soon enough consumes an event, and is never called
\* unverified, while one of its neighbourhood is unmatched and was not displaced: the
\* expiry of events and the correlation window fit together.
NoMissedEvent ==
    [][burst.step = "asked" /\ burst'.step = "idle" /\ now - burst.received <= TTL - Window
        /\ (\E entry \in waiting : Distance(entry, burst.received) <= Window)
        => Len(events') < Len(Kept(events, burst.at))]_webhookVars

\* A connection ends and its slot is free again whatever the client does.
ConnectionsEnd ==
    \A c \in Connections :
        Step(c) \in {"reading", "read", "answering"} ~> Step(c) = "closed"
=============================================================================
