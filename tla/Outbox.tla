-------------------------------- MODULE Outbox --------------------------------
(***************************************************************************)
(* Events on their way to the cloud: the outbox rows and telemetry rows of  *)
(* LocalStore, the evidence files of EvidenceSpool, the threads that queue  *)
(* events and OutboxWorker.run_once, which delivers them.                   *)
(*                                                                         *)
(* A producer (the burst processor or the collector) finds that its event   *)
(* is new, stages the JPEG, commits the event with its outbox row later and *)
(* attaches telemetry last.  Two producers may hold the same event: the one *)
(* that commits second goes on with the row of the first.                   *)
(* The worker prepares, sends, completes, looks for other pending users of  *)
(* the file and deletes it.  Every one of these is a step; the process can  *)
(* die between any two and restarts with recovery and spool cleanup.        *)
(*                                                                         *)
(* An event is named by its idempotency key and has at most one row.  Rows  *)
(* are ordered by Events whichever is committed first, where the store      *)
(* hands ids out in commit order: every order of the code is among them.    *)
(***************************************************************************)
EXTENDS Naturals, FiniteSets

CONSTANTS
    Producers,     \* threads that queue events
    Claimers,      \* those of them that actuate: the burst processor, not the collector
    Offered,       \* bound: the events a producer may be handed, with the digest of their first image
    Digests,       \* SHA-256 names of normalised JPEGs
    NoImage,       \* image_status = unavailable_before_queue
    NoPayload,     \* no claimed actuation holds a payload
    BatchLimit,    \* limit of pending_outbox_items
    MaxEvents,     \* bound: events, each with one idempotency key
    MaxFaults      \* bound: process restarts and evidence files lost to the disk

Events == 1 .. MaxEvents
Image == Digests \cup {NoImage}

ASSUME OutboxAssumption ==
    /\ Claimers \subseteq Producers /\ Offered \in [Producers -> SUBSET (Events \X Image)]
    /\ BatchLimit \in Nat \ {0}
    /\ MaxEvents \in Nat /\ MaxFaults \in Nat
    /\ NoImage \notin Digests /\ NoPayload \notin Digests \cup {NoImage}

VARIABLES
    \* durable
    row,          \* the outbox row of an event
    claimed,      \* pending_outbox_payload of an event's claimed actuation
    telemetry,    \* event_telemetry rows
    files,        \* evidence spool
    \* volatile
    prod,         \* per producer: step, event and staged digest
    work,         \* the worker: step, batch, item, schema of the payload it sends
    lastItem,     \* OutboxWorker._last_item_id, 0 when None
    \* the receiver and the bounds
    received,     \* highest schema version the receiver has stored for an event, 0 for none
    attached,     \* events whose telemetry was attached (history)
    shared,       \* events that a second producer found recorded (history)
    late,         \* events whose telemetry came after the payload was prepared (history)
    degraded,     \* events last prepared without the telemetry they had (history)
    lost,         \* digests the disk lost (history)
    crashes

vars == <<row, claimed, telemetry, files, prod, work, lastItem, received, attached, shared, late,
          degraded, lost, crashes>>

NoRow == [state |-> "none", digest |-> NoImage]
IdleProducer == [step |-> "idle", digest |-> NoImage, event |-> 0]
IdleWorker == [step |-> "idle", batch |-> {}, item |-> 0, schema |-> 0]

TypeOK ==
    /\ row \in [Events -> [state : {"none", "awaiting", "ready", "telemetry_ready", "done"},
                           digest : Image]]
    /\ claimed \in [Events -> Image \cup {NoPayload}]
    /\ telemetry \subseteq Events /\ files \subseteq Digests
    /\ prod \in [Producers -> [step : {"idle", "deciding", "staged", "claimed", "recorded"},
                               digest : Image, event : 0 .. MaxEvents]]
    /\ work \in [step : {"idle", "next", "send", "complete", "prune", "delete"},
                 batch : SUBSET Events, item : 0 .. MaxEvents, schema : {0, 2, 3}]
    /\ lastItem \in 0 .. MaxEvents
    /\ received \in [Events -> {0, 2, 3}]
    /\ attached \subseteq Events /\ shared \subseteq Events /\ late \subseteq Events
    /\ degraded \subseteq Events /\ lost \subseteq Digests /\ crashes \in 0 .. MaxFaults

Init ==
    /\ row = [e \in Events |-> NoRow] /\ claimed = [e \in Events |-> NoPayload]
    /\ telemetry = {} /\ files = {}
    /\ prod = [p \in Producers |-> IdleProducer] /\ work = IdleWorker /\ lastItem = 0
    /\ received = [e \in Events |-> 0] /\ attached = {} /\ shared = {} /\ late = {}
    /\ degraded = {} /\ lost = {} /\ crashes = 0
-----------------------------------------------------------------------------
(* The store *)

Rows == {e \in Events : row[e].state # "none"}

\* completed_at IS NULL
Pending == {e \in Rows : row[e].state # "done"}
Sendable == {e \in Rows : row[e].state \in {"ready", "telemetry_ready"}}

\* event_exists: an actuation claim or an event with this key.
Exists(e) == e \in Rows \/ claimed[e] # NoPayload

\* pending_evidence_digests: undelivered rows and claimed actuations.
PendingDigests ==
    ({row[e].digest : e \in Pending} \cup {claimed[e] : e \in Events}) \ {NoImage, NoPayload}

\* Mutant of NewRow: a new event is sendable before its trace is finished.
NewRowReady(digest) == [state |-> "ready", digest |-> digest]

\* _ensure_outbox with _awaiting_telemetry.
NewRow(digest) == [state |-> "awaiting", digest |-> digest]

At(p, step) == prod[p].step = step
-----------------------------------------------------------------------------
(* Producers: GateProcessor.process and record_skipped *)

\* prepare_payload writes the file, or goes on without one.
Staged(image) == files \cup ({image} \ {NoImage})

\* The event is new: recognition and the decision follow, without the store.
Begin(p, e, image) ==
    /\ At(p, "idle") /\ ~Exists(e)
    /\ prod' = [prod EXCEPT ![p] = [step |-> "deciding", digest |-> image, event |-> e]]
    /\ UNCHANGED <<row, claimed, telemetry, files, work, lastItem, received, attached, shared, late,
                   degraded, lost, crashes>>

\* The event has its row: ensure_outbox stages the image again and leaves the row alone.
Duplicate(p, e, image) ==
    /\ At(p, "idle") /\ e \in Rows
    /\ files' = Staged(image)
    /\ UNCHANGED <<row, claimed, telemetry, prod, work, lastItem, received, attached, shared, late,
                   degraded, lost, crashes>>

\* _outbox_payload, before the transaction that needs it.
Stage(p) ==
    /\ At(p, "deciding")
    /\ files' = Staged(prod[p].digest)
    /\ prod' = [prod EXCEPT ![p].step = "staged"]
    /\ UNCHANGED <<row, claimed, telemetry, work, lastItem, received, attached, shared, late,
                   degraded, lost, crashes>>

\* record_skipped finds by now that the event exists, the claim is another's, or the store raises.
Abandon(p) ==
    /\ At(p, "deciding") \/ At(p, "staged")
    /\ prod' = [prod EXCEPT ![p] = IdleProducer]
    /\ UNCHANGED <<row, claimed, telemetry, files, work, lastItem, received, attached, shared, late,
                   degraded, lost, crashes>>

\* claim_actuation keeps the payload in the claim; it does not look for an event.
\* (A finalised claim is not kept: its event has its row, and a second claim the
\* code would refuse then ends in RecordExisting.)
Claim(p) ==
    LET e == prod[p].event IN
    /\ p \in Claimers /\ At(p, "staged") /\ claimed[e] = NoPayload
    /\ claimed' = [claimed EXCEPT ![e] = prod[p].digest]
    /\ prod' = [prod EXCEPT ![p].step = "claimed"]
    /\ UNCHANGED <<row, telemetry, files, work, lastItem, received, attached, shared, late,
                   degraded, lost, crashes>>

\* A producer has the id of its event and turns to the telemetry.
Recorded(e) == [step |-> "recorded", digest |-> NoImage, event |-> e]

\* record_event_with_outbox, or finalize_actuation of the producer's own claim.
Record(p) ==
    LET e == prod[p].event IN
    /\ At(p, "staged") \/ At(p, "claimed")
    /\ e \notin Rows
    /\ row' = [row EXCEPT ![e] = NewRow(prod[p].digest)]
    /\ claimed' = IF At(p, "claimed") THEN [claimed EXCEPT ![e] = NoPayload] ELSE claimed
    /\ prod' = [prod EXCEPT ![p] = Recorded(e)]
    /\ UNCHANGED <<telemetry, files, work, lastItem, received, attached, shared, late,
                   degraded, lost, crashes>>

\* Another producer committed the event first: the insert meets the UNIQUE key, or the claim
\* is terminal; the existing id is returned and INSERT OR IGNORE leaves its row as it is.
RecordExisting(p) ==
    LET e == prod[p].event IN
    /\ At(p, "staged") /\ e \in Rows
    /\ prod' = [prod EXCEPT ![p] = Recorded(e)] /\ shared' = shared \cup {e}
    /\ UNCHANGED <<row, claimed, telemetry, files, work, lastItem, received, attached, late,
                   degraded, lost, crashes>>

\* finalize_actuation raised (it does when the event exists): the claim keeps the payload
\* until the next start.
FinalizeFails(p) ==
    /\ At(p, "claimed")
    /\ prod' = [prod EXCEPT ![p] = IdleProducer]
    /\ UNCHANGED <<row, claimed, telemetry, files, work, lastItem, received, attached, shared, late,
                   degraded, lost, crashes>>

\* The worker has prepared its payload for this event and not yet finished with it.
Sending(e) == work.step \in {"send", "complete"} /\ work.item = e

\* attach_event_telemetry: one transaction inserts the trace, unless the event has another
\* one, and promotes the row, unless it is completed.
Attach(p) ==
    LET e == prod[p].event IN
    /\ At(p, "recorded") /\ e \notin telemetry
    /\ telemetry' = telemetry \cup {e} /\ attached' = attached \cup {e}
    /\ row' = [row EXCEPT ![e].state = IF @ = "done" THEN @ ELSE "telemetry_ready"]
    /\ late' = IF Sending(e) \/ row[e].state = "done" THEN late \cup {e} ELSE late
    /\ prod' = [prod EXCEPT ![p] = IdleProducer]
    /\ UNCHANGED <<claimed, files, work, lastItem, received, shared, degraded, lost, crashes>>

\* No trace, or it could not be attached: release_outbox_without_telemetry, which
\* may fail too and leave the row waiting for the next start.
Release(p) ==
    LET e == prod[p].event IN
    /\ At(p, "recorded")
    /\ \/ row' = [row EXCEPT ![e].state = IF @ = "awaiting" THEN "ready" ELSE @]
       \/ UNCHANGED row
    /\ prod' = [prod EXCEPT ![p] = IdleProducer]
    /\ UNCHANGED <<claimed, telemetry, files, work, lastItem, received, attached, shared, late,
                   degraded, lost, crashes>>
-----------------------------------------------------------------------------
(* OutboxWorker.run_once *)

steady == <<claimed, prod, attached, shared, lost, crashes>>

\* Mutant of Before: ORDER BY id, whatever was tried last.
BeforeById(i, j) == i < j

\* ORDER BY CASE WHEN id > last THEN 0 ELSE 1 END, id
Before(i, j) ==
    \/ i > lastItem /\ j <= lastItem
    \/ (i > lastItem <=> j > lastItem) /\ i < j

\* pending_outbox_items: the first BatchLimit sendable rows after the last one tried.
Fetch ==
    /\ work.step = "idle" /\ Sendable # {}
    /\ work' = [work EXCEPT !.step = "next",
          !.batch = {i \in Sendable : Cardinality({j \in Sendable : Before(j, i)}) < BatchLimit}]
    /\ UNCHANGED <<steady, row, telemetry, files, lastItem, received, late, degraded>>

\* The loop body begins: remember the item, then prepare_outbox_attempt.
Prepare ==
    /\ work.step = "next" /\ work.batch # {}
    /\ \E i \in work.batch :
          /\ \A j \in work.batch : j = i \/ Before(i, j)
          /\ lastItem' = i
          /\ IF i \notin Sendable
             THEN /\ work' = [work EXCEPT !.batch = @ \ {i}]
                  /\ UNCHANGED <<late, degraded>>
             ELSE \E schema \in IF i \in telemetry THEN {2, 3} ELSE {2} :
                  /\ work' = [step |-> "send", batch |-> work.batch \ {i}, item |-> i,
                              schema |-> schema]
                  /\ late' = late \ {i}
                  /\ degraded' = IF i \in telemetry /\ schema = 2
                                 THEN degraded \cup {i} ELSE degraded \ {i}
    /\ UNCHANGED <<steady, row, telemetry, files, received>>

EndBatch ==
    /\ work.step = "next" /\ work.batch = {}
    /\ work' = IdleWorker
    /\ UNCHANGED <<steady, row, telemetry, files, lastItem, received, late, degraded>>

\* The worker leaves this item and goes on with the batch.
Continue == [work EXCEPT !.step = "next", !.item = 0, !.schema = 0]
Digest == row[work.item].digest
Loadable == Digest = NoImage \/ Digest \in files

\* The receiver keeps the event with the telemetry it has had.
Stored == [received EXCEPT ![work.item] = IF work.schema > @ THEN work.schema ELSE @]

\* The receiver answers 2xx.
SendSucceeds ==
    /\ work.step = "send" /\ Loadable
    /\ received' = Stored
    /\ work' = [work EXCEPT !.step = "complete"]
    /\ UNCHANGED <<steady, row, telemetry, files, lastItem, late, degraded>>

\* Mutant of SendFails: an error answer is taken for a receipt.
SendFailsCompletes ==
    /\ work.step = "send"
    /\ work' = [work EXCEPT !.step = "complete"]
    /\ UNCHANGED <<steady, row, telemetry, files, lastItem, received, late, degraded>>

\* Evidence cannot be loaded, the request fails, or its answer is lost after the
\* receiver stored it; mark_outbox_retry leaves the row pending.
SendFails ==
    /\ work.step = "send"
    /\ \/ UNCHANGED received
       \/ Loadable /\ received' = Stored
    /\ work' = Continue
    /\ UNCHANGED <<steady, row, telemetry, files, lastItem, late, degraded>>

\* complete_outbox_item commits ...
Complete ==
    /\ work.step = "complete"
    /\ row' = [row EXCEPT ![work.item].state = "done"]
    /\ work' = [work EXCEPT !.step = "prune"]
    /\ UNCHANGED <<steady, telemetry, files, lastItem, received, late, degraded>>

\* ... or raises, and the event will be sent again.
CompleteFails ==
    /\ work.step = "complete"
    /\ work' = Continue
    /\ UNCHANGED <<steady, row, telemetry, files, lastItem, received, late, degraded>>

\* Is the digest still pending for another row?  The answer is used a step later.
LookForUsers ==
    /\ work.step = "prune"
    /\ work' = IF Digest = NoImage \/ Digest \in PendingDigests THEN Continue
               ELSE [work EXCEPT !.step = "delete"]
    /\ UNCHANGED <<steady, row, telemetry, files, lastItem, received, late, degraded>>

DeleteEvidence ==
    /\ work.step = "delete"
    /\ files' \in {files, files \ {Digest}}
    /\ work' = Continue
    /\ UNCHANGED <<steady, row, telemetry, lastItem, received, late, degraded>>

\* purge_delivered_telemetry, run hourly: any delivered rows past the cutoff.
Purge ==
    /\ \E old \in SUBSET {e \in telemetry : row[e].state = "done"} :
          old # {} /\ telemetry' = telemetry \ old
    /\ UNCHANGED <<steady, row, files, work, lastItem, received, late, degraded>>
-----------------------------------------------------------------------------
(* Crash and restart *)

\* Interrupted claims become rows, unless their event has one; rows still waiting are released.
Recovered ==
    [e \in Events |->
        CASE row[e].state = "awaiting" -> [row[e] EXCEPT !.state = "ready"]
          [] row[e].state = "none" /\ claimed[e] # NoPayload ->
                [state |-> "ready", digest |-> claimed[e]]
          [] OTHER -> row[e]]

\* Mutants of Kept: cleanup goes by the rows from before the recovery; the digests
\* of the pending rows are kept without asking whether they name a file.
KeptUnfiltered(rows) ==
    {rows[e].digest : e \in {f \in Events : rows[f].state \notin {"none", "done"}}}
KeptRows(rows) ==
    {d \in files : \E e \in Events : row[e].state \notin {"none", "done"} /\ row[e].digest = d}

\* cleanup(pending_evidence_digests()) after the recovery has committed.
Kept(rows) ==
    {d \in files : \E e \in Events : rows[e].state \notin {"none", "done"} /\ rows[e].digest = d}

\* The process dies and starts again: recover_interrupted_actuations, then
\* OutboxWorker's cleanup of the spool, before any other thread runs.
Restart ==
    /\ crashes + Cardinality(lost) < MaxFaults /\ crashes' = crashes + 1
    /\ row' = Recovered /\ files' = Kept(Recovered)
    /\ claimed' = [e \in Events |-> NoPayload]
    /\ prod' = [p \in Producers |-> IdleProducer] /\ work' = IdleWorker /\ lastItem' = 0
    /\ UNCHANGED <<telemetry, received, attached, shared, late, degraded, lost>>

\* The disk loses or corrupts a file.
LoseFile(d) ==
    /\ d \in files /\ crashes + Cardinality(lost) < MaxFaults
    /\ files' = files \ {d} /\ lost' = lost \cup {d}
    /\ UNCHANGED <<row, claimed, telemetry, prod, work, lastItem, received, attached, shared, late,
                   degraded, crashes>>
-----------------------------------------------------------------------------
ProducerStep(p) ==
    \/ \E offer \in Offered[p] : Begin(p, offer[1], offer[2]) \/ Duplicate(p, offer[1], offer[2])
    \/ Stage(p) \/ Abandon(p) \/ Claim(p) \/ Record(p) \/ RecordExisting(p) \/ FinalizeFails(p)
    \/ Attach(p) \/ Release(p)

WorkerStep ==
    \/ Fetch \/ Prepare \/ EndBatch \/ SendSucceeds \/ SendFails \/ Complete \/ CompleteFails
    \/ LookForUsers \/ DeleteEvidence

Next ==
    \/ \E p \in Producers : ProducerStep(p)
    \/ WorkerStep \/ Purge \/ Restart
    \/ \E d \in Digests : LoseFile(d)

Spec == Init /\ [][Next]_vars

\* The worker thread runs on; a receiver that is asked about an event again and
\* again, and a store asked to complete it, do not refuse for ever.
FairSpec ==
    /\ Spec /\ WF_vars(WorkerStep)
    /\ \A e \in Events : SF_vars(SendSucceeds /\ work.item = e)
                         /\ SF_vars(Complete /\ work.item = e)
-----------------------------------------------------------------------------
(* Properties *)

\* An event is only ever marked delivered after the receiver stored it, through
\* lost answers, failed completions, restarts and resends.
DoneMeansReceived == \A e \in Events : row[e].state = "done" => received[e] # 0

\* Telemetry that was attached is not left behind: a delivered event whose trace was
\* attached reached the receiver with it, unless the store could not rewrite the payload
\* or the trace came when the worker had already prepared the payload it delivered.  Such
\* a late trace is only met by an event that two producers recorded; for all others the
\* row waits for it.  No trace is purged while its event is undelivered.
TelemetryTravels ==
    /\ \A e \in attached :
          /\ row[e].state = "done" => received[e] = 3 \/ e \in degraded \/ e \in late
          /\ row[e].state # "done" => e \in telemetry
    /\ late \subseteq shared

\* What the store calls delivered is at the receiver, with its telemetry.
DeliveryAccounted == TypeOK /\ DoneMeansReceived /\ TelemetryTravels

\* "Pending files are never pruned before receiver success": as the documentation
\* states it, every undelivered row that names a file has it (disk faults aside).
EvidenceKept ==
    \A e \in Pending : row[e].digest \in files \cup lost \cup {NoImage}

\* What the code does guarantee: a pending row can only lose its file to the
\* delivery of another event with the very same image.
EvidenceLostOnlyToTwin ==
    \A e \in Pending :
        \/ row[e].digest \in files \cup lost \cup {NoImage}
        \/ \E f \in Events \ {e} : row[f].state = "done" /\ row[f].digest = row[e].digest

\* No starvation: no row stays sendable, with its file readable, for ever,
\* although other rows fail again and again and fill whole batches.
SendableIsDelivered ==
    \A e \in Events : []<>~(/\ row[e].state \in {"ready", "telemetry_ready"}
                           /\ row[e].digest \in files \cup {NoImage})
=============================================================================
