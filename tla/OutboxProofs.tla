---------------------------- MODULE OutboxProofs ----------------------------
(***************************************************************************)
(* Theorems about Outbox, for every set of producers and images, any number *)
(* of events, any batch limit and any number of crashes and disk faults.    *)
(***************************************************************************)
EXTENDS Outbox, FiniteSetTheorems, TLAPS

USE OutboxAssumption
-----------------------------------------------------------------------------
(* The inductive invariant *)

\* A digest is in the spool, was lost by the disk, names nothing, or was delivered with some row.
Safe(d) ==
    \/ d \in files \cup lost \cup {NoImage}
    \/ \E f \in Events : row[f].state = "done" /\ row[f].digest = d

\* The digests that undelivered rows, staged events and claimed actuations rely on.
EvidenceSafe ==
    /\ \A e \in Pending : Safe(row[e].digest)
    /\ \A e \in Events : claimed[e] # NoPayload => Safe(claimed[e])
    /\ \A p \in Producers : At(p, "staged") \/ At(p, "claimed") => Safe(prod[p].digest)

\* A producer about to attach telemetry has a row; unless another producer found the event recorded,
\* it is the only one at that row, which waits for it out of the worker's reach.
RecordedWaits ==
    \A p \in Producers :
        /\ ~At(p, "idle") => prod[p].event \in Events
        /\ At(p, "recorded") =>
              /\ prod[p].event \in Rows
              /\ prod[p].event \notin shared =>
                    /\ row[prod[p].event].state = "awaiting"
                    /\ \A q \in Producers : At(q, "recorded") /\ prod[q].event = prod[p].event
                                            => q = p

\* What the worker holds at each of its steps.
WorkerHolds ==
    /\ work.step # "idle" /\ work.step # "next" => work.item \in Events
    /\ work.step \in {"send", "complete"} =>
          /\ row[work.item].state \in {"ready", "telemetry_ready"}
          /\ work.schema \in {2, 3}
          /\ work.item \in attached => work.schema = 3 \/ work.item \in degraded \cup late
    /\ work.step = "complete" => received[work.item] >= work.schema
    /\ work.step \in {"prune", "delete"} => row[work.item].state = "done"

\* A row whose telemetry was attached waits for nothing else, and what is shared is recorded.
AttachedPromoted ==
    /\ \A e \in attached : row[e].state \in {"telemetry_ready", "done"}
    /\ shared \subseteq Rows

IInv == /\ TypeOK /\ IsFiniteSet(lost)
        /\ EvidenceSafe /\ RecordedWaits /\ WorkerHolds /\ AttachedPromoted
        /\ DoneMeansReceived /\ TelemetryTravels
-----------------------------------------------------------------------------
(* Types *)

RowState == [state : {"none", "awaiting", "ready", "telemetry_ready", "done"}, digest : Image]
ProducerState == [step : {"idle", "deciding", "staged", "claimed", "recorded"}, digest : Image,
                  event : 0 .. MaxEvents]
WorkState == [step : {"idle", "next", "send", "complete", "prune", "delete"},
              batch : SUBSET Events, item : 0 .. MaxEvents, schema : {0, 2, 3}]

\* TypeOK with the record sets named.
Typed ==
    /\ row \in [Events -> RowState] /\ claimed \in [Events -> Image \cup {NoPayload}]
    /\ telemetry \subseteq Events /\ files \subseteq Digests
    /\ prod \in [Producers -> ProducerState] /\ work \in WorkState /\ lastItem \in 0 .. MaxEvents
    /\ received \in [Events -> {0, 2, 3}]
    /\ attached \subseteq Events /\ shared \subseteq Events /\ late \subseteq Events
    /\ degraded \subseteq Events /\ lost \subseteq Digests /\ crashes \in 0 .. MaxFaults

\* TypeOK with its record types named, so that they are expanded only where needed.
LEMMA TypeNamed == TypeOK <=> Typed
  BY DEF TypeOK, Typed, RowState, ProducerState, WorkState

\* The empty row, an idle producer and an idle worker are typed.
LEMMA InitialValues ==
    NoRow \in RowState /\ IdleProducer \in ProducerState /\ IdleWorker \in WorkState
<1>1. NoImage \in Image /\ 0 \in 0 .. MaxEvents
  BY DEF Image
<1>2. QED
  BY <1>1 DEF NoRow, IdleProducer, IdleWorker, RowState, ProducerState, WorkState

\* A producer whose event is committed is a producer.
LEMMA RecordedTyped ==
    ASSUME NEW e \in Events
    PROVE  Recorded(e) \in ProducerState /\ Recorded(e).step = "recorded" /\ Recorded(e).event = e
<1>1. e \in 0 .. MaxEvents /\ NoImage \in Image
  BY DEF Events, Image
<1>2. QED
  BY <1>1 DEF Recorded, ProducerState
-----------------------------------------------------------------------------
(* Producers *)

\* Every step of a producer (process, record_skipped) keeps the inductive invariant.
LEMMA ProducerInv ==
    ASSUME IInv, NEW p \in Producers, ProducerStep(p)
    PROVE  IInv'
<1>a. Typed
  BY TypeNamed DEF IInv
<1>b. /\ EvidenceSafe /\ RecordedWaits /\ WorkerHolds /\ AttachedPromoted /\ DoneMeansReceived
      /\ TelemetryTravels /\ IsFiniteSet(lost)
  BY DEF IInv
<1>c. UNCHANGED <<work, lastItem, received, degraded, lost, crashes>>
  BY DEF ProducerStep, Begin, Duplicate, Stage, Abandon, Claim, Record, RecordExisting,
         FinalizeFails, Attach, Release
<1>d. /\ prod[p] \in ProducerState /\ prod[p].digest \in Image
      /\ ~At(p, "idle") => prod[p].event \in Events
  BY <1>a, <1>b DEF Typed, ProducerState, RecordedWaits
\* Steps that change no row: evidence is staged or claimed, and the producer moves.
<1>e. ASSUME UNCHANGED <<row, telemetry, attached, late>>, files \subseteq files', files' \subseteq Digests,
             shared \subseteq shared', shared' \subseteq Rows,
             claimed' \in [Events -> Image \cup {NoPayload}],
             \A e \in Events : claimed'[e] # claimed[e] => Safe(claimed[e])',
             NEW new \in ProducerState, prod' = [prod EXCEPT ![p] = new],
             new.step \in {"staged", "claimed"} => Safe(new.digest)',
             new.step # "idle" => new.event \in Events,
             new.step = "recorded" => new.event \in shared'
      PROVE  IInv'
  <2>1. \A d : Safe(d) => Safe(d)'
    BY <1>c, <1>e DEF Safe
  <2>2. prod'[p] = new /\ \A q \in Producers \ {p} : prod'[q] = prod[q]
    BY <1>a, <1>e DEF Typed
  <2>3. EvidenceSafe'
    <3>1. \A e \in Events : claimed'[e] # NoPayload => Safe(claimed[e])'
      BY <1>b, <1>e, <2>1 DEF EvidenceSafe
    <3>2. \A q \in Producers : prod'[q].step \in {"staged", "claimed"} => Safe(prod[q].digest)'
      BY <1>b, <1>e, <2>1, <2>2 DEF EvidenceSafe, At
    <3>3. QED
      BY <1>b, <1>e, <2>1, <3>1, <3>2 DEF EvidenceSafe, Pending, Rows, At
  <2>4. RecordedWaits'
    <3>1. shared' = shared' \cap Rows /\ Rows' = Rows
      BY <1>e DEF Rows
    <3>2. ASSUME NEW q \in Producers, prod'[q].step = "recorded", prod'[q].event \notin shared'
          PROVE  q # p /\ prod'[q] = prod[q] /\ prod[q].event \notin shared
      BY <1>e, <2>2, <3>2
    <3>3. \A q \in Producers : prod'[q].step # "idle" => prod'[q].event \in Events
      BY <1>b, <1>e, <2>2 DEF RecordedWaits, At
    <3>4. \A q \in Producers : prod'[q].step = "recorded" => prod'[q].event \in Rows
      BY <1>b, <1>e, <2>2 DEF RecordedWaits, At
    <3>5. QED
      BY <1>b, <1>e, <3>1, <3>2, <3>3, <3>4 DEF RecordedWaits, At
  <2>5. WorkerHolds' /\ AttachedPromoted' /\ DoneMeansReceived' /\ TelemetryTravels'
    BY <1>b, <1>c, <1>e DEF WorkerHolds, AttachedPromoted, DoneMeansReceived, TelemetryTravels, Rows
  <2>6. Typed'
    <3>1. shared' \subseteq Events
      BY <1>e DEF Rows
    <3>2. QED
      BY <1>a, <1>c, <1>e, <3>1 DEF Typed
  <2>7. TypeOK'
    BY <2>6 DEF Typed, TypeOK, RowState, ProducerState, WorkState
  <2>8. QED
    BY <1>b, <1>c, <2>3, <2>4, <2>5, <2>7 DEF IInv
<1>f. shared \subseteq Rows
  BY <1>b DEF AttachedPromoted
<1>g. ASSUME NEW image \in Image
      PROVE  files \subseteq Staged(image) /\ Staged(image) \subseteq Digests
             /\ (image = NoImage \/ image \in Staged(image))
  BY <1>a DEF Typed, Staged, Image
<1>0. ASSUME NEW e \in Events, NEW image \in Image PROVE e \in 0 .. MaxEvents
  BY DEF Events
<1>1. ASSUME NEW e \in Events, NEW image \in Image, Begin(p, e, image) PROVE IInv'
  <2> DEFINE new == [step |-> "deciding", digest |-> image, event |-> e]
  <2>1. new \in ProducerState /\ new.step = "deciding" /\ new.event \in Events
    BY <1>0 DEF ProducerState
  <2>2. prod' = [prod EXCEPT ![p] = new] /\ UNCHANGED <<row, claimed, telemetry, files, attached, shared, late>>
    BY <1>1 DEF Begin
  <2> HIDE DEF new
  <2>3. QED
    BY <1>a, <1>e, <1>f, <2>1, <2>2 DEF Typed
<1>2. ASSUME NEW e \in Events, NEW image \in Image, Duplicate(p, e, image) PROVE IInv'
  <2>1. files' = Staged(image) /\ prod[p].step = "idle"
        /\ UNCHANGED <<row, claimed, telemetry, prod, attached, shared, late>>
    BY <1>2 DEF Duplicate, At
  <2>2. prod' = [prod EXCEPT ![p] = prod[p]]
    BY <1>a, <2>1 DEF Typed
  <2>3. QED
    BY <1>a, <1>d, <1>e, <1>f, <1>g, <2>1, <2>2 DEF Typed
<1>3. CASE Stage(p)
  <2>1. At(p, "deciding") /\ prod[p].event \in Events
    BY <1>3, <1>d DEF Stage, At
  <2>2. PICK new \in ProducerState : /\ prod' = [prod EXCEPT ![p] = new] /\ new.step = "staged"
                                     /\ new.event \in Events /\ new.digest = prod[p].digest
    <3> DEFINE moved == [prod[p] EXCEPT !.step = "staged"]
    <3>1. /\ moved \in ProducerState /\ moved.step = "staged"
          /\ moved.event = prod[p].event /\ moved.digest = prod[p].digest
      BY <1>d DEF ProducerState
    <3>2. prod' = [prod EXCEPT ![p] = moved]
      BY <1>3 DEF Stage
    <3> HIDE DEF moved
    <3>3. QED
      BY <2>1, <3>1, <3>2
  <2>3. files' = Staged(new.digest) /\ UNCHANGED <<row, claimed, telemetry, attached, shared, late>>
    BY <1>3, <2>2 DEF Stage
  <2>4. Safe(new.digest)'
    BY <1>d, <1>g, <2>2, <2>3 DEF Safe
  <2>5. QED
    BY <1>a, <1>d, <1>e, <1>f, <1>g, <2>2, <2>3, <2>4 DEF Typed
<1>4. CASE Abandon(p) \/ FinalizeFails(p)
  <2>1. prod' = [prod EXCEPT ![p] = IdleProducer]
        /\ UNCHANGED <<row, claimed, telemetry, files, attached, shared, late>>
    BY <1>4 DEF Abandon, FinalizeFails
  <2>2. IdleProducer \in ProducerState /\ IdleProducer.step = "idle"
    BY InitialValues DEF IdleProducer
  <2>3. QED
    BY <1>a, <1>e, <1>f, <2>1, <2>2 DEF Typed
<1>5. CASE Claim(p)
  <2>1. At(p, "staged") /\ prod[p].event \in Events
    BY <1>5, <1>d DEF Claim, At
  <2>2. PICK new \in ProducerState : /\ prod' = [prod EXCEPT ![p] = new] /\ new.step = "claimed"
                                     /\ new.event \in Events /\ new.digest = prod[p].digest
    <3> DEFINE moved == [prod[p] EXCEPT !.step = "claimed"]
    <3>1. /\ moved \in ProducerState /\ moved.step = "claimed"
          /\ moved.event = prod[p].event /\ moved.digest = prod[p].digest
      BY <1>d DEF ProducerState
    <3>2. prod' = [prod EXCEPT ![p] = moved]
      BY <1>5 DEF Claim
    <3> HIDE DEF moved
    <3>3. QED
      BY <2>1, <3>1, <3>2
  <2>3. /\ claimed' = [claimed EXCEPT ![prod[p].event] = new.digest]
        /\ UNCHANGED <<row, telemetry, files, attached, shared, late>>
    BY <1>5, <2>2 DEF Claim
  <2>4. Safe(new.digest)'
    <3>1. Safe(new.digest)
      BY <1>b, <2>1, <2>2 DEF EvidenceSafe
    <3>2. QED
      BY <1>c, <2>3, <3>1 DEF Safe
  <2>5. \A f \in Events : claimed'[f] # claimed[f] => claimed'[f] = new.digest
    BY <1>a, <2>1, <2>3 DEF Typed
  <2>6. \A f \in Events : claimed'[f] # claimed[f] => Safe(claimed[f])'
    BY <2>4, <2>5
  <2>7. claimed' \in [Events -> Image \cup {NoPayload}]
    BY <1>a, <1>d, <2>2, <2>3 DEF Typed
  <2>8. QED
    BY <1>a, <1>e, <1>f, <2>2, <2>3, <2>4, <2>6, <2>7 DEF Typed
<1>6. CASE RecordExisting(p)
  <2> DEFINE e == prod[p].event
  <2>1. e \in Rows /\ e \in Events /\ prod' = [prod EXCEPT ![p] = Recorded(e)] /\ shared' = shared \cup {e}
        /\ UNCHANGED <<row, claimed, telemetry, files, attached, late>>
    BY <1>6 DEF RecordExisting, Rows
  <2>2. Recorded(e) \in ProducerState /\ Recorded(e).step = "recorded" /\ Recorded(e).event = e
    BY <1>d, <2>1, RecordedTyped
  <2> HIDE DEF e
  <2>3. QED
    BY <1>a, <1>e, <1>f, <2>1, <2>2 DEF Typed
<1>7. CASE Record(p)
  <2> DEFINE e == prod[p].event
  <2>1. e \in Events /\ row[e].state = "none" /\ e \notin Rows
    BY <1>7, <1>d DEF Record, Rows, At
  <2>2. /\ row' = [row EXCEPT ![e] = NewRow(prod[p].digest)]
        /\ claimed' = IF At(p, "claimed") THEN [claimed EXCEPT ![e] = NoPayload] ELSE claimed
        /\ prod' = [prod EXCEPT ![p] = Recorded(e)]
        /\ UNCHANGED <<telemetry, files, attached, shared, late>> /\ (At(p, "staged") \/ At(p, "claimed"))
    BY <1>7 DEF Record
  <2> HIDE DEF e
  <2>3. NewRow(prod[p].digest) \in RowState /\ NewRow(prod[p].digest).state = "awaiting"
        /\ NewRow(prod[p].digest).digest = prod[p].digest
    BY <1>d DEF NewRow, RowState
  <2>4. Recorded(e) \in ProducerState /\ Recorded(e).step = "recorded" /\ Recorded(e).event = e
    BY <1>d, <2>1, RecordedTyped
  <2>5. claimed' \in [Events -> Image \cup {NoPayload}]
        /\ \A f \in Events : claimed'[f] \in {claimed[f], NoPayload}
    BY <1>a, <2>1, <2>2 DEF Typed
  <2>6. /\ Typed' /\ prod'[p] = Recorded(e)
        /\ row'[e].state = "awaiting" /\ row'[e].digest = prod[p].digest
        /\ \A f \in Events \ {e} : row'[f] = row[f]
        /\ \A q \in Producers \ {p} : prod'[q] = prod[q]
    BY <1>a, <1>c, <2>1, <2>2, <2>3, <2>4, <2>5 DEF Typed
  <2>7. \A d : Safe(d) => Safe(d)'
    BY <1>c, <2>1, <2>2, <2>6 DEF Safe
  <2>8. EvidenceSafe'
    <3>1. Safe(prod[p].digest)
      BY <1>b, <2>2 DEF EvidenceSafe
    <3>2. \A f \in Pending' : Safe(row[f].digest)'
      BY <1>b, <2>1, <2>6, <2>7, <3>1 DEF EvidenceSafe, Pending, Rows
    <3>3. \A f \in Events : claimed'[f] # NoPayload => Safe(claimed[f])'
      BY <1>b, <2>5, <2>7 DEF EvidenceSafe
    <3>4. \A q \in Producers : prod'[q].step \in {"staged", "claimed"} => Safe(prod[q].digest)'
      BY <1>b, <2>4, <2>6, <2>7 DEF EvidenceSafe, At
    <3>5. QED
      BY <3>2, <3>3, <3>4 DEF EvidenceSafe, At
  <2>9. RecordedWaits'
    <3>1. \A q \in Producers \ {p} : At(q, "recorded") => prod[q].event # e
      BY <1>b, <2>1 DEF RecordedWaits
    <3>2. Rows' = Rows \cup {e}
      BY <2>1, <2>6 DEF Rows
    <3>3. \A q \in Producers : prod'[q].step # "idle" => prod'[q].event \in Events
      BY <1>b, <2>1, <2>4, <2>6 DEF RecordedWaits, At
    <3>4. \A q \in Producers : prod'[q].step = "recorded" => prod'[q].event \in Rows'
      BY <1>b, <2>4, <2>6, <3>2 DEF RecordedWaits, At
    <3>5. ASSUME NEW q \in Producers, prod'[q].step = "recorded", prod'[q].event \notin shared
          PROVE  /\ row'[prod'[q].event].state = "awaiting"
                 /\ \A r \in Producers : prod'[r].step = "recorded" /\ prod'[r].event = prod'[q].event => r = q
      <4>1. CASE q = p
        BY <2>4, <2>6, <3>1, <4>1 DEF At
      <4>2. CASE q # p
        BY <1>b, <2>4, <2>6, <3>1, <3>3, <3>5, <4>2 DEF RecordedWaits, At
      <4>3. QED
        BY <4>1, <4>2
    <3>6. QED
      BY <2>2, <3>3, <3>4, <3>5 DEF RecordedWaits, At
  <2>10. WorkerHolds'
    BY <1>b, <1>c, <2>1, <2>2, <2>6 DEF WorkerHolds
  <2>11. AttachedPromoted' /\ DoneMeansReceived' /\ TelemetryTravels'
    BY <1>a, <1>b, <1>c, <2>1, <2>2, <2>6
       DEF AttachedPromoted, DoneMeansReceived, TelemetryTravels, Typed, Rows
  <2>12. TypeOK'
    BY <2>6 DEF Typed, TypeOK, RowState, ProducerState, WorkState
  <2>13. QED
    BY <1>b, <1>c, <2>8, <2>9, <2>10, <2>11, <2>12 DEF IInv
\* Attach and Release: the row may leave its waiting state, and the producer is idle.
<1>8. CASE Attach(p) \/ Release(p)
  <2> DEFINE e == prod[p].event
  <2>1. e \in Events /\ row[e].state # "none" /\ At(p, "recorded")
        /\ (e \notin shared => row[e].state = "awaiting")
    BY <1>8, <1>b, <1>d DEF Attach, Release, RecordedWaits, Rows, At
  <2>2. row[e] \in RowState
    BY <1>a, <2>1 DEF Typed
  <2>3. ASSUME NEW s \in {"ready", "telemetry_ready"}
        PROVE  /\ [row[e] EXCEPT !.state = s] \in RowState
               /\ [row[e] EXCEPT !.state = s].state = s
               /\ [row[e] EXCEPT !.state = s].digest = row[e].digest
    BY <2>2 DEF RowState
  <2>4. \/ UNCHANGED <<row, telemetry, attached, late>>
        \/ /\ row' = [row EXCEPT ![e] = [row[e] EXCEPT !.state = "ready"]]
           /\ row[e].state = "awaiting" /\ UNCHANGED <<telemetry, attached, late>>
        \/ /\ row' = row \/ row' = [row EXCEPT ![e] = [row[e] EXCEPT !.state = "telemetry_ready"]]
           /\ row[e].state # "done" => row' = [row EXCEPT ![e] = [row[e] EXCEPT !.state = "telemetry_ready"]]
           /\ row[e].state = "done" => row' = row
           /\ telemetry' = telemetry \cup {e} /\ attached' = attached \cup {e}
           /\ late' = IF Sending(e) \/ row[e].state = "done" THEN late \cup {e} ELSE late
    <3>1. CASE Attach(p) /\ row[e].state = "done"
      <4>1. row' = [row EXCEPT ![e] = [row[e] EXCEPT !.state = row[e].state]]
        BY <3>1 DEF Attach
      <4>2. [row[e] EXCEPT !.state = row[e].state] = row[e]
        BY <2>2 DEF RowState
      <4>3. row' = row
        BY <1>a, <4>1, <4>2 DEF Typed
      <4>4. QED
        BY <3>1, <4>3 DEF Attach
    <3>2. CASE Attach(p) /\ row[e].state # "done"
      BY <3>2 DEF Attach
    <3>3. CASE Release(p) /\ row[e].state = "awaiting"
      BY <3>3 DEF Release
    <3>4. CASE Release(p) /\ row[e].state # "awaiting"
      <4>1. row' = row \/ row' = [row EXCEPT ![e] = [row[e] EXCEPT !.state = row[e].state]]
        BY <3>4 DEF Release
      <4>2. [row[e] EXCEPT !.state = row[e].state] = row[e]
        BY <2>2 DEF RowState
      <4>3. row' = row
        BY <1>a, <4>1, <4>2 DEF Typed
      <4>4. QED
        BY <3>4, <4>3 DEF Release
    <3>5. QED
      BY <1>8, <3>1, <3>2, <3>3, <3>4
  <2>5. prod' = [prod EXCEPT ![p] = IdleProducer] /\ UNCHANGED <<claimed, files, shared>>
    BY <1>8 DEF Attach, Release
  <2>6. Sending(e) => row[e].state \in {"ready", "telemetry_ready"}
    BY <1>b DEF WorkerHolds, Sending
  <2> HIDE DEF e
  <2>7. /\ row' \in [Events -> RowState] /\ \A f \in Events \ {e} : row'[f] = row[f]
        /\ row'[e].digest = row[e].digest /\ row'[e].state # "none"
        /\ row[e].state = "done" <=> row'[e].state = "done"
        /\ row[e].state \in {"ready", "telemetry_ready"} => row'[e].state \in {"ready", "telemetry_ready"}
        /\ telemetry' \subseteq Events /\ attached' \subseteq Events /\ late' \subseteq Events
    <3>1. CASE row' = row
      BY <1>a, <2>1, <2>4, <3>1 DEF Typed
    <3>2. ASSUME NEW s \in {"ready", "telemetry_ready"},
                 row' = [row EXCEPT ![e] = [row[e] EXCEPT !.state = s]]
          PROVE  /\ row' \in [Events -> RowState] /\ \A f \in Events \ {e} : row'[f] = row[f]
                 /\ row'[e].digest = row[e].digest /\ row'[e].state = s
      BY <1>a, <2>1, <2>3, <3>2 DEF Typed
    <3>3. telemetry' \subseteq Events /\ attached' \subseteq Events /\ late' \subseteq Events
      BY <1>a, <2>1, <2>4 DEF Typed
    <3>4. CASE row' = [row EXCEPT ![e] = [row[e] EXCEPT !.state = "ready"]] /\ row' # row
      <4>1. row[e].state # "done"
        BY <2>1, <2>4, <3>4
      <4>2. QED
        BY <3>2, <3>3, <3>4, <4>1
    <3>5. CASE row' = [row EXCEPT ![e] = [row[e] EXCEPT !.state = "telemetry_ready"]] /\ row' # row
      <4>1. row[e].state # "done"
        BY <2>1, <2>4, <3>5
      <4>2. QED
        BY <3>2, <3>3, <3>5, <4>1
    <3>6. QED
      BY <2>4, <3>1, <3>4, <3>5
  <2>8. \/ /\ UNCHANGED <<telemetry, attached, late>>
           /\ row'[e].state = row[e].state \/ row[e].state = "awaiting"
        \/ /\ row'[e].state \in {"telemetry_ready", "done"}
           /\ telemetry' = telemetry \cup {e} /\ attached' = attached \cup {e}
           /\ late' = IF Sending(e) \/ row[e].state = "done" THEN late \cup {e} ELSE late
    BY <1>a, <2>1, <2>3, <2>4 DEF Typed
  <2>9. Typed' /\ prod'[p].step = "idle" /\ \A q \in Producers \ {p} : prod'[q] = prod[q]
    BY <1>a, <1>c, <2>5, <2>7, InitialValues DEF Typed, IdleProducer
  <2>10. \A d : Safe(d) => Safe(d)'
    BY <1>c, <2>1, <2>5, <2>7 DEF Safe
  <2>11. EvidenceSafe'
    BY <1>b, <2>1, <2>5, <2>7, <2>9, <2>10 DEF EvidenceSafe, Pending, Rows, At
  <2>12. RecordedWaits'
    <3>1. ASSUME NEW q \in Producers, prod'[q].step = "recorded", prod'[q].event \notin shared
          PROVE  q # p /\ prod[q].event # e
      BY <1>b, <2>1, <2>9, <3>1 DEF RecordedWaits, At, e
    <3>2. Rows' = Rows
      BY <2>1, <2>7 DEF Rows
    <3>3. \A q \in Producers : /\ prod'[q].step # "idle" => prod'[q].event \in Events
                               /\ prod'[q].step = "recorded" => prod'[q].event \in Rows
      BY <1>b, <2>9 DEF RecordedWaits, At
    <3>4. QED
      BY <1>b, <2>5, <2>7, <2>9, <3>1, <3>2, <3>3 DEF RecordedWaits, At
  <2>13. WorkerHolds'
    <3>1. CASE work.step \in {"send", "complete"} /\ work.item = e
      <4>1. Sending(e)
        BY <3>1 DEF Sending
      <4>2. e \in attached' => e \in attached \/ e \in late'
        BY <2>8, <4>1
      <4>3. late \subseteq late'
        BY <2>8
      <4>4. QED
        BY <1>b, <1>c, <2>1, <2>6, <2>7, <3>1, <4>1, <4>2, <4>3 DEF WorkerHolds
    <3>2. CASE ~(work.step \in {"send", "complete"} /\ work.item = e)
      <4>1. late \subseteq late' /\ (work.step \in {"send", "complete"} /\ work.item \in attached' => work.item \in attached)
        BY <2>8, <3>2
      <4>2. QED
        BY <1>b, <1>c, <2>7, <3>2, <4>1 DEF WorkerHolds
    <3>3. QED
      BY <3>1, <3>2
  <2>14. AttachedPromoted'
    BY <1>a, <1>b, <2>1, <2>5, <2>7, <2>8 DEF AttachedPromoted, Rows, Typed
  <2>15. DoneMeansReceived'
    BY <1>b, <1>c, <2>7 DEF DoneMeansReceived
  <2>16. TelemetryTravels'
    <3>1. late' \subseteq shared'
      BY <1>b, <2>1, <2>5, <2>6, <2>8 DEF TelemetryTravels
    <3>2. ASSUME NEW f \in attached', f # e
          PROVE  /\ row'[f].state = "done" => received'[f] = 3 \/ f \in degraded' \/ f \in late'
                 /\ row'[f].state # "done" => f \in telemetry'
      BY <1>a, <1>b, <1>c, <2>7, <2>8, <3>2 DEF TelemetryTravels, Typed
    <3>3. ASSUME e \in attached'
          PROVE  /\ row'[e].state = "done" => received'[e] = 3 \/ e \in degraded' \/ e \in late'
                 /\ row'[e].state # "done" => e \in telemetry'
      BY <1>a, <1>b, <1>c, <2>7, <2>8, <3>3 DEF TelemetryTravels, Typed
    <3>4. QED
      BY <3>1, <3>2, <3>3 DEF TelemetryTravels
  <2>17. TypeOK'
    BY <2>9 DEF Typed, TypeOK, RowState, ProducerState, WorkState
  <2>18. QED
    BY <1>b, <1>c, <2>11, <2>12, <2>13, <2>14, <2>15, <2>16, <2>17 DEF IInv
<1>9. QED
  <2>1. \A offer \in Offered[p] : offer[1] \in Events /\ offer[2] \in Image
    OBVIOUS
  <2>2. CASE \E offer \in Offered[p] : Begin(p, offer[1], offer[2]) \/ Duplicate(p, offer[1], offer[2])
    BY <1>1, <1>2, <2>1, <2>2
  <2>3. QED
    BY <1>3, <1>4, <1>5, <1>6, <1>7, <1>8, <2>2 DEF ProducerStep
-----------------------------------------------------------------------------
(* The worker *)

\* The worker's locals after each of its moves.
LEMMA WorkerMoves ==
    ASSUME work \in WorkState
    PROVE  /\ Continue \in WorkState /\ Continue.step = "next"
           /\ \A s \in {"complete", "prune", "delete"} :
                 /\ [work EXCEPT !.step = s] \in WorkState /\ [work EXCEPT !.step = s].step = s
                 /\ [work EXCEPT !.step = s].item = work.item
                 /\ [work EXCEPT !.step = s].schema = work.schema
<1>1. Continue \in WorkState /\ Continue.step = "next"
  <2>1. ASSUME NEW w \in WorkState, NEW i \in 0 .. MaxEvents, NEW n \in {0, 2, 3}
        PROVE  /\ [w EXCEPT !.step = "next", !.item = i, !.schema = n] \in WorkState
               /\ [w EXCEPT !.step = "next", !.item = i, !.schema = n].step = "next"
    BY DEF WorkState
  <2>2. 0 \in 0 .. MaxEvents
    OBVIOUS
  <2>3. QED
    BY <2>1, <2>2 DEF Continue
<1>2. ASSUME NEW s \in {"complete", "prune", "delete"}
      PROVE  /\ [work EXCEPT !.step = s] \in WorkState /\ [work EXCEPT !.step = s].step = s
             /\ [work EXCEPT !.step = s].item = work.item
             /\ [work EXCEPT !.step = s].schema = work.schema
  BY DEF WorkState
<1>3. QED
  BY <1>1, <1>2

\* Every step of the delivery worker (run_once) keeps the inductive invariant.
LEMMA WorkerInv ==
    ASSUME IInv, WorkerStep
    PROVE  IInv'
<1>a. Typed
  BY TypeNamed DEF IInv
<1>b. /\ EvidenceSafe /\ RecordedWaits /\ WorkerHolds /\ AttachedPromoted /\ DoneMeansReceived
      /\ TelemetryTravels /\ IsFiniteSet(lost)
  BY DEF IInv
<1>c. UNCHANGED <<claimed, prod, attached, shared, lost, crashes, telemetry>>
  BY DEF WorkerStep, Fetch, Prepare, EndBatch, SendSucceeds, SendFails, Complete, CompleteFails,
         LookForUsers, DeleteEvidence, steady
<1>d. work \in WorkState /\ work.item \in 0 .. MaxEvents /\ work.schema \in {0, 2, 3}
      /\ work.batch \subseteq Events
  BY <1>a DEF Typed, WorkState
\* Steps that change no row: the worker's own state, what was received, and files of delivered rows.
<1>e. ASSUME UNCHANGED row, work' \in WorkState, lastItem' \in 0 .. MaxEvents,
             received' \in [Events -> {0, 2, 3}], degraded' \subseteq Events, late' \subseteq late,
             \A f \in Events : received'[f] >= received[f],
             \A f \in degraded \ degraded' : row[f].state # "done",
             \A f \in late \ late' : row[f].state # "done",
             files' \subseteq files,
             \A d \in files \ files' : \E f \in Events : row[f].state = "done" /\ row[f].digest = d,
             WorkerHolds'
      PROVE  IInv'
  <2>1. \A d : Safe(d) => Safe(d)'
    BY <1>c, <1>e DEF Safe
  <2>2. EvidenceSafe' /\ RecordedWaits' /\ AttachedPromoted'
    BY <1>b, <1>c, <1>e, <2>1 DEF EvidenceSafe, RecordedWaits, AttachedPromoted, Pending, Rows, At
  <2>3. DoneMeansReceived' /\ TelemetryTravels'
    <3>1. \A f \in Events :
             /\ received[f] # 0 => received'[f] # 0
             /\ received[f] = 3 => received'[f] = 3
      BY <1>a, <1>e DEF Typed
    <3>2. QED
      BY <1>a, <1>b, <1>c, <1>e, <3>1 DEF DoneMeansReceived, TelemetryTravels, Typed
  <2>4. Typed'
    BY <1>a, <1>c, <1>e DEF Typed
  <2>5. TypeOK'
    BY <2>4 DEF Typed, TypeOK, RowState, ProducerState, WorkState
  <2>6. QED
    BY <1>b, <1>c, <1>e, <2>2, <2>3, <2>5 DEF IInv
\* The worker goes on with its batch, or waits for the next.
<1>f. ASSUME UNCHANGED <<row, late, degraded>>, work' \in WorkState, work'.step \in {"idle", "next"},
             lastItem' \in 0 .. MaxEvents,
             received' \in [Events -> {0, 2, 3}], \A f \in Events : received'[f] >= received[f],
             files' \subseteq files,
             \A d \in files \ files' : \E f \in Events : row[f].state = "done" /\ row[f].digest = d
      PROVE  IInv'
  <2>1. WorkerHolds'
    BY <1>f DEF WorkerHolds
  <2>2. QED
    BY <1>a, <1>e, <1>f, <2>1 DEF Typed
<1>g. ASSUME work.item \in Events, work.schema \in {2, 3}, received' = Stored
      PROVE  /\ received' \in [Events -> {0, 2, 3}] /\ received'[work.item] >= work.schema
             /\ \A f \in Events : received'[f] >= received[f]
  BY <1>a, <1>g DEF Typed, Stored
<1>h. \A f \in Events : received[f] \in {0, 2, 3} /\ received[f] >= received[f]
  BY <1>a DEF Typed
<1>1. CASE Fetch
  <2>1. PICK b \in SUBSET Events : work' = [work EXCEPT !.step = "next", !.batch = b]
    BY <1>1 DEF Fetch, Sendable, Rows
  <2>2. work' \in WorkState /\ work'.step = "next"
    BY <1>d, <2>1 DEF WorkState
  <2>3. QED
    BY <1>1, <1>a, <1>f, <2>2 DEF Fetch, Typed
<1>2. CASE Prepare
  <2>1. PICK i \in work.batch :
          /\ lastItem' = i
          /\ IF i \notin Sendable
             THEN work' = [work EXCEPT !.batch = @ \ {i}] /\ UNCHANGED <<late, degraded>>
             ELSE \E schema \in IF i \in telemetry THEN {2, 3} ELSE {2} :
                  /\ work' = [step |-> "send", batch |-> work.batch \ {i}, item |-> i,
                              schema |-> schema]
                  /\ late' = late \ {i}
                  /\ degraded' = IF i \in telemetry /\ schema = 2
                                 THEN degraded \cup {i} ELSE degraded \ {i}
    BY <1>2 DEF Prepare
  <2>2. i \in Events /\ i \in 0 .. MaxEvents /\ UNCHANGED <<row, files, received>> /\ work.step = "next"
    BY <1>2, <1>d DEF Prepare, Events
  <2>3. CASE i \notin Sendable
    <3>1. work' = [work EXCEPT !.batch = work.batch \ {i}]
      BY <2>1, <2>3
    <3>2. work' \in WorkState /\ work'.step = "next"
      BY <1>d, <2>2, <3>1 DEF WorkState
    <3>3. QED
      BY <1>a, <1>f, <2>1, <2>2, <2>3, <3>2 DEF Typed
  <2>4. CASE i \in Sendable
    <3>1. PICK schema \in {2, 3} :
            /\ i \notin telemetry => schema = 2
            /\ work' = [step |-> "send", batch |-> work.batch \ {i}, item |-> i, schema |-> schema]
            /\ late' = late \ {i}
            /\ degraded' = IF i \in telemetry /\ schema = 2 THEN degraded \cup {i} ELSE degraded \ {i}
      BY <2>1, <2>4
    <3>2. work' \in WorkState
      BY <1>d, <2>2, <3>1 DEF WorkState
    <3>3. row[i].state \in {"ready", "telemetry_ready"}
      BY <2>4 DEF Sendable
    <3>4. i \in attached => i \in telemetry
      BY <1>b, <3>3 DEF TelemetryTravels
    <3>5. WorkerHolds'
      BY <1>c, <2>2, <3>1, <3>3, <3>4 DEF WorkerHolds
    <3>6. /\ degraded' \subseteq Events /\ late' \subseteq late
          /\ \A f \in degraded \ degraded' : row[f].state # "done"
          /\ \A f \in late \ late' : row[f].state # "done"
      BY <1>a, <2>2, <3>1, <3>3 DEF Typed
    <3>7. QED
      BY <1>a, <1>e, <1>h, <2>1, <2>2, <3>2, <3>5, <3>6 DEF Typed
  <2>5. QED
    BY <2>3, <2>4
<1>3. CASE EndBatch
  BY <1>3, <1>a, <1>f, InitialValues DEF EndBatch, Typed, IdleWorker
<1>4. CASE SendSucceeds
  <2>1. /\ work.item \in Events /\ work.schema \in {2, 3}
        /\ received' = Stored
        /\ work' = [work EXCEPT !.step = "complete"] /\ UNCHANGED <<row, files, lastItem, late, degraded>>
    BY <1>4, <1>b DEF SendSucceeds, WorkerHolds
  <2>2. /\ work' \in WorkState /\ work'.step = "complete" /\ work'.item = work.item
        /\ work'.schema = work.schema
    BY <1>d, <2>1, WorkerMoves
  <2>3. WorkerHolds'
    BY <1>4, <1>b, <1>c, <1>g, <2>1, <2>2 DEF WorkerHolds, SendSucceeds
  <2>4. QED
    BY <1>a, <1>e, <1>g, <2>1, <2>2, <2>3 DEF Typed
<1>5. CASE SendFails
  <2>1. /\ work.item \in Events /\ work.schema \in {2, 3} /\ work' = Continue
        /\ received' = received \/ received' = Stored
        /\ UNCHANGED <<row, files, lastItem, late, degraded>>
    BY <1>5, <1>b DEF SendFails, WorkerHolds
  <2>2. received' \in [Events -> {0, 2, 3}] /\ \A f \in Events : received'[f] >= received[f]
    BY <1>a, <1>g, <2>1 DEF Typed
  <2>3. QED
    BY <1>a, <1>d, <1>f, <2>1, <2>2, WorkerMoves DEF Typed
<1>6. CASE Complete
  <2> DEFINE e == work.item
  <2>1. /\ e \in Events /\ row[e].state \in {"ready", "telemetry_ready"} /\ work.schema \in {2, 3}
        /\ received[e] >= work.schema /\ (e \in attached => work.schema = 3 \/ e \in degraded \cup late)
    BY <1>6, <1>b DEF Complete, WorkerHolds
  <2>2. /\ row' = [row EXCEPT ![e] = [row[e] EXCEPT !.state = "done"]]
        /\ work' = [work EXCEPT !.step = "prune"]
        /\ UNCHANGED <<files, lastItem, received, late, degraded>>
    BY <1>6 DEF Complete
  <2>3. /\ work' \in WorkState /\ work'.step = "prune" /\ work'.item = e
    BY <1>d, <2>2, WorkerMoves
  <2> HIDE DEF e
  <2>4. /\ [row[e] EXCEPT !.state = "done"] \in RowState
        /\ [row[e] EXCEPT !.state = "done"].state = "done"
        /\ [row[e] EXCEPT !.state = "done"].digest = row[e].digest
    BY <1>a, <2>1 DEF Typed, RowState
  <2>5. /\ row' \in [Events -> RowState] /\ row'[e].state = "done" /\ row'[e].digest = row[e].digest
        /\ \A f \in Events \ {e} : row'[f] = row[f]
    BY <1>a, <2>1, <2>2, <2>4 DEF Typed
  <2>6. \A d : Safe(d) => Safe(d)'
    BY <1>c, <2>1, <2>2, <2>5 DEF Safe
  <2>7. EvidenceSafe'
    BY <1>b, <1>c, <2>5, <2>6 DEF EvidenceSafe, Pending, Rows, At
  <2>8. RecordedWaits'
    <3>1. Rows' = Rows
      BY <2>1, <2>5 DEF Rows
    <3>2. ASSUME NEW q \in Producers, At(q, "recorded"), prod[q].event \notin shared
          PROVE  prod[q].event \in Events \ {e}
      BY <1>b, <2>1, <3>2 DEF RecordedWaits, At
    <3>3. QED
      BY <1>b, <1>c, <2>5, <3>1, <3>2 DEF RecordedWaits, At
  <2>9. WorkerHolds'
    BY <2>1, <2>3, <2>5 DEF WorkerHolds
  <2>10. AttachedPromoted' /\ DoneMeansReceived' /\ TelemetryTravels'
    <3>1. Rows' = Rows
      BY <2>1, <2>5 DEF Rows
    <3>2. received[e] # 0 /\ (work.schema = 3 => received[e] = 3)
      BY <1>a, <2>1 DEF Typed
    <3>3. AttachedPromoted' /\ DoneMeansReceived'
      BY <1>a, <1>b, <1>c, <2>1, <2>2, <2>5, <3>1, <3>2 DEF AttachedPromoted, DoneMeansReceived, Typed
    <3>4. TelemetryTravels'
      BY <1>a, <1>b, <1>c, <2>1, <2>2, <2>5, <3>2 DEF TelemetryTravels, Typed
    <3>5. QED
      BY <3>3, <3>4
  <2>11. Typed'
    BY <1>a, <1>c, <2>2, <2>3, <2>5 DEF Typed
  <2>12. TypeOK'
    BY <2>11 DEF Typed, TypeOK, RowState, ProducerState, WorkState
  <2>13. QED
    BY <1>b, <1>c, <2>7, <2>8, <2>9, <2>10, <2>12 DEF IInv
<1>7. CASE CompleteFails
  BY <1>7, <1>a, <1>d, <1>f, WorkerMoves DEF CompleteFails, Typed
<1>8. CASE LookForUsers
  <2>1. UNCHANGED <<row, files, lastItem, received, late, degraded>> /\ work.step = "prune"
    BY <1>8 DEF LookForUsers
  <2>2. CASE work' = Continue
    BY <1>a, <1>d, <1>f, <2>1, <2>2, WorkerMoves DEF Typed
  <2>3. CASE work' = [work EXCEPT !.step = "delete"]
    <3>1. work' \in WorkState /\ work'.step = "delete" /\ work'.item = work.item
      BY <1>d, <2>3, WorkerMoves
    <3>2. WorkerHolds'
      BY <1>b, <2>1, <3>1 DEF WorkerHolds
    <3>3. QED
      BY <1>a, <1>e, <2>1, <3>1, <3>2 DEF Typed
  <2>4. QED
    BY <1>8, <2>2, <2>3 DEF LookForUsers
<1>9. CASE DeleteEvidence
  <2>1. /\ work.item \in Events /\ row[work.item].state = "done" /\ work' = Continue
        /\ files' \in {files, files \ {row[work.item].digest}}
        /\ UNCHANGED <<row, lastItem, received, late, degraded>>
    BY <1>9, <1>b DEF DeleteEvidence, WorkerHolds, Digest
  <2>2. /\ files' \subseteq files
        /\ \A d \in files \ files' : \E f \in Events : row[f].state = "done" /\ row[f].digest = d
    BY <2>1
  <2>3. QED
    BY <1>a, <1>d, <1>f, <2>1, <2>2, WorkerMoves DEF Typed
<1>10. QED
  BY <1>1, <1>2, <1>3, <1>4, <1>5, <1>6, <1>7, <1>8, <1>9 DEF WorkerStep
-----------------------------------------------------------------------------
(* Faults, and the theorems *)

\* Recovery turns claims into rows, releases waiting rows and prunes the spool by what it left.
LEMMA RestartInv ==
    ASSUME IInv, Restart
    PROVE  IInv'
<1>a. Typed
  BY TypeNamed DEF IInv
<1>b. /\ EvidenceSafe /\ AttachedPromoted /\ DoneMeansReceived /\ TelemetryTravels /\ IsFiniteSet(lost)
  BY DEF IInv
<1>c. /\ claimed' = [e \in Events |-> NoPayload] /\ prod' = [p \in Producers |-> IdleProducer]
      /\ work' = IdleWorker /\ lastItem' = 0
      /\ UNCHANGED <<telemetry, received, attached, shared, late, degraded, lost>>
  BY DEF Restart
<1>d. row' = Recovered /\ files' = Kept(Recovered)
  BY DEF Restart
<1>e. crashes' \in 0 .. MaxFaults
  <2>1. Cardinality(lost) \in Nat
    BY <1>b, FS_CardinalityType
  <2>2. QED
    BY <1>a, <2>1 DEF Restart, Typed
\* What becomes of a row.
<1>f. ASSUME NEW e \in Events
      PROVE  /\ row'[e] \in RowState
             /\ \/ row[e].state = "awaiting" /\ row'[e].state = "ready" /\ row'[e].digest = row[e].digest
                \/ /\ row[e].state = "none" /\ row'[e].state = "ready"
                   /\ claimed[e] # NoPayload /\ row'[e].digest = claimed[e]
                \/ row[e].state # "awaiting" /\ row'[e] = row[e]
  <2>0. row[e] \in RowState
    BY <1>a DEF Typed
  <2>1. CASE row[e].state = "awaiting"
    <3>1. row'[e] = [row[e] EXCEPT !.state = "ready"]
      BY <1>d, <2>1 DEF Recovered
    <3>2. row'[e] \in RowState /\ row'[e].state = "ready" /\ row'[e].digest = row[e].digest
      BY <2>0, <3>1 DEF RowState
    <3>3. QED
      BY <2>1, <3>2
  <2>2. CASE row[e].state = "none" /\ claimed[e] # NoPayload
    <3>1. row'[e] = [state |-> "ready", digest |-> claimed[e]]
      BY <1>d, <2>2 DEF Recovered
    <3>2. claimed[e] \in Image
      BY <1>a, <2>2 DEF Typed
    <3>3. QED
      BY <2>2, <3>1, <3>2 DEF RowState
  <2>3. CASE row[e].state # "awaiting" /\ ~(row[e].state = "none" /\ claimed[e] # NoPayload)
    <3>1. row'[e] = row[e]
      BY <1>d, <2>3 DEF Recovered
    <3>2. QED
      BY <2>0, <2>3, <3>1
  <2>4. QED
    BY <2>1, <2>2, <2>3
<1>g. row' \in [Events -> RowState]
  <2>1. row' = [e \in Events |-> row'[e]]
    BY <1>d DEF Recovered
  <2>2. QED
    BY <1>f, <2>1
<1>h. files' = {d \in files : \E e \in Events : row'[e].state \notin {"none", "done"} /\ row'[e].digest = d}
  BY <1>d DEF Kept
<1>1. TypeOK'
  <2>1. files' \subseteq Digests
    BY <1>a, <1>h DEF Typed
  <2>2. Typed'
    BY <1>a, <1>c, <1>e, <1>g, <2>1, InitialValues DEF Typed
  <2>3. QED
    BY <2>2 DEF Typed, TypeOK, RowState, ProducerState, WorkState
<1>2. EvidenceSafe'
  <2>1. ASSUME NEW e \in Events, row'[e].state \notin {"none", "done"}
        PROVE  Safe(row[e].digest)'
    <3>1. Safe(row'[e].digest)
      BY <1>b, <1>f, <2>1 DEF EvidenceSafe, Pending, Rows
    <3>2. ASSUME NEW f \in Events, row[f].state = "done" PROVE row'[f] = row[f]
      BY <1>f, <3>2
    <3>3. row'[e].digest \in files => row'[e].digest \in files'
      BY <1>h, <2>1
    <3>4. QED
      BY <1>c, <3>1, <3>2, <3>3 DEF Safe
  <2>2. (\A p \in Producers : prod'[p].step = "idle") /\ \A e \in Events : claimed'[e] = NoPayload
    BY <1>c DEF IdleProducer
  <2>3. QED
    BY <2>1, <2>2 DEF EvidenceSafe, Pending, Rows, At
<1>3. RecordedWaits' /\ WorkerHolds'
  <2>1. work'.step = "idle" /\ \A p \in Producers : prod'[p].step = "idle"
    BY <1>c DEF IdleWorker, IdleProducer
  <2>2. QED
    BY <2>1 DEF RecordedWaits, WorkerHolds, At
<1>4. AttachedPromoted' /\ DoneMeansReceived' /\ TelemetryTravels'
  <2>1. \A e \in attached : row'[e] = row[e]
    BY <1>a, <1>b, <1>f DEF AttachedPromoted, Typed
  <2>2. \A e \in Events : row'[e].state = "done" => row[e].state = "done"
    BY <1>f
  <2>3. Rows \subseteq Rows'
    BY <1>f DEF Rows
  <2>4. QED
    BY <1>b, <1>c, <2>1, <2>2, <2>3 DEF AttachedPromoted, DoneMeansReceived, TelemetryTravels
<1>5. QED
  BY <1>1, <1>2, <1>3, <1>4, <1>b, <1>c DEF IInv

\* The hourly purge takes delivered rows' telemetry only, and what the disk loses is accounted lost.
LEMMA EnvironmentInv ==
    ASSUME IInv, Purge \/ \E d \in Digests : LoseFile(d)
    PROVE  IInv'
<1>a. Typed
  BY TypeNamed DEF IInv
<1>b. /\ EvidenceSafe /\ RecordedWaits /\ WorkerHolds /\ AttachedPromoted /\ DoneMeansReceived
      /\ TelemetryTravels /\ IsFiniteSet(lost)
  BY DEF IInv
<1>c. UNCHANGED <<row, claimed, prod, work, lastItem, received, attached, shared, late, degraded, crashes>>
  BY DEF Purge, LoseFile, steady
<1>d. RecordedWaits' /\ WorkerHolds' /\ AttachedPromoted' /\ DoneMeansReceived'
  BY <1>b, <1>c DEF RecordedWaits, WorkerHolds, AttachedPromoted, DoneMeansReceived, Rows, At
<1>1. CASE Purge
  <2>1. UNCHANGED <<files, lost>> /\ telemetry' \subseteq telemetry
        /\ \A e \in telemetry \ telemetry' : row[e].state = "done"
    BY <1>1 DEF Purge, steady
  <2>2. TelemetryTravels' /\ EvidenceSafe'
    BY <1>b, <1>c, <2>1 DEF TelemetryTravels, EvidenceSafe, Safe, Pending, Rows, At
  <2>3. Typed'
    BY <1>a, <1>c, <2>1 DEF Typed
  <2>4. TypeOK'
    BY <2>3 DEF Typed, TypeOK, RowState, ProducerState, WorkState
  <2>5. QED
    BY <1>b, <1>d, <2>1, <2>2, <2>4 DEF IInv
<1>2. ASSUME NEW d \in Digests, LoseFile(d) PROVE IInv'
  <2>1. files' = files \ {d} /\ lost' = lost \cup {d} /\ UNCHANGED telemetry
    BY <1>2 DEF LoseFile
  <2>2. \A x : Safe(x) => Safe(x)'
    BY <1>c, <2>1 DEF Safe
  <2>3. TelemetryTravels' /\ EvidenceSafe'
    BY <1>b, <1>c, <2>1, <2>2 DEF TelemetryTravels, EvidenceSafe, Pending, Rows, At
  <2>4. Typed'
    BY <1>a, <1>c, <2>1 DEF Typed
  <2>5. TypeOK'
    BY <2>4 DEF Typed, TypeOK, RowState, ProducerState, WorkState
  <2>6. IsFiniteSet(lost')
    BY <1>b, <2>1, FS_AddElement
  <2>7. QED
    BY <1>d, <2>3, <2>5, <2>6 DEF IInv
<1>3. QED
  BY <1>1, <1>2

\* The inductive invariant holds in every reachable state.
LEMMA InvHolds == Spec => []IInv
<1>1. Init => IInv
  <2> SUFFICES ASSUME Init PROVE IInv
    OBVIOUS
  <2>1. Typed
    BY InitialValues DEF Init, Typed
  <2>2. \A e \in Events : row[e].state = "none"
    BY DEF Init, NoRow
  <2>3. (\A p \in Producers : prod[p].step = "idle") /\ \A e \in Events : claimed[e] = NoPayload
    BY DEF Init, IdleProducer
  <2>4. work.step = "idle" /\ attached = {} /\ shared = {} /\ late = {} /\ lost = {}
    BY DEF Init, IdleWorker
  <2>5. EvidenceSafe /\ RecordedWaits /\ WorkerHolds /\ AttachedPromoted /\ DoneMeansReceived
        /\ TelemetryTravels
    BY <2>2, <2>3, <2>4 DEF EvidenceSafe, RecordedWaits, WorkerHolds, AttachedPromoted,
       DoneMeansReceived, TelemetryTravels, Pending, Rows, At
  <2>6. QED
    BY <2>1, <2>4, <2>5, TypeNamed, FS_EmptySet DEF IInv
<1>2. IInv /\ [Next]_vars => IInv'
  <2> SUFFICES ASSUME IInv, [Next]_vars PROVE IInv'
    OBVIOUS
  <2>1. CASE UNCHANGED vars
    BY <2>1 DEF vars, IInv, TypeOK, EvidenceSafe, Safe, RecordedWaits, WorkerHolds, AttachedPromoted,
                DoneMeansReceived, TelemetryTravels, Pending, Rows, At
  <2>2. QED
    BY <2>1, ProducerInv, WorkerInv, RestartInv, EnvironmentInv DEF Next
<1>3. QED
  BY <1>1, <1>2, PTL DEF Spec

\* DeliveryAccounted: what the store calls delivered is at the receiver, with its telemetry unless the
\* payload could not be rewritten or the trace of a second producer came after it was prepared,
\* through lost answers, failed completions, restarts and resends.
THEOREM DeliveredIsReceived == Spec => []DeliveryAccounted
<1>1. IInv => DeliveryAccounted
  BY DEF IInv, DeliveryAccounted
<1>2. QED
  BY <1>1, InvHolds, PTL

\* EvidenceLostOnlyToTwin: the spool loses a pending row's file only to the delivery of another
\* event with the very same image.
THEOREM EvidenceAccounted == Spec => []EvidenceLostOnlyToTwin
<1>1. IInv => EvidenceLostOnlyToTwin
  <2> SUFFICES ASSUME IInv, NEW e \in Pending
               PROVE  \/ row[e].digest \in files \cup lost \cup {NoImage}
                      \/ \E f \in Events \ {e} : row[f].state = "done" /\ row[f].digest = row[e].digest
    BY DEF EvidenceLostOnlyToTwin
  <2>1. Safe(row[e].digest) /\ row[e].state # "done"
    BY DEF IInv, EvidenceSafe, Pending
  <2>2. QED
    BY <2>1 DEF Safe
<1>2. QED
  BY <1>1, InvHolds, PTL
=============================================================================
