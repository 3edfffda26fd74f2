# Gate controller: a TLA+ verification project

The gate controller runs on a Raspberry Pi. It watches camera uploads, reads
number plates, opens a gate through a relay for authorised plates and remote
commands, and reports events to a cloud endpoint. These modules model the parts
that decide whether the gate moves, what is remembered and told about it, and
the two root helpers that replace a release and the TURN credentials.
`PROJECT.json` holds the runs, the line-by-line map to the source, the mutants
that show each property can fail, the findings, the hazards and the theorems.

## The system

| Component (source) | State it keeps | Operations | Correct when |
| --- | --- | --- | --- |
| Burst ingress (`worker.py`) | retry map, collector, bounded queue, stop event | schedule, retry, collect, flush, put, take, scan, stop | bursts are not lost or doubled, files live until their turn, the freshest work survives, a stop ends |
| Gate processor (`processor.py`) | OCR slot, closed flag | process, record_skipped, close | one decision per burst, fresh data at the moment of activation |
| Command executor (`command_server.py`) | prompt lock | open_gate, play_prompt | expired commands never act, a repeated command acts once |
| Actuation coordinator (`actuation.py`) | its lock, last attempt | actuate | a key opens at most once, cooldown between openings |
| Local store (`store.py`) | SQLite: claims, events, outbox, telemetry | claim, mark, finalise, record, recover, attach, complete, purge | every crash point is recoverable without a second pulse |
| Relay (`relay.py`, `PiRelay.py`) | pin, latch, shutdown flag, pending report | trigger, begin_shutdown | never rises after the latch, a pin stuck high is latched, one report per pulse |
| Outbox (`outbox.py`) | evidence files, last item | prepare_payload, run_once, cleanup | nothing completed without a receipt, nobody starved, evidence kept |
| Authorisation (`authorisation.py`) | list in memory, its time, CSV file | get, reload_local, replace, refresh | a removed plate stops opening the gate in bounded time, no older list comes back |
| Matching (`matching.py`) | none | normalise_plate, decide_access | opens exactly when the written rules are met |
| OCR client (`ocr.py`) and slot (`processor.py`) | session, generation, closed; slot, worker, closed | recognise, abandon_in_flight, close | one request at a time, no session or slot lost, nothing hangs |
| Reolink webhook (`reolink_events.py`) | connection slots, pending and seen events | record, correlate, expire | bounded, an event counts once and is found, slots come back |
| Hot stream (`hot_stream.py`) | ffmpeg child, frame ring | run_forever, add, close | one child, newest frames within both limits, gone after a stop |
| Updater (`deployment/gate_controller_updater.py`) | symlink, pending-activation record, release directories, legacy unit | stage, activate, roll back, reconcile, prune | a crash leaves a verified release and a way in both directions |
| TURN refresh (`deployment/gate_media_turn_refresh.py`) | generated environment file | fetch, write, restart, check, roll back | a running gateway's credential is recent, a failed activation is undone |
| Images, telemetry, control plane, media services, installers | none or counters | pure functions, HTTP, exec | - |

Interaction: the observer thread, the main loop and the processing thread share
the upload directory and the queue; processor and command threads meet at the
coordinator's lock; coordinator and collector meet in SQLite; the coordinator
calls the relay, whose latch the shutdown thread sets; producers and the
delivery worker share outbox rows and evidence files. What is hard: crashes
between the marker, the pin and the outcome; reboots that reset the monotonic
clock while the wall clock steps; the shutdown latch racing a trigger;
look-then-delete of evidence; uploads announced twice; a late answer after a
timeout, and a late cleanup of it; an update killed between two durable effects;
a child process whose handle two threads read and clear without a lock. `PROJECT.json` lists each hazard at its line.

## Modules

| Module | Models | Role |
| --- | --- | --- |
| `Gate` | - | abstract promise: a key opens once and never after it was settled; openings are charged to instants a cooldown apart |
| `Actuation` | coordinator, claim/marker/finalise/recovery transactions, processor and command entry points, relay as its caller sees it, crash, reboot, clocks | refines `Gate` |
| `Relay` | `RelayController` at the level of its locks and callback hand-over | detailed relay |
| `Outbox` | outbox rows, telemetry, evidence spool, delivery worker, restart | event delivery |
| `Ingress` | handler, collector, queue, reconciler, `run_worker` | from upload to burst and the stop sequence |
| `Recognition` | frame loop, `_run_ocr_bounded`, `PlateRecognizerClient`, cleanup threads, `close` | recognition under a deadline |
| `Matching` | `normalise_plate`, `decide_access` and the loop that calls it | the verdict, against a reference definition |
| `Authorisation` | plate cache, its file, refresh worker, both reads of a burst | how long a removed plate still works |
| `Webhook` | `BoundedReolinkHTTPServer`, its handlers, `ReolinkEventCorrelator` | camera events |
| `HotStream` | `HotStreamBuffer`, `HotFrameRing`, the ffmpeg child | hot frames |
| `Updater` | `run_once`, reconciliation, activation, rollback, pruning | releases |
| `TurnRefresh` | `refresh_turn_credentials` and the gateway unit | TURN credentials |
| `MC...` | - | one per module above that is checked: small instances for TLC |
| `ActuationProofs`, `OutboxProofs`, `IngressProofs`, `RecognitionProofs` | - | TLAPS proofs about the module of that name |
| `DeviceProofs` | - | TLAPS proofs about `Relay`, `Webhook` and `HotStream` |
| `AccessProofs` | - | TLAPS proofs about `Authorisation` and `Matching` |
| `DeploymentProofs` | - | TLAPS proofs about `Updater` and `TurnRefresh` |
| `SequenceFacts` | - | lemmas about sequences that several proof modules cite |

`Relay`, `Webhook`, `HotStream`, `Authorisation`, `Matching` and `TurnRefresh`, whose
proofs share a module with others, name their specification after themselves
(`RelayInit`, `RelayNext`, `RelaySpec`, `RelayTypeOK` and so on).

### Actuation

`claims`, `events` and `outbox` are the SQLite tables; each transaction is one
step, so a crash falls between any two. `pc[t]` says where a thread is in
`process`, `execute` or `actuate`; `call` holds the locals of the `actuate` call
that owns `lock`. The database columns of a claim are its record fields:
`marked`, `wall`, `mono`, `boot` for `activation_attempt_at`,
`activation_monotonic`, `boot_id`; `pending` for `pending_event IS NOT NULL`.
Time is `now`; the code reads only `Mono` (restarts with `Reboot`) and `Wall`
(stepped by `StepWallClock`). Any store call may raise; the model then takes the
path the code's `except` takes. `Energize` is the second test and the GPIO write,
one critical section in the code; `on()` raising may or may not have moved the
pin. `Recovered` is `_recover_interrupted_actuations`. The five burst reasons for
a late inhibition are one value, `burst_inhibited`. The model always has a boot
id, as on Linux, and an opened event always carries its activation time, so the
two fallback clauses of `_was_opened_since` for rows without them do not occur.

`pulses` and `lastPulse` are history variables: what somebody standing at the
gate sees. No action reads them.

### Relay

One step per critical section of the activation boundary: test-and-raise,
off-and-take-callback, latch-off-and-take. The report of the end of a pulse
belongs to whoever took `_active_deactivation_callback`: the call, the stopper,
or the thread the stopper starts.

### Outbox

A producer (the burst processor, which may claim an actuation, or the collector)
finds its event new (`Begin`), stages the file, commits the row (`awaiting`),
attaches telemetry (`telemetry_ready`) or releases it (`ready`); the worker
fetches, prepares, sends, completes, looks for other users of the file and deletes
it. Events are named by their idempotency key, so two producers can hold one:
whoever commits second takes the `IntegrityError` branch of
`record_event_with_outbox` (`RecordExisting`), leaves the row as it is and attaches
its trace to it, while the row may be sending or delivered. Such a trace stays
behind at the controller, as `test_legacy_v2_mid_send_attachment_remains_truthfully_pending`
has it; `TelemetryTravels` exempts it (`late`) and says that nothing else is left
behind: a late trace only meets events that two producers recorded (`shared`). An
image is its digest. Schema 2 is a payload without telemetry, 3 one with it. A
completed row is `done`. `Restart` is crash, recovery of interrupted claims and
spool cleanup. Rows are ordered by event and not by commit, which allows every
order of the code's ids; a finalised claim is not kept, because its event has its row.

### Ingress

`retry` is the insertion-ordered `_retry_at`, `pending` the collector, `queue`
the bounded queue with the sentinel, `due` the snapshot `retry_pending` works
through. Whether the quiet window or a back-off has passed, and whether an upload
is too old or too large, is chosen freely. `Removed` is `_remove_uploads`. A
report that raises ends the observer, leaves the loop, or leaves the stop
sequence, as in the code. The put-after-stop branch of the queue cannot be
reached from `run_worker`, where one thread does both. The uploads `Offline` found at
the start are whole; one that is still being written then is like one that begins
just after the start.

### Recognition

`proc` is the processing thread, `thread[r]` the daemon thread of request `r`,
`cleanup[r]` the thread that abandons it (0: the one that closes the client).
Blocks under `_ocr_slot_lock` and `_session_lock` are steps; a join with a
timeout may end before its thread does. Sessions carry the name of the request
that made them, so a generation is a number of detachments. The service answers
at any time or never. `run_worker` joins the processing thread before shutdown,
so in the service only abandoned request threads and their cleanups run beside
`close`; the model lets a whole burst do so, as the class itself (with its
`_actuation_lock` barrier) and its tests promise.

### Matching

Plates are sequences of characters, put in upper case (where one character may
become two), stripped and compared as in the code. Of the letters and digits only
those that can be confused occur; every other character stands for what is stripped. `Due` says what the README's
rule means without any order of frames. `decide_access` walks its observations
and a dictionary in first-seen order; that this order does not matter rests on
`MAX_OCR_FRAMES = 3`, with which two plates cannot both be read twice; the
module's assumption says so. With four frames `EarlyStopAgrees` fails: `O1, 0I, 0I` allows `01`, and a further `O1`
makes the same burst ambiguous when `OL` is on the list as well.

### Authorisation

`cloud` is the owner's list, `listed[p]` the last instant `p` was on it. A list
in memory or on disk carries the instant it was read (`read`, history) and the
wall-clock time the code compares (`at`: `_refreshed_at` or the file's mtime).
A restart reads the file or, when that fails, starts with no list (`Reloaded`: the
`except` branch of `reload_local`); `newest` remembers the newest list memory has
held, so that `NoOlderList` also compares lists across a time without any. The
wall clock is ahead by a bounded offset that changes freely. A refresh takes
at most `FetchTime` from the cloud's reading to memory. Plates of the list are
opaque here; `Matching` has their spelling.

### Webhook

`conn[c]` is a connection with its handler thread, `slots` the semaphore.
`record` is called with the time of reception, so a call that waits for the lock
may find the memory of a later one. `AcceptedOnce` therefore names what the code
really lets through twice: an identity displaced by newer ones (`evicted`), an
event without a readable time or with one ahead of its reception, and a call
overtaken at the lock (`horizon`). `waiting` and `last` are history. Time only
advances here: the correlator reads the wall clock, and its steps are left out.

### HotStream

The stream thread and `close` each run `_stop_child` as three steps, since
nothing locks `_process`. A frame is a name with a size of one or two; `recency`
is the order of last captures. A read blocks until a frame, the child's death or
the end of its output.

### Updater

Each durable effect is a step that may raise before or after it takes effect (an
fsync after a rename), and a run may die between any two. `run.mode` tells
`activate_release`, the completion of a recorded candidate, a rollback and the
confirmation of a recorded rollback apart. `releases` is ordered by modification
time. Version 1 records of an older updater occur in the initial states. When
the removal of the record raises after the unlink, `activate_release` rolls back
without a record: a crash at that point can leave the legacy command unit off,
which no document forbids (`owed` is only compared when a record goes).

### TurnRefresh

A credential is the number of the run that fetched it. The file is replaced by a
rename, so it is the empty bootstrap file or one credential. `systemctl` calls
may fail or time out with or without effect; systemd restarts a gateway that
died, and an operator starts and stops it. A gateway that systemd starts between
the probe and the write keeps the previous credential although the run exits
with 0; `CredentialAge` says how far that goes: one successful run, not more.

## Runs

| Run | Question | Bounds and why they suffice |
| --- | --- | --- |
| `actuation` | one pulse per key; no marker left by an attempt that did not move the pin; truthful outcomes; every burst event queued; refinement of `Gate` | a burst, a command, the collector and one client: three threads compete for the store and two for the lock; two boots, cooldown 1, time 0..2: the second attempt falls inside or outside the durable and the in-memory cooldown, before or after a crash or a reboot; lifetimes that are over, good and too long |
| `actuation_clock` | cooldown spacing in true time; markers survive | two command keys, wall clock right or three units behind and stepping both ways, two boots, cooldown 1, time 0..2: steps larger than the cooldown in both directions |
| `relay` | latch, report hand-over, calls return | three triggers, two `begin_shutdown` calls (as `_shutdown_controller` makes) |
| `outbox` | receipts, telemetry, evidence, no starvation | the burst processor, which claims or records directly, and the collector, who both meet event 1; two events that share an image; a restart or a lost file; batch of one, so that one poisoned row fills every batch |
| `ingress` | freshest work kept, order inside a burst, one fate per burst, files live until its turn, orderly stop; a stop ends, no upload stays behind | one upload found at the start, one that arrives, a hot frame; one retry place (so the second upload evicts), two candidates, one queue place (so the second burst meets a full queue). `main` gives retry map and collector the same limit; the classes take them separately, and different ones make both limits bite with two uploads |
| `recognition` | one slot, all sessions accounted for, `close` sees the worker and its barrier holds; a burst is decided, `close` returns | two frames, two requests that may never be answered: a late request, its cleanup and a later request overlap, with `close` at any point |
| `matching` | the verdict is the rules' verdict, in any order; stopping early is safe | ten spellings (confusable pairs and triples, lower case, punctuation, a shorter one, an empty one, one that grows), confidences 89 and 90, lists of two, three frames |
| `authorisation` | how long a removed plate opens the gate; no older list comes back | one plate, time 0..5, limits of one, clock off by one, two restarts: each limit is reached and passed, and a list is lost to one restart and back after the next |
| `webhook` | a resent event counts once; an event that is there is found; slots; connections end | two events against room for one event and two identities, two connections against one slot, lifetime 2, window 1, time 0..3: displacement of events, expiry and refusal all happen. No identity is displaced: that takes three events over three connections, beyond what TLC can do here in minutes with liveness, and is left to the theorems `LimitsAlwaysKept` and `ResendNotCounted` |
| `hot_stream` | one child, exact bytes, newest frames, the thread ends | four frames of two sizes, room for three frames or four units, two children |
| `updater` | verified current release, both directions open, record only removed when settled, an interrupted activation is resolved | three releases installed and one to come, one of them never healthy, three kept, a crash: a directory is pruned, comes back and is activated |
| `turn_refresh` | age of a running gateway's credential; the checks look at the right configuration | five runs, three probes: failures of every kind before, between and after two good runs |

Several invariants of a component are checked as one conjunction of named parts,
each part with its own comment in the module:

| Conjunction | Parts |
| --- | --- |
| `Actuation!EventsAccounted` | `OutcomeTruthful`, `BurstEventsQueued` |
| `Relay!PulseAccounted` | `RelayTypeOK`, `ReportOnceAfterPulse`, `HighPinIsLatched` |
| `Outbox!DeliveryAccounted` | `TypeOK`, `DoneMeansReceived`, `TelemetryTravels` |
| `Ingress!BurstsAccounted` | `TypeOK`, `FateOnce`, `FreshestKept`, `OrderlyStop` |
| `Recognition!RequestsAccounted` | `TypeOK`, `SlotAccounted`, `SessionsAccounted` |
| `Recognition!CloseIsBarrier` | `CloseSeesWorker`, `NoPulseAfterBarrier` |
| `Matching!VerdictDue` | `MatchingTypeOK`, `OpensWhenDue` |
| `Webhook!LimitsKept` | `WebhookTypeOK`, `SlotsAccounted` |
| `HotStream!RingConsistent` | `HotStreamTypeOK`, `RingAccounted`, `RingIsNewest` |
| `Updater!ReleasesSound` | `TypeOK`, `CurrentVerified`, `RollbackPossible` |
| `TurnRefresh!ChecksTruthful` | `TurnRefreshTypeOK`, `EndTruthful` |

For every part there is a mutant (an operator defined just before the one it
stands in for, marked "Mutant of") with which TLC finds it violated.

Deadlock checking is off where the system may stop or a bound ends it: `Relay`
after its bounded calls, `Recognition`, `Matching`, `Authorisation`, `Webhook`,
`HotStream` and `TurnRefresh` at their bounds; `Outbox` when everything is
delivered, `Ingress` after `run_worker` left. The run of a component
checks its safety and its liveness on the same instance, in which the hard cases
occur.

### Where the documentation promises more than the code

Five sentences of the documentation are stated in the modules and are too strong
for the code. Each fails within seconds as an invariant of its module's
specification, with the constants of its component's configuration:

* `Outbox!EvidenceKept` (`docs/deployment.md:83-84`, pending files are never pruned
  before receiver success). `run_once` asks for pending digests (`outbox.py:391`)
  and deletes afterwards (line 394); a producer that stages the same image in
  between commits a row whose file is gone. What does hold, and is checked, is
  `EvidenceLostOnlyToTwin`: the receiver has the image from the other event.
* `Ingress!FtpFirst` (`docs/reolink-rlc-810a.md:114`, the FTP image remains the
  first OCR attempt). A second notice of the same upload moves it to the end of
  its own burst. What does hold, and is checked, is `FtpFirstUnlessAgain`.
* `Recognition!OnlyLateAbandoned` (`ocr.py:100`, `abandon_in_flight` detaches "a
  timed-out request"). Its thread is joined for 0.05 s only; if it is later
  than that and the late request has ended by itself, it raises the generation
  under the next request, which fails although it was in time. The slot and the
  sessions stay accounted for (`SlotAccounted`, `SessionsAccounted`).
* `HotStream!NoOrphan` (hot-stream specification, lines 90-91, the child is
  terminated on shutdown). `close` may read `_process` before the thread stores
  the handle and clear it afterwards; the thread then finds nothing to stop.
* `Updater!PriorReleaseRetained` (`docs/deployment.md:287`, the two prior releases
  are retained). Pruning keeps the newest directories; candidates that failed
  their health check, or releases left inactive by a rollback, can be newer than
  the release that was active.

## Fairness

* `Relay!RelayFairSpec`: weak fairness of each thread. They wait only for events that
  another of them sets; nobody is obliged to call the relay.
* `Outbox!FairSpec`: the worker runs on (`run_forever`), and per event a receiver
  and a store that are asked again and again eventually agree. Without this an
  outage for ever would refute delivery.
* `Ingress!FairSpec`: each thread runs on (`emit` is bounded by the decision
  timeout and the pulse); strong fairness of the flush and of a full snapshot
  stands for clocks that move past the quiet window and the back-off. The camera
  is not assumed to finish an upload.
* `Recognition!FairSpec`: time passes and the processing and closing threads run
  on. Nothing is assumed of request or cleanup threads.
* `Webhook!WebhookFairSpec`: handler threads and timers run; nothing of the client.
* `HotStream!HotStreamFairSpec`: both threads run on; the child owes nothing.
* `Updater!FairSpec`: the timer (`OnUnitInactiveSec=5min`) starts run after run,
  and an operation tried again and again succeeds at some time; a release that
  is never healthy stays so.

## Proofs

Every invariant and every action property that a run checks on a small instance
is a theorem for every value of the constants:

| Module | Theorem | States |
| --- | --- | --- |
| `ActuationProofs` | `TypeCorrect` | `TypeOK` |
| | `AtMostOnePulse` | `PulseOncePerKey` |
| | `MarkerIsDurable` | `MarkerOutlivesPulse` |
| | `OutcomesAreTrue` | `EventsAccounted` |
| | `MarkersHaveCause` | `NoPhantomMarker` |
| | `RisesAreSpaced` | `CooldownSpacing` |
| | `GateImplemented` | `ImplementsGate`, the refinement of `Gate` |
| `OutboxProofs` | `DeliveredIsReceived` | `DeliveryAccounted` |
| | `EvidenceAccounted` | `EvidenceLostOnlyToTwin` |
| `IngressProofs` | `BurstsKept` | `BurstsAccounted` |
| | `FilesAwaitTheirTurn` | `UploadHeld` |
| | `OpeningUploadFirst` | `FtpFirstUnlessAgain` |
| `RecognitionProofs` | `LateRequestsCostNothing` | `RequestsAccounted` |
| | `CloseHolds` | `CloseIsBarrier` |
| `DeviceProofs`: relay | `RelayTypeCorrect` | `RelayTypeOK` |
| | `EveryPulseAccounted` | `PulseAccounted` |
| | `ShutdownIsFinal` | `NoRiseAfterShutdown` |
| webhook | `LimitsAlwaysKept` | `LimitsKept` |
| | `ResendNotCounted` | `AcceptedOnce` |
| | `EventsFound` | `NoMissedEvent` |
| hot stream | `NeverTwoChildren` | `OneChild` |
| | `RingKeepsNewest` | `RingConsistent` |
| `AccessProofs`: plate cache | `AuthorisationTypeCorrect` | `AuthorisationTypeOK` |
| | `RevocationTakesEffect` | `RevocationBounded` |
| | `ListsOnlyGetNewer` | `NoOlderList` |
| matching | `VerdictIsByTheRules` | `VerdictDue` |
| | `BreakLosesNothing` | `EarlyStopAgrees` |
| `DeploymentProofs`: updater | `AlwaysAReleaseToRun` | `ReleasesSound` |
| | `UnrecordedIsHealthy` | `SettledWithoutRecord` |
| | `RecordGoesLast` | `RecordRemovedWhenSettled` |
| TURN refresh | `HealthIsOfThisFile` | `ChecksTruthful` |
| | `CredentialNotOlder` | `CredentialAge` |

Each rests only on the named assumption of its component's module, which the runs
evaluate: the constants are numbers, limits that are at least one, or sets that
do not overlap; `Updater` moreover assumes that release directories have distinct
names and that at least three are kept, `Webhook` that the correlation window is
within the lifetime of an event (the constructor refuses another), `HotStream`
that a frame fits the ring (the configuration refuses a smaller ring, and `add` a
larger frame), and `Matching` that a
burst has at most three frames (`MAX_OCR_FRAMES`). Most of the properties are not inductive
by themselves. TLC checked each strengthening on the run's instance before it was
proved. What the strengthenings say, and why they are needed:

**Actuation.** `IInv`: `Mutex`, a thread between claim and finalise holds the
lock, a dead process has no thread under way, and one prompt plays at a time;
`OwnClaim(t)`, a thread past its claim owns a row in state `claimed`, unmarked
before `MarkAttempt` and marked after it, whose key has not pulsed before the pin
rises; `KeyInv(k)`, a key without a claim has not pulsed, one that has pulsed is
marked, and it pulsed once. A row never returns to `none`, so a key is claimed
once; only the owner of a claimed row marks it; only a marked owner raises the
pin, after which it is past the point of raising it again. Crash and reboot drop
the owner but not the row; recovery finalises it and keeps the marker.
`Truth` adds what the locals of `actuate` say of the pulse (`CallTruth`) and what
a row says of its key (`KeyTruth`), for outcomes and markers.
`Time` adds where the latest rise lies (`PulseTime`): its marker gives its instant
if it is of this boot, otherwise it is older than the boot, and unless a crash
made it forget the coordinator remembers a moment not before it. The lemma
`ClaimSpaced` is the heart: passing both cooldown tests, the durable and the one
in memory, puts a call a cooldown after the latest rise. A rise of an earlier
boot need not be the row the code looks at, which is the latest by a wall clock
that may have been set back. Either that row is of an earlier boot, and then the
code asks for a boot of at least a cooldown, or it is of this boot and itself a
cooldown old; both put a cooldown between the rise and the call. Nothing is
assumed of the wall clock. The refinement maps each step to a rise, a
settlement, a tick or a stutter of `Gate`, with `SettledStays` (a terminal
outcome is never withdrawn) and `RiseSpaced`.

**Relay.** The deactivation callback is in one place (`OneHolder`): the boundary,
the call, the stopper or the report thread. Whoever has it has not reported and
took it with the pin low (`HeldUnreported`); a call at the boundary starts with
nobody holding one, and what an earlier call left behind is behind the latch
(`CleanStart`).

**Outbox.** `Safe(d)`: an image is in the spool, was lost by the disk, is no image,
or was delivered with some row. It must hold not only of undelivered rows but of
what will become rows, staged events and the payloads of claimed actuations
(`EvidenceSafe`); together with what the worker holds at each step
(`WorkerHolds`) it covers the look-then-delete of `run_once`. `RecordedWaits`: the
row whose telemetry is being attached waits for it, and has one producer, unless a
second one found it recorded; what is exempted from `TelemetryTravels` is therefore
only what such a pair brings about (`AttachedPromoted`).

**Ingress.** Three layers. `TypeInv`: one retry entry per path, what the main
thread holds, no path twice in the collector. `Account`: how far the stop has
come (`Stopping`), numbers increase along the queue (`Ordered`), one place or one
fate (`Apart`), every number given out is somewhere (`Numbered`); from the last
two follows the count of exactly one in `FateOnce`. `FileInv`: the number of
times an upload was collected bounds the places it is in (`Placed`), which is why
removing the files of one burst takes none from another; the opening upload
stays in front while it is there once (`Opened`). The removal of a path, the
snapshot of due entries and the coalescing of a full queue are treated by
position in lemmas about sequences. Neither the number of bursts nor the length
of a queue is bounded in these proofs but by the code's own limits.

**Recognition.** The slot is taken for one request that is about to start or at
work (`SlotHeld`); it is the registered one until `close` begins and the one
`close` saw afterwards (`Registered`). The generation equals the number of
cleanup threads past their detachment (`GenerationCounts`), which bounds it;
`OwnRequest` says that no thread runs yet under the number the processing thread
has taken, so a late thread cannot be taken for it.

**Updater.** What is durable: the current release is verified and installed
(`Installed`), a record names two complete releases of which one is current and
the previous one healthy (`Recorded`), without one the current release is healthy
(`Unrecorded`), and the legacy service is never more than it is owed (`Below`).
What the run knows: what holds before a record exists and after it is gone
(`Outside`), that it and the record are about the same activation (`Same`), and
which release is current at each step (`Progress`). A run that dies leaves the
durable part, from which the next run's reconciliation starts.

**Authorisation.** A list's plates were all on the cloud's list when it was read,
and its time stamp is late by at most a fetch and a clock setting (`Dated`); the
same of the list in the worker's hands (`FetchDated`); lists get newer from cloud
to file to memory, and the file never falls behind what memory has ever held, also
while memory has none (`NewerAhead`), so a restart never reads an older one. The
bound of `RevocationBounded` is then the sum of the three delays.

**TurnRefresh.** The file never falls behind the last successful run
(`FileKeepsUp`), is the one the gateway is restarted with (`FileInPlace`), and a
gateway that came up although the probe found it down has at least that
credential (`StartedSince`).

**Webhook.** Every slot is free or held by one of finitely many connections
(`Slots`); no thread carries a time that is still to come (`Past`). The latest
acceptance of an event is remembered unless newer events displaced it or a call
made more than a lifetime after it pruned it (`Remembered`), and the same of an
event that waits for its burst (`Waits`). Pruning and the displacement of the
oldest are treated by position: `Those` keeps the entries at given positions, the
one of rank `k` in place `k` (`Ranks`, `ThoseFacts`), so what survives a `_prune`
is exactly what is young enough (`KeptFacts`).

**HotStream.** Before a stop, which child may be alive follows from where the
thread is in `run_forever` (`MayRun`); no child is started while another runs,
also after the stop, when `close` and the thread clear the handle in any order
(`ChildInv`). The ring is the end of the sequence of all captures and its byte
count is the sum of its frames (`RingInv`). A frame refreshed or added changes
both alike (`EndRefreshed`), dropping the oldest leaves an end of an end
(`EndOfEnd`), and the loop that drops has a first place to stop (`SurplusFits`);
the size of a queue is its length and the number of its large frames, which is
additive (`BytesOfJoin`).

**Matching.** `MatchInv`: the decision of the loop is the one `decide_access`
gives for the frames read so far. The lemma `VerdictIsDue` shows that this is the
order-free verdict `Due`: an exact match is one of the first alternative; without
one, the first plate with a consensus is the only plate read twice
(`OnePlateTwice`, by which the limit of three frames enters), so its candidates
decide; and `_is_one_known_confusion` is `Confusable` (`ConfusionIsConfusable`).
`Due` can only grow with further frames (`DueAfterMore`), from which
`EarlyStopAgrees` follows. What `normalise_plate` makes of a spelling is left open
in the proof, which holds for any normalisation; TLC evaluates the real one.

`SequenceFacts` holds what these proofs need about `Append`, `Tail`, `RemoveAt`,
`RemoveFirst`, concatenation and sequences without repetition, by position.

Only model-checked: liveness under fairness (`CallsReturn`, `SendableIsDelivered`,
`StopCompletes`, `UploadsRemoved`, `PendingResolved`, `ProcessReturns`,
`CloseReturns`, `ConnectionsEnd`, `ThreadEnds`), which is outside the prover's
reach, and what `NormalisePlate`, a filter over a flattened sequence, computes for
every spelling, which takes an induction over data.

## Not modelled

SQL text and migrations of old databases, HTTP parsing, image arithmetic, JPEG
normalisation and the stream parser, telemetry validation, configuration parsing
and installers: no state whose order of change matters. The hot ring's `select`
and `materialise` copy frames for one burst. The control-plane heartbeat posts
read-only status documents. The media auth service checks tokens without keeping
state; gateway and transcoder are exec wrappers. `images.py` accepts a JPEG by
its header; `Ingress` therefore lets a partial upload be collected.
Events without an outbox row, where no outbox is configured, and with them
`TelemetryRetentionWorker` and `purge_unqueued_telemetry`; of retention `Outbox` has
`purge_delivered_telemetry`. Steps of the wall clock under the camera correlator.
In `Authorisation` a file that was read or installed can be looked up (`stat`) in
the next line of code (`authorisation.py:58` and `:86`); a failure there would leave
the plates in memory with an earlier time or none.

## Plan

1. Done: `Actuation` with `Gate`, `Relay`, `Outbox`, `Ingress`; first theorems.
2. Done: `Recognition`, `Matching`, `Authorisation`, `Webhook`, `HotStream`,
   `Updater`, `TurnRefresh`.
3. Done: the invariants and action properties of every module, with the
   refinement of `Gate`, as theorems.
4. Left: liveness stays with TLC.
