------------------------------- MODULE Ingress -------------------------------
(***************************************************************************)
(* How camera uploads become bursts: CompletedImageHandler, BurstCollector, *)
(* BoundedBurstQueue, StartupReconciler and run_worker.                     *)
(*                                                                         *)
(* Three threads share the uploads.  The watchdog observer schedules them   *)
(* (and evicts the oldest when there are too many); the main loop scans the *)
(* directory left by the last run, retries, collects, flushes and puts      *)
(* bursts on the queue; the processing thread takes them.  Each of them     *)
(* removes files.  A step is what one thread does under one lock, or        *)
(* between two.  Whether a quiet window has elapsed, or an upload has grown *)
(* too old or too large, is a choice of the environment.  Unlinking a file  *)
(* is assumed to work.                                                      *)
(***************************************************************************)
EXTENDS Naturals, FiniteSets, SequencesExt

CONSTANTS
    Uploads,          \* paths the camera writes by FTP
    Offline,          \* those of them that arrived while the service was down
    HotFrames,        \* paths HotStreamBuffer.select materialises, ignored by the observer
    NoFile,           \* no path
    MaxRetry,         \* max_pending_candidates: limit of the retry map
    MaxCandidates,    \* max_candidates: limit of the collector
    MaxPending,       \* limit of the burst queue
    MaxAttempts       \* retry_pending's max_attempts

Files == Uploads \cup HotFrames

ASSUME IngressAssumption ==
    /\ IsFiniteSet(Files) /\ Uploads \cap HotFrames = {} /\ NoFile \notin Files
    /\ Offline \subseteq Uploads
    /\ MaxRetry \in Nat \ {0} /\ MaxCandidates \in Nat \ {0}
    /\ MaxPending \in Nat \ {0} /\ MaxAttempts \in Nat

VARIABLES
    disk,        \* state of every file
    notices,     \* watchdog events not yet dispatched
    observer,    \* the observer thread: alive, and the path it is rejecting
    retry,       \* CompletedImageHandler._retry_at, in insertion order
    toScan,      \* entries StartupReconciler has yet to visit
    pc, held,    \* the main thread, and the path or burst it holds
    due,         \* retry_pending's snapshot
    pending,     \* BurstCollector._pending
    trigger,     \* the path whose arrival and digest the collector keeps
    queue,       \* the burst queue; Sentinel is the None that stop() puts
    processing,  \* the processing thread's burst, Sentinel once it has returned
    dropped,     \* bursts taken off the queue by stop()
    stop,        \* stop_event
    shut,        \* run_worker has called shutdown()
    \* history, read by no action
    emitted,     \* number of bursts emitted
    fate,        \* what became of a burst: processed, coalesced, stopped, unreported
    rejected,    \* uploads rejected by themselves
    given        \* how often an upload was given to the collector, 2 standing for more

worker == <<pc, held, due, pending, trigger, dropped, toScan, shut>>
history == <<emitted, fate, rejected, given>>
vars == <<disk, notices, observer, retry, queue, processing, stop, worker, history>>

Burst == [id : Nat, first : Files \cup {NoFile}, paths : SUBSET Files,
          trigger : Files \cup {NoFile}, full : BOOLEAN]
Sentinel == [id |-> 0, first |-> NoFile, paths |-> {}, trigger |-> NoFile, full |-> FALSE]
NoBurst == Sentinel
Idle == [taken |-> NoBurst, ended |-> FALSE]

Fates == {"processed", "coalesced", "stopped", "unreported"}

TypeOK ==
    /\ disk \in [Files -> {"absent", "partial", "complete", "removed"}]
    /\ notices \in Seq(Uploads)
    /\ observer \in [alive : BOOLEAN, file : Uploads \cup {NoFile}]
    /\ retry \in Seq([file : Uploads, attempts : 0 .. MaxAttempts]) /\ Len(retry) <= MaxRetry
    /\ toScan \subseteq Uploads /\ due \in Seq(Uploads)
    /\ pc \in {"scan", "reject_scan", "retry", "due", "reject_due", "pop", "pop_first", "flush",
               "put", "report", "stop", "drain", "report_stop", "join", "left"}
    /\ held \in Burst \cup Uploads \cup {NoFile}
    /\ pending \in Seq(Files) /\ Len(pending) <= MaxCandidates
    /\ trigger \in Files \cup {NoFile}
    /\ queue \in Seq(Burst) /\ Len(queue) <= MaxPending /\ dropped \in Seq(Burst)
    /\ processing \in [taken : Burst, ended : BOOLEAN]
    /\ stop \in BOOLEAN /\ shut \in BOOLEAN
    /\ emitted \in Nat /\ fate \in [Fates -> SUBSET Nat]
    /\ rejected \subseteq Uploads /\ given \in [Uploads -> 0 .. 2]

\* The directory holds the uploads that arrived while the service was down.
Init ==
    /\ disk = [f \in Files |-> IF f \in Offline THEN "complete" ELSE "absent"]
    /\ toScan = Offline
    /\ notices = <<>> /\ observer = [alive |-> TRUE, file |-> NoFile] /\ retry = <<>>
    /\ pc = "scan" /\ held = NoFile /\ due = <<>> /\ pending = <<>> /\ trigger = NoFile
    /\ queue = <<>> /\ processing = Idle /\ dropped = <<>>
    /\ stop = FALSE /\ shut = FALSE
    /\ emitted = 0 /\ fate = [x \in Fates |-> {}] /\ rejected = {} /\ given = [f \in Uploads |-> 0]
-----------------------------------------------------------------------------
(* Files *)

OnDisk(f) == disk[f] \in {"partial", "complete"}

\* _remove_uploads with missing_ok.
Removed(S) == [f \in Files |-> IF f \in S /\ OnDisk(f) THEN "removed" ELSE disk[f]]

running == pc # "left"
untouched == <<observer, retry, queue, processing, stop>>

\* The camera creates a file; a scan still under way may or may not list it.
BeginUpload(f) ==
    /\ running /\ disk[f] = "absent"
    /\ disk' = [disk EXCEPT ![f] = "partial"] /\ notices' = Append(notices, f)
    /\ toScan' \in IF toScan = {} THEN {{}} ELSE {toScan, toScan \cup {f}}
    /\ UNCHANGED <<untouched, pc, held, due, pending, trigger, dropped, shut, history>>

\* The camera closes it: on_closed follows on_created.
FinishUpload(f) ==
    /\ running /\ disk[f] = "partial"
    /\ disk' = [disk EXCEPT ![f] = "complete"] /\ notices' = Append(notices, f)
    /\ UNCHANGED <<untouched, worker, history>>
-----------------------------------------------------------------------------
(* CompletedImageHandler *)

Waiting == {retry[i].file : i \in DOMAIN retry}
At(f) == CHOOSE i \in DOMAIN retry : retry[i].file = f
Attempts(f) == IF f \in Waiting THEN retry[At(f)].attempts ELSE 0
Without(f) == IF f \in Waiting THEN RemoveAt(retry, At(f)) ELSE retry

\* schedule_candidate under its lock: f moves to the end and keeps its attempts; the
\* oldest goes when there are too many.
Scheduled(f) ==
    LET moved == Append(Without(f), [file |-> f, attempts |-> Attempts(f)]) IN
    IF Len(moved) > MaxRetry THEN Tail(moved) ELSE moved

Evicted(f) ==
    LET moved == Append(Without(f), [file |-> f, attempts |-> Attempts(f)]) IN
    IF Len(moved) > MaxRetry THEN Head(moved).file ELSE NoFile

\* The observer thread dispatches an event ...
Observe ==
    /\ running /\ observer.alive /\ observer.file = NoFile /\ notices # <<>>
    /\ notices' = Tail(notices)
    /\ retry' = Scheduled(Head(notices))
    /\ observer' = [observer EXCEPT !.file = Evicted(Head(notices))]
    /\ UNCHANGED <<disk, queue, processing, stop, worker, history>>

\* ... and rejects what it evicted.  A report that raises ends the thread, after the
\* file is gone.
ObserverRejects ==
    /\ running /\ observer.file # NoFile
    /\ observer' \in {[alive |-> TRUE, file |-> NoFile], [alive |-> FALSE, file |-> NoFile]}
    /\ disk' = Removed({observer.file}) /\ rejected' = rejected \cup {observer.file}
    /\ UNCHANGED <<notices, retry, queue, processing, stop, worker, emitted, fate, given>>

\* _reject in the main thread; a report that raises leaves the loop.
MainRejects ==
    /\ pc \in {"reject_scan", "reject_due"}
    /\ disk' = Removed({held}) /\ rejected' = rejected \cup {held}
    /\ held' = NoFile
    /\ pc' \in {IF pc = "reject_scan" THEN "retry" ELSE "due", "stop"}
    /\ UNCHANGED <<notices, untouched, due, pending, trigger, dropped, toScan, shut,
                   emitted, fate, given>>
-----------------------------------------------------------------------------
(* The main loop: one entry of the scan, the due uploads, the flush *)

\* The loop's tests: stop_event, and whether the observer still lives.
LeaveLoop ==
    /\ pc = "scan" /\ (stop \/ ~observer.alive)
    /\ pc' = "stop"
    /\ UNCHANGED <<disk, notices, untouched, held, due, pending, trigger, dropped, toScan, shut,
                   history>>

\* run_batch with batches of one entry: a stale upload is reported and removed, one
\* that is fresh is scheduled.
Scan ==
    /\ pc = "scan" /\ ~stop /\ observer.alive
    /\ \/ toScan = {} /\ pc' = "retry" /\ UNCHANGED <<retry, held, toScan>>
       \/ \E f \in toScan :
             /\ toScan' = toScan \ {f}
             /\ \/ pc' = "reject_scan" /\ held' = f /\ UNCHANGED retry
                \/ /\ retry' = Scheduled(f)
                   /\ held' = Evicted(f)
                   /\ pc' = IF Evicted(f) = NoFile THEN "retry" ELSE "reject_scan"
    /\ UNCHANGED <<disk, notices, observer, queue, processing, stop, due, pending, trigger,
                   dropped, shut, history>>

\* retry_pending takes its snapshot: every new entry, and those whose back-off has passed.
TakeSnapshot ==
    /\ pc = "retry" /\ pc' = "due"
    /\ \E n \in 0 .. Len(retry) : \E awake \in [1 .. n -> DOMAIN retry] :
          /\ \A j, k \in 1 .. n : j < k => awake[j] < awake[k]
          /\ \A i \in DOMAIN retry : retry[i].attempts = 0 => \E k \in 1 .. n : awake[k] = i
          /\ due' = [k \in 1 .. n |-> retry[awake[k]].file]
    /\ UNCHANGED <<disk, notices, untouched, held, pending, trigger, dropped, toScan, shut,
                   history>>

collector == <<pending, trigger>>
mainRest == <<dropped, toScan, shut>>

\* A path of the snapshot that the observer has evicted meanwhile, or none left.
SkipDue ==
    /\ pc = "due"
    /\ \/ due = <<>> /\ pc' = "flush" /\ UNCHANGED due
       \/ due # <<>> /\ Head(due) \notin Waiting /\ due' = Tail(due) /\ UNCHANGED pc
    /\ UNCHANGED <<disk, notices, untouched, held, collector, mainRest, history>>

\* upload_incomplete (too many attempts, too old, gone) or image_too_large.
Expire ==
    /\ pc = "due" /\ due # <<>> /\ Head(due) \in Waiting
    /\ retry' = Without(Head(due)) /\ due' = Tail(due)
    /\ held' = Head(due) /\ pc' = "reject_due"
    /\ UNCHANGED <<disk, notices, observer, queue, processing, stop, collector, mainRest, history>>

\* Mutant of BackOff: attempts are not counted.
BackOffForever ==
    /\ pc = "due" /\ due # <<>> /\ Head(due) \in Waiting
    /\ OnDisk(Head(due)) /\ Attempts(Head(due)) < MaxAttempts
    /\ due' = Tail(due)
    /\ UNCHANGED <<disk, notices, untouched, pc, held, collector, mainRest, history>>

\* Not an image yet, or never: one more attempt, unless the observer evicted it.
BackOff ==
    /\ pc = "due" /\ due # <<>> /\ Head(due) \in Waiting
    /\ OnDisk(Head(due)) /\ Attempts(Head(due)) < MaxAttempts
    /\ retry' = [i \in DOMAIN retry |->
          IF retry[i].file = Head(due) THEN [retry[i] EXCEPT !.attempts = @ + 1] ELSE retry[i]]
    /\ due' = Tail(due)
    /\ UNCHANGED <<disk, notices, observer, queue, processing, stop, pc, held, collector, mainRest,
                   history>>

\* Mutant of Added: the oldest candidate is not dropped.
AddedUnbounded(f) == Append(RemoveFirst(pending, f), f)

\* BurstCollector.add: a path already pending moves to the end.
Added(f) ==
    LET moved == Append(RemoveFirst(pending, f), f) IN
    IF Len(moved) > MaxCandidates THEN Tail(moved) ELSE moved

\* Readable: wait_until_readable looks at the signature and the header, which an
\* upload still being written may have.  The path goes to the collector; an overflow
\* removes the oldest candidate.
Collect ==
    LET f == Head(due) IN
    /\ pc = "due" /\ due # <<>> /\ f \in Waiting /\ OnDisk(f) /\ Attempts(f) < MaxAttempts
    /\ pending' = Added(f)
    /\ trigger' = IF pending = <<>> THEN f ELSE trigger
    /\ disk' = Removed((ToSet(pending) \cup {f}) \ ToSet(Added(f)))
    /\ given' = [given EXCEPT ![f] = IF @ < 2 THEN @ + 1 ELSE @]
    /\ pc' = (IF pending = <<>> THEN "pop_first" ELSE "pop") /\ held' = f
    /\ UNCHANGED <<notices, untouched, due, mainRest, emitted, fate, rejected>>

\* The retry entry goes after the collector has the path; the first candidate of a
\* burst also brings in up to two hot frames, as far as there is room.
Pop ==
    /\ pc \in {"pop", "pop_first"} /\ pc' = "due"
    /\ retry' = Without(held) /\ due' = Tail(due) /\ held' = NoFile
    /\ \E frames \in SUBSET {h \in HotFrames : disk[h] = "absent"} :
          /\ pc = "pop" => frames = {}
          /\ Cardinality(frames) <= 2 /\ Cardinality(frames) <= MaxCandidates - Len(pending)
          /\ pending' = pending \o SetToSeq(frames)
          /\ disk' = [f \in Files |-> IF f \in frames THEN "complete" ELSE disk[f]]
    /\ UNCHANGED <<notices, observer, queue, processing, stop, trigger, mainRest, history>>

\* The quiet window has not passed.
NotDue ==
    /\ pc = "flush" /\ pc' = "scan"
    /\ UNCHANGED <<disk, notices, untouched, held, due, collector, mainRest, history>>

\* Mutant of First: the sharpest image goes first.
FirstBySharpness(ranked) == ranked

\* prefer_first_candidate: the ranked image that the processor will try first.
First(ranked) == IF Head(pending) \in ranked THEN {Head(pending)} ELSE ranked

\* flush_due drains the collector and ranks what it drained; images that cannot be
\* decoded (an upload still being written, for one) are removed.  The burst goes to
\* put, which finds the queue full or not.
Flush ==
    /\ pc = "flush" /\ pending # <<>>
    /\ \E ranked \in SUBSET {f \in ToSet(pending) : disk[f] = "complete"} :
          /\ disk' = Removed(ToSet(pending) \ ranked)
          /\ \/ ranked = {} /\ pc' = "scan" /\ UNCHANGED <<held, emitted>>
             \/ \E first \in First(ranked) :
                   /\ held' = [id |-> emitted + 1, first |-> first, paths |-> ranked,
                               trigger |-> trigger, full |-> Len(queue) = MaxPending]
                   /\ emitted' = emitted + 1 /\ pc' = "put"
    /\ pending' = <<>> /\ trigger' = NoFile
    /\ UNCHANGED <<notices, untouched, due, mainRest, fate, rejected, given>>

\* Mutants of Put: the newest burst gives way; a dropped burst is not reported.
PutOldest ==
    /\ pc = "put"
    /\ IF held.full /\ queue # <<>>
       THEN queue' = queue /\ pc' = "report" /\ UNCHANGED held
       ELSE /\ queue' = Append(queue, [held EXCEPT !.full = FALSE])
            /\ held' = NoFile /\ pc' = "scan"
    /\ UNCHANGED <<disk, notices, observer, retry, processing, stop, due, collector, mainRest,
                   history>>
PutUnreported ==
    /\ pc = "put"
    /\ queue' = Append(IF held.full /\ queue # <<>> THEN Tail(queue) ELSE queue,
                       [held EXCEPT !.full = FALSE])
    /\ held' = NoFile /\ pc' = "scan"
    /\ UNCHANGED <<disk, notices, observer, retry, processing, stop, due, collector, mainRest,
                   history>>

\* BoundedBurstQueue.put.  get() takes no lock, so the queue that was full a moment ago
\* may have been taken from: the oldest burst then gives way although there is room.
Put ==
    /\ pc = "put"
    /\ IF held.full /\ queue # <<>>
       THEN /\ queue' = Append(Tail(queue), [held EXCEPT !.full = FALSE])
            /\ held' = Head(queue) /\ pc' = "report"
       ELSE /\ queue' = Append(queue, [held EXCEPT !.full = FALSE])
            /\ held' = NoFile /\ pc' = "scan"
    /\ UNCHANGED <<disk, notices, observer, retry, processing, stop, due, collector, mainRest,
                   history>>

\* Mutant of ReportCoalesced: the uploads of the burst just queued are removed.
ReportCoalescedItem ==
    /\ pc = "report"
    /\ \/ fate' = [fate EXCEPT !["coalesced"] = @ \cup {held.id}] /\ pc' = "scan"
       \/ fate' = [fate EXCEPT !["unreported"] = @ \cup {held.id}] /\ pc' = "stop"
    /\ disk' = Removed(IF queue = <<>> THEN {} ELSE Last(queue).paths) /\ held' = NoFile
    /\ UNCHANGED <<notices, untouched, due, collector, mainRest, emitted, rejected, given>>

\* enqueue reports the burst that gave way and removes its uploads, also when the
\* report raises and the loop is left.
ReportCoalesced ==
    /\ pc = "report"
    /\ \/ fate' = [fate EXCEPT !["coalesced"] = @ \cup {held.id}] /\ pc' = "scan"
       \/ fate' = [fate EXCEPT !["unreported"] = @ \cup {held.id}] /\ pc' = "stop"
    /\ disk' = Removed(held.paths) /\ held' = NoFile
    /\ UNCHANGED <<notices, untouched, due, collector, mainRest, emitted, rejected, given>>
-----------------------------------------------------------------------------
(* The end of run_worker *)

\* SIGTERM, or a supervised worker that ended.
RequestStop ==
    /\ running /\ ~stop /\ stop' = TRUE
    /\ UNCHANGED <<disk, notices, observer, retry, queue, processing, worker, history>>

BeginStop ==
    /\ pc = "stop" /\ pc' = "drain" /\ stop' = TRUE
    /\ UNCHANGED <<disk, notices, observer, retry, queue, processing, held, due, collector,
                   mainRest, history>>

\* BoundedBurstQueue.stop takes the bursts off one by one, racing get(), and puts the
\* sentinel into the empty queue.
Drain ==
    /\ pc = "drain"
    /\ \/ /\ queue # <<>> /\ queue' = Tail(queue)
          /\ dropped' = Append(dropped, Head(queue)) /\ UNCHANGED pc
       \/ queue = <<>> /\ queue' = <<Sentinel>> /\ pc' = "report_stop" /\ UNCHANGED dropped
    /\ UNCHANGED <<disk, notices, observer, retry, processing, stop, held, due, collector,
                   toScan, shut, history>>

\* Each is reported as service_stopping.  A report that raises leaves run_worker, past
\* the join and the shutdown.
ReportStopped ==
    /\ pc = "report_stop"
    /\ \/ /\ dropped = <<>> /\ pc' = "join" /\ UNCHANGED <<disk, fate, dropped>>
       \/ /\ dropped # <<>> /\ dropped' = Tail(dropped)
          /\ disk' = Removed(Head(dropped).paths)
          /\ \/ fate' = [fate EXCEPT !["stopped"] = @ \cup {Head(dropped).id}] /\ UNCHANGED pc
             \/ fate' = [fate EXCEPT !["unreported"] = @ \cup {Head(dropped).id}] /\ pc' = "left"
    /\ UNCHANGED <<notices, untouched, held, due, collector, toScan, shut, emitted, rejected,
                   given>>

\* Mutant of Join: the processing thread is not waited for.
JoinAtOnce ==
    /\ pc = "join" /\ pc' = "left" /\ shut' = TRUE
    /\ UNCHANGED <<disk, notices, untouched, held, due, collector, dropped, toScan, history>>

\* The processing thread is joined, then shutdown() latches the relay.
Join ==
    /\ pc = "join" /\ processing.ended
    /\ pc' = "left" /\ shut' = TRUE
    /\ UNCHANGED <<disk, notices, untouched, held, due, collector, dropped, toScan, history>>
-----------------------------------------------------------------------------
(* The processing thread *)

\* Mutant of Take: the sentinel is taken for an empty queue.
TakeIgnoringSentinel ==
    /\ running /\ ~processing.ended /\ processing.taken = NoBurst /\ queue # <<>>
    /\ queue' = Tail(queue)
    /\ processing' = [processing EXCEPT !.taken = Head(queue)]
    /\ UNCHANGED <<disk, notices, observer, retry, stop, worker, history>>

Take ==
    /\ running /\ ~processing.ended /\ processing.taken = NoBurst /\ queue # <<>>
    /\ queue' = Tail(queue)
    /\ processing' = IF Head(queue) = Sentinel THEN [processing EXCEPT !.ended = TRUE]
                     ELSE [processing EXCEPT !.taken = Head(queue)]
    /\ UNCHANGED <<disk, notices, observer, retry, stop, worker, history>>

\* emit returns, or raises and the error is reported; the uploads go either way.
Process ==
    /\ running /\ processing.taken # NoBurst
    /\ processing' = [processing EXCEPT !.taken = NoBurst]
    /\ fate' = [fate EXCEPT !["processed"] = @ \cup {processing.taken.id}]
    /\ disk' = Removed(processing.taken.paths)
    /\ UNCHANGED <<notices, observer, retry, queue, stop, worker, emitted, rejected, given>>
-----------------------------------------------------------------------------
MainStep ==
    \/ LeaveLoop \/ Scan \/ MainRejects \/ TakeSnapshot \/ SkipDue \/ Expire \/ BackOff
    \/ Collect \/ Pop \/ NotDue \/ Flush \/ Put \/ ReportCoalesced
    \/ BeginStop \/ Drain \/ ReportStopped \/ Join

ObserverStep == Observe \/ ObserverRejects
ProcessorStep == Take \/ Process

Next ==
    \/ \E f \in Uploads : BeginUpload(f) \/ FinishUpload(f)
    \/ MainStep \/ ObserverStep \/ ProcessorStep \/ RequestStop

Spec == Init /\ [][Next]_vars

\* Every thread runs on; a quiet window or a back-off that is waited for again and
\* again passes.
FairSpec ==
    /\ Spec /\ WF_vars(MainStep) /\ SF_vars(Flush)
    /\ SF_vars(TakeSnapshot /\ Len(due') = Len(retry))
    /\ WF_vars(ObserverStep) /\ WF_vars(ProcessorStep)
-----------------------------------------------------------------------------
(* Properties *)

InHand == IF pc \in {"put", "report"} THEN {held} ELSE {}
Queued == {b \in ToSet(queue) \cup ToSet(dropped) : b # Sentinel}
Taken == {processing.taken} \ {NoBurst}

\* No burst is lost or handled twice between put, get and stop: each one that was
\* emitted is in one place or has met one fate.
FateOnce ==
    \A id \in 1 .. emitted :
        Cardinality({x \in Fates : id \in fate[x]}
                    \cup {<<"held", b>> : b \in {c \in InHand : c.id = id}}
                    \cup {<<"queued", b>> : b \in {c \in Queued : c.id = id}}
                    \cup {<<"taken", b>> : b \in {c \in Taken : c.id = id}}) = 1

\* "A one-consumer queue that keeps the freshest pending camera work": what waits in
\* the queue is younger than every burst coalesced away or processed.
FreshestKept ==
    \A b \in ToSet(queue) \ {Sentinel} :
        \A id \in fate["coalesced"] \cup fate["processed"] \cup {c.id : c \in Taken} : b.id > id

\* The processor finds the files of its burst: a file can only be taken from a burst
\* that waits when its upload was rejected meanwhile or had been collected twice.
UploadHeld ==
    \A b \in Queued \cup Taken \cup {c \in InHand : pc = "put"} :
        \A f \in b.paths :
            OnDisk(f) \/ (f \in Uploads /\ (f \in rejected \/ given[f] > 1))

\* "The high-resolution FTP image remains the first OCR attempt": as documented.
FtpFirst ==
    \A b \in Queued \cup Taken : b.trigger \in b.paths => b.first = b.trigger

\* What the collector does guarantee: the upload that opened a burst is tried first
\* unless it was collected a second time.
FtpFirstUnlessAgain ==
    \A b \in Queued \cup Taken :
        b.trigger \in b.paths => b.first = b.trigger \/ given[b.trigger] > 1

\* shutdown() finds the processing thread gone and every burst accounted for, and it
\* is only skipped when a report failed.
OrderlyStop ==
    /\ shut => /\ processing.ended /\ queue = <<>> /\ dropped = <<>>
               /\ UNION {fate[x] : x \in Fates} = 1 .. emitted
    /\ pc = "left" /\ ~shut => fate["unreported"] # {}

\* No burst is lost, doubled, overtaken by an older one or forgotten by the stop.
BurstsAccounted == TypeOK /\ FateOnce /\ FreshestKept /\ OrderlyStop

\* A stop request, which is never taken back, is always carried out.
StopCompletes == []<>(stop => pc = "left")

\* No upload stays in the directory while the service runs: whatever is
\* noticed twice, evicted, unreadable or coalesced is removed in the end.
UploadsRemoved == \A f \in Uploads : []<>(OnDisk(f) => pc = "left")
=============================================================================
