------------------------------ MODULE HotStream ------------------------------
(***************************************************************************)
(* The hot stream: HotStreamBuffer.run_forever, which keeps one ffmpeg child *)
(* running and puts the frames it reads into HotFrameRing, and close, which *)
(* the shutdown calls after it has set the stop event.                      *)
(*                                                                         *)
(* Both threads go through _stop_child, which reads self._process and then  *)
(* clears it, with no lock: the two accesses are separate steps.  The child *)
(* may deliver, stall or die at any time.                                   *)
(***************************************************************************)
EXTENDS Naturals, Sequences, SequencesExt, FiniteSets

CONSTANTS
    Frames,        \* digests of decodable frames
    Large,         \* those of two units of size; the others have one
    MaxFrames,     \* frame_count
    MaxBytes,      \* max_total_bytes
    MaxChildren    \* bound: ffmpeg processes

ASSUME HotStreamAssumption ==
    /\ Large \subseteq Frames
    /\ MaxFrames \in Nat \ {0} /\ MaxBytes \in Nat /\ MaxBytes >= 2 /\ MaxChildren \in Nat

Children == 1 .. MaxChildren

VARIABLES
    stop,       \* stop_event
    thread,     \* run_forever: step, its child, the process it took in _stop_child
    closer,     \* close: step, the process it took
    handle,     \* self._process, 0 when None
    alive,      \* running children
    spawned,    \* children started so far
    ring,       \* _frames, oldest first
    total,      \* _total_bytes
    recency     \* all frames ever added, by their latest capture (history)

hotStreamVars == <<stop, thread, closer, handle, alive, spawned, ring, total, recency>>

Size(f) == IF f \in Large THEN 2 ELSE 1

HotStreamTypeOK ==
    /\ stop \in BOOLEAN
    /\ thread \in [step : {"check", "spawn", "assign", "loop", "reading", "take", "drop", "kill", "ended"},
                   child : 0 .. MaxChildren, took : 0 .. MaxChildren]
    /\ closer \in [step : {"no", "take", "drop", "kill", "done"}, took : 0 .. MaxChildren]
    /\ handle \in 0 .. MaxChildren /\ alive \subseteq Children /\ spawned \in 0 .. MaxChildren
    /\ ring \in Seq(Frames) /\ total \in 0 .. MaxBytes /\ recency \in Seq(Frames)

HotStreamInit ==
    /\ stop = FALSE /\ thread = [step |-> "check", child |-> 0, took |-> 0]
    /\ closer = [step |-> "no", took |-> 0] /\ handle = 0 /\ alive = {} /\ spawned = 0
    /\ ring = <<>> /\ total = 0 /\ recency = <<>>
-----------------------------------------------------------------------------
(* HotFrameRing.add *)

frames == <<ring, total, recency>>

Bytes(queue) == Len(queue) + Cardinality({i \in DOMAIN queue : queue[i] \in Large})

\* Mutant of Added: a frame seen before keeps its place.
AddedInPlace(f) ==
    IF f \in ToSet(ring) THEN [queue |-> ring, bytes |-> total]
    ELSE [queue |-> Append(ring, f), bytes |-> total + Size(f)]

\* Mutant of Added: a frame seen before is counted again.
AddedTwice(f) == [queue |-> Append(RemoveFirst(ring, f), f), bytes |-> total + Size(f)]

\* The frame goes to the end; one seen before is moved there, not counted again.
Added(f) ==
    IF f \in ToSet(ring) THEN [queue |-> Append(RemoveFirst(ring, f), f), bytes |-> total]
    ELSE [queue |-> Append(ring, f), bytes |-> total + Size(f)]

\* Mutant of Fits: only the number of frames counts.
FitsByNumber(new, n) == Len(new.queue) - n <= MaxFrames

\* The rest fits when n frames are dropped from the front.
Fits(new, n) ==
    /\ Len(new.queue) - n <= MaxFrames
    /\ new.bytes - Bytes(SubSeq(new.queue, 1, n)) <= MaxBytes

\* while too many or too large: popleft
Surplus(new) == CHOOSE n \in 0 .. Len(new.queue) : Fits(new, n) /\ \A m \in 0 .. n - 1 : ~Fits(new, m)

Add(f) ==
    LET new == Added(f) IN
    /\ ring' = SubSeq(new.queue, Surplus(new) + 1, Len(new.queue))
    /\ total' = new.bytes - Bytes(SubSeq(new.queue, 1, Surplus(new)))
    /\ recency' = Append(RemoveFirst(recency, f), f)
-----------------------------------------------------------------------------
(* HotStreamBuffer.run_forever *)

Go(step) == thread' = [thread EXCEPT !.step = step]

\* while not stop_event.is_set()
CheckStop ==
    /\ thread.step = "check" /\ Go(IF stop THEN "ended" ELSE "spawn")
    /\ UNCHANGED <<stop, closer, handle, alive, spawned, frames>>

\* popen
Spawn ==
    /\ thread.step = "spawn" /\ spawned < MaxChildren
    /\ spawned' = spawned + 1 /\ alive' = alive \cup {spawned'}
    /\ thread' = [thread EXCEPT !.step = "assign", !.child = spawned']
    /\ UNCHANGED <<stop, closer, handle, frames>>

\* popen raises OSError
SpawnFails ==
    /\ thread.step = "spawn" /\ Go("take")
    /\ UNCHANGED <<stop, closer, handle, alive, spawned, frames>>

\* self._process = process
Assign ==
    /\ thread.step = "assign" /\ handle' = thread.child /\ Go("loop")
    /\ UNCHANGED <<stop, closer, alive, spawned, frames>>

Loop ==
    /\ thread.step = "loop" /\ Go(IF stop THEN "take" ELSE "reading")
    /\ UNCHANGED <<stop, closer, handle, alive, spawned, frames>>

\* A chunk completes a frame.
ReadFrame(f) ==
    /\ thread.step = "reading" /\ thread.child \in alive
    /\ Add(f) /\ Go("loop")
    /\ UNCHANGED <<stop, closer, handle, alive, spawned>>

\* The child has closed its output: always when it is dead, perhaps before.
ReadEnd ==
    /\ thread.step = "reading" /\ thread.child \notin alive
    /\ Go("take")
    /\ UNCHANGED <<stop, closer, handle, alive, spawned, frames>>

CloseOutput ==
    /\ thread.step = "reading" /\ thread.child \in alive
    /\ Go("take")
    /\ UNCHANGED <<stop, closer, handle, alive, spawned, frames>>

\* _stop_child: process = self._process
Take ==
    /\ thread.step = "take" /\ thread' = [thread EXCEPT !.step = "drop", !.took = handle]
    /\ UNCHANGED <<stop, closer, handle, alive, spawned, frames>>

\* self._process = None
Drop ==
    /\ thread.step = "drop" /\ handle' = 0 /\ Go("kill")
    /\ UNCHANGED <<stop, closer, alive, spawned, frames>>

\* Mutant of Kill: a child that has closed its output is taken for dead.
KillNothing ==
    /\ thread.step = "kill"
    /\ thread' = [step |-> "check", child |-> 0, took |-> 0]
    /\ UNCHANGED <<stop, closer, handle, alive, spawned, frames>>

\* terminate, then kill; the loop goes round, after a wait unless stopping.
Kill ==
    /\ thread.step = "kill" /\ alive' = alive \ {thread.took}
    /\ thread' = [step |-> "check", child |-> 0, took |-> 0]
    /\ UNCHANGED <<stop, closer, handle, spawned, frames>>

ChildDies(c) ==
    /\ c \in alive /\ alive' = alive \ {c}
    /\ UNCHANGED <<stop, thread, closer, handle, spawned, frames>>
-----------------------------------------------------------------------------
(* The shutdown: run_worker sets the event, then HotStreamBuffer.close *)

SetStop ==
    /\ closer.step = "no" /\ stop' = TRUE
    /\ closer' = [closer EXCEPT !.step = "take"]
    /\ UNCHANGED <<thread, handle, alive, spawned, frames>>

CloseTake ==
    /\ closer.step = "take" /\ closer' = [step |-> "drop", took |-> handle]
    /\ UNCHANGED <<stop, thread, handle, alive, spawned, frames>>

CloseDrop ==
    /\ closer.step = "drop" /\ handle' = 0 /\ closer' = [closer EXCEPT !.step = "kill"]
    /\ UNCHANGED <<stop, thread, alive, spawned, frames>>

\* Mutant of CloseKill: the child is left to notice the stop by itself.
CloseKillNothing ==
    /\ closer.step = "kill" /\ closer' = [closer EXCEPT !.step = "done"]
    /\ UNCHANGED <<stop, thread, handle, alive, spawned, frames>>

CloseKill ==
    /\ closer.step = "kill" /\ alive' = alive \ {closer.took}
    /\ closer' = [closer EXCEPT !.step = "done"]
    /\ UNCHANGED <<stop, thread, handle, spawned, frames>>
-----------------------------------------------------------------------------
Running ==
    \/ CheckStop \/ Spawn \/ SpawnFails \/ Assign \/ Loop \/ ReadEnd \/ Take \/ Drop \/ Kill

Closing == CloseTake \/ CloseDrop \/ CloseKill

HotStreamNext ==
    \/ Running \/ CloseOutput \/ (\E f \in Frames : ReadFrame(f))
    \/ \E c \in Children : ChildDies(c)
    \/ SetStop \/ Closing

HotStreamSpec == HotStreamInit /\ [][HotStreamNext]_hotStreamVars

\* Both threads run on; the child owes nothing, not even an end of its output.
HotStreamFairSpec == HotStreamSpec /\ WF_hotStreamVars(Running) /\ WF_hotStreamVars(Closing)
-----------------------------------------------------------------------------
(* Properties *)

\* "The controller starts one bounded ffmpeg child": restarts after errors, ends
\* of output and failed starts never leave two of them running.
OneChild == Cardinality(alive) <= 1

\* The byte count is that of the frames kept, through refreshed duplicates and
\* evictions, so that neither limit is exceeded and none is reached early.
RingAccounted ==
    /\ total = Bytes(ring) /\ total <= MaxBytes
    /\ Len(ring) <= MaxFrames /\ Cardinality(ToSet(ring)) = Len(ring)

\* What is kept is what was captured last: a frame is dropped only for newer ones,
\* also when older ones were refreshed in between.
RingIsNewest ==
    /\ Len(ring) <= Len(recency)
    /\ ring = SubSeq(recency, Len(recency) - Len(ring) + 1, Len(recency))

\* The ring holds the newest frames that fit, and knows how many bytes they are.
RingConsistent == HotStreamTypeOK /\ RingAccounted /\ RingIsNewest

\* The stream thread ends after a stop although the camera stalls and the read
\* would block for ever.
ThreadEnds == stop ~> thread.step = "ended"

\* "... and is terminated on shutdown": when close has returned and the thread has
\* ended, no child is left.
NoOrphan == thread.step = "ended" /\ closer.step = "done" => alive = {}
=============================================================================
