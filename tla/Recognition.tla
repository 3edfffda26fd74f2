----------------------------- MODULE Recognition -----------------------------
(***************************************************************************)
(* Recognition under a deadline: the processing thread's frame loop and     *)
(* GateProcessor._run_ocr_bounded, the request thread it starts for every   *)
(* frame, PlateRecognizerClient with its session, the cleanup thread that   *)
(* abandons a request that is too late, and GateProcessor.close.            *)
(*                                                                         *)
(* The service may answer at any time or never.  A join with a timeout may  *)
(* end before the thread it waits for does.  Blocks under _ocr_slot_lock    *)
(* and _session_lock are single steps.                                      *)
(***************************************************************************)
EXTENDS Naturals, FiniteSets

CONSTANTS
    MaxFrames,     \* MAX_OCR_FRAMES
    MaxRequests    \* bound: request threads

ASSUME RecognitionAssumption == MaxFrames \in Nat \ {0} /\ MaxRequests \in Nat

Requests == 1 .. MaxRequests

VARIABLES
    proc,        \* the processing thread: step, request, frame, deadline passed
    busy,        \* _ocr_slot is taken
    worker,      \* _ocr_worker, 0 when None
    closed,      \* _closed
    thread,      \* request threads: step, generation read, outcome
    closer,      \* GateProcessor.close: step, the worker it saw
    client,      \* PlateRecognizerClient: _session, _session_generation, _closed
    cleanup,     \* threads that run abandon_in_flight (per request) or the client's close (0)
    open         \* sessions not yet closed

vars == <<proc, busy, worker, closed, thread, closer, client, cleanup, open>>

\* Sessions are named after the request that created them; 0 is None.
NoThread == [step |-> "none", generation |-> 0, outcome |-> "none"]
NoCleanup == [step |-> "none", session |-> 0]
IdleProc == [step |-> "idle", request |-> 0, frame |-> 0, expired |-> FALSE]

TypeOK ==
    /\ proc \in [step : {"idle", "frame", "acquired", "wait", "join", "cancel", "allowed",
                         "actuate", "pulse"},
                 request : 0 .. MaxRequests, frame : 0 .. MaxFrames, expired : BOOLEAN]
    /\ busy \in BOOLEAN /\ worker \in 0 .. MaxRequests /\ closed \in BOOLEAN
    /\ thread \in [Requests -> [step : {"none", "read", "install", "check", "post", "release",
                                        "put", "dead"},
                                generation : 0 .. MaxRequests + 1,
                                outcome : {"none", "ok", "error", "abandoned"}]]
    /\ closer \in [step : {"no", "barrier", "client", "worker", "done"}, saw : 0 .. MaxRequests]
    /\ client \in [session : 0 .. MaxRequests, generation : 0 .. MaxRequests + 1, closed : BOOLEAN]
    /\ cleanup \in [0 .. MaxRequests -> [step : {"none", "detach", "close", "done"},
                                         session : 0 .. MaxRequests]]
    /\ open \subseteq Requests

Init ==
    /\ proc = IdleProc /\ busy = FALSE /\ worker = 0 /\ closed = FALSE
    /\ thread = [r \in Requests |-> NoThread] /\ closer = [step |-> "no", saw |-> 0]
    /\ client = [session |-> 0, generation |-> 0, closed |-> FALSE]
    /\ cleanup = [r \in 0 .. MaxRequests |-> NoCleanup] /\ open = {}
-----------------------------------------------------------------------------
(* The processing thread: GateProcessor.process *)

Unused == {r \in Requests : thread[r].step = "none" /\ r # proc.request}
At(step) == proc.step = step
Started(r) == thread[r].step # "none"
Alive(r) == thread[r].step \notin {"none", "dead"}

\* _ocr_worker is forgotten if it is this thread and has ended.
Forget(r) == IF worker = r /\ ~Alive(r) THEN 0 ELSE worker

\* Mutant of NextFrame: one frame too many.
NextFrameBeyond ==
    IF proc.frame > MaxFrames THEN IdleProc
    ELSE [proc EXCEPT !.step = "frame", !.request = 0, !.frame = @ + 1]

\* for ... in enumerate(paths[:MAX_OCR_FRAMES])
NextFrame ==
    IF proc.frame = MaxFrames THEN IdleProc
    ELSE [proc EXCEPT !.step = "frame", !.request = 0, !.frame = @ + 1]

BeginBurst ==
    /\ At("idle") /\ Unused # {}
    /\ proc' = [IdleProc EXCEPT !.step = "frame", !.frame = 1]
    /\ UNCHANGED <<busy, worker, closed, thread, closer, client, cleanup, open>>

DeadlinePasses ==
    /\ ~At("idle") /\ ~At("pulse") /\ ~proc.expired
    /\ proc' = [proc EXCEPT !.expired = TRUE]
    /\ UNCHANGED <<busy, worker, closed, thread, closer, client, cleanup, open>>

\* Too late, closed or busy: no request for this burst any more.
GiveUp ==
    /\ At("frame") /\ (proc.expired \/ closed \/ busy)
    /\ proc' = IdleProc
    /\ UNCHANGED <<busy, worker, closed, thread, closer, client, cleanup, open>>

\* _run_ocr_bounded takes the slot without waiting.
AcquireSlot ==
    /\ At("frame") /\ ~proc.expired /\ ~closed /\ ~busy
    /\ busy' = TRUE
    /\ \E r \in Unused : /\ \A q \in Unused : r <= q
                         /\ proc' = [proc EXCEPT !.step = "acquired", !.request = r]
    /\ UNCHANGED <<worker, closed, thread, closer, client, cleanup, open>>

\* Mutant of StartRequest: _closed is not looked at again.
StartRequestUnchecked ==
    LET r == proc.request IN
    /\ At("acquired")
    /\ worker' = r /\ thread' = [thread EXCEPT ![r].step = "read"]
    /\ proc' = [proc EXCEPT !.step = "wait"]
    /\ UNCHANGED <<busy, closed, closer, client, cleanup, open>>

\* Under the lock again: the request thread is registered and started, ...
StartRequest ==
    LET r == proc.request IN
    /\ At("acquired") /\ ~closed
    /\ worker' = r /\ thread' = [thread EXCEPT ![r].step = "read"]
    /\ proc' = [proc EXCEPT !.step = "wait"]
    /\ UNCHANGED <<busy, closed, closer, client, cleanup, open>>

\* ... or close came first, or no thread can be started.
StartFails ==
    /\ At("acquired") /\ busy' = FALSE
    /\ \/ closed /\ proc' = IdleProc /\ UNCHANGED worker
       \/ ~closed /\ proc' = NextFrame /\ worker' = 0
    /\ UNCHANGED <<closed, thread, closer, client, cleanup, open>>

\* The result is in the queue of this request, the last thing its thread does.
GetResult ==
    /\ At("wait") /\ thread[proc.request].step = "dead"
    /\ proc' = [proc EXCEPT !.step = "join"]
    /\ UNCHANGED <<busy, worker, closed, thread, closer, client, cleanup, open>>

\* Mutant of TimeOut: the slot is given back for a request that still runs.
TimeOutReleasing ==
    /\ At("wait") /\ proc.expired
    /\ busy' = FALSE
    /\ cleanup' = [cleanup EXCEPT ![proc.request].step = "detach"]
    /\ proc' = [proc EXCEPT !.step = "cancel"]
    /\ UNCHANGED <<worker, closed, thread, closer, client, open>>

\* No result in time: _cancel_and_reap_ocr_worker starts a thread that abandons
\* the request.
TimeOut ==
    /\ At("wait") /\ proc.expired
    /\ cleanup' = [cleanup EXCEPT ![proc.request].step = "detach"]
    /\ proc' = [proc EXCEPT !.step = "cancel"]
    /\ UNCHANGED <<busy, worker, closed, thread, closer, client, open>>

\* Mutant of Reap: wait for the abandoned request itself.
ReapJoining ==
    /\ At("cancel") /\ ~Alive(proc.request)
    /\ worker' = Forget(proc.request) /\ proc' = IdleProc
    /\ UNCHANGED <<busy, closed, thread, closer, client, cleanup, open>>

\* cleanup.join(0.05) is over, whether or not the cleanup is; abandon_in_flight
\* returns False, so the request thread is not waited for.
Reap ==
    /\ At("cancel")
    /\ worker' = Forget(proc.request) /\ proc' = IdleProc
    /\ UNCHANGED <<busy, closed, thread, closer, client, cleanup, open>>

\* worker.join(0.5), then the frame counts: it decides the burst or the next one
\* is tried.
UseResult ==
    /\ At("join")
    /\ worker' = Forget(proc.request)
    /\ \/ proc' = NextFrame
       \/ /\ thread[proc.request].outcome = "ok" /\ ~proc.expired
          /\ proc' = [proc EXCEPT !.step = "allowed"]
    /\ UNCHANGED <<busy, closed, thread, closer, client, cleanup, open>>

\* with self._actuation_lock
LockActuation ==
    /\ At("allowed")
    /\ proc' = [proc EXCEPT !.step = "actuate"]
    /\ UNCHANGED <<busy, worker, closed, thread, closer, client, cleanup, open>>

\* Mutant of Activate: the last check does not ask whether close has begun.
ActivateUnchecked ==
    /\ At("actuate")
    /\ proc' = IF proc.expired THEN IdleProc ELSE [proc EXCEPT !.step = "pulse"]
    /\ UNCHANGED <<busy, worker, closed, thread, closer, client, cleanup, open>>

\* activation_inhibition looks at _closed and the deadline, then the pulse begins.
Activate ==
    /\ At("actuate")
    /\ proc' = IF closed \/ proc.expired THEN IdleProc ELSE [proc EXCEPT !.step = "pulse"]
    /\ UNCHANGED <<busy, worker, closed, thread, closer, client, cleanup, open>>

EndPulse ==
    /\ At("pulse") /\ proc' = IdleProc
    /\ UNCHANGED <<busy, worker, closed, thread, closer, client, cleanup, open>>
-----------------------------------------------------------------------------
(* A request thread: PlateRecognizerClient.recognise *)

here == <<proc, worker, closed, closer, cleanup>>

Ended(r, outcome) ==
    [thread EXCEPT ![r] = [step |-> "release", generation |-> 0, outcome |-> outcome]]

\* Why recognise raises under the session lock: closed, or another generation.
Refused(r) ==
    IF client.closed THEN "error"
    ELSE IF thread[r].generation # client.generation THEN "abandoned" ELSE "none"

\* Generation and session are read; without a session one is created.
ReadSession(r) ==
    /\ thread[r].step = "read"
    /\ thread' = IF client.closed THEN Ended(r, "error")
                 ELSE [thread EXCEPT ![r] = [step |-> IF client.session = 0 THEN "install" ELSE "check",
                                             generation |-> client.generation, outcome |-> "none"]]
    /\ open' = IF ~client.closed /\ client.session = 0 THEN open \cup {r} ELSE open
    /\ UNCHANGED <<here, busy, client>>

\* Mutant of InstallSession: a session that is not needed any more is dropped.
InstallSessionLeaking(r) ==
    /\ thread[r].step = "install"
    /\ IF Refused(r) # "none"
       THEN thread' = Ended(r, Refused(r)) /\ UNCHANGED <<open, client>>
       ELSE /\ thread' = [thread EXCEPT ![r].step = "check"]
            /\ client' = [client EXCEPT !.session = r] /\ UNCHANGED open
    /\ UNCHANGED <<here, busy>>

\* The new session is installed, or discarded if it comes too late.
InstallSession(r) ==
    /\ thread[r].step = "install"
    /\ IF Refused(r) # "none"
       THEN thread' = Ended(r, Refused(r)) /\ open' = open \ {r} /\ UNCHANGED client
       ELSE /\ thread' = [thread EXCEPT ![r].step = "check"]
            /\ IF client.session = 0
               THEN client' = [client EXCEPT !.session = r] /\ UNCHANGED open
               ELSE open' = open \ {r} /\ UNCHANGED client
    /\ UNCHANGED <<here, busy>>

\* The last look before the request is sent.
CheckSession(r) ==
    /\ thread[r].step = "check"
    /\ thread' = IF Refused(r) # "none" THEN Ended(r, Refused(r))
                 ELSE [thread EXCEPT ![r].step = "post"]
    /\ UNCHANGED <<here, busy, client, open>>

\* The service answers, usably or not, or the connection ends.
Answer(r) ==
    /\ thread[r].step = "post"
    /\ \E outcome \in {"ok", "error"} : thread' = Ended(r, outcome)
    /\ UNCHANGED <<here, busy, client, open>>

\* invoke gives the slot back and puts the result into its own queue.
ReleaseSlot(r) ==
    /\ thread[r].step = "release"
    /\ busy' = FALSE /\ thread' = [thread EXCEPT ![r].step = "put"]
    /\ UNCHANGED <<here, client, open>>

PutResult(r) ==
    /\ thread[r].step = "put"
    /\ thread' = [thread EXCEPT ![r].step = "dead"]
    /\ UNCHANGED <<here, busy, client, open>>
-----------------------------------------------------------------------------
(* Cleanup threads: abandon_in_flight for a request, the client's close for 0 *)

Detach(c) ==
    /\ cleanup[c].step = "detach"
    /\ client' = [session |-> 0, generation |-> client.generation + 1,
                  closed |-> client.closed \/ c = 0]
    /\ cleanup' = [cleanup EXCEPT ![c] = [step |-> "close", session |-> client.session]]
    /\ UNCHANGED <<proc, busy, worker, closed, thread, closer, open>>

CloseSession(c) ==
    /\ cleanup[c].step = "close"
    /\ open' = open \ {cleanup[c].session}
    /\ cleanup' = [cleanup EXCEPT ![c] = [step |-> "done", session |-> 0]]
    /\ UNCHANGED <<proc, busy, worker, closed, thread, closer, client>>
-----------------------------------------------------------------------------
(* GateProcessor.close, run with a time limit by _shutdown_controller *)

BeginClose ==
    /\ closer.step = "no"
    /\ closed' = TRUE /\ closer' = [step |-> "barrier", saw |-> worker]
    /\ UNCHANGED <<proc, busy, worker, thread, client, cleanup, open>>

\* with self._actuation_lock: pass
PassBarrier ==
    /\ closer.step = "barrier" /\ ~At("actuate") /\ ~At("pulse")
    /\ closer' = [closer EXCEPT !.step = "client"]
    /\ cleanup' = [cleanup EXCEPT ![0].step = "detach"]
    /\ UNCHANGED <<proc, busy, worker, closed, thread, client, open>>

\* cleanup.join(0.5) is over ...
LeaveClient ==
    /\ closer.step = "client"
    /\ closer' = [closer EXCEPT !.step = "worker"]
    /\ UNCHANGED <<proc, busy, worker, closed, thread, client, cleanup, open>>

\* Mutant of EndClose: the worker is joined without a timeout.
EndCloseJoining ==
    /\ closer.step = "worker" /\ (closer.saw # 0 => ~Alive(closer.saw))
    /\ closer' = [closer EXCEPT !.step = "done"]
    /\ worker' = IF closer.saw = 0 THEN worker ELSE Forget(closer.saw)
    /\ UNCHANGED <<proc, busy, closed, thread, client, cleanup, open>>

\* ... and worker.join(0.5).
EndClose ==
    /\ closer.step = "worker"
    /\ closer' = [closer EXCEPT !.step = "done"]
    /\ worker' = IF closer.saw = 0 THEN worker ELSE Forget(closer.saw)
    /\ UNCHANGED <<proc, busy, closed, thread, client, cleanup, open>>
-----------------------------------------------------------------------------
ProcStep ==
    \/ GiveUp \/ AcquireSlot \/ StartRequest \/ StartFails \/ GetResult \/ TimeOut \/ Reap
    \/ UseResult \/ LockActuation \/ Activate \/ EndPulse

ThreadStep(r) ==
    \/ ReadSession(r) \/ InstallSession(r) \/ CheckSession(r) \/ Answer(r) \/ ReleaseSlot(r)
    \/ PutResult(r)

CloserStep == PassBarrier \/ LeaveClient \/ EndClose

Next ==
    \/ BeginBurst \/ DeadlinePasses \/ ProcStep
    \/ \E r \in Requests : ThreadStep(r)
    \/ \E c \in 0 .. MaxRequests : Detach(c) \/ CloseSession(c)
    \/ BeginClose \/ CloserStep

Spec == Init /\ [][Next]_vars

\* Time passes, the processing thread and the closing thread run on.  Nothing is
\* assumed of the request threads: the service may never answer.
FairSpec == Spec /\ WF_vars(DeadlinePasses) /\ WF_vars(ProcStep) /\ WF_vars(CloserStep)
-----------------------------------------------------------------------------
(* Properties *)

\* Requests that hold the slot: about to be started, or started and not finished.
Holders ==
    {r \in Requests : thread[r].step \in {"read", "install", "check", "post", "release"}}
    \cup IF At("acquired") THEN {proc.request} ELSE {}

\* The slot is taken exactly while one request holds it: no request, however late
\* it answers, gives back a slot that a later one has taken or keeps one for ever.
SlotAccounted == Cardinality(Holders) = IF busy THEN 1 ELSE 0

\* Once close has begun, a request thread that is still at work is the one close
\* saw and waits for: none slips in between the acquisition and the start.
CloseSeesWorker ==
    closed => \A r \in Requests : r \in Holders /\ Started(r) => r = closer.saw

\* Behind the barrier of close no actuation of the burst thread energises the relay.
NoPulseAfterBarrier == closer.step \in {"client", "worker", "done"} => ~At("pulse")

\* close is a barrier: whatever runs on behind it was seen by it and moves no gate.
CloseIsBarrier == CloseSeesWorker /\ NoPulseAfterBarrier

\* No session is left open: each is the client's, or is about to be installed or
\* discarded by its request, or is about to be closed by a cleanup thread.
SessionsAccounted ==
    \A s \in open : \/ s = client.session
                    \/ thread[s].step = "install"
                    \/ \E c \in 0 .. MaxRequests : cleanup[c] = [step |-> "close", session |-> s]

\* Late requests cost nobody the slot or a session.
RequestsAccounted == TypeOK /\ SlotAccounted /\ SessionsAccounted

\* "Detach a timed-out request so later work receives a fresh session": only a
\* request that was too late itself is abandoned.
OnlyLateAbandoned == \A r \in Requests : thread[r].outcome = "abandoned" => cleanup[r].step # "none"

\* A burst is decided although the service hangs ...
ProcessReturns == ~At("idle") ~> At("idle")

\* ... and so is close.
CloseReturns == closed ~> closer.step = "done"
=============================================================================
