------------------------- MODULE RecognitionProofs -------------------------
(***************************************************************************)
(* Theorems about Recognition, for any number of frames and requests and    *)
(* whatever the service does.                                               *)
(***************************************************************************)
EXTENDS Recognition, FiniteSetTheorems, TLAPS

USE RecognitionAssumption
-----------------------------------------------------------------------------
(* The inductive invariant *)

Running == {r \in Requests : thread[r].step \in {"read", "install", "check", "post", "release"}}
Detached == {c \in 0 .. MaxRequests : cleanup[c].step \in {"close", "done"}}

\* Types but for the bound on the generation, which takes counting.
Types ==
    /\ proc \in [step : {"idle", "frame", "acquired", "wait", "join", "cancel", "allowed",
                         "actuate", "pulse"},
                 request : 0 .. MaxRequests, frame : 0 .. MaxFrames, expired : BOOLEAN]
    /\ busy \in BOOLEAN /\ worker \in 0 .. MaxRequests /\ closed \in BOOLEAN
    /\ thread \in [Requests -> [step : {"none", "read", "install", "check", "post", "release",
                                        "put", "dead"},
                                generation : 0 .. MaxRequests + 1,
                                outcome : {"none", "ok", "error", "abandoned"}]]
    /\ closer \in [step : {"no", "barrier", "client", "worker", "done"}, saw : 0 .. MaxRequests]
    /\ client \in [session : 0 .. MaxRequests, generation : Nat, closed : BOOLEAN]
    /\ cleanup \in [0 .. MaxRequests -> [step : {"none", "detach", "close", "done"},
                                         session : 0 .. MaxRequests]]
    /\ open \subseteq Requests

\* Every cleanup thread raises the generation once.
GenerationCounts == client.generation = Cardinality(Detached)

\* What the processing thread holds at each of its steps: a request number of its own that no
\* thread runs under yet, one whose thread nobody has abandoned, ...
OwnRequest ==
    /\ At("acquired") \/ At("wait") \/ At("cancel") \/ At("join") => proc.request \in Requests
    /\ At("acquired") => thread[proc.request].step = "none"
    /\ At("wait") => thread[proc.request].step # "none" /\ cleanup[proc.request].step = "none"
    /\ \A r \in Requests : cleanup[r].step # "none" => thread[r].step # "none"
    /\ At("idle") \/ At("frame") => proc.request = 0
    /\ At("frame") \/ At("acquired") \/ At("wait") \/ At("join") => proc.frame \in 1 .. MaxFrames

\* The slot is taken for exactly one request, which is about to be started or is at work.
SlotHeld ==
    /\ busy <=> At("acquired") \/ Running # {}
    /\ At("acquired") => Running = {}
    /\ \A r, s \in Running : r = s

\* A request at work is the registered one until close has begun, and the one close saw from then
\* on.
Registered ==
    /\ closed <=> closer.step # "no"
    /\ \A r \in Running : IF closed THEN closer.saw = r ELSE worker = r

\* close's own cleanup thread starts behind the barrier.
BarrierFirst ==
    /\ closer.step \in {"no", "barrier"} => cleanup[0].step = "none"
    /\ closer.step \in {"client", "worker", "done"} => ~At("pulse")

IInv == Types /\ GenerationCounts /\ OwnRequest /\ SlotHeld /\ Registered /\ BarrierFirst
        /\ SessionsAccounted
-----------------------------------------------------------------------------
(* Types and the generation *)

ThreadState == [step : {"none", "read", "install", "check", "post", "release", "put", "dead"},
                generation : 0 .. MaxRequests + 1, outcome : {"none", "ok", "error", "abandoned"}]
CleanupState == [step : {"none", "detach", "close", "done"}, session : 0 .. MaxRequests]
ProcState == [step : {"idle", "frame", "acquired", "wait", "join", "cancel", "allowed", "actuate",
                      "pulse"},
              request : 0 .. MaxRequests, frame : 0 .. MaxFrames, expired : BOOLEAN]

\* There are no more generations than cleanup threads.
LEMMA GenerationBound ==
    ASSUME Types, GenerationCounts
    PROVE  client.generation \in 0 .. MaxRequests + 1 /\ IsFiniteSet(Detached)
<1>1. IsFiniteSet(0 .. MaxRequests) /\ Cardinality(0 .. MaxRequests) = MaxRequests + 1
  BY FS_Interval
<1>2. Detached \in SUBSET (0 .. MaxRequests)
  BY DEF Detached
<1>3. IsFiniteSet(Detached) /\ Cardinality(Detached) <= MaxRequests + 1
  BY <1>1, <1>2, FS_Subset
<1>4. QED
  BY <1>3, FS_CardinalityType DEF GenerationCounts, Types

\* A request not yet made, its cleanup and an idle processing thread are typed.
LEMMA InitialValues ==
    NoThread \in ThreadState /\ NoCleanup \in CleanupState /\ IdleProc \in ProcState
  BY DEF NoThread, NoCleanup, IdleProc, ThreadState, CleanupState, ProcState

\* The frame loop goes on to a frame of the burst or ends.
LEMMA NextFrameType ==
    ASSUME proc \in ProcState, proc.frame \in 1 .. MaxFrames
    PROVE  /\ NextFrame \in ProcState
           /\ \/ NextFrame = IdleProc
              \/ NextFrame.step = "frame" /\ NextFrame.request = 0 /\ NextFrame.frame \in 1 .. MaxFrames
<1>1. CASE proc.frame = MaxFrames
  BY <1>1, InitialValues DEF NextFrame
<1>2. CASE proc.frame # MaxFrames
  <2>1. NextFrame = [proc EXCEPT !.step = "frame", !.request = 0, !.frame = proc.frame + 1]
    BY <1>2 DEF NextFrame
  <2>2. proc.frame + 1 \in 1 .. MaxFrames
    BY <1>2
  <2>3. NextFrame \in ProcState
    <3>1. NextFrame = [step |-> "frame", request |-> 0, frame |-> proc.frame + 1,
                       expired |-> proc.expired]
      BY <2>1 DEF ProcState
    <3>2. proc.expired \in BOOLEAN
      BY DEF ProcState
    <3>3. QED
      BY <2>2, <3>1, <3>2 DEF ProcState
  <2>4. NextFrame.step = "frame" /\ NextFrame.request = 0 /\ NextFrame.frame = proc.frame + 1
    BY <2>1 DEF ProcState
  <2>5. QED
    BY <2>2, <2>3, <2>4
<1>3. QED
  BY <1>1, <1>2

\* What recognise's steps make of a request thread.
LEMMA ThreadUpdates ==
    ASSUME thread \in [Requests -> ThreadState], NEW r \in Requests
    PROVE  /\ \A o \in {"none", "ok", "error", "abandoned"} :
                 /\ Ended(r, o) \in [Requests -> ThreadState]
                 /\ Ended(r, o)[r].step = "release"
                 /\ \A q \in Requests \ {r} : Ended(r, o)[q] = thread[q]
           /\ \A s \in {"read", "check", "post", "put", "dead"} :
                 /\ [thread EXCEPT ![r].step = s] \in [Requests -> ThreadState]
                 /\ [thread EXCEPT ![r].step = s][r].step = s
                 /\ \A q \in Requests \ {r} : [thread EXCEPT ![r].step = s][q] = thread[q]
           /\ Refused(r) \in {"none", "error", "abandoned"}
<1>1. ASSUME NEW o \in {"none", "ok", "error", "abandoned"}
      PROVE  /\ Ended(r, o) \in [Requests -> ThreadState]
             /\ Ended(r, o)[r].step = "release"
             /\ \A q \in Requests \ {r} : Ended(r, o)[q] = thread[q]
  <2>1. [step |-> "release", generation |-> 0, outcome |-> o] \in ThreadState
    BY DEF ThreadState
  <2>2. QED
    BY <2>1 DEF Ended
<1>2. ASSUME NEW s \in {"read", "check", "post", "put", "dead"}
      PROVE  /\ [thread EXCEPT ![r].step = s] \in [Requests -> ThreadState]
             /\ [thread EXCEPT ![r].step = s][r].step = s
             /\ \A q \in Requests \ {r} : [thread EXCEPT ![r].step = s][q] = thread[q]
  <2>1. [thread[r] EXCEPT !.step = s] \in ThreadState /\ [thread[r] EXCEPT !.step = s].step = s
    BY DEF ThreadState
  <2>2. QED
    BY <2>1
<1>3. Refused(r) \in {"none", "error", "abandoned"}
  BY DEF Refused
<1>4. QED
  BY <1>1, <1>2, <1>3

\* Each step keeps the types and leaves the generation equal to the number of detachments.
LEMMA TypesStep ==
    ASSUME IInv, [Next]_vars
    PROVE  Types' /\ GenerationCounts'
<1>a. /\ proc \in ProcState /\ busy \in BOOLEAN /\ worker \in 0 .. MaxRequests /\ closed \in BOOLEAN
      /\ thread \in [Requests -> ThreadState]
      /\ closer \in [step : {"no", "barrier", "client", "worker", "done"}, saw : 0 .. MaxRequests]
      /\ client \in [session : 0 .. MaxRequests, generation : Nat, closed : BOOLEAN]
      /\ cleanup \in [0 .. MaxRequests -> CleanupState] /\ open \subseteq Requests
  BY DEF IInv, Types, ProcState, ThreadState, CleanupState
<1>b. client.generation \in 0 .. MaxRequests + 1 /\ IsFiniteSet(Detached)
  BY GenerationBound DEF IInv
<1>c. ASSUME /\ proc' \in ProcState /\ busy' \in BOOLEAN /\ worker' \in 0 .. MaxRequests
             /\ closed' \in BOOLEAN /\ thread' \in [Requests -> ThreadState]
             /\ closer' \in [step : {"no", "barrier", "client", "worker", "done"}, saw : 0 .. MaxRequests]
             /\ client' \in [session : 0 .. MaxRequests, generation : Nat, closed : BOOLEAN]
             /\ cleanup' \in [0 .. MaxRequests -> CleanupState] /\ open' \subseteq Requests
      PROVE  Types'
  BY <1>c DEF Types, ProcState, ThreadState, CleanupState
<1>d. ASSUME client'.generation = client.generation,
             \A c \in 0 .. MaxRequests : cleanup'[c].step \in {"close", "done"}
                                       <=> cleanup[c].step \in {"close", "done"}
      PROVE  GenerationCounts'
  <2>1. Detached' = Detached
    BY <1>d DEF Detached
  <2>2. QED
    BY <1>d, <2>1 DEF GenerationCounts, IInv
<1>e. \A r \in 0 .. MaxRequests : Forget(r) \in 0 .. MaxRequests
  BY <1>a DEF Forget
<1>f. OwnRequest
  BY DEF IInv
<1>1. CASE BeginBurst \/ DeadlinePasses
  <2>1. proc' \in ProcState
    <3>1. CASE BeginBurst
      <4>1. proc' = [step |-> "frame", request |-> 0, frame |-> 1, expired |-> FALSE]
        BY <3>1 DEF BeginBurst, IdleProc
      <4>2. QED
        BY <4>1 DEF ProcState
    <3>2. CASE DeadlinePasses
      BY <3>2, <1>a DEF DeadlinePasses, ProcState
    <3>3. QED
      BY <1>1, <3>1, <3>2
  <2>2. QED
    BY <1>1, <1>a, <1>c, <1>d, <2>1 DEF BeginBurst, DeadlinePasses
<1>2. CASE GiveUp \/ GetResult \/ LockActuation \/ Activate \/ EndPulse
  <2>1. proc' \in ProcState
    BY <1>2, <1>a, InitialValues DEF GiveUp, GetResult, LockActuation, Activate, EndPulse, ProcState
  <2>2. QED
    BY <1>2, <1>a, <1>c, <1>d, <2>1 DEF GiveUp, GetResult, LockActuation, Activate, EndPulse
<1>3. CASE AcquireSlot
  <2>1. proc' \in ProcState
    <3>1. PICK r \in Requests : proc' = [proc EXCEPT !.step = "acquired", !.request = r]
      BY <1>3 DEF AcquireSlot, Unused
    <3>2. proc' = [step |-> "acquired", request |-> r, frame |-> proc.frame, expired |-> proc.expired]
      BY <1>a, <3>1 DEF ProcState
    <3>3. proc.frame \in 0 .. MaxFrames /\ proc.expired \in BOOLEAN /\ r \in 0 .. MaxRequests
      BY <1>a DEF Requests, ProcState
    <3>4. QED
      BY <3>2, <3>3 DEF ProcState
  <2>2. QED
    BY <1>3, <1>a, <1>c, <1>d, <2>1 DEF AcquireSlot
<1>4. CASE StartRequest
  <2>1. proc.request \in Requests
    BY <1>4, <1>f DEF StartRequest, OwnRequest
  <2>2. thread' \in [Requests -> ThreadState]
    BY <1>4, <1>a, <2>1, ThreadUpdates DEF StartRequest
  <2>3. proc' \in ProcState
    BY <1>4, <1>a DEF StartRequest, ProcState
  <2>4. QED
    BY <1>4, <1>a, <1>c, <1>d, <2>1, <2>2, <2>3 DEF StartRequest, Requests
<1>5. CASE StartFails
  <2>1. proc.frame \in 1 .. MaxFrames
    BY <1>5, <1>f DEF StartFails, OwnRequest
  <2>2. proc' \in ProcState /\ worker' \in 0 .. MaxRequests
    BY <1>5, <1>a, <2>1, NextFrameType, InitialValues DEF StartFails
  <2>3. QED
    BY <1>5, <1>a, <1>c, <1>d, <2>2 DEF StartFails
<1>6. CASE TimeOut
  <2>1. proc.request \in Requests /\ cleanup[proc.request].step = "none"
    BY <1>6, <1>f DEF TimeOut, OwnRequest
  <2>2. /\ cleanup' \in [0 .. MaxRequests -> CleanupState]
        /\ \A c \in 0 .. MaxRequests : cleanup'[c].step = IF c = proc.request THEN "detach"
                                                       ELSE cleanup[c].step
    <3>1. cleanup' = [cleanup EXCEPT ![proc.request] = [cleanup[proc.request] EXCEPT !.step = "detach"]]
      BY <1>6 DEF TimeOut
    <3>2. proc.request \in 0 .. MaxRequests
      BY <2>1 DEF Requests
    <3>3. /\ [cleanup[proc.request] EXCEPT !.step = "detach"] \in CleanupState
          /\ [cleanup[proc.request] EXCEPT !.step = "detach"].step = "detach"
      BY <1>a, <3>2 DEF CleanupState
    <3>4. QED
      BY <1>a, <3>1, <3>2, <3>3
  <2>3. proc' \in ProcState
    BY <1>6, <1>a DEF TimeOut, ProcState
  <2>4. QED
    BY <1>6, <1>a, <1>c, <1>d, <2>1, <2>2, <2>3 DEF TimeOut
<1>7. CASE Reap
  <2>1. proc' \in ProcState /\ worker' \in 0 .. MaxRequests
    BY <1>7, <1>a, <1>e, InitialValues DEF Reap, ProcState
  <2>2. QED
    BY <1>7, <1>a, <1>c, <1>d, <2>1 DEF Reap
<1>8. CASE UseResult
  <2>1. proc.frame \in 1 .. MaxFrames
    BY <1>8, <1>f DEF UseResult, OwnRequest
  <2>2. [proc EXCEPT !.step = "allowed"] \in ProcState
    BY <1>a DEF ProcState
  <2>3. proc' \in ProcState /\ worker' \in 0 .. MaxRequests
    <3>1. proc.request \in 0 .. MaxRequests
      BY <1>a DEF ProcState
    <3>2. QED
      BY <1>8, <1>a, <1>e, <2>1, <2>2, <3>1, NextFrameType DEF UseResult
  <2>4. QED
    BY <1>8, <1>a, <1>c, <1>d, <2>3 DEF UseResult
<1>9. ASSUME NEW r \in Requests, ThreadStep(r) PROVE Types' /\ GenerationCounts'
  <2>a. /\ \A o \in {"none", "ok", "error", "abandoned"} : Ended(r, o) \in [Requests -> ThreadState]
        /\ [thread EXCEPT ![r].step = "check"] \in [Requests -> ThreadState]
        /\ [thread EXCEPT ![r].step = "post"] \in [Requests -> ThreadState]
        /\ [thread EXCEPT ![r].step = "put"] \in [Requests -> ThreadState]
        /\ [thread EXCEPT ![r].step = "dead"] \in [Requests -> ThreadState]
        /\ Refused(r) \in {"none", "error", "abandoned"}
    BY <1>a, ThreadUpdates
  <2>1. CASE ReadSession(r)
    <3>1. [step |-> IF client.session = 0 THEN "install" ELSE "check",
           generation |-> client.generation, outcome |-> "none"] \in ThreadState
      BY <1>b DEF ThreadState
    <3>2. thread' \in [Requests -> ThreadState]
      BY <1>a, <2>1, <3>1, ThreadUpdates DEF ReadSession
    <3>3. QED
      BY <1>a, <1>c, <1>d, <2>1, <3>2 DEF ReadSession, here
  <2>2. CASE InstallSession(r)
    <3>1. thread' \in [Requests -> ThreadState]
      BY <2>a, <2>2 DEF InstallSession
    <3>2. /\ client' \in [session : 0 .. MaxRequests, generation : Nat, closed : BOOLEAN]
          /\ client'.generation = client.generation
      <4>1. /\ [client EXCEPT !.session = r] \in
                  [session : 0 .. MaxRequests, generation : Nat, closed : BOOLEAN]
            /\ [client EXCEPT !.session = r].generation = client.generation
        BY <1>a DEF Requests
      <4>2. client' = client \/ client' = [client EXCEPT !.session = r]
        BY <2>2 DEF InstallSession
      <4>3. QED
        BY <1>a, <4>1, <4>2
    <3>3. open' \subseteq Requests
      BY <1>a, <2>2 DEF InstallSession
    <3>4. QED
      BY <1>a, <1>c, <1>d, <2>2, <3>1, <3>2, <3>3 DEF InstallSession, here
  <2>3. CASE CheckSession(r) \/ Answer(r)
    <3>1. thread' \in [Requests -> ThreadState]
      BY <2>a, <2>3 DEF CheckSession, Answer
    <3>2. QED
      BY <1>a, <1>c, <1>d, <2>3, <3>1 DEF CheckSession, Answer, here
  <2>4. CASE ReleaseSlot(r) \/ PutResult(r)
    <3>1. thread' \in [Requests -> ThreadState]
      BY <2>a, <2>4 DEF ReleaseSlot, PutResult
    <3>2. QED
      BY <1>a, <1>c, <1>d, <2>4, <3>1 DEF ReleaseSlot, PutResult, here
  <2>5. QED
    BY <1>9, <2>1, <2>2, <2>3, <2>4 DEF ThreadStep
<1>10. ASSUME NEW c \in 0 .. MaxRequests, Detach(c) PROVE Types' /\ GenerationCounts'
  <2>1. [step |-> "close", session |-> client.session] \in CleanupState
    BY <1>a DEF CleanupState
  <2>2. Detached' = Detached \cup {c} /\ c \notin Detached
    BY <1>10, <1>a DEF Detach, Detached
  <2>3. client'.generation = client.generation + 1
    BY <1>10 DEF Detach
  <2>4. Cardinality(Detached') = Cardinality(Detached) + 1
    BY <1>b, <2>2, FS_AddElement
  <2>5. client' \in [session : 0 .. MaxRequests, generation : Nat, closed : BOOLEAN]
    BY <1>10, <1>a DEF Detach
  <2>6. GenerationCounts'
    BY <2>3, <2>4 DEF GenerationCounts, IInv
  <2>7. QED
    BY <1>10, <1>a, <1>c, <2>1, <2>5, <2>6 DEF Detach
<1>11. ASSUME NEW c \in 0 .. MaxRequests, CloseSession(c) PROVE Types' /\ GenerationCounts'
  <2>1. [step |-> "done", session |-> 0] \in CleanupState
    BY DEF CleanupState
  <2>2. QED
    BY <1>11, <1>a, <1>c, <1>d, <2>1 DEF CloseSession
<1>12. CASE BeginClose
  BY <1>12, <1>a, <1>c, <1>d DEF BeginClose
<1>13. CASE PassBarrier
  <2>1. cleanup[0].step = "none"
    BY <1>13 DEF PassBarrier, IInv, BarrierFirst
  <2>2. /\ cleanup' \in [0 .. MaxRequests -> CleanupState]
        /\ \A c \in 0 .. MaxRequests : cleanup'[c].step = IF c = 0 THEN "detach" ELSE cleanup[c].step
    <3>1. 0 \in 0 .. MaxRequests /\ cleanup \in [0 .. MaxRequests -> CleanupState]
      BY <1>a
    <3>2. /\ [cleanup[0] EXCEPT !.step = "detach"] \in CleanupState
          /\ [cleanup[0] EXCEPT !.step = "detach"].step = "detach"
      BY <3>1 DEF CleanupState
    <3>3. cleanup' = [cleanup EXCEPT ![0] = [cleanup[0] EXCEPT !.step = "detach"]]
      BY <1>13, <3>1 DEF PassBarrier
    <3>4. QED
      BY <3>1, <3>2, <3>3
  <2>3. QED
    BY <1>13, <1>a, <1>c, <1>d, <2>1, <2>2 DEF PassBarrier
<1>14. CASE LeaveClient
  BY <1>14, <1>a, <1>c, <1>d DEF LeaveClient
<1>15. CASE EndClose
  <2>1. worker' \in 0 .. MaxRequests
    BY <1>15, <1>a, <1>e DEF EndClose
  <2>2. QED
    BY <1>15, <1>a, <1>c, <1>d, <2>1 DEF EndClose
<1>16. CASE UNCHANGED vars
  BY <1>16, <1>a, <1>c, <1>d DEF vars
<1>17. QED
  BY <1>1, <1>2, <1>3, <1>4, <1>5, <1>6, <1>7, <1>8, <1>9, <1>10, <1>11, <1>12, <1>13, <1>14,
     <1>15, <1>16 DEF Next, ProcStep, CloserStep
-----------------------------------------------------------------------------
(* Slot, registration, barrier and sessions *)

Rest == OwnRequest /\ SlotHeld /\ Registered /\ BarrierFirst /\ SessionsAccounted

\* The steps of the processing thread, which owns the slot from AcquireSlot to StartRequest.
LEMMA ProcInv ==
    ASSUME IInv, BeginBurst \/ DeadlinePasses \/ ProcStep
    PROVE  Rest'
<1>a. /\ proc \in ProcState /\ thread \in [Requests -> ThreadState]
      /\ cleanup \in [0 .. MaxRequests -> CleanupState] /\ open \subseteq Requests
      /\ busy \in BOOLEAN /\ closed \in BOOLEAN
  BY DEF IInv, Types, ProcState, ThreadState, CleanupState
<1>b. OwnRequest /\ SlotHeld /\ Registered /\ BarrierFirst /\ SessionsAccounted
  BY DEF IInv
<1>c. IdleProc.step = "idle" /\ IdleProc.request = 0
  BY DEF IdleProc
\* Steps that move only this thread between steps that do not own the slot.
<1>d. ASSUME UNCHANGED <<busy, closed, thread, closer, client, cleanup, open>>,
             ~At("acquired"), ~At("acquired")',
             \A r \in Running : worker = r => worker' = r,
             At("pulse")' => closer.step \in {"no", "barrier"},
             OwnRequest'
      PROVE  Rest'
  <2>1. Running' = Running
    BY <1>d DEF Running
  <2>2. SlotHeld' /\ Registered' /\ BarrierFirst' /\ SessionsAccounted'
    BY <1>b, <1>d, <2>1 DEF SlotHeld, Registered, BarrierFirst, SessionsAccounted
  <2>3. QED
    BY <1>d, <2>2 DEF Rest
<1>e. ASSUME UNCHANGED <<busy, worker, closed, thread, closer, client, cleanup, open>>,
             proc' = IdleProc, ~At("acquired")
      PROVE  Rest'
  <2>1. OwnRequest'
    BY <1>b, <1>c, <1>e DEF OwnRequest, At
  <2>2. QED
    BY <1>c, <1>d, <1>e, <2>1 DEF At
<1>1. CASE BeginBurst
  <2>1. proc' = [step |-> "frame", request |-> 0, frame |-> 1, expired |-> FALSE]
    BY <1>1 DEF BeginBurst, IdleProc
  <2>2. proc'.step = "frame" /\ proc'.request = 0 /\ proc'.frame \in 1 .. MaxFrames
    BY <2>1
  <2>3. OwnRequest'
    BY <1>1, <1>b, <2>2 DEF OwnRequest, At, BeginBurst
  <2>4. QED
    BY <1>1, <1>d, <2>2, <2>3 DEF At, BeginBurst
<1>2. CASE DeadlinePasses
  <2>1. proc'.step = proc.step /\ proc'.request = proc.request /\ proc'.frame = proc.frame
    BY <1>2, <1>a DEF DeadlinePasses, ProcState
  <2>2. Running' = Running
    BY <1>2 DEF Running, DeadlinePasses
  <2>3. QED
    BY <1>2, <1>b, <2>1, <2>2 DEF DeadlinePasses, Rest, OwnRequest, SlotHeld, Registered, BarrierFirst,
                                 SessionsAccounted, At
<1>3. CASE GiveUp \/ EndPulse
  BY <1>3, <1>e DEF GiveUp, EndPulse, At
<1>4. CASE GetResult
  <2>1. proc'.step = "join" /\ proc'.request = proc.request /\ proc'.frame = proc.frame
    BY <1>4, <1>a DEF GetResult, ProcState
  <2>2. OwnRequest'
    BY <1>4, <1>b, <2>1 DEF OwnRequest, At, GetResult
  <2>3. QED
    BY <1>4, <1>d, <2>1, <2>2 DEF At, GetResult
<1>5. CASE LockActuation
  <2>1. proc'.step = "actuate"
    BY <1>5, <1>a DEF LockActuation, ProcState
  <2>2. OwnRequest'
    BY <1>5, <1>b, <2>1 DEF OwnRequest, At, LockActuation
  <2>3. QED
    BY <1>5, <1>d, <2>1, <2>2 DEF At, LockActuation
<1>6. CASE Activate
  <2>1. CASE closed \/ proc.expired
    BY <1>6, <1>e, <2>1 DEF Activate, At
  <2>2. CASE ~closed /\ ~proc.expired
    <3>1. proc'.step = "pulse"
      BY <1>6, <1>a, <2>2 DEF Activate, ProcState
    <3>2. OwnRequest' /\ closer.step = "no"
      BY <1>6, <1>b, <2>2, <3>1 DEF OwnRequest, At, Activate, Registered
    <3>3. QED
      BY <1>6, <1>d, <3>1, <3>2 DEF At, Activate
  <2>3. QED
    BY <2>1, <2>2
<1>7. CASE AcquireSlot
  <2>1. PICK r \in Unused : proc' = [proc EXCEPT !.step = "acquired", !.request = r]
    BY <1>7 DEF AcquireSlot
  <2>2. /\ r \in Requests /\ thread[r].step = "none"
        /\ proc'.step = "acquired" /\ proc'.request = r /\ proc'.frame = proc.frame
    BY <1>a, <2>1 DEF Unused, ProcState
  <2>3. Running' = {} /\ Running = {}
    BY <1>7, <1>b DEF Running, SlotHeld, AcquireSlot
  <2>4. OwnRequest'
    BY <1>7, <1>b, <2>2 DEF OwnRequest, At, AcquireSlot
  <2>5. QED
    BY <1>7, <1>b, <2>2, <2>3, <2>4 DEF AcquireSlot, Rest, SlotHeld, Registered, BarrierFirst,
                                       SessionsAccounted, At
<1>8. CASE StartRequest
  <2>1. /\ proc'.step = "wait" /\ proc'.request = proc.request /\ proc'.frame = proc.frame
        /\ proc.request \in Requests
    BY <1>8, <1>a, <1>b DEF StartRequest, ProcState, OwnRequest
  <2>2. /\ thread'[proc.request].step = "read"
        /\ \A q \in Requests \ {proc.request} : thread'[q] = thread[q]
    BY <1>8, <1>a, <2>1 DEF StartRequest
  <2>3. Running' = {proc.request}
    BY <1>8, <1>b, <2>1, <2>2 DEF Running, SlotHeld, StartRequest, At
  <2>4. OwnRequest'
    BY <1>8, <1>b, <2>1, <2>2 DEF OwnRequest, At, StartRequest
  <2>5. SlotHeld' /\ Registered' /\ BarrierFirst'
    BY <1>8, <1>b, <2>1, <2>3 DEF SlotHeld, Registered, BarrierFirst, At, StartRequest
  <2>6. SessionsAccounted'
    BY <1>8, <1>a, <1>b, <2>2 DEF SessionsAccounted, StartRequest, OwnRequest
  <2>7. QED
    BY <2>4, <2>5, <2>6 DEF Rest
<1>9. CASE StartFails
  <2>1. proc'.step \in {"idle", "frame"} /\ proc'.request = 0
        /\ (proc'.step = "frame" => proc'.frame \in 1 .. MaxFrames)
    BY <1>9, <1>a, <1>b, <1>c, NextFrameType DEF StartFails, OwnRequest
  <2>2. Running' = {} /\ Running = {}
    BY <1>9, <1>b DEF Running, SlotHeld, StartFails
  <2>3. OwnRequest'
    BY <1>9, <1>b, <2>1 DEF OwnRequest, At, StartFails
  <2>4. QED
    BY <1>9, <1>b, <2>1, <2>2, <2>3 DEF StartFails, Rest, SlotHeld, Registered, BarrierFirst,
                                       SessionsAccounted, At
<1>10. CASE TimeOut
  <2>1. proc'.step = "cancel" /\ proc'.request = proc.request
    BY <1>10, <1>a DEF TimeOut, ProcState
  <2>2. proc.request \in Requests /\ cleanup[proc.request].step = "none"
    BY <1>10, <1>b DEF TimeOut, OwnRequest
  <2>3. /\ \A c \in 0 .. MaxRequests : c # proc.request => cleanup'[c] = cleanup[c]
        /\ cleanup'[0] = cleanup[0]
    BY <1>10, <1>a, <2>2 DEF TimeOut, Requests
  <2>4. OwnRequest'
    BY <1>10, <1>b, <2>1, <2>2, <2>3 DEF OwnRequest, At, TimeOut, Requests
  <2>5. Running' = Running
    BY <1>10 DEF Running, TimeOut
  <2>6. SlotHeld' /\ Registered' /\ BarrierFirst'
    BY <1>10, <1>b, <2>1, <2>3, <2>5 DEF SlotHeld, Registered, BarrierFirst, At, TimeOut
  <2>7. SessionsAccounted'
    BY <1>10, <1>b, <2>2, <2>3 DEF SessionsAccounted, TimeOut
  <2>8. QED
    BY <2>4, <2>6, <2>7 DEF Rest
<1>11. CASE Reap \/ UseResult
  <2>1. /\ proc'.step \in {"idle", "frame", "allowed"}
        /\ proc'.step # "allowed" => proc'.request = 0
        /\ proc'.step = "frame" => proc'.frame \in 1 .. MaxFrames
    <3>1. CASE proc' = IdleProc
      BY <1>c, <3>1
    <3>2. CASE proc' = NextFrame
      BY <1>11, <1>a, <1>b, <1>c, <3>2, NextFrameType DEF Reap, UseResult, OwnRequest
    <3>3. CASE proc' = [proc EXCEPT !.step = "allowed"]
      BY <1>a, <3>3 DEF ProcState
    <3>4. QED
      BY <1>11, <3>1, <3>2, <3>3 DEF Reap, UseResult
  <2>2. worker' = Forget(proc.request) /\ ~At("acquired")
        /\ UNCHANGED <<busy, closed, thread, closer, client, cleanup, open>>
    BY <1>11 DEF Reap, UseResult, At
  <2>3. \A r \in Running : worker = r => worker' = r
    BY <2>2 DEF Forget, Alive, Running
  <2>4. OwnRequest'
    BY <1>b, <2>1, <2>2 DEF OwnRequest, At
  <2>5. QED
    BY <1>d, <2>1, <2>2, <2>3, <2>4 DEF At
<1>12. QED
  BY <1>1, <1>2, <1>3, <1>4, <1>5, <1>6, <1>7, <1>8, <1>9, <1>10, <1>11 DEF ProcStep

\* The steps of a request thread, however late they come.
LEMMA ThreadInv ==
    ASSUME IInv, NEW r \in Requests, ThreadStep(r)
    PROVE  Rest'
<1>a. /\ proc \in ProcState /\ thread \in [Requests -> ThreadState]
      /\ client \in [session : 0 .. MaxRequests, generation : Nat, closed : BOOLEAN]
      /\ cleanup \in [0 .. MaxRequests -> CleanupState] /\ open \subseteq Requests
      /\ busy \in BOOLEAN /\ closed \in BOOLEAN
  BY DEF IInv, Types, ProcState, ThreadState, CleanupState
<1>b. OwnRequest /\ SlotHeld /\ Registered /\ BarrierFirst /\ SessionsAccounted
  BY DEF IInv
<1>c. UNCHANGED here /\ thread[r].step # "none"
  BY DEF ThreadStep, ReadSession, InstallSession, CheckSession, Answer, ReleaseSlot, PutResult
<1>d. /\ \A o \in {"none", "ok", "error", "abandoned"} :
            thread' = Ended(r, o) =>
                thread'[r].step = "release" /\ \A q \in Requests \ {r} : thread'[q] = thread[q]
      /\ \A s \in {"check", "post", "put", "dead"} :
            thread' = [thread EXCEPT ![r].step = s] =>
                thread'[r].step = s /\ \A q \in Requests \ {r} : thread'[q] = thread[q]
      /\ Refused(r) \in {"none", "error", "abandoned"}
  <2>1. ASSUME NEW o \in {"none", "ok", "error", "abandoned"}, thread' = Ended(r, o)
        PROVE  thread'[r].step = "release" /\ \A q \in Requests \ {r} : thread'[q] = thread[q]
    BY <1>a, <2>1 DEF Ended
  <2>2. ASSUME NEW s \in {"check", "post", "put", "dead"}, thread' = [thread EXCEPT ![r].step = s]
        PROVE  thread'[r].step = s /\ \A q \in Requests \ {r} : thread'[q] = thread[q]
    BY <1>a, <2>2 DEF ThreadState
  <2>3. Refused(r) \in {"none", "error", "abandoned"}
    BY DEF Refused
  <2>4. QED
    BY <2>1, <2>2, <2>3
<1>e. thread'[r].step # "none" /\ \A q \in Requests \ {r} : thread'[q] = thread[q]
  <2>1. CASE ReadSession(r)
    BY <1>a, <1>d, <2>1 DEF ReadSession
  <2>2. CASE InstallSession(r)
    BY <1>d, <2>2 DEF InstallSession
  <2>3. CASE CheckSession(r)
    BY <1>d, <2>3 DEF CheckSession
  <2>4. CASE Answer(r)
    BY <1>d, <2>4 DEF Answer
  <2>5. CASE ReleaseSlot(r) \/ PutResult(r)
    BY <1>d, <2>5 DEF ReleaseSlot, PutResult
  <2>6. QED
    BY <2>1, <2>2, <2>3, <2>4, <2>5 DEF ThreadStep
<1>f. OwnRequest' /\ BarrierFirst'
  BY <1>b, <1>c, <1>e DEF OwnRequest, BarrierFirst, here, At
\* A step that leaves the request at work leaves the slot alone.
<1>g. ASSUME r \in Running, r \in Running', UNCHANGED busy
      PROVE  SlotHeld' /\ Registered'
  <2>1. Running' = Running
    BY <1>e, <1>g DEF Running
  <2>2. QED
    BY <1>b, <1>c, <1>g, <2>1 DEF SlotHeld, Registered, here, At
<1>1. CASE ReadSession(r)
  <2>1. thread'[r].step \in {"release", "install", "check"}
    BY <1>a, <1>d, <1>1 DEF ReadSession
  <2>2. r \in Running /\ r \in Running' /\ UNCHANGED <<busy, client>>
    BY <1>1, <2>1 DEF Running, ReadSession
  <2>3. SessionsAccounted'
    <3>1. CASE ~client.closed /\ client.session = 0
      <4>1. thread'[r].step = "install" /\ open' = open \cup {r}
        BY <1>a, <1>1, <3>1 DEF ReadSession
      <4>2. QED
        BY <1>a, <1>b, <1>c, <1>e, <2>2, <4>1 DEF SessionsAccounted, here
    <3>2. CASE ~(~client.closed /\ client.session = 0)
      <4>1. open' = open /\ thread[r].step = "read"
        BY <1>1, <3>2 DEF ReadSession
      <4>2. QED
        BY <1>a, <1>b, <1>c, <1>e, <2>2, <4>1 DEF SessionsAccounted, here
    <3>3. QED
      BY <3>1, <3>2
  <2>4. QED
    BY <1>f, <1>g, <2>2, <2>3 DEF Rest
<1>2. CASE InstallSession(r)
  <2>1. thread'[r].step \in {"release", "check"}
    BY <1>d, <1>2 DEF InstallSession
  <2>2. r \in Running /\ r \in Running' /\ UNCHANGED busy
    BY <1>2, <2>1 DEF Running, InstallSession
  <2>3. SessionsAccounted'
    <3>1. CASE open' = open \ {r} /\ UNCHANGED client
      BY <1>a, <1>b, <1>c, <1>e, <3>1 DEF SessionsAccounted, here
    <3>2. CASE client.session = 0 /\ client' = [client EXCEPT !.session = r] /\ UNCHANGED open
      <4>1. client'.session = r /\ \A s \in open : s # 0
        BY <1>a, <3>2 DEF Requests
      <4>2. QED
        BY <1>a, <1>b, <1>c, <1>e, <3>2, <4>1 DEF SessionsAccounted, here
    <3>3. QED
      BY <1>2, <3>1, <3>2 DEF InstallSession
  <2>4. QED
    BY <1>f, <1>g, <2>2, <2>3 DEF Rest
<1>3. CASE CheckSession(r) \/ Answer(r)
  <2>1. thread'[r].step \in {"release", "post"} /\ thread[r].step \in {"check", "post"}
        /\ UNCHANGED <<busy, client, open>>
    BY <1>d, <1>3 DEF CheckSession, Answer
  <2>2. r \in Running /\ r \in Running'
    BY <2>1 DEF Running
  <2>3. SessionsAccounted'
    BY <1>a, <1>b, <1>c, <1>e, <2>1 DEF SessionsAccounted, here
  <2>4. QED
    BY <1>f, <1>g, <2>1, <2>2, <2>3 DEF Rest
<1>4. CASE ReleaseSlot(r)
  <2>1. thread'[r].step = "put" /\ thread[r].step = "release" /\ busy' = FALSE
        /\ UNCHANGED <<client, open>>
    BY <1>d, <1>4 DEF ReleaseSlot
  <2>2. r \in Running
    BY <2>1 DEF Running
  <2>3. Running' = {} /\ ~At("acquired")'
    BY <1>b, <1>c, <1>e, <2>1, <2>2 DEF Running, SlotHeld, here, At
  <2>4. SlotHeld' /\ Registered'
    BY <1>b, <1>c, <2>1, <2>3 DEF SlotHeld, Registered, here
  <2>5. SessionsAccounted'
    BY <1>a, <1>b, <1>c, <1>e, <2>1 DEF SessionsAccounted, here
  <2>6. QED
    BY <1>f, <2>4, <2>5 DEF Rest
<1>5. CASE PutResult(r)
  <2>1. thread'[r].step = "dead" /\ thread[r].step = "put" /\ UNCHANGED <<busy, client, open>>
    BY <1>d, <1>5 DEF PutResult
  <2>2. Running' = Running
    BY <1>e, <2>1 DEF Running
  <2>3. SlotHeld' /\ Registered'
    BY <1>b, <1>c, <2>1, <2>2 DEF SlotHeld, Registered, here, At
  <2>4. SessionsAccounted'
    BY <1>a, <1>b, <1>c, <1>e, <2>1 DEF SessionsAccounted, here
  <2>5. QED
    BY <1>f, <2>3, <2>4 DEF Rest
<1>6. QED
  BY <1>1, <1>2, <1>3, <1>4, <1>5 DEF ThreadStep

\* The cleanup threads and close.
LEMMA CloseInv ==
    ASSUME IInv, \/ \E c \in 0 .. MaxRequests : Detach(c) \/ CloseSession(c)
                 \/ BeginClose \/ CloserStep
    PROVE  Rest'
<1>a. /\ proc \in ProcState /\ thread \in [Requests -> ThreadState]
      /\ closer \in [step : {"no", "barrier", "client", "worker", "done"}, saw : 0 .. MaxRequests]
      /\ cleanup \in [0 .. MaxRequests -> CleanupState] /\ open \subseteq Requests
      /\ busy \in BOOLEAN /\ closed \in BOOLEAN
  BY DEF IInv, Types, ProcState, ThreadState, CleanupState
<1>b. OwnRequest /\ SlotHeld /\ Registered /\ BarrierFirst /\ SessionsAccounted
  BY DEF IInv
<1>c. UNCHANGED <<proc, busy, thread>>
  BY DEF Detach, CloseSession, BeginClose, CloserStep, PassBarrier, LeaveClient, EndClose
<1>d. Running' = Running /\ SlotHeld'
  BY <1>b, <1>c DEF Running, SlotHeld, At
<1>1. ASSUME NEW c \in 0 .. MaxRequests, Detach(c) PROVE Rest'
  <2>1. /\ cleanup[c].step = "detach" /\ cleanup'[c] = [step |-> "close", session |-> client.session]
        /\ \A d \in (0 .. MaxRequests) \ {c} : cleanup'[d] = cleanup[d]
        /\ UNCHANGED <<worker, closed, closer, open>>
    BY <1>a, <1>1 DEF Detach
  <2>2. \A d \in 0 .. MaxRequests : cleanup'[d].step # "none" <=> cleanup[d].step # "none"
    BY <2>1
  <2>3. OwnRequest' /\ Registered' /\ BarrierFirst'
    BY <1>b, <1>c, <1>d, <2>1, <2>2 DEF OwnRequest, Registered, BarrierFirst, At, Requests
  <2>4. SessionsAccounted'
    BY <1>b, <1>c, <2>1 DEF SessionsAccounted
  <2>5. QED
    BY <1>d, <2>3, <2>4 DEF Rest
<1>2. ASSUME NEW c \in 0 .. MaxRequests, CloseSession(c) PROVE Rest'
  <2>1. /\ cleanup[c].step = "close" /\ cleanup'[c] = [step |-> "done", session |-> 0]
        /\ \A d \in (0 .. MaxRequests) \ {c} : cleanup'[d] = cleanup[d]
        /\ open' = open \ {cleanup[c].session} /\ UNCHANGED <<worker, closed, closer, client>>
    BY <1>a, <1>2 DEF CloseSession
  <2>2. \A d \in 0 .. MaxRequests : cleanup'[d].step # "none" <=> cleanup[d].step # "none"
    BY <2>1
  <2>3. OwnRequest' /\ Registered' /\ BarrierFirst'
    BY <1>b, <1>c, <1>d, <2>1, <2>2 DEF OwnRequest, Registered, BarrierFirst, At, Requests
  <2>4. SessionsAccounted'
    BY <1>b, <1>c, <2>1 DEF SessionsAccounted
  <2>5. QED
    BY <1>d, <2>3, <2>4 DEF Rest
<1>3. CASE BeginClose
  <2>1. closer.step = "no" /\ closer'.step = "barrier" /\ closer'.saw = worker /\ closed' = TRUE
        /\ UNCHANGED <<worker, client, cleanup, open>>
    BY <1>3 DEF BeginClose
  <2>2. Registered' /\ BarrierFirst'
    BY <1>b, <1>c, <1>d, <2>1 DEF Registered, BarrierFirst
  <2>3. OwnRequest' /\ SessionsAccounted'
    BY <1>b, <1>c, <2>1 DEF OwnRequest, SessionsAccounted, At
  <2>4. QED
    BY <1>d, <2>2, <2>3 DEF Rest
<1>4. CASE PassBarrier
  <2>1. /\ closer.step = "barrier" /\ closer'.step = "client" /\ closer'.saw = closer.saw
        /\ ~At("pulse") /\ cleanup[0].step = "none"
        /\ \A d \in (0 .. MaxRequests) \ {0} : cleanup'[d] = cleanup[d]
        /\ UNCHANGED <<worker, closed, client, open>>
    BY <1>a, <1>b, <1>4 DEF PassBarrier, BarrierFirst
  <2>2. Registered' /\ BarrierFirst'
    BY <1>b, <1>c, <1>d, <2>1 DEF Registered, BarrierFirst, At
  <2>3. OwnRequest' /\ SessionsAccounted'
    BY <1>b, <1>c, <2>1 DEF OwnRequest, SessionsAccounted, At, Requests
  <2>4. QED
    BY <1>d, <2>2, <2>3 DEF Rest
<1>5. CASE LeaveClient \/ EndClose
  <2>1. /\ closer.step \in {"client", "worker"} /\ closer'.step \in {"worker", "done"}
        /\ closer'.saw = closer.saw /\ UNCHANGED <<closed, client, cleanup, open>>
    BY <1>a, <1>5 DEF LeaveClient, EndClose
  <2>2. Registered' /\ BarrierFirst'
    BY <1>b, <1>c, <1>d, <2>1 DEF Registered, BarrierFirst, At
  <2>3. OwnRequest' /\ SessionsAccounted'
    BY <1>b, <1>c, <2>1 DEF OwnRequest, SessionsAccounted, At
  <2>4. QED
    BY <1>d, <2>2, <2>3 DEF Rest
<1>6. QED
  BY <1>1, <1>2, <1>3, <1>4, <1>5 DEF CloserStep

\* The inductive invariant holds in every reachable state.
LEMMA InvHolds == Spec => []IInv
<1>1. Init => IInv
  <2> SUFFICES ASSUME Init PROVE IInv
    OBVIOUS
  <2>1. Types
    <3>1. /\ proc \in ProcState /\ thread \in [Requests -> ThreadState]
          /\ cleanup \in [0 .. MaxRequests -> CleanupState]
      BY InitialValues DEF Init
    <3>2. /\ client \in [session : 0 .. MaxRequests, generation : Nat, closed : BOOLEAN]
          /\ closer \in [step : {"no", "barrier", "client", "worker", "done"}, saw : 0 .. MaxRequests]
          /\ worker \in 0 .. MaxRequests /\ open \subseteq Requests
      BY DEF Init
    <3>3. busy \in BOOLEAN /\ closed \in BOOLEAN
      BY DEF Init
    <3>4. QED
      BY <3>1, <3>2, <3>3 DEF Types, ThreadState, CleanupState, ProcState
  <2>2. Running = {} /\ Detached = {}
    BY DEF Init, Running, Detached, NoThread, NoCleanup
  <2>3. GenerationCounts
    BY <2>2, FS_EmptySet DEF Init, GenerationCounts
  <2>4. proc.step = "idle" /\ proc.request = 0
    BY DEF Init, IdleProc
  <2>5. OwnRequest /\ SlotHeld /\ Registered /\ BarrierFirst /\ SessionsAccounted
    BY <2>2, <2>4 DEF Init, OwnRequest, SlotHeld, Registered, BarrierFirst, SessionsAccounted, At,
                      NoCleanup, Requests
  <2>6. QED
    BY <2>1, <2>3, <2>5 DEF IInv
<1>2. IInv /\ [Next]_vars => IInv'
  <2> SUFFICES ASSUME IInv, [Next]_vars PROVE IInv'
    OBVIOUS
  <2>1. Types' /\ GenerationCounts'
    BY TypesStep
  <2>2. Rest'
    <3>1. CASE UNCHANGED vars
      BY <3>1 DEF vars, IInv, Rest, OwnRequest, SlotHeld, Registered, BarrierFirst,
                  SessionsAccounted, Running, At
    <3>2. QED
      BY <3>1, ProcInv, ThreadInv, CloseInv DEF Next
  <2>3. QED
    BY <2>1, <2>2 DEF IInv, Rest
<1>3. QED
  BY <1>1, <1>2, PTL DEF Spec

\* RequestsAccounted: no late request gives back a slot that a later one has taken or keeps one
\* for ever, and no session is left open, however often requests are abandoned.
THEOREM LateRequestsCostNothing == Spec => []RequestsAccounted
<1>1. IInv => RequestsAccounted
  <2> SUFFICES ASSUME IInv PROVE RequestsAccounted
    OBVIOUS
  <2>1. TypeOK
    BY GenerationBound DEF IInv, Types, TypeOK
  <2>2. Holders = Running \cup IF At("acquired") THEN {proc.request} ELSE {}
    BY DEF Holders, Running
  <2>3. CASE busy
    <3>1. \E x : Holders = {x}
      BY <2>2, <2>3 DEF IInv, SlotHeld
    <3>2. QED
      BY <2>1, <2>3, <3>1, FS_Singleton DEF IInv, RequestsAccounted, SlotAccounted
  <2>4. CASE ~busy
    <3>1. Holders = {}
      BY <2>2, <2>4 DEF IInv, SlotHeld
    <3>2. QED
      BY <2>1, <2>4, <3>1, FS_EmptySet DEF IInv, RequestsAccounted, SlotAccounted
  <2>5. QED
    BY <2>3, <2>4
<1>2. QED
  BY <1>1, InvHolds, PTL

\* CloseIsBarrier: what runs on behind close was seen by it and moves no gate.
THEOREM CloseHolds == Spec => []CloseIsBarrier
<1>1. IInv => CloseIsBarrier
  <2> SUFFICES ASSUME IInv PROVE CloseIsBarrier
    OBVIOUS
  <2>1. CloseSeesWorker
    <3> SUFFICES ASSUME closed, NEW r \in Requests, r \in Holders, Started(r) PROVE r = closer.saw
      BY DEF CloseSeesWorker
    <3>1. r \in Running
      BY DEF Holders, Running, Started, IInv, OwnRequest
    <3>2. QED
      BY <3>1 DEF IInv, Registered
  <2>2. QED
    BY <2>1 DEF IInv, BarrierFirst, NoPulseAfterBarrier, CloseIsBarrier
<1>2. QED
  BY <1>1, InvHolds, PTL
=============================================================================
