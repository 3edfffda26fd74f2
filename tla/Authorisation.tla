---------------------------- MODULE Authorisation ----------------------------
(***************************************************************************)
(* Who may open the gate: AuthorisedPlateCache and its CSV file, the refresh *)
(* worker that replaces both from the cloud's list, and the two moments a   *)
(* burst reads the cache, before recognition and in the last check before   *)
(* the relay is energised (GateProcessor.process, activation_inhibition).   *)
(*                                                                         *)
(* The cloud's list changes at any time.  Fetching it, replacing the file   *)
(* and replacing the list in memory are separate steps; each may fail and   *)
(* the process may die between them.  The cache reckons its age on the wall *)
(* clock, which may be set; after a restart it goes by the file's mtime.    *)
(***************************************************************************)
EXTENDS Integers

CONSTANTS
    Plates,           \* normalised plates
    NoPlate,
    MaxStaleness,     \* max_staleness of the cache
    FetchTime,        \* bound: from the cloud's read of the list to its installation
    MaxImageAge,      \* max_image_age
    DecisionTime,     \* decision_timeout less the activation guard
    MaxStep,          \* bound: how far the wall clock can be set
    MaxTime,          \* bound: time
    MaxCrashes        \* bound: restarts

ASSUME AuthorisationAssumption ==
    /\ NoPlate \notin Plates
    /\ \A n \in {MaxStaleness, FetchTime, MaxImageAge, DecisionTime, MaxStep, MaxTime, MaxCrashes} :
          n \in Nat

VARIABLES
    now,        \* time
    offset,     \* wall clock ahead of time
    cloud,      \* the cloud's list
    listed,     \* last time each plate was on it (history)
    file,       \* the CSV: plates, mtime, and when the cloud read them (history)
    cache,      \* the cache in memory: plates, refreshed_at, the same
    newest,     \* when the cloud read the newest list memory has held, or -1 (history)
    refresh,    \* the refresh worker: step, list it fetched, when the cloud read it
    burst,      \* the burst being processed
    crashes

authorisationVars == <<now, offset, cloud, listed, file, cache, newest, refresh, burst, crashes>>

Times == 0 .. MaxTime
WallTimes == 0 .. MaxTime + MaxStep
Wall == now + offset

NoList == [exists |-> FALSE, plates |-> {}, at |-> 0, read |-> 0]
List(plates, read) == [exists |-> TRUE, plates |-> plates, at |-> Wall, read |-> read]
IdleRefresh == [step |-> "idle", plates |-> {}, since |-> 0]
IdleBurst == [step |-> "idle", plates |-> {}, plate |-> NoPlate, received |-> 0, started |-> 0]

AuthorisationTypeOK ==
    /\ now \in Times /\ offset \in 0 .. MaxStep
    /\ cloud \subseteq Plates /\ listed \in [Plates -> -1 .. MaxTime]
    /\ {file, cache} \subseteq [exists : BOOLEAN, plates : SUBSET Plates, at : WallTimes,
                               read : Times]
    /\ newest \in -1 .. MaxTime
    /\ refresh \in [step : {"idle", "fetched", "written"}, plates : SUBSET Plates, since : Times]
    /\ burst \in [step : {"idle", "read", "decided"}, plates : SUBSET Plates,
                  plate : Plates \cup {NoPlate}, received : WallTimes, started : Times]
    /\ crashes \in 0 .. MaxCrashes

\* The outcomes of reload_local in a new cache: the file's list, as old as its
\* mtime; or none, when the file is absent, cannot be read, lacks its header or
\* holds a malformed row.
Reloaded == {file, NoList}

\* The newest list held once this one is in memory.
Newest(list) == IF list.exists /\ list.read > newest THEN list.read ELSE newest

\* The first start: no file, or one that was installed with the cloud's list.
AuthorisationInit ==
    /\ now = 0 /\ offset \in 0 .. MaxStep
    /\ cloud \in SUBSET Plates
    /\ listed = [p \in Plates |-> IF p \in cloud THEN 0 ELSE -1]
    /\ file \in {NoList, List(cloud, now)}
    /\ cache \in Reloaded /\ newest = (IF cache.exists THEN cache.read ELSE -1)
    /\ refresh = IdleRefresh /\ burst = IdleBurst /\ crashes = 0
-----------------------------------------------------------------------------
(* The world *)

\* Time passes, but no request and no disk holds up the refresh for longer.
Tick ==
    /\ now < MaxTime /\ (refresh.step # "idle" => now < refresh.since + FetchTime)
    /\ now' = now + 1
    /\ listed' = [p \in Plates |-> IF p \in cloud THEN now + 1 ELSE listed[p]]
    /\ UNCHANGED <<offset, cloud, file, cache, newest, refresh, burst, crashes>>

SetClock ==
    /\ offset' \in (0 .. MaxStep) \ {offset}
    /\ UNCHANGED <<now, cloud, listed, file, cache, newest, refresh, burst, crashes>>

\* An owner adds or removes a plate.
EditList(p) ==
    /\ cloud' = IF p \in cloud THEN cloud \ {p} ELSE cloud \cup {p}
    /\ listed' = [listed EXCEPT ![p] = now]
    /\ UNCHANGED <<now, offset, file, cache, newest, refresh, burst, crashes>>
-----------------------------------------------------------------------------
(* AuthorisationRefreshWorker.run_once *)

idle == <<now, offset, cloud, listed, burst, crashes>>

\* Mutant of Fetch: a row that names no plate is kept.
FetchUnfiltered ==
    /\ refresh.step = "idle"
    /\ refresh' = [step |-> "fetched", plates |-> cloud \cup {NoPlate}, since |-> now]
    /\ UNCHANGED <<idle, file, cache, newest>>

\* The cloud reads its list and answers; the fetcher has checked the answer.
Fetch ==
    /\ refresh.step = "idle"
    /\ refresh' = [step |-> "fetched", plates |-> cloud, since |-> now]
    /\ UNCHANGED <<idle, file, cache, newest>>

\* No answer, a malformed one, one for another controller; a full disk before
\* os.replace; a directory that cannot be synced after it.  The lists stay.
RefreshFails ==
    /\ refresh.step # "idle"
    /\ refresh' = IdleRefresh
    /\ UNCHANGED <<idle, file, cache, newest>>

\* Mutant of WriteFile: what was written may be lost with the process.
WriteFileUnsynced ==
    /\ refresh.step = "fetched"
    /\ file' \in {file, List(refresh.plates, refresh.since)}
    /\ refresh' = [refresh EXCEPT !.step = "written"]
    /\ UNCHANGED <<idle, cache, newest>>

\* replace: the complete temporary file takes the place of the old one.
WriteFile ==
    /\ refresh.step = "fetched"
    /\ file' = List(refresh.plates, refresh.since)
    /\ refresh' = [refresh EXCEPT !.step = "written"]
    /\ UNCHANGED <<idle, cache, newest>>

\* replace: under the lock, the list in memory.
Apply ==
    /\ refresh.step = "written"
    /\ cache' = List(refresh.plates, refresh.since) /\ newest' = Newest(cache')
    /\ refresh' = IdleRefresh
    /\ UNCHANGED <<idle, file>>
-----------------------------------------------------------------------------
(* GateProcessor.process *)

still == <<now, offset, cloud, listed, file, cache, newest, refresh, crashes>>

Age(wall) == Wall - wall

\* AuthorisedPlateCache.get with _snapshot_is_stale; otherwise it raises.
Usable == cache.exists /\ Age(cache.at) >= 0 /\ Age(cache.at) <= MaxStaleness

\* _is_fresh
Fresh(received) == Age(received) >= 0 /\ Age(received) <= MaxImageAge

\* A burst begins and reads the cache, or is skipped (stale_burst, authorisation_error).
ReadCache(received) ==
    /\ burst.step = "idle" /\ received <= Wall /\ Fresh(received) /\ Usable
    /\ burst' = [step |-> "read", plates |-> cache.plates, plate |-> NoPlate,
                 received |-> received, started |-> now]
    /\ UNCHANGED still

\* Recognition matches a plate of that list in time.
Decide(p) ==
    /\ burst.step = "read" /\ p \in burst.plates
    /\ now < burst.started + DecisionTime /\ Fresh(burst.received)
    /\ burst' = [burst EXCEPT !.step = "decided", !.plate = p]
    /\ UNCHANGED still

\* Denied, or inhibited by the last check.
Deny ==
    /\ burst.step # "idle"
    /\ burst' = IdleBurst
    /\ UNCHANGED still

\* Mutant of Activate: the list read before recognition is good enough.
ActivateOnFirstRead ==
    /\ burst.step = "decided" /\ Fresh(burst.received)
    /\ now < burst.started + DecisionTime
    /\ burst' = IdleBurst
    /\ UNCHANGED still

\* activation_inhibition lets the relay be energised.
Activate ==
    /\ burst.step = "decided" /\ Fresh(burst.received)
    /\ Usable /\ burst.plate \in cache.plates
    /\ now < burst.started + DecisionTime
    /\ burst' = IdleBurst
    /\ UNCHANGED still

\* The process ends and a new one reads the file, or fails to.
Restart ==
    /\ crashes < MaxCrashes /\ crashes' = crashes + 1
    /\ cache' \in Reloaded /\ newest' = Newest(cache')
    /\ refresh' = IdleRefresh /\ burst' = IdleBurst
    /\ UNCHANGED <<now, offset, cloud, listed, file>>
-----------------------------------------------------------------------------
AuthorisationNext ==
    \/ Tick \/ SetClock \/ (\E p \in Plates : EditList(p) \/ Decide(p))
    \/ Fetch \/ RefreshFails \/ WriteFile \/ Apply
    \/ (\E received \in WallTimes : ReadCache(received)) \/ Deny \/ Activate
    \/ Restart

AuthorisationSpec == AuthorisationInit /\ [][AuthorisationNext]_authorisationVars
-----------------------------------------------------------------------------
(* Properties *)

\* A removed plate stops opening the gate in bounded time, however the refresh,
\* a restart, recognition and the wall clock fall: whoever is let in was on the
\* cloud's list no longer ago than the staleness limit, one refresh and one
\* setting of the clock.
RevocationBounded ==
    [][Activate => now - listed[burst.plate] <= MaxStaleness + FetchTime + MaxStep]_authorisationVars

\* "Reload an atomically replaced CSV without discarding a known-good snapshot":
\* no failed refresh takes the list from a running controller, only a restart
\* over a file it cannot read; and whatever list is in memory, after any crash
\* between file and memory and any restart that found none, is never older than
\* one the controller has acted on, in which a plate removed since would be back.
NoOlderList ==
    [][/\ cache.exists /\ ~cache'.exists => crashes' # crashes
       /\ cache'.exists => cache'.read >= newest]_authorisationVars
=============================================================================
