---------------------------- MODULE AccessProofs ----------------------------
(***************************************************************************)
(* Theorems about who is let in: Authorisation, for every set of plates and*)
(* every limit on staleness, fetching and the setting of the clock, and    *)
(* Matching, for every list, every reading and every confidence.           *)
(***************************************************************************)
EXTENDS Authorisation, Matching, SequenceFacts
-----------------------------------------------------------------------------

USE AuthorisationAssumption
-----------------------------------------------------------------------------
(* The plate cache: types *)

ListRecord == [exists : BOOLEAN, plates : SUBSET Plates, at : WallTimes, read : Times]
RefreshRecord == [step : {"idle", "fetched", "written"}, plates : SUBSET Plates, since : Times]
BurstRecord == [step : {"idle", "read", "decided"}, plates : SUBSET Plates,
          plate : Plates \cup {NoPlate}, received : WallTimes, started : Times]

\* The constants are numbers one can calculate with.
LEMMA Numbers ==
    /\ MaxStaleness \in Nat /\ FetchTime \in Nat /\ MaxImageAge \in Nat /\ DecisionTime \in Nat
    /\ MaxStep \in Nat /\ MaxTime \in Nat /\ MaxCrashes \in Nat
  OBVIOUS

\* AuthorisationTypeOK with the record sets named.
LEMMA AuthorisationTypeNamed ==
    AuthorisationTypeOK <=> /\ now \in Times /\ offset \in 0 .. MaxStep
               /\ cloud \in SUBSET Plates /\ listed \in [Plates -> -1 .. MaxTime]
               /\ file \in ListRecord /\ cache \in ListRecord /\ newest \in -1 .. MaxTime
               /\ refresh \in RefreshRecord /\ burst \in BurstRecord
               /\ crashes \in 0 .. MaxCrashes
  BY DEF AuthorisationTypeOK, ListRecord, RefreshRecord, BurstRecord

\* What __init__ and an idle thread start from.
LEMMA InitialValues ==
    NoList \in ListRecord /\ IdleRefresh \in RefreshRecord /\ IdleBurst \in BurstRecord
<1>1. 0 \in Times /\ 0 \in WallTimes
  BY Numbers DEF Times, WallTimes
<1>2. QED
  BY <1>1 DEF NoList, IdleRefresh, IdleBurst, ListRecord, RefreshRecord, BurstRecord

\* A list written at this moment is a list.
LEMMA ListType ==
    ASSUME now \in Times, offset \in 0 .. MaxStep, NEW plates \in SUBSET Plates, NEW read \in Times
    PROVE  List(plates, read) \in ListRecord /\ Wall \in WallTimes
<1>1. Wall \in WallTimes
  BY Numbers DEF Wall, Times, WallTimes
<1>2. QED
  BY <1>1 DEF List, ListRecord

\* The controller starts typed, with no list or the cloud's present one in file and memory.
LEMMA AuthorisationTypeInit == AuthorisationInit => AuthorisationTypeOK
<1> SUFFICES ASSUME AuthorisationInit PROVE AuthorisationTypeOK
  OBVIOUS
<1>1. now \in Times /\ offset \in 0 .. MaxStep /\ cloud \in SUBSET Plates /\ crashes \in 0 .. MaxCrashes
  BY Numbers DEF AuthorisationInit, Times
<1>2. listed \in [Plates -> -1 .. MaxTime]
  BY Numbers DEF AuthorisationInit
<1>3. file \in ListRecord /\ cache \in ListRecord
  BY <1>1, ListType, InitialValues DEF AuthorisationInit, Reloaded
<1>4. newest \in -1 .. MaxTime
  BY <1>3, Numbers DEF AuthorisationInit, ListRecord, Times
<1>5. QED
  BY <1>1, <1>2, <1>3, <1>4, InitialValues, AuthorisationTypeNamed DEF AuthorisationInit

\* Every step of the cloud, the clocks, the refresh and the burst keeps the state typed.
LEMMA AuthorisationTypeStep ==
    AuthorisationTypeOK /\ [AuthorisationNext]_authorisationVars => AuthorisationTypeOK'
<1> SUFFICES ASSUME AuthorisationTypeOK, [AuthorisationNext]_authorisationVars PROVE AuthorisationTypeOK'
  OBVIOUS
<1>a. /\ now \in Times /\ offset \in 0 .. MaxStep
      /\ cloud \in SUBSET Plates /\ listed \in [Plates -> -1 .. MaxTime]
      /\ file \in ListRecord /\ cache \in ListRecord /\ newest \in -1 .. MaxTime
      /\ refresh \in RefreshRecord /\ burst \in BurstRecord
      /\ crashes \in 0 .. MaxCrashes
  BY AuthorisationTypeNamed
<1>b. SUFFICES /\ now' \in Times /\ offset' \in 0 .. MaxStep
               /\ cloud' \in SUBSET Plates /\ listed' \in [Plates -> -1 .. MaxTime]
               /\ file' \in ListRecord /\ cache' \in ListRecord /\ newest' \in -1 .. MaxTime
               /\ refresh' \in RefreshRecord /\ burst' \in BurstRecord
               /\ crashes' \in 0 .. MaxCrashes
  BY DEF AuthorisationTypeOK, ListRecord, RefreshRecord, BurstRecord
<1>c. List(refresh.plates, refresh.since) \in ListRecord
  BY <1>a, ListType DEF RefreshRecord
<1>d. ASSUME NEW list \in ListRecord PROVE Newest(list) \in -1 .. MaxTime
  BY <1>a, Numbers DEF Newest, ListRecord, Times
<1>1. CASE Tick \/ SetClock
  <2>1. CASE Tick
    <3>1. now' \in Times
      BY <1>a, <2>1, Numbers DEF Tick, Times
    <3>2. listed' \in [Plates -> -1 .. MaxTime]
      BY <1>a, <2>1, <3>1, Numbers DEF Tick, Times
    <3>3. QED
      BY <1>a, <2>1, <3>1, <3>2 DEF Tick
  <2>2. CASE SetClock
    BY <1>a, <2>2 DEF SetClock
  <2>3. QED
    BY <1>1, <2>1, <2>2
<1>2. ASSUME NEW p \in Plates, EditList(p) PROVE AuthorisationTypeOK'
  <2>1. listed' \in [Plates -> -1 .. MaxTime]
    BY <1>a, <1>2, Numbers DEF EditList, Times
  <2>2. cloud' \in SUBSET Plates
    BY <1>a, <1>2 DEF EditList
  <2>3. QED
    BY <1>a, <1>2, <2>1, <2>2 DEF EditList, AuthorisationTypeOK, ListRecord, RefreshRecord, BurstRecord
<1>3. CASE Fetch \/ RefreshFails \/ WriteFile \/ Apply
  <2>1. CASE Fetch \/ RefreshFails \/ WriteFile
    BY <1>a, <1>c, <2>1, InitialValues DEF Fetch, RefreshFails, WriteFile, idle, RefreshRecord
  <2>2. CASE Apply
    <3>1. cache' \in ListRecord /\ newest' = Newest(cache')
      BY <1>c, <2>2 DEF Apply
    <3>2. QED
      BY <1>a, <1>d, <2>2, <3>1, InitialValues DEF Apply, idle
  <2>3. QED
    BY <1>3, <2>1, <2>2
<1>4. ASSUME NEW received \in WallTimes, ReadCache(received) PROVE AuthorisationTypeOK'
  BY <1>a, <1>4 DEF ReadCache, still, AuthorisationTypeOK, ListRecord, RefreshRecord, BurstRecord
<1>5. ASSUME NEW p \in Plates, Decide(p) PROVE AuthorisationTypeOK'
  BY <1>a, <1>5 DEF Decide, still, AuthorisationTypeOK, ListRecord, RefreshRecord, BurstRecord
<1>6. CASE Deny \/ Activate
  BY <1>a, <1>6, InitialValues DEF Deny, Activate, still
<1>7. CASE Restart
  <2>1. cache' \in ListRecord /\ newest' = Newest(cache')
    BY <1>a, <1>7, InitialValues DEF Restart, Reloaded
  <2>2. QED
    BY <1>a, <1>d, <1>7, <2>1, InitialValues, Numbers DEF Restart
<1>8. CASE UNCHANGED authorisationVars
  BY <1>a, <1>8 DEF authorisationVars
<1>9. QED
  BY <1>1, <1>2, <1>3, <1>4, <1>5, <1>6, <1>7, <1>8 
     DEF AuthorisationNext, AuthorisationTypeOK, ListRecord, RefreshRecord, BurstRecord

\* The clock, both lists, the refresh worker's locals and the burst's keep their types.
THEOREM AuthorisationTypeCorrect == AuthorisationSpec => []AuthorisationTypeOK
  BY AuthorisationTypeInit, AuthorisationTypeStep, PTL DEF AuthorisationSpec
-----------------------------------------------------------------------------
(* The plate cache: how old a list can be *)

\* Every plate the cloud lists was listed now.
HistoryExact == \A p \in Plates : listed[p] <= now /\ (p \in cloud => listed[p] = now)

\* A list's plates were all listed when the cloud read it, and its time stamp is late by no more
\* than one fetch and one setting of the clock.
Dated(list) ==
    list.exists => /\ list.read <= now
                   /\ list.at <= list.read + FetchTime + MaxStep
                   /\ \A p \in list.plates : list.read <= listed[p]

\* So is the list the worker is carrying.
FetchDated ==
    refresh.step # "idle" => /\ refresh.since <= now /\ now <= refresh.since + FetchTime
                             /\ \A p \in refresh.plates : refresh.since <= listed[p]

\* Lists get newer on their way from the cloud through the file to the memory; what memory has
\* once held, the file still has or has newer, whether memory has a list now or lost it.
NewerAhead ==
    /\ newest # -1 => file.exists /\ newest <= file.read
    /\ cache.exists => cache.read = newest
    /\ refresh.step # "idle" /\ file.exists => file.read <= refresh.since
    /\ refresh.step = "written" => file.exists /\ file.read = refresh.since

AuthorisationInv ==
    AuthorisationTypeOK /\ HistoryExact /\ Dated(file) /\ Dated(cache) /\ FetchDated /\ NewerAhead

\* No edit of the list, failed refresh, crash between file and memory or clock setting breaks it.
LEMMA AuthorisationInvStep ==
    AuthorisationInv /\ [AuthorisationNext]_authorisationVars => AuthorisationInv'
<1> SUFFICES ASSUME AuthorisationInv, [AuthorisationNext]_authorisationVars PROVE AuthorisationInv'
  OBVIOUS
<1>a. /\ now \in Int /\ offset \in 0 .. MaxStep /\ cloud \in SUBSET Plates /\ listed \in [Plates -> Int]
      /\ file.at \in Int /\ file.read \in Int /\ file.plates \in SUBSET Plates
      /\ cache.at \in Int /\ cache.read \in Int /\ cache.plates \in SUBSET Plates
      /\ refresh.since \in Nat /\ refresh.plates \in SUBSET Plates
      /\ newest \in Int /\ file.read \in Nat
  BY AuthorisationTypeNamed, Numbers DEF AuthorisationInv, ListRecord, RefreshRecord, Times, WallTimes
<1>b. AuthorisationTypeOK'
  BY AuthorisationTypeStep DEF AuthorisationInv
<1>c. SUFFICES (HistoryExact /\ Dated(file) /\ Dated(cache) /\ FetchDated /\ NewerAhead)'
  BY <1>b DEF AuthorisationInv
<1>d. HistoryExact /\ Dated(file) /\ Dated(cache) /\ FetchDated /\ NewerAhead
  BY DEF AuthorisationInv
<1> USE Numbers DEF HistoryExact, Dated, FetchDated, NewerAhead
\* While time passes or the cloud's list changes, no plate's date falls.
<1>e. ASSUME UNCHANGED <<file, cache, newest, refresh>>, now <= now', now' \in Int, HistoryExact',
             refresh.step # "idle" => now' <= refresh.since + FetchTime,
             \A p \in Plates : listed[p] <= listed'[p] /\ listed'[p] \in Int
      PROVE  (HistoryExact /\ Dated(file) /\ Dated(cache) /\ FetchDated /\ NewerAhead)'
  <2>1. ASSUME NEW list, list.read \in Int, list.plates \in SUBSET Plates, Dated(list)
        PROVE  list.exists => list.read <= now' /\ \A p \in list.plates : list.read <= listed'[p]
    BY <1>a, <1>e, <2>1
  <2>2. Dated(file)'
    BY <1>a, <1>d, <1>e, <2>1
  <2>3. Dated(cache)'
    BY <1>a, <1>d, <1>e, <2>1
  <2>4. FetchDated'
    BY <1>a, <1>d, <1>e
  <2>5. QED
    BY <1>d, <1>e, <2>2, <2>3, <2>4
<1>1. CASE Tick
  <2>1. /\ now' = now + 1 /\ UNCHANGED <<file, cache, newest, refresh, cloud>>
        /\ refresh.step # "idle" => now' <= refresh.since + FetchTime
    BY <1>1, <1>a DEF Tick
  <2>2. \A p \in Plates : listed'[p] = IF p \in cloud THEN now + 1 ELSE listed[p]
    BY <1>1 DEF Tick
  <2>3. HistoryExact' /\ \A p \in Plates : listed[p] <= listed'[p] /\ listed'[p] \in Int
    BY <1>a, <1>d, <2>1, <2>2
  <2>4. QED
    BY <1>a, <1>e, <2>1, <2>3
<1>2. CASE SetClock
  BY <1>2, <1>d DEF SetClock
<1>3. ASSUME NEW p \in Plates, EditList(p)
      PROVE  (HistoryExact /\ Dated(file) /\ Dated(cache) /\ FetchDated /\ NewerAhead)'
  <2>1. \A q \in Plates : /\ listed'[q] = IF q = p THEN now ELSE listed[q]
                          /\ q # p => (q \in cloud' <=> q \in cloud)
    BY <1>3, <1>a DEF EditList
  <2>2. HistoryExact' /\ \A q \in Plates : listed[q] <= listed'[q] /\ listed'[q] \in Int
    BY <1>3, <1>a, <1>d, <2>1 DEF EditList
  <2>3. QED
    BY <1>3, <1>a, <1>d, <1>e, <2>2 DEF EditList
<1>4. CASE Fetch
  BY <1>4, <1>a, <1>d DEF Fetch, idle
<1>5. CASE RefreshFails
  BY <1>5, <1>d DEF RefreshFails, IdleRefresh, idle
<1>6. CASE WriteFile
  <2>1. /\ file'.read = refresh.since /\ file'.plates = refresh.plates /\ file'.at = now + offset
        /\ file'.exists
    BY <1>6 DEF WriteFile, List, Wall
  <2>2. /\ refresh'.step = "written" /\ refresh'.since = refresh.since
        /\ refresh'.plates = refresh.plates
    BY <1>6, AuthorisationTypeNamed DEF WriteFile, AuthorisationInv, RefreshRecord
  <2>3. QED
    BY <1>6, <1>a, <1>d, <2>1, <2>2 DEF WriteFile, idle
<1>7. CASE Apply
  <2>1. /\ cache'.read = refresh.since /\ cache'.plates = refresh.plates /\ cache'.at = now + offset
        /\ cache'.exists /\ refresh'.step = "idle"
        /\ newest' = IF refresh.since > newest THEN refresh.since ELSE newest
    BY <1>7 DEF Apply, List, Wall, IdleRefresh, Newest
  <2>2. QED
    BY <1>7, <1>a, <1>d, <2>1 DEF Apply, idle
<1>8. ASSUME UNCHANGED still
      PROVE  (HistoryExact /\ Dated(file) /\ Dated(cache) /\ FetchDated /\ NewerAhead)'
  BY <1>8, <1>d DEF still
<1>9. CASE Restart
  <2>1. UNCHANGED <<now, cloud, listed, file>> /\ refresh'.step = "idle"
    BY <1>9 DEF Restart, IdleRefresh
  <2>2. CASE cache' = file
    <3>1. newest' = IF file.exists /\ file.read > newest THEN file.read ELSE newest
      BY <1>9, <2>2 DEF Restart, Newest
    <3>2. QED
      BY <1>a, <1>d, <2>1, <2>2, <3>1
  <2>3. CASE cache' = NoList
    <3>1. ~cache'.exists /\ newest' = newest
      BY <1>9, <2>3 DEF Restart, Newest, NoList
    <3>2. QED
      BY <1>d, <2>1, <3>1
  <2>4. QED
    BY <1>9, <2>2, <2>3 DEF Restart, Reloaded
<1>10. CASE UNCHANGED authorisationVars
  BY <1>10, <1>8 DEF authorisationVars, still
<1>11. ASSUME NEW p, Decide(p) PROVE UNCHANGED still
  BY <1>11 DEF Decide
<1>12. ASSUME NEW received, ReadCache(received) PROVE UNCHANGED still
  BY <1>12 DEF ReadCache
<1>13. Deny \/ Activate => UNCHANGED still
  BY DEF Deny, Activate
<1>14. QED
  BY <1>1, <1>2, <1>3, <1>4, <1>5, <1>6, <1>7, <1>8, <1>9, <1>10, <1>11, <1>12, <1>13
     DEF AuthorisationNext

\* The inductive invariant holds in every reachable state.
LEMMA AuthorisationInvHolds == AuthorisationSpec => []AuthorisationInv
<1>1. AuthorisationInit => AuthorisationInv
  <2> SUFFICES ASSUME AuthorisationInit PROVE AuthorisationInv
    OBVIOUS
  <2>1. HistoryExact
    <3>1. now = 0 /\ \A p \in Plates : listed[p] = IF p \in cloud THEN 0 ELSE -1
      BY DEF AuthorisationInit
    <3>2. \A p \in Plates : listed[p] \in {0, -1} /\ (p \in cloud => listed[p] = 0)
      BY <3>1
    <3>3. 0 <= 0 /\ -1 <= 0
      OBVIOUS
    <3>4. QED
      BY <3>1, <3>2, <3>3 DEF HistoryExact
  <2>2. Dated(file)
    <3>1. CASE file = NoList
      BY <3>1 DEF NoList, Dated
    <3>2. CASE file = List(cloud, now)
      <4>1. now = 0 /\ offset \in 0 .. MaxStep /\ cloud \in SUBSET Plates
        BY DEF AuthorisationInit
      <4>2. file.read = now /\ file.at = now + offset /\ file.plates = cloud
        BY <3>2 DEF List, Wall
      <4>3. \A p \in cloud : listed[p] = now
        BY <2>1, <4>1 DEF HistoryExact
      <4>4. QED
        BY <4>1, <4>2, <4>3, Numbers DEF Dated
    <3>3. QED
      BY <3>1, <3>2 DEF AuthorisationInit
  <2>3. FetchDated /\ NewerAhead /\ Dated(cache)
    <3>1. /\ refresh.step = "idle" /\ cache \in {file, NoList}
          /\ newest = IF cache.exists THEN cache.read ELSE -1
      BY DEF AuthorisationInit, IdleRefresh, Reloaded
    <3>2. file.read \in Int /\ ~NoList.exists
      BY AuthorisationTypeInit, AuthorisationTypeNamed DEF ListRecord, Times, NoList
    <3>3. QED
      BY <2>2, <3>1, <3>2 DEF FetchDated, NewerAhead, Dated
  <2>4. QED
    BY <2>1, <2>2, <2>3, AuthorisationTypeInit DEF AuthorisationInv
<1>2. QED
  BY <1>1, AuthorisationInvStep, PTL DEF AuthorisationSpec

\* RevocationBounded: whoever is let in was on the cloud's list no longer ago than the staleness
\* limit, one refresh and one setting of the clock.
THEOREM RevocationTakesEffect == AuthorisationSpec => RevocationBounded
<1>1. AuthorisationInv /\ [AuthorisationNext]_authorisationVars =>
        [Activate => now - listed[burst.plate] <= MaxStaleness + FetchTime + MaxStep]_authorisationVars
  <2> SUFFICES ASSUME AuthorisationInv, Activate
               PROVE  now - listed[burst.plate] <= MaxStaleness + FetchTime + MaxStep
    OBVIOUS
  <2>1. /\ now \in Int /\ offset \in 0 .. MaxStep /\ listed \in [Plates -> Int]
        /\ cache.at \in Int /\ cache.read \in Int /\ cache.plates \in SUBSET Plates
    BY AuthorisationTypeNamed, Numbers DEF AuthorisationInv, ListRecord, Times, WallTimes
  <2>2. /\ cache.exists /\ (now + offset) - cache.at <= MaxStaleness
        /\ burst.plate \in cache.plates
    <3>1. Usable /\ burst.plate \in cache.plates
      BY DEF Activate
    <3>2. QED
      BY <3>1 DEF Usable, Age, Wall
  <2>3. cache.at <= cache.read + FetchTime + MaxStep /\ cache.read <= listed[burst.plate]
    BY <2>2 DEF AuthorisationInv, Dated
  <2>4. listed[burst.plate] \in Int
    BY <2>1, <2>2
  <2>5. QED
    BY <2>1, <2>2, <2>3, <2>4, Numbers
<1>2. QED
  BY <1>1, AuthorisationInvHolds, PTL DEF AuthorisationSpec, RevocationBounded

\* NoOlderList: only a restart takes the controller's list from it, and no failed refresh, crash
\* between file and memory or restart, the ones that found no list included, brings back one older
\* than it has had.
THEOREM ListsOnlyGetNewer == AuthorisationSpec => NoOlderList
<1>1. AuthorisationInv /\ AuthorisationInv' /\ [AuthorisationNext]_authorisationVars =>
        [/\ cache.exists /\ ~cache'.exists => crashes' # crashes
         /\ cache'.exists => cache'.read >= newest]_authorisationVars
  <2> SUFFICES ASSUME AuthorisationInv, AuthorisationInv', AuthorisationNext
               PROVE  /\ cache.exists /\ ~cache'.exists => crashes' # crashes
                      /\ cache'.exists => cache'.read >= newest
    OBVIOUS
  <2>1. cache'.exists => cache'.read = newest'
    BY DEF AuthorisationInv, NewerAhead
  <2>2. newest \in Int /\ file.read \in Int /\ refresh.since \in Int /\ crashes \in Int
    BY AuthorisationTypeNamed, Numbers DEF AuthorisationInv, ListRecord, RefreshRecord, Times
  <2>3. CASE UNCHANGED <<cache, newest>>
    BY <2>1, <2>2, <2>3
  <2>4. CASE Apply
    <3>1. cache'.exists /\ cache'.read = refresh.since
      BY <2>4 DEF Apply, List
    <3>2. newest' = IF refresh.since > newest THEN refresh.since ELSE newest
      BY <2>4, <3>1 DEF Apply, Newest
    <3>3. QED
      BY <2>1, <2>2, <3>1, <3>2
  <2>5. CASE Restart
    <3>1. newest' >= newest
      <4>1. newest' = Newest(cache') /\ cache' \in {file, NoList}
        BY <2>5 DEF Restart, Reloaded
      <4>2. CASE cache' = file
        BY <2>2, <4>1, <4>2 DEF Newest
      <4>3. CASE cache' = NoList
        BY <2>2, <4>1, <4>3 DEF Newest, NoList
      <4>4. QED
        BY <4>1, <4>2, <4>3
    <3>2. crashes' # crashes
      BY <2>2, <2>5 DEF Restart
    <3>3. QED
      BY <2>1, <2>2, <3>1, <3>2
  <2>6. ASSUME ~Apply, ~Restart PROVE UNCHANGED <<cache, newest>>
    BY <2>6
       DEF AuthorisationNext, Tick, SetClock, EditList, Decide, Fetch, RefreshFails, WriteFile,
           ReadCache, Deny, Activate, still, idle
  <2>7. QED
    BY <2>3, <2>4, <2>5, <2>6
<1>2. QED
  BY <1>1, AuthorisationInvHolds, PTL DEF AuthorisationSpec, NoOlderList

HIDE AuthorisationAssumption
-----------------------------------------------------------------------------

USE MatchingAssumption
-----------------------------------------------------------------------------
(* Plate matching: lemmas *)

\* At least two elements.
LEMMA TwoElements ==
    ASSUME NEW X, IsFiniteSet(X)
    PROVE  Cardinality(X) >= 2 <=> \E i, j \in X : i # j
<1>1. Cardinality(X) \in Nat
  BY FS_CardinalityType
<1>2. ASSUME NEW i \in X, NEW j \in X, i # j PROVE Cardinality(X) >= 2
  <2>1. IsFiniteSet({i}) /\ Cardinality({i}) = 1
    BY FS_Singleton, Zenon
  <2>2. Cardinality({i} \cup {j}) = Cardinality({i}) + 1 /\ IsFiniteSet({i} \cup {j})
    BY <1>2, <2>1, FS_AddElement
  <2>3. Cardinality({i} \cup {j}) <= Cardinality(X)
    <3>1. {i} \cup {j} \in SUBSET X
      OBVIOUS
    <3>2. QED
      BY <3>1, FS_Subset
  <2>4. QED
    BY <1>1, <2>1, <2>2, <2>3
<1>3. ASSUME ~ \E i, j \in X : i # j PROVE ~(Cardinality(X) >= 2)
  <2>1. X = {} \/ \E i : X = {i}
    BY <1>3
  <2>2. X = {} => Cardinality(X) = 0
    BY FS_EmptySet, Zenon
  <2>3. (\E i : X = {i}) => Cardinality(X) = 1
    BY FS_Singleton, Zenon
  <2>4. Cardinality(X) = 0 \/ Cardinality(X) = 1
    BY <2>1, <2>2, <2>3, Zenon
  <2>5. QED
    BY <2>4
<1>4. QED
  BY <1>2, <1>3

\* The frames that read a plate surely.
Readers(frames, plate) ==
    {i \in DOMAIN frames : /\ Sure(frames[i], MinFuzzyConfidence)
                           /\ NormalisePlate(frames[i].plate) = plate}

\* A plate was read twice when two frames spell it.
LEMMA ReadTwice ==
    ASSUME NEW frames \in Seq(Observation), NEW plate
    PROVE  /\ FrameCount(frames, plate) >= 2
              <=> \E i, j \in Readers(frames, plate) : i # j
           /\ Readers(frames, plate) \subseteq 1 .. Len(frames)
<1>1. DOMAIN frames = 1 .. Len(frames) /\ Len(frames) \in Nat
  BY LenProperties
<1>2. Readers(frames, plate) \in SUBSET (1 .. Len(frames))
  BY <1>1 DEF Readers
<1>3. IsFiniteSet(Readers(frames, plate))
  <2>1. IsFiniteSet(1 .. Len(frames))
    BY <1>1, FS_Interval
  <2>2. QED
    BY <1>2, <2>1, FS_Subset
<1>4. FrameCount(frames, plate) = Cardinality(Readers(frames, plate))
  BY DEF FrameCount, Readers
<1>5. QED
  BY <1>2, <1>3, <1>4, TwoElements

\* Three frames cannot read two plates twice.
LEMMA OnePlateTwice ==
    ASSUME NEW frames \in Seq(Observation), Len(frames) <= 3, NEW p, NEW q,
           FrameCount(frames, p) >= 2, FrameCount(frames, q) >= 2
    PROVE  p = q
<1>1. PICK i, j \in Readers(frames, p) : i # j
  BY ReadTwice
<1>2. PICK k, l \in Readers(frames, q) : k # l
  BY ReadTwice
<1>3. i \in 1 .. 3 /\ j \in 1 .. 3 /\ k \in 1 .. 3 /\ l \in 1 .. 3
  <2>1. Readers(frames, p) \subseteq 1 .. Len(frames) /\ Readers(frames, q) \subseteq 1 .. Len(frames)
    BY ReadTwice
  <2>2. Len(frames) \in Nat
    BY LenProperties
  <2>3. QED
    BY <1>1, <1>2, <2>1, <2>2
<1>4. i = k \/ i = l \/ j = k \/ j = l
  BY <1>1, <1>2, <1>3
<1>5. \A m : m \in Readers(frames, p) /\ m \in Readers(frames, q) => p = q
  BY DEF Readers
<1>6. QED
  BY <1>1, <1>2, <1>4, <1>5

\* _is_one_known_confusion finds the plates that differ in one confusable character.
LEMMA ConfusionIsConfusable ==
    ASSUME NEW p, NEW q
    PROVE  OneKnownConfusion(p, q) <=> Confusable(p, q)
<1>1. ASSUME NEW i \in DOMAIN q
      PROVE  (p[i] # q[i] /\ \A j \in DOMAIN q \ {i} : p[j] = q[j])
             <=> {j \in DOMAIN q : p[j] # q[j]} = {i}
  OBVIOUS
<1>2. \A x, y, g : {x, y} \subseteq g <=> x \in g /\ y \in g
  OBVIOUS
<1>3. ASSUME OneKnownConfusion(p, q) PROVE Confusable(p, q)
  <2>1. PICK i \in DOMAIN q : /\ p[i] # q[i] /\ \A j \in DOMAIN q \ {i} : p[j] = q[j]
                              /\ \E g \in Confusions : {p[i], q[i]} \subseteq g
    BY <1>3 DEF OneKnownConfusion
  <2>2. {j \in DOMAIN q : p[j] # q[j]} = {i}
    BY <1>1, <2>1
  <2>3. \E g \in Confusions : p[i] \in g /\ q[i] \in g
    BY <1>2, <2>1
  <2>4. QED
    BY <1>3, <2>2, <2>3 DEF OneKnownConfusion, Confusable
<1>4. ASSUME Confusable(p, q) PROVE OneKnownConfusion(p, q)
  <2>1. PICK i \in DOMAIN q : /\ {j \in DOMAIN q : p[j] # q[j]} = {i}
                              /\ \E g \in Confusions : p[i] \in g /\ q[i] \in g
    BY <1>4 DEF Confusable
  <2>2. p[i] # q[i] /\ \A j \in DOMAIN q \ {i} : p[j] = q[j]
    BY <1>1, <2>1
  <2>3. \E g \in Confusions : {p[i], q[i]} \subseteq g
    BY <1>2, <2>1
  <2>4. QED
    BY <1>4, <2>2, <2>3 DEF OneKnownConfusion, Confusable
<1>5. QED
  BY <1>3, <1>4

\* The list of plates, normalised, is finite.
LEMMA KnownFinite ==
    ASSUME authorised \in Lists
    PROVE  IsFiniteSet(KnownPlates(authorised))
<1> DEFINE T == {NormalisePlate(p) : p \in authorised}
           f == [p \in authorised |-> NormalisePlate(p)]
<1>1. f \in Surjection(authorised, T)
  BY DEF Surjection
<1>2. IsFiniteSet(authorised)
  BY DEF Lists
<1> HIDE DEF f
<1>3. IsFiniteSet(T)
  BY <1>1, <1>2, FS_Surjection
<1>4. KnownPlates(authorised) \in SUBSET T
  BY DEF KnownPlates
<1>5. QED
  BY <1>3, <1>4, FS_Subset

\* decide_access over at most three frames opens exactly when a plate is due, and for one that is.
LEMMA VerdictIsDue ==
    ASSUME authorised \in Lists, NEW frames \in Seq(Observation), Len(frames) <= 3
    PROVE  LET verdict == DecideAccess(frames, authorised) IN
           /\ verdict.allowed \in BOOLEAN
           /\ verdict.reason \in {"exact_match", "two_frame_ocr_confusion", "ambiguous_fuzzy_match",
                                  "no_match"}
           /\ verdict.allowed => Due(verdict.plate, frames)
           /\ ~verdict.allowed => \A p : ~Due(p, frames)
<1> DEFINE known == KnownPlates(authorised)
           exact == ExactMatches(frames, known)
           consensus == Consensus(frames, known)
           N(i) == NormalisePlate(frames[i].plate)
           first == N(Min(consensus))
           matched == Candidates(first, known)
           verdict == DecideAccess(frames, authorised)
           Twice(i, j, p) == /\ i # j /\ N(i) # <<>>
                             /\ Spells(frames[i], N(i)) /\ Spells(frames[j], N(i))
                             /\ Candidates(N(i), known) = {p}
<1>1. DOMAIN frames = 1 .. Len(frames) /\ Len(frames) \in Nat
  BY LenProperties
<1>2. \A p : Due(p, frames) <=> /\ p \in known
                                /\ \/ \E i \in DOMAIN frames : Spells(frames[i], p)
                                   \/ \E i, j \in DOMAIN frames : Twice(i, j, p)
  <2>1. known = {NormalisePlate(a) : a \in authorised} \ {<<>>}
    BY DEF KnownPlates
  <2>2. \A p : {q \in known : Confusable(p, q)} = Candidates(p, known)
    BY ConfusionIsConfusable DEF Candidates
  <2>3. QED
    BY <2>1, <2>2, Zenon DEF Due
<1>3. /\ \A i \in DOMAIN frames : \A p : p # <<>> /\ Spells(frames[i], p)
                                    <=> Sure(frames[i], 90) /\ N(i) = p
      /\ MinExactConfidence = 90 /\ MinFuzzyConfidence = 90 /\ <<>> \notin known
  BY DEF Spells, Sure, MinExactConfidence, MinFuzzyConfidence, KnownPlates
<1>4. \A i : i \in exact <=> i \in DOMAIN frames /\ Sure(frames[i], 90) /\ N(i) \in known
  BY <1>3 DEF ExactMatches
<1>5. \A i : i \in consensus <=> /\ i \in DOMAIN frames /\ Sure(frames[i], 90)
                                 /\ FrameCount(frames, N(i)) >= 2 /\ Candidates(N(i), known) # {}
  BY <1>3 DEF Consensus
<1>6. \A i, j \in DOMAIN frames : \A p :
         Twice(i, j, p) => i \in consensus /\ Candidates(N(i), known) = {p}
  <2> SUFFICES ASSUME NEW i \in DOMAIN frames, NEW j \in DOMAIN frames, NEW p, Twice(i, j, p)
               PROVE  i \in consensus /\ Candidates(N(i), known) = {p}
    OBVIOUS
  <2>1. Sure(frames[i], 90) /\ Sure(frames[j], 90) /\ N(j) = N(i)
    BY <1>3
  <2>2. i \in Readers(frames, N(i)) /\ j \in Readers(frames, N(i)) /\ i # j
    BY <1>3, <2>1 DEF Readers
  <2>3. FrameCount(frames, N(i)) >= 2
    BY <2>2, ReadTwice
  <2>4. QED
    BY <1>5, <2>1, <2>3
<1>7. verdict = IF exact # {} THEN Allowed("exact_match", N(Min(exact)))
                ELSE IF consensus = {} THEN Denied("no_match")
                ELSE IF Cardinality(matched) = 1
                     THEN Allowed("two_frame_ocr_confusion", CHOOSE p \in matched : TRUE)
                     ELSE Denied("ambiguous_fuzzy_match")
  BY Zenon DEF DecideAccess
<1>8. exact \in SUBSET Nat /\ consensus \in SUBSET Nat
  BY <1>1, <1>4, <1>5
<1> HIDE DEF known, exact, consensus, N, first, matched, verdict, Twice
<1>9. CASE exact # {}
  <2>1. verdict = Allowed("exact_match", N(Min(exact))) /\ Min(exact) \in exact
    BY <1>7, <1>8, <1>9, LeastPosition
  <2>2. verdict.allowed = TRUE /\ verdict.reason = "exact_match" /\ verdict.plate = N(Min(exact))
    BY <2>1 DEF Allowed
  <2>3. Due(N(Min(exact)), frames)
    BY <1>2, <1>3, <1>4, <2>1
  <2>4. QED
    BY <2>2, <2>3 DEF verdict
<1>10. ASSUME exact = {} PROVE \A p \in known : ~ \E i \in DOMAIN frames : Spells(frames[i], p)
  BY <1>3, <1>4, <1>10
<1>11. CASE exact = {} /\ consensus = {}
  <2>1. verdict = Denied("no_match")
    BY <1>7, <1>11
  <2>2. verdict.allowed = FALSE /\ verdict.reason = "no_match"
    BY <2>1 DEF Denied
  <2>3. \A p : ~Due(p, frames)
    BY <1>2, <1>6, <1>10, <1>11
  <2>4. QED
    BY <2>2, <2>3 DEF verdict
<1>12. CASE exact = {} /\ consensus # {}
  <2>1. PICK m \in consensus : m = Min(consensus)
    BY <1>8, <1>12, LeastPosition
  <2>2. /\ m \in DOMAIN frames /\ Sure(frames[m], 90) /\ FrameCount(frames, first) >= 2
        /\ first = N(m)
    BY <1>5, <2>1 DEF first
  <2>3. \A i \in consensus : N(i) = first
    BY <1>5, <2>2, OnePlateTwice
  <2>4. IsFiniteSet(matched)
    <3>1. IsFiniteSet(known) /\ matched \in SUBSET known
      BY KnownFinite DEF known, matched, Candidates
    <3>2. QED
      BY <3>1, FS_Subset
  <2>5. CASE Cardinality(matched) = 1
    <3>1. PICK p : matched = {p}
      BY <2>4, <2>5, FS_Singleton
    <3>2. verdict = Allowed("two_frame_ocr_confusion", CHOOSE x \in matched : TRUE)
      BY <1>7, <1>12, <2>5
    <3>3. (CHOOSE x \in matched : TRUE) = p
      BY <3>1
    <3>4. verdict = Allowed("two_frame_ocr_confusion", p)
      BY <3>2, <3>3
    <3>5. verdict.allowed = TRUE /\ verdict.reason = "two_frame_ocr_confusion" /\ verdict.plate = p
      BY <3>4 DEF Allowed
    <3>6. PICK i, j \in Readers(frames, first) : i # j
      BY <2>2, ReadTwice
    <3>7. /\ i \in DOMAIN frames /\ Sure(frames[i], 90) /\ N(i) = first
          /\ j \in DOMAIN frames /\ Sure(frames[j], 90) /\ N(j) = first
      BY <1>3, <3>6 DEF Readers, N
    <3>8. N(i) # <<>> /\ Spells(frames[i], N(i)) /\ Spells(frames[j], N(i))
      BY <1>3, <3>7
    <3>9. Candidates(N(i), known) = {p}
      BY <3>1, <3>7 DEF matched
    <3>10. Twice(i, j, p)
      BY <3>6, <3>8, <3>9 DEF Twice
    <3>11. p \in known
      BY <3>1 DEF matched, Candidates
    <3>12. Due(p, frames)
      BY <1>2, <3>7, <3>10, <3>11
    <3>13. QED
      BY <3>5, <3>12 DEF verdict
  <2>6. CASE Cardinality(matched) # 1
    <3>1. verdict = Denied("ambiguous_fuzzy_match")
      BY <1>7, <1>12, <2>6
    <3>2. verdict.allowed = FALSE /\ verdict.reason = "ambiguous_fuzzy_match"
      BY <3>1 DEF Denied
    <3>3. \A p : matched # {p}
      BY <2>4, <2>6, FS_Singleton
    <3>4. \A i \in consensus : Candidates(N(i), known) = matched
      BY <2>3 DEF matched
    <3>5. \A p : ~Due(p, frames)
      BY <1>2, <1>6, <1>10, <1>12, <3>3, <3>4
    <3>6. QED
      BY <3>2, <3>5 DEF verdict
  <2>7. QED
    BY <2>5, <2>6
<1>13. QED
  BY <1>9, <1>11, <1>12

\* What is due after some frames is due after more.
LEMMA DueAfterMore ==
    ASSUME NEW frames \in Seq(Observation), NEW rest \in Seq(Observation), NEW p, Due(p, frames)
    PROVE  Due(p, frames \o rest)
<1>1. PICK more : more = frames \o rest
  OBVIOUS
<1>2. DOMAIN frames \subseteq DOMAIN more /\ \A i \in DOMAIN frames : more[i] = frames[i]
  BY <1>1, LenProperties, ConcatProperties
<1>3. Due(p, more)
  BY <1>2, Zenon DEF Due
<1>4. QED
  BY <1>1, <1>3
-----------------------------------------------------------------------------
(* Plate matching: the verdict *)

\* The decision of the loop is the one decide_access gives for the frames read so far; before
\* the first frame both deny, for reasons of their own.
MatchInv ==
    /\ MatchingTypeOK
    /\ decision.allowed = DecideAccess(observations, authorised).allowed
    /\ decision.plate = DecideAccess(observations, authorised).plate

\* At most MAX_OCR_FRAMES answers.
LEMMA FewFrames ==
    ASSUME MatchingTypeOK
    PROVE  Len(observations) <= 3 /\ Len(observations) \in Nat
BY LenProperties DEF MatchingTypeOK

\* Before the first frame nothing is allowed, and decide_access of no frames denies.
LEMMA MatchInvInit ==
    ASSUME MatchingInit
    PROVE  MatchInv
<1>1. MatchingTypeOK
  BY DEF MatchingInit, MatchingTypeOK, Denied
<1>2. \A plates : ExactMatches(<<>>, plates) = {} /\ Consensus(<<>>, plates) = {}
  BY DEF ExactMatches, Consensus
<1>3. DecideAccess(observations, authorised) = Denied("no_match")
  BY <1>2 DEF DecideAccess, MatchingInit
<1>4. \A r, s : Denied(r).allowed = Denied(s).allowed /\ Denied(r).plate = Denied(s).plate
  BY DEF Denied
<1>5. decision = Denied("none")
  BY DEF MatchingInit
<1>6. QED
  BY <1>1, <1>3, <1>4, <1>5 DEF MatchInv

\* A frame that is read is decided with all before it; a lost one changes nothing.
LEMMA MatchInvStep ==
    ASSUME MatchInv, [MatchingNext]_matchingVars
    PROVE  MatchInv'
<1>1. ASSUME NEW o \in Observation, ReadFrame(o) PROVE MatchInv'
  <2>1. observations' \in Seq(Observation) /\ Len(observations') <= used' /\ used' \in 0 .. MaxFrames
    <3>1. Len(Append(observations, o)) = Len(observations) + 1
      BY AppendProperties DEF MatchInv, MatchingTypeOK
    <3>2. QED
      BY <1>1, <3>1, FewFrames DEF MatchInv, MatchingTypeOK, ReadFrame, Running
  <2>2. decision' = DecideAccess(observations', authorised) /\ authorised' = authorised
    BY <1>1 DEF ReadFrame
  <2>3. Len(observations') <= 3 /\ authorised \in Lists
    BY <2>1, LenProperties DEF MatchInv, MatchingTypeOK
  <2>4. /\ decision'.allowed \in BOOLEAN
        /\ decision'.reason \in {"exact_match", "two_frame_ocr_confusion", "ambiguous_fuzzy_match",
                                "no_match"}
    BY <2>1, <2>2, <2>3, VerdictIsDue
  <2>5. QED
    BY <2>1, <2>2, <2>3, <2>4 DEF MatchInv, MatchingTypeOK
<1>2. ASSUME LoseFrame PROVE MatchInv'
  BY <1>2, FewFrames DEF LoseFrame, Running, MatchInv, MatchingTypeOK
<1>3. ASSUME UNCHANGED matchingVars PROVE MatchInv'
  BY <1>3 DEF matchingVars, MatchInv, MatchingTypeOK
<1>4. QED
  BY <1>1, <1>2, <1>3 DEF MatchingNext

\* The inductive invariant of the frame loop holds.
LEMMA MatchInvHolds == MatchingSpec => []MatchInv
<1>1. MatchingInit => MatchInv
  BY MatchInvInit
<1>2. MatchInv /\ [MatchingNext]_matchingVars => MatchInv'
  BY MatchInvStep
<1>3. QED
  BY <1>1, <1>2, PTL DEF MatchingSpec

\* The frame loop of process opens exactly when the matching rules are met by the frames read
\* so far, and for a plate they are met for, in whatever order decide_access met the frames.
\* Holds for every list, every reading and every confidence, with at most MAX_OCR_FRAMES = 3
\* frames: two plates cannot both be read twice.
THEOREM VerdictIsByTheRules == MatchingSpec => []VerdictDue
<1>1. MatchInv => VerdictDue
  <2> SUFFICES ASSUME MatchInv PROVE VerdictDue
    OBVIOUS
  <2>1. authorised \in Lists /\ observations \in Seq(Observation) /\ Len(observations) <= 3
    BY FewFrames DEF MatchInv, MatchingTypeOK
  <2>2. /\ decision.allowed => Due(decision.plate, observations)
        /\ ~decision.allowed => \A p : ~Due(p, observations)
    BY <2>1, VerdictIsDue DEF MatchInv
  <2>3. \A p : Due(p, observations) => p \in {NormalisePlate(a) : a \in authorised}
    BY Zenon DEF Due
  <2>4. OpensWhenDue
    BY <2>2, <2>3 DEF OpensWhenDue
  <2>5. QED
    BY <2>4 DEF VerdictDue, MatchInv
<1>2. QED
  BY <1>1, MatchInvHolds, PTL

\* The break at the first frame that allows loses nothing: whatever the frames left in the
\* burst would have read, decide_access over the whole burst allows too.
THEOREM BreakLosesNothing == MatchingSpec => []EarlyStopAgrees
<1>1. MatchInv => EarlyStopAgrees
  <2> SUFFICES ASSUME MatchInv, decision.allowed, NEW rest \in Rest
               PROVE  DecideAccess(observations \o rest, authorised).allowed
    BY DEF EarlyStopAgrees
  <2>1. /\ authorised \in Lists /\ observations \in Seq(Observation)
        /\ Len(observations) \in Nat /\ Len(observations) <= used /\ used \in 0 .. MaxFrames
    BY FewFrames DEF MatchInv, MatchingTypeOK
  <2>2. PICK n \in 1 .. MaxFrames - used : rest \in [1 .. n -> Observation]
    BY DEF Rest
  <2>3. rest \in Seq(Observation) /\ Len(rest) = n
    <3>1. n \in Nat
      BY <2>1, <2>2
    <3>2. QED
      BY <2>2, <3>1
  <2>4. PICK more : more = observations \o rest
    OBVIOUS
  <2>5. more \in Seq(Observation) /\ Len(more) = Len(observations) + n
    BY <2>1, <2>3, <2>4, ConcatProperties
  <2>6. Len(more) <= 3
    BY <2>1, <2>2, <2>5
  <2>7. Due(decision.plate, observations)
    BY <2>1, FewFrames, VerdictIsDue DEF MatchInv
  <2>8. Due(decision.plate, more)
    BY <2>1, <2>3, <2>4, <2>7, DueAfterMore
  <2>9. DecideAccess(more, authorised).allowed
    BY <2>1, <2>5, <2>6, <2>8, VerdictIsDue
  <2>10. QED
    BY <2>4, <2>9
<1>2. QED
  BY <1>1, MatchInvHolds, PTL
=============================================================================
