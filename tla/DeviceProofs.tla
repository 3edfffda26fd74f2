---------------------------- MODULE DeviceProofs ----------------------------
(***************************************************************************)
(* Theorems about the devices of the gate, each on its own: Relay, for any *)
(* number of trigger and begin_shutdown calls, Webhook, for any connections,*)
(* events and limits, and HotStream, for any frames and limits.            *)
(***************************************************************************)
EXTENDS Relay, Webhook, HotStream, SequenceFacts
-----------------------------------------------------------------------------

USE BoundsAssumption
-----------------------------------------------------------------------------
(* The relay: types *)

\* __init__ leaves every field with its type.
LEMMA RelayTypeInit == RelayInit => RelayTypeOK
<1> SUFFICES ASSUME RelayInit PROVE RelayTypeOK
  OBVIOUS
<1>1. latched \in BOOLEAN /\ gpio \in BOOLEAN /\ outcome \in Outcomes
  BY DEF RelayInit, Outcomes
<1>2. QED
  BY <1>1 DEF RelayInit, RelayTypeOK

\* RelayController's fields keep their types in every step.
THEOREM RelayTypeCorrect == RelaySpec => []RelayTypeOK
<1>1. RelayTypeOK /\ [RelayNext]_relayVars => RelayTypeOK'
  <2> SUFFICES ASSUME RelayTypeOK, [RelayNext]_relayVars PROVE RelayTypeOK'
    OBVIOUS
  <2> USE DEF RelayTypeOK, Outcomes, pin, report, stopping
  <2>1. CASE Trigger
    <3>1. outcome' \in Outcomes /\ calls' \in Nat /\ UNCHANGED <<pin, stopping>>
      BY <2>1 DEF Trigger, Inhibitions
    <3>2. CASE UNCHANGED <<pc, report>>
      BY <3>1, <3>2
    <3>3. CASE pc' = "on" /\ hasReport' \in BOOLEAN /\ ready' = FALSE /\ notified' = FALSE
               /\ reports' = 0 /\ UNCHANGED active
      BY <3>1, <3>3
    <3>4. QED
      BY <2>1, <3>2, <3>3 DEF Trigger
  <2>2. CASE TriggerStep
    <3>1. CASE SwitchOn
      <4>1. outcome' \in Outcomes /\ pc' \in {"idle", "notify", "recover"}
        BY <3>1 DEF SwitchOn, Inhibitions
      <4>2. gpio' \in BOOLEAN /\ active' \in BOOLEAN
        BY <3>1 DEF SwitchOn
      <4>3. UNCHANGED <<shutdown, latched, calls, hasReport, ready, notified, reports, stopping>>
        BY <3>1 DEF SwitchOn
      <4>4. QED
        BY <4>1, <4>2, <4>3
    <3>2. CASE NotifyActivation
      BY <3>2 DEF NotifyActivation
    <3>3. CASE EndPulse
      BY <3>3 DEF EndPulse
    <3>4. CASE Deenergize
      <4>1. outcome' \in Outcomes /\ pc' \in {"report", "report_error", "await", "idle"}
        BY <3>4 DEF Deenergize
      <4>2. gpio' \in BOOLEAN /\ active' \in BOOLEAN /\ latched' \in BOOLEAN
        BY <3>4 DEF Deenergize
      <4>3. UNCHANGED <<shutdown, calls, hasReport, ready, notified, reports, stopping>>
        BY <3>4 DEF Deenergize
      <4>4. QED
        BY <4>1, <4>2, <4>3
    <3>5. CASE ReportEnd
      BY <3>5 DEF ReportEnd, RunReport
    <3>6. CASE Return
      BY <3>6 DEF Return
    <3>7. QED
      BY <2>2, <3>1, <3>2, <3>3, <3>4, <3>5, <3>6 DEF TriggerStep
  <2>3. CASE BeginShutdown
    <3>1. CASE gpio' = FALSE /\ active' = FALSE
      <4>1. stopper' \in {"idle", "handover"} /\ outcome' \in Outcomes
        BY <2>3 DEF BeginShutdown
      <4>2. /\ stops' \in Nat /\ shutdown' = TRUE /\ latched' = TRUE
            /\ UNCHANGED <<pc, calls, hasReport, ready, notified, reports, reporter>>
        BY <2>3 DEF BeginShutdown
      <4>3. QED
        BY <3>1, <4>1, <4>2
    <3>2. CASE UNCHANGED <<gpio, active, stopper>>
      BY <2>3, <3>2 DEF BeginShutdown
    <3>3. QED
      BY <2>3, <3>1, <3>2 DEF BeginShutdown
  <2>4. CASE StopperStep
    <3>1. CASE HandOver
      <4>1. notified' \in BOOLEAN /\ reporter' \in {"none", "waiting"}
        BY <3>1 DEF HandOver
      <4>2. QED
        BY <3>1, <4>1 DEF HandOver
    <3>2. CASE StopperReports
      BY <3>2 DEF StopperReports, RunReport
    <3>3. QED
      BY <2>4, <3>1, <3>2 DEF StopperStep
  <2>5. CASE ThreadReports
    BY <2>5 DEF ThreadReports, RunReport
  <2>6. CASE UNCHANGED relayVars
    BY <2>6 DEF relayVars
  <2>7. QED
    BY <2>1, <2>2, <2>3, <2>4, <2>5, <2>6 DEF RelayNext
<1>2. QED
  BY RelayTypeInit, <1>1, PTL DEF RelaySpec
-----------------------------------------------------------------------------
(* The relay: who has the deactivation callback *)

Reporting == pc \in {"report", "report_error"}

\* The callback is in one place at a time: with the boundary, with the call that took it
\* back, with the thread in begin_shutdown or with the report thread.
OneHolder ==
    /\ active => stopper = "idle" /\ reporter = "none" /\ ~Reporting
    /\ stopper # "idle" => reporter = "none" /\ ~Reporting
    /\ reporter # "none" => ~Reporting

\* While somebody has it the end is unreported; it is taken with the pin low, and only
\* begin_shutdown takes it away from a call.
HeldUnreported ==
    /\ active \/ stopper # "idle" \/ reporter # "none" \/ Reporting => reports = 0
    /\ stopper # "idle" \/ reporter # "none" => shutdown /\ ~gpio
    /\ Reporting \/ pc = "await" => ~gpio /\ ~active
    /\ stopper = "report" \/ Reporting => ready
    /\ active => pc = "notify" \/ ready

\* A call at the boundary starts from a low pin with nobody holding a callback, and a
\* callback or a high pin left behind by an earlier call is behind the latch.
CleanStart ==
    /\ pc = "on" => /\ ~gpio /\ ~active /\ reports = 0
                    /\ stopper = "idle" /\ reporter = "none"
    /\ pc \in {"on", "notify"} => ~ready
    /\ pc = "idle" /\ (active \/ gpio) => latched
    /\ shutdown => latched

RelayInv == RelayTypeOK /\ OneHolder /\ HeldUnreported /\ CleanStart /\ ReportOnceAfterPulse

\* No step breaks it, whichever threads take their steps in whatever order.
LEMMA RelayInvStep == RelayInv /\ RelayTypeOK' /\ [RelayNext]_relayVars => RelayInv'
<1> SUFFICES ASSUME RelayInv, RelayTypeOK', [RelayNext]_relayVars PROVE RelayInv'
  OBVIOUS
<1> USE DEF RelayInv, OneHolder, HeldUnreported, CleanStart, ReportOnceAfterPulse, Reporting,
            pin, report, stopping
<1>1. CASE Trigger
  BY <1>1 DEF Trigger, Inhibitions
<1>2. CASE TriggerStep
  <2>1. CASE SwitchOn
    <3>1. CASE shutdown
      BY <2>1, <3>1 DEF SwitchOn, Inhibitions
    <3>2. CASE ~shutdown
      <4>1. CASE gpio' = TRUE /\ active' = hasReport /\ pc' = "notify"
        BY <2>1, <3>2, <4>1 DEF SwitchOn
      <4>2. CASE pc' = "recover" /\ UNCHANGED active
        BY <2>1, <3>2, <4>2 DEF SwitchOn
      <4>3. CASE pc' = "idle" /\ UNCHANGED <<gpio, active>>
        BY <2>1, <3>2, <4>3 DEF SwitchOn
      <4>4. QED
        BY <2>1, <4>1, <4>2, <4>3 DEF SwitchOn
    <3>3. QED
      BY <3>1, <3>2
  <2>2. CASE NotifyActivation
    BY <2>2 DEF NotifyActivation
  <2>3. CASE EndPulse
    BY <2>3 DEF EndPulse
  <2>4. CASE Deenergize
    BY <2>4 DEF Deenergize
  <2>5. CASE ReportEnd
    BY <2>5 DEF ReportEnd, RunReport
  <2>6. CASE Return
    BY <2>6 DEF Return, RelayTypeOK
  <2>7. QED
    BY <1>2, <2>1, <2>2, <2>3, <2>4, <2>5, <2>6 DEF TriggerStep
<1>3. CASE BeginShutdown
  BY <1>3 DEF BeginShutdown
<1>4. CASE StopperStep
  BY <1>4 DEF StopperStep, HandOver, StopperReports, RunReport
<1>5. CASE ThreadReports
  BY <1>5 DEF ThreadReports, RunReport
<1>6. CASE UNCHANGED relayVars
  BY <1>6 DEF relayVars, RelayTypeOK
<1>7. QED
  BY <1>1, <1>2, <1>3, <1>4, <1>5, <1>6 DEF RelayNext

\* The inductive invariant holds in every reachable state.
LEMMA RelayInvHolds == RelaySpec => []RelayInv
<1>1. RelayInit => RelayInv
  BY RelayTypeInit
     DEF RelayInit, RelayInv, OneHolder, HeldUnreported, CleanStart, ReportOnceAfterPulse, Reporting
<1>2. QED
  BY <1>1, RelayInvStep, RelayTypeCorrect, PTL DEF RelaySpec

\* PulseAccounted: a pulse is reported over at most once, after its start was reported and with
\* the pin low, whichever of the three threads reports it; between calls a pin that could not be
\* lowered is behind the latch.
THEOREM EveryPulseAccounted == RelaySpec => []PulseAccounted
<1>1. RelayInv => PulseAccounted
  BY DEF RelayInv, PulseAccounted, CleanStart, HighPinIsLatched
<1>2. QED
  BY <1>1, RelayInvHolds, PTL

\* NoRiseAfterShutdown: the test inside the boundary stops a trigger call that passed its first
\* test before begin_shutdown latched the relay.
THEOREM ShutdownIsFinal == RelaySpec => NoRiseAfterShutdown
<1>1. RelayTypeOK /\ [RelayNext]_relayVars => [shutdown /\ gpio' => gpio]_relayVars
  <2> SUFFICES ASSUME RelayTypeOK, RelayNext, shutdown, gpio', ~gpio PROVE FALSE
    BY DEF relayVars
  <2> USE DEF pin, RelayTypeOK
  <2>1. ~SwitchOn
    BY DEF SwitchOn, Inhibitions
  <2>2. ~Trigger /\ ~NotifyActivation /\ ~EndPulse /\ ~Deenergize /\ ~ReportEnd /\ ~Return
    BY DEF Trigger, NotifyActivation, EndPulse, Deenergize, ReportEnd, Return
  <2>3. ~BeginShutdown /\ ~HandOver /\ ~StopperReports /\ ~ThreadReports
    BY DEF BeginShutdown, HandOver, StopperReports, ThreadReports
  <2>4. QED
    BY <2>1, <2>2, <2>3 DEF RelayNext, TriggerStep, StopperStep
<1>2. QED
  BY <1>1, RelayTypeCorrect, PTL DEF RelaySpec, NoRiseAfterShutdown

HIDE BoundsAssumption
-----------------------------------------------------------------------------

USE WebhookAssumption
-----------------------------------------------------------------------------
(* The webhook: the inductive invariant *)

Holders == {c \in Connections : Step(c) \in {"reading", "read", "answering"}}

\* Every slot is free or held, by finitely many connections.
Slots == IsFiniteSet(Holders) /\ slots + Cardinality(Holders) = Capacity

\* Nobody who waits for the lock has taken a time that is still to come.
Past ==
    /\ horizon <= now /\ (burst.step = "asked" => burst.at <= now)
    /\ \A c \in Connections : Step(c) = "read" => conn[c].entry.at <= now

\* The latest acceptance of an event is remembered, unless newer events displaced it or
\* a call made long enough after it pruned it.
Remembered ==
    \A v \in Events :
        last[v] # NoTime => \/ [event |-> v, at |-> last[v]] \in ToSet(seen)
                            \/ v \in evicted
                            \/ horizon - last[v] > TTL

\* An event that waits for its burst is still there, unless it was pruned for its age.
Waits == \A entry \in waiting : entry \in ToSet(events) \/ horizon - entry.at > TTL

WebhookInv == WebhookTypeOK /\ Slots /\ Past /\ Remembered /\ Waits
-----------------------------------------------------------------------------
(* The webhook: its queues *)

\* How many of the positions I there are up to one of them.
Rank(I, i) == Cardinality({j \in I : j <= i})

\* The ranks of n positions are the numbers 1 .. n.
LEMMA Ranks ==
    ASSUME NEW I \in SUBSET Nat, IsFiniteSet(I)
    PROVE  /\ Cardinality(I) \in Nat
           /\ \A i \in I : Rank(I, i) \in 1 .. Cardinality(I)
           /\ \A k \in 1 .. Cardinality(I) : \E i \in I : Rank(I, i) = k
           /\ \A i, k \in I : Rank(I, i) = Rank(I, k) => i = k
<1> DEFINE Upto(i) == {j \in I : j <= i}
           n == Cardinality(I)
<1>1. n \in Nat
  BY FS_CardinalityType
<1>2. \A i \in I : IsFiniteSet(Upto(i)) /\ Cardinality(Upto(i)) \in Nat /\ Cardinality(Upto(i)) <= n
  <2> SUFFICES ASSUME NEW i \in I
               PROVE  IsFiniteSet(Upto(i)) /\ Cardinality(Upto(i)) \in Nat /\ Cardinality(Upto(i)) <= n
    OBVIOUS
  <2>1. Upto(i) \in SUBSET I
    OBVIOUS
  <2> HIDE DEF Upto
  <2>2. QED
    BY <2>1, FS_Subset, FS_CardinalityType
<1>3. \A i \in I : Rank(I, i) \in 1 .. n
  <2> SUFFICES ASSUME NEW i \in I PROVE Rank(I, i) \in 1 .. n
    OBVIOUS
  <2>1. Upto(i) # {}
    OBVIOUS
  <2>2. Cardinality(Upto(i)) # 0
    BY <1>2, <2>1, FS_EmptySet
  <2>3. Rank(I, i) = Cardinality(Upto(i))
    BY DEF Rank
  <2> HIDE DEF Upto, n
  <2>4. QED
    BY <1>1, <1>2, <2>2, <2>3
<1>4. \A i, k \in I : Rank(I, i) = Rank(I, k) => i = k
  <2>1. ASSUME NEW i \in I, NEW k \in I, i < k PROVE Rank(I, i) # Rank(I, k)
    <3>0. i \in Nat /\ k \in Nat /\ k <= k /\ ~(k <= i) /\ \A j \in I : j <= i => j <= k
      BY <2>1
    <3>1. Upto(i) \in SUBSET Upto(k) /\ k \in Upto(k) /\ k \notin Upto(i)
      BY <3>0, Zenon
    <3>2. Rank(I, i) = Cardinality(Upto(i)) /\ Rank(I, k) = Cardinality(Upto(k))
      BY DEF Rank
    <3> HIDE DEF Upto
    <3>3. Cardinality(Upto(k)) = Cardinality(Upto(i)) => Upto(k) = Upto(i)
      BY <1>2, <3>1, FS_Subset
    <3>4. QED
      BY <3>1, <3>2, <3>3
  <2>2. \A i, k \in I : i < k \/ k < i \/ i = k
    OBVIOUS
  <2>3. QED
    BY <2>1, <2>2
<1> DEFINE f == [i \in I |-> Rank(I, i)]
<1>5. f \in Injection(I, 1 .. n)
  <2>1. f \in [I -> 1 .. n]
    BY <1>3
  <2>2. IsInjective(f)
    BY <1>4 DEF IsInjective
  <2>3. QED
    BY <2>1, <2>2 DEF Injection
<1>6. IsFiniteSet(1 .. n) /\ Cardinality(1 .. n) = n
  <2> HIDE DEF n
  <2>1. IsFiniteSet(1 .. n) /\ Cardinality(1 .. n) = IF 1 > n THEN 0 ELSE n - 1 + 1
    BY <1>1, FS_Interval
  <2>2. (IF 1 > n THEN 0 ELSE n - 1 + 1) = n
    BY <1>1
  <2>3. QED
    BY <2>1, <2>2
<1>7. f \in Surjection(I, 1 .. n)
  <2> HIDE DEF f
  <2>1. Cardinality(I) = Cardinality(1 .. n) <=> f \in Surjection(I, 1 .. n)
    BY <1>5, <1>6, FS_Injection
  <2>2. QED
    BY <1>6, <2>1
<1>8. \A k \in 1 .. n : \E i \in I : f[i] = k
  <2> HIDE DEF f
  <2>1. QED
    BY <1>7 DEF Surjection
<1>9. QED
  BY <1>1, <1>3, <1>4, <1>8

\* Those holds the entries at the positions I and no others.
LEMMA ThoseFacts ==
    ASSUME NEW S, NEW s \in Seq(S), NEW I \in SUBSET (1 .. Len(s))
    PROVE  /\ Those(s, I) \in Seq(S) /\ Len(Those(s, I)) <= Len(s)
           /\ \A x : x \in ToSet(Those(s, I)) <=> \E i \in I : s[i] = x
<1>1. Len(s) \in Nat
  BY LenProperties
<1>2. I \in SUBSET Nat /\ IsFiniteSet(I) /\ Cardinality(I) <= Len(s)
  <2>1. IsFiniteSet(1 .. Len(s)) /\ Cardinality(1 .. Len(s)) = IF 1 > Len(s) THEN 0 ELSE Len(s) - 1 + 1
    BY <1>1, FS_Interval
  <2>2. (IF 1 > Len(s) THEN 0 ELSE Len(s) - 1 + 1) = Len(s)
    BY <1>1
  <2>3. IsFiniteSet(I) /\ Cardinality(I) <= Cardinality(1 .. Len(s))
    BY <2>1, FS_Subset
  <2>4. I \in SUBSET Nat
    BY <1>1
  <2>5. QED
    BY <2>1, <2>2, <2>3, <2>4
<1>3. PICK n \in Nat : n = Cardinality(I)
  BY <1>2, Ranks
<1> DEFINE place == [k \in 1 .. n |-> CHOOSE i \in I : Rank(I, i) = k]
<1>4. \A k \in 1 .. n : place[k] \in I /\ Rank(I, place[k]) = k
  <2>1. \A k \in 1 .. n : \E i \in I : Rank(I, i) = k
    BY <1>2, <1>3, Ranks
  <2>2. QED
    BY <2>1
<1>5. \A i \in I : Rank(I, i) \in 1 .. n
  BY <1>2, <1>3, Ranks
<1>6. Those(s, I) = [k \in 1 .. n |-> s[place[k]]]
  BY <1>3 DEF Those, Rank
<1> HIDE DEF place
<1>7. Those(s, I) \in Seq(S) /\ Len(Those(s, I)) = n
  <2>1. \A i \in I : s[i] \in S
    BY LenProperties
  <2>2. \A k \in 1 .. n : s[place[k]] \in S
    BY <1>4, <2>1, Zenon
  <2>3. QED
    BY <1>6, <2>2
<1>8. ASSUME NEW i \in I PROVE \E k \in 1 .. n : place[k] = i
  <2>1. PICK k \in 1 .. n : k = Rank(I, i)
    BY <1>5
  <2>2. Rank(I, place[k]) = Rank(I, i) /\ place[k] \in I
    BY <1>4, <2>1
  <2>3. place[k] = i
    BY <1>2, <2>2, Ranks
  <2>4. QED
    BY <2>3
<1>9. ASSUME NEW x PROVE x \in ToSet(Those(s, I)) <=> \E i \in I : s[i] = x
  <2>1. x \in ToSet(Those(s, I)) <=> \E k \in 1 .. n : Those(s, I)[k] = x
    BY <1>7, InToSet
  <2>2. \A k \in 1 .. n : Those(s, I)[k] = s[place[k]]
    BY <1>6
  <2>3. ASSUME NEW i \in I, s[i] = x PROVE \E k \in 1 .. n : Those(s, I)[k] = x
    <3>1. PICK k \in 1 .. n : place[k] = i
      BY <1>8
    <3>2. Those(s, I)[k] = s[place[k]]
      BY <2>2
    <3>3. Those(s, I)[k] = x
      BY <2>3, <3>1, <3>2, Zenon
    <3>4. QED
      BY <3>3
  <2>4. ASSUME NEW k \in 1 .. n, Those(s, I)[k] = x PROVE \E i \in I : s[i] = x
    BY <1>4, <2>2, <2>4, Zenon
  <2>5. QED
    BY <2>1, <2>3, <2>4, Zenon
<1>10. QED
  BY <1>2, <1>3, <1>7, <1>9

\* _prune drops what is older than the limit and nothing else.
LEMMA KeptFacts ==
    ASSUME NEW q \in Seq(Entry), NEW at \in Times
    PROVE  /\ Kept(q, at) \in Seq(Entry) /\ Len(Kept(q, at)) <= Len(q)
           /\ \A x : x \in ToSet(Kept(q, at)) <=> x \in ToSet(q) /\ at - x.at <= TTL
<1> DEFINE I == {i \in DOMAIN q : at - q[i].at <= TTL}
<1>1. I \in SUBSET (1 .. Len(q)) /\ DOMAIN q = 1 .. Len(q)
  BY LenProperties
<1>2. Kept(q, at) = Those(q, I)
  BY DEF Kept
<1>3. \A x : x \in ToSet(q) <=> \E i \in 1 .. Len(q) : q[i] = x
  BY InToSet
<1>4. \A x : (\E i \in I : q[i] = x) <=> x \in ToSet(q) /\ at - x.at <= TTL
  BY <1>1, <1>3
<1> HIDE DEF I
<1>5. QED
  BY <1>1, <1>2, <1>4, ThoseFacts

\* The loops that drop the oldest respect the limit and add nothing.
LEMMA BoundedFacts ==
    ASSUME NEW S, NEW q \in Seq(S), NEW n \in Nat
    PROVE  /\ Bounded(q, n) \in Seq(S) /\ Len(Bounded(q, n)) <= n
           /\ ToSet(Bounded(q, n)) \subseteq ToSet(q)
<1>1. Len(q) \in Nat
  BY LenProperties
<1>2. CASE Len(q) > n
  <2>1. PICK k \in Nat : k = Len(q) - n
    BY <1>1, <1>2
  <2>2. Bounded(q, n) = SubSeq(q, k + 1, Len(q))
    BY <1>2, <2>1 DEF Bounded, Newest
  <2>3. PICK r \in Seq(S) : /\ r = SubSeq(q, k + 1, Len(q)) /\ Len(r) = n
                            /\ \A i \in 1 .. n : r[i] = q[k + i]
    <3>1. k + 1 \in 1 .. Len(q) + 1 /\ Len(q) - (k + 1) + 1 = n
      BY <1>1, <1>2, <2>1
    <3>2. SubSeq(q, k + 1, Len(q)) \in Seq(S) /\ Len(SubSeq(q, k + 1, Len(q))) = n
      BY <1>1, <3>1
    <3>3. \A i \in 1 .. n : SubSeq(q, k + 1, Len(q))[i] = q[k + i]
      <4>1. \A i \in 1 .. Len(q) - k : SubSeq(q, k + 1, Len(q))[i] = q[k + i]
        BY <1>1
      <4>2. Len(q) - k = n
        BY <1>1, <2>1
      <4>3. QED
        BY <4>1, <4>2
    <3>4. QED
      BY <3>2, <3>3
  <2>4. \A i \in 1 .. n : k + i \in 1 .. Len(q)
    BY <1>1, <2>1
  <2>5. ToSet(r) \subseteq ToSet(q)
    <3>1. ASSUME NEW x \in ToSet(r) PROVE x \in ToSet(q)
      <4>0. \E i \in 1 .. Len(r) : r[i] = x
        BY <3>1, InToSet
      <4>1. PICK i \in 1 .. n : r[i] = x
        BY <2>3, <4>0
      <4>2. q[k + i] = x /\ k + i \in 1 .. Len(q)
        BY <2>3, <2>4, <4>1
      <4>3. QED
        BY <4>2, InToSet
    <3>2. QED
      BY <3>1
  <2>6. QED
    BY <2>2, <2>3, <2>5
<1>3. CASE ~(Len(q) > n)
  BY <1>1, <1>3 DEF Bounded
<1>4. QED
  BY <1>2, <1>3

\* What the invariant says of the queues.
Queues ==
    /\ events \in Seq(Entry) /\ Len(events) <= MaxEvents
    /\ seen \in Seq(Entry) /\ Len(seen) <= 2 * MaxEvents
    /\ last \in [Events -> Times \cup {NoTime}] /\ evicted \subseteq Events
    /\ horizon \in Times /\ waiting \subseteq Entry

\* The latest call is not overtaken.
LEMMA LaterFacts ==
    ASSUME horizon \in Times, NEW at \in Times
    PROVE  Later(at) \in Times /\ Later(at) >= at /\ Later(at) >= horizon
           /\ (Later(at) = at \/ Later(at) = horizon)
  BY DEF Later, Times

\* record keeps every identity and every waiting event that it does not displace and that is
\* not too old.
LEMMA RecordKeeps ==
    ASSUME Queues, Remembered, Waits, NEW c \in Connections, conn[c].entry \in Entry, Record(c)
    PROVE  Queues' /\ Remembered' /\ Waits'
<1> DEFINE entry == conn[c].entry
           old == Kept(seen, entry.at)
           rest == Kept(events, entry.at)
           known == IF Accepts(entry) THEN Append(old, entry) ELSE old
           queue == IF Accepts(entry) THEN Append(rest, entry) ELSE rest
<1>1. entry \in Entry /\ entry.at \in Times /\ entry.event \in Events
  BY DEF Entry
<1>2. /\ old \in Seq(Entry)
      /\ \A x : x \in ToSet(old) <=> x \in ToSet(seen) /\ entry.at - x.at <= TTL
      /\ rest \in Seq(Entry)
      /\ \A x : x \in ToSet(rest) <=> x \in ToSet(events) /\ entry.at - x.at <= TTL
  BY <1>1, KeptFacts DEF Queues
<1>3. /\ seen' = Bounded(known, 2 * MaxEvents) /\ events' = Bounded(queue, MaxEvents)
      /\ evicted' = evicted \cup ({k.event : k \in ToSet(known) \ ToSet(seen')})
      /\ waiting' = (IF Accepts(entry) THEN waiting \cup {entry} ELSE waiting)
                    \ (ToSet(queue) \ ToSet(events'))
      /\ last' = IF Accepts(entry) THEN [last EXCEPT ![entry.event] = entry.at] ELSE last
      /\ horizon' = Later(entry.at)
  BY DEF Record
<1> HIDE DEF entry, old, rest
<1>4. /\ known \in Seq(Entry)
      /\ ToSet(known) = IF Accepts(entry) THEN ToSet(old) \cup {entry} ELSE ToSet(old)
      /\ queue \in Seq(Entry)
      /\ ToSet(queue) = IF Accepts(entry) THEN ToSet(rest) \cup {entry} ELSE ToSet(rest)
  <2>1. /\ Append(old, entry) \in Seq(Entry) /\ ToSet(Append(old, entry)) = ToSet(old) \cup {entry}
        /\ Append(rest, entry) \in Seq(Entry) /\ ToSet(Append(rest, entry)) = ToSet(rest) \cup {entry}
    BY <1>1, <1>2, AppendElements
  <2>2. QED
    BY <1>2, <2>1, Zenon
<1> HIDE DEF known, queue
<1>5. /\ seen' \in Seq(Entry) /\ Len(seen') <= 2 * MaxEvents
      /\ events' \in Seq(Entry) /\ Len(events') <= MaxEvents
  <2>1. MaxEvents \in Nat /\ 2 * MaxEvents \in Nat
    OBVIOUS
  <2>2. QED
    BY <1>3, <1>4, <2>1, BoundedFacts
<1>6. /\ horizon' \in Times /\ horizon' >= entry.at /\ horizon' >= horizon
      /\ horizon \in Nat /\ entry.at \in Nat /\ horizon' \in Nat
  BY <1>1, <1>3, LaterFacts DEF Queues, Times
<1>7. Queues'
  <2>1. ToSet(known) \subseteq Entry /\ \A k \in Entry : k.event \in Events
    BY <1>4, InToSet DEF Entry
  <2>2. evicted' \subseteq Events
    BY <1>3, <2>1 DEF Queues
  <2>3. waiting' \subseteq Entry
    BY <1>1, <1>3 DEF Queues
  <2>4. last' \in [Events -> Times \cup {NoTime}]
    BY <1>1, <1>3 DEF Queues
  <2>5. QED
    BY <1>5, <1>6, <2>2, <2>3, <2>4 DEF Queues
<1>8. Remembered'
  <2> SUFFICES ASSUME NEW v \in Events, last'[v] # NoTime
               PROVE  \/ [event |-> v, at |-> last'[v]] \in ToSet(seen')
                      \/ v \in evicted'
                      \/ horizon' - last'[v] > TTL
    BY DEF Remembered
  <2>1. ASSUME [event |-> v, at |-> last'[v]] \in ToSet(known)
        PROVE  [event |-> v, at |-> last'[v]] \in ToSet(seen') \/ v \in evicted'
    <3>1. [event |-> v, at |-> last'[v]].event = v
      OBVIOUS
    <3>2. QED
      BY <1>3, <2>1, <3>1, Zenon
  <2>2. CASE Accepts(entry) /\ v = entry.event
    <3>1. last'[v] = entry.at
      BY <1>1, <1>3, <2>2 DEF Queues
    <3>2. [event |-> v, at |-> last'[v]] = entry
      BY <1>1, <2>2, <3>1 DEF Entry
    <3>3. QED
      BY <1>4, <2>1, <2>2, <3>2
  <2>3. CASE ~(Accepts(entry) /\ v = entry.event)
    <3>1. last'[v] = last[v]
      BY <1>1, <1>3, <2>3 DEF Queues
    <3>2. last[v] \in Nat
      BY <3>1 DEF Queues, Times
    <3>3. CASE [event |-> v, at |-> last[v]] \in ToSet(seen)
      <4>1. CASE entry.at - last[v] <= TTL
        <5>1. [event |-> v, at |-> last[v]] \in ToSet(old)
          BY <1>2, <3>3, <4>1
        <5>2. QED
          BY <1>4, <2>1, <3>1, <5>1
      <4>2. CASE ~(entry.at - last[v] <= TTL)
        BY <1>6, <3>1, <3>2, <4>2
      <4>3. QED
        BY <4>1, <4>2
    <3>4. CASE v \in evicted
      BY <1>3, <3>4
    <3>5. CASE horizon - last[v] > TTL
      BY <1>6, <3>1, <3>2, <3>5
    <3>6. QED
      BY <3>1, <3>3, <3>4, <3>5 DEF Remembered
  <2>4. QED
    BY <2>2, <2>3
<1>9. Waits'
  <2> SUFFICES ASSUME NEW e \in waiting' PROVE e \in ToSet(events') \/ horizon' - e.at > TTL
    BY DEF Waits
  <2>1. e \in ToSet(queue) => e \in ToSet(events')
    BY <1>3
  <2>2. CASE Accepts(entry) /\ e = entry
    BY <1>4, <2>1, <2>2
  <2>3. CASE e \in waiting
    <3>1. e.at \in Nat
      BY <2>3 DEF Queues, Entry, Times
    <3>2. CASE e \in ToSet(events)
      <4>1. CASE entry.at - e.at <= TTL
        BY <1>2, <1>4, <2>1, <3>2, <4>1
      <4>2. CASE ~(entry.at - e.at <= TTL)
        BY <1>6, <3>1, <4>2
      <4>3. QED
        BY <4>1, <4>2
    <3>3. CASE horizon - e.at > TTL
      BY <1>6, <3>1, <3>3
    <3>4. QED
      BY <2>3, <3>2, <3>3 DEF Waits
  <2>4. QED
    BY <1>3, <2>2, <2>3
<1>10. QED
  BY <1>7, <1>8, <1>9

\* correlate forgets only what is too old, and consumes one event if one is near.
LEMMA CorrelateKeeps ==
    ASSUME Queues, Remembered, Waits, burst.at \in Times, Correlate
    PROVE  /\ Queues' /\ Remembered' /\ Waits'
           /\ (\E e \in ToSet(Kept(events, burst.at)) : Distance(e, burst.received) <= Window)
              => Len(events') < Len(Kept(events, burst.at))
<1> DEFINE at == burst.at
           old == Kept(seen, at)
           queue == Kept(events, at)
           near == {e \in ToSet(queue) : Distance(e, burst.received) <= Window}
<1>1. /\ old \in Seq(Entry) /\ Len(old) <= Len(seen)
      /\ \A x : x \in ToSet(old) <=> x \in ToSet(seen) /\ at - x.at <= TTL
      /\ queue \in Seq(Entry) /\ Len(queue) <= Len(events)
      /\ \A x : x \in ToSet(queue) <=> x \in ToSet(events) /\ at - x.at <= TTL
  BY KeptFacts DEF Queues
<1>2. /\ near = {} => events' = queue
      /\ near # {} => \E e \in near : events' = RemoveFirst(queue, e)
      /\ waiting' = waiting \ (ToSet(queue) \ ToSet(events'))
      /\ seen' = old /\ horizon' = Later(at) /\ last' = last /\ evicted' = evicted
  BY DEF Correlate
<1> HIDE DEF at, old, queue
<1>3. Len(seen) \in Nat /\ Len(events) \in Nat /\ Len(old) \in Nat /\ Len(queue) \in Nat
  BY <1>1, LenProperties DEF Queues
<1>4. /\ events' \in Seq(Entry) /\ Len(events') <= Len(queue)
      /\ near # {} => Len(events') = Len(queue) - 1
  <2>1. CASE near = {}
    BY <1>1, <1>2, <1>3, <2>1
  <2>2. CASE near # {}
    <3>1. PICK e \in ToSet(queue) : events' = RemoveFirst(queue, e)
      BY <1>2, <2>2
    <3>2. PICK p \in 1 .. Len(queue) : RemoveFirst(queue, e) = RemoveAt(queue, p)
      BY <1>1, RemoveFirstAt
    <3>3. RemoveAt(queue, p) \in Seq(Entry) /\ Len(RemoveAt(queue, p)) = Len(queue) - 1
      BY <1>1, RemoveAtElements
    <3>4. QED
      BY <1>3, <3>1, <3>2, <3>3
  <2>3. QED
    BY <2>1, <2>2
<1>5. /\ horizon' \in Times /\ horizon' >= at /\ horizon' >= horizon
      /\ horizon \in Nat /\ at \in Nat /\ horizon' \in Nat
  BY <1>2, LaterFacts DEF Queues, Times, at
<1>6. Queues'
  <2>1. Len(events') <= MaxEvents /\ Len(seen') <= 2 * MaxEvents
    <3>1. Len(events') \in Nat /\ Len(events) <= MaxEvents /\ Len(seen) <= 2 * MaxEvents
      BY <1>4, LenProperties DEF Queues
    <3>2. QED
      BY <1>1, <1>2, <1>3, <1>4, <3>1
  <2>2. waiting' \subseteq Entry /\ seen' \in Seq(Entry)
    BY <1>1, <1>2 DEF Queues
  <2>3. QED
    BY <1>2, <1>4, <1>5, <2>1, <2>2 DEF Queues
<1>7. Remembered'
  <2> SUFFICES ASSUME NEW v \in Events, last[v] # NoTime
               PROVE  \/ [event |-> v, at |-> last[v]] \in ToSet(seen')
                      \/ v \in evicted
                      \/ horizon' - last[v] > TTL
    BY <1>2 DEF Remembered
  <2>1. last[v] \in Nat
    BY DEF Queues, Times
  <2>2. CASE [event |-> v, at |-> last[v]] \in ToSet(seen)
    <3>1. CASE at - last[v] <= TTL
      BY <1>1, <1>2, <2>2, <3>1
    <3>2. CASE ~(at - last[v] <= TTL)
      BY <1>5, <2>1, <3>2
    <3>3. QED
      BY <3>1, <3>2
  <2>3. CASE horizon - last[v] > TTL
    BY <1>5, <2>1, <2>3
  <2>4. QED
    BY <2>2, <2>3 DEF Remembered
<1>8. Waits'
  <2> SUFFICES ASSUME NEW e \in waiting' PROVE e \in ToSet(events') \/ horizon' - e.at > TTL
    BY DEF Waits
  <2>1. e \in waiting /\ (e \in ToSet(queue) => e \in ToSet(events'))
    BY <1>2
  <2>2. e.at \in Nat
    BY <2>1 DEF Queues, Entry, Times
  <2>3. CASE e \in ToSet(events)
    <3>1. CASE at - e.at <= TTL
      BY <1>1, <2>1, <2>3, <3>1
    <3>2. CASE ~(at - e.at <= TTL)
      BY <1>5, <2>2, <3>2
    <3>3. QED
      BY <3>1, <3>2
  <2>4. CASE horizon - e.at > TTL
    BY <1>5, <2>2, <2>4
  <2>5. QED
    BY <2>1, <2>3, <2>4 DEF Waits
<1>9. ASSUME near # {} PROVE Len(events') < Len(queue)
  BY <1>3, <1>4, <1>9
<1>10. QED
  BY <1>6, <1>7, <1>8, <1>9 DEF queue, at
-----------------------------------------------------------------------------
(* The webhook: its connections *)

Handler == [step : {"none", "reading", "read", "answering", "closed"}, entry : Entry \cup {NoEntry}]

\* What the invariant says of the threads.
Threads ==
    /\ now \in Times /\ alarm \in [Events -> Times \cup {NoTime}]
    /\ slots \in 0 .. Capacity /\ conn \in [Connections -> Handler]
    /\ \A c \in Connections : conn[c].step = "read" => conn[c].entry \in Entry
    /\ burst \in [step : {"idle", "asked"}, received : Times, at : Times]

\* The type invariant is that of the threads and that of the queues.
LEMMA WebhookTypes == WebhookTypeOK <=> Threads /\ Queues
  BY DEF WebhookTypeOK, Threads, Queues, Handler

\* A connection that goes to step r.step is counted if it then holds a slot.
LEMMA HoldersChange ==
    ASSUME conn \in [Connections -> Handler], NEW c \in Connections, NEW r \in Handler,
           conn' = [conn EXCEPT ![c] = r]
    PROVE  /\ conn' \in [Connections -> Handler] /\ conn'[c] = r
           /\ \A d \in Connections : d # c => conn'[d] = conn[d]
           /\ Holders' = IF r.step \in {"reading", "read", "answering"} THEN Holders \cup {c}
                         ELSE Holders \ {c}
<1>1. conn' \in [Connections -> Handler] /\ conn'[c] = r
      /\ \A d \in Connections : d # c => conn'[d] = conn[d]
  OBVIOUS
<1>2. \A d : d \in Holders <=> d \in Connections /\ conn[d].step \in {"reading", "read", "answering"}
  BY DEF Holders, Step
<1>3. \A d : d \in Holders' <=> d \in Connections /\ conn'[d].step \in {"reading", "read", "answering"}
  BY DEF Holders, Step
<1>4. QED
  BY <1>1, <1>2, <1>3

\* No step loses a slot or gives one back twice, and nothing is dated in the future.
LEMMA ThreadStep ==
    ASSUME Threads, Slots, Past, horizon \in Times, [WebhookNext]_webhookVars
    PROVE  Threads' /\ Slots' /\ Past'
<1>1. /\ slots \in Nat /\ Capacity \in Nat /\ now \in Nat /\ horizon \in Nat
      /\ IsFiniteSet(Holders) /\ Cardinality(Holders) \in Nat
      /\ slots + Cardinality(Holders) = Capacity
  BY FS_CardinalityType DEF Threads, Slots, Times
<1>2. NoEntry \in Entry \cup {NoEntry} /\ IdleBurst \in [step : {"idle", "asked"}, received : Times, at : Times]
  BY DEF IdleBurst, Times
<1>3. ASSUME UNCHANGED <<conn, slots>> PROVE Slots'
  BY <1>3 DEF Slots, Holders, Step
<1>4. CASE Tick
  <2>1. now' \in Times /\ now' >= now /\ now' \in Nat
    BY <1>1, <1>4 DEF Tick, Times
  <2>2. Threads' /\ Slots'
    BY <1>3, <1>4, <2>1 DEF Tick, Threads
  <2>3. Past'
    <3>1. horizon' <= now' /\ (burst'.step = "asked" => burst'.at <= now')
      BY <1>1, <1>4, <2>1 DEF Tick, Past, Threads, Times
    <3>2. \A c \in Connections : conn[c].step = "read" => conn[c].entry.at <= now'
      BY <1>1, <2>1 DEF Past, Threads, Entry, Times, Step
    <3>3. QED
      BY <1>4, <3>1, <3>2 DEF Tick, Past, Step
  <2>4. QED
    BY <2>2, <2>3
<1>5. ASSUME NEW c \in Connections, NEW r \in Handler, conn' = [conn EXCEPT ![c] = r],
             r.step = "read" => r.entry \in Entry /\ r.entry.at <= now,
             slots' \in Nat, slots' + Cardinality(Holders') = Capacity,
             IsFiniteSet(Holders'), UNCHANGED <<now, alarm, burst>>, horizon' <= now
      PROVE  Threads' /\ Slots' /\ Past'
  <2>1. /\ conn' \in [Connections -> Handler] /\ conn'[c] = r
        /\ \A d \in Connections : d # c => conn'[d] = conn[d]
    BY <1>5, HoldersChange DEF Threads
  <2>2. slots' \in 0 .. Capacity
    <3>1. Cardinality(Holders') \in Nat
      BY <1>5, FS_CardinalityType
    <3>2. QED
      BY <1>1, <1>5, <3>1
  <2>3. \A d \in Connections : conn'[d].step = "read" => conn'[d].entry \in Entry /\ conn'[d].entry.at <= now
    BY <1>5, <2>1 DEF Threads, Past, Step
  <2>4. Threads'
    BY <1>5, <2>1, <2>2, <2>3 DEF Threads
  <2>5. Past'
    BY <1>5, <2>3 DEF Past, Step
  <2>6. QED
    BY <1>5, <2>4, <2>5 DEF Slots
<1>6. ASSUME NEW c \in Connections, Refuse(c) \/ Accept(c) \/ Reject(c) \/ HandlerStep(c)
                                     \/ \E v \in Events : Receive(c, v)
      PROVE  Threads' /\ Slots' /\ Past'
  <2>1. conn[c] \in Handler /\ horizon <= now
    BY DEF Threads, Past
  <2>2. PICK old \in Entry \cup {NoEntry} : old = conn[c].entry
    BY <2>1 DEF Handler
  <2>3. /\ UNCHANGED <<now, alarm, burst>> /\ horizon' <= now
    <3>1. CASE Record(c)
      <4>1. conn[c].entry.at \in Nat /\ conn[c].entry.at <= now
        BY <3>1 DEF Record, Threads, Past, Entry, Times, Step
      <4>2. QED
        BY <1>1, <2>1, <3>1, <4>1 DEF Record, Later
    <3>2. CASE ~Record(c)
      BY <1>6, <2>1, <3>2 DEF Refuse, Accept, Reject, HandlerStep, Expire, Answer, Receive, memory
    <3>3. QED
      BY <3>1, <3>2
  <2>4. c \in Holders <=> conn[c].step \in {"reading", "read", "answering"}
    BY DEF Holders, Step
  <2>0. ASSUME NEW r \in Handler, conn' = [conn EXCEPT ![c] = r]
        PROVE  /\ r.step \in {"reading", "read", "answering"} => Holders' = Holders \cup {c}
               /\ r.step \notin {"reading", "read", "answering"} => Holders' = Holders \ {c}
    <3>1. conn \in [Connections -> Handler]
      BY DEF Threads
    <3>2. Holders' = IF r.step \in {"reading", "read", "answering"} THEN Holders \cup {c}
                     ELSE Holders \ {c}
      BY <2>0, <3>1, HoldersChange
    <3>3. QED
      BY <3>2
  <2> DEFINE Next(step, entry) == conn' = [conn EXCEPT ![c] = [step |-> step, entry |-> entry]]
  <2>5. CASE /\ conn[c].step = "none" /\ slots' = slots /\ Next("closed", NoEntry)
    <3>1. PICK r \in Handler : r = [step |-> "closed", entry |-> NoEntry]
      BY <1>2 DEF Handler
    <3>2. Holders' = Holders
      <4>1. Holders' = Holders \ {c}
        BY <2>0, <2>5, <3>1
      <4>2. c \notin Holders
        BY <2>4, <2>5
      <4>3. QED
        BY <4>1, <4>2
    <3>3. QED
      BY <1>1, <1>5, <2>3, <2>5, <3>1, <3>2
  <2>6. CASE /\ conn[c].step = "none" /\ slots > 0 /\ slots' = slots - 1 /\ Next("reading", old)
    <3>1. PICK r \in Handler : r = [step |-> "reading", entry |-> old]
      BY DEF Handler
    <3>2. Holders' = Holders \cup {c}
      BY <2>0, <2>6, <3>1
    <3>3. c \notin Holders
      BY <2>4, <2>6
    <3>4. IsFiniteSet(Holders') /\ Cardinality(Holders') = Cardinality(Holders) + 1
      BY <1>1, <3>2, <3>3, FS_AddElement
    <3>5. slots' \in Nat /\ slots' + Cardinality(Holders') = Capacity
      BY <1>1, <2>6, <3>4
    <3>6. QED
      BY <1>5, <2>3, <2>6, <3>1, <3>4, <3>5
  <2>7. ASSUME NEW v \in Events, Receive(c, v) PROVE Threads' /\ Slots' /\ Past'
    <3>1. PICK e \in Entry : e = [event |-> v, at |-> now]
      BY DEF Entry, Threads
    <3>2. PICK r \in Handler : r = [step |-> "read", entry |-> e]
      BY DEF Handler
    <3>3. conn' = [conn EXCEPT ![c] = r] /\ conn[c].step = "reading" /\ slots' = slots
      BY <2>7, <3>1, <3>2 DEF Receive, Step
    <3>4. Holders' = Holders
      <4>1. Holders' = Holders \cup {c}
        BY <2>0, <3>2, <3>3
      <4>2. c \in Holders
        BY <2>4, <3>3
      <4>3. QED
        BY <4>1, <4>2
    <3>5. r.entry \in Entry /\ r.entry.at <= now
      BY <1>1, <3>1, <3>2
    <3>6. QED
      BY <1>1, <1>5, <2>3, <3>2, <3>3, <3>4, <3>5
  <2>8. ASSUME NEW e \in Entry \cup {NoEntry}, slots' = slots, Next("answering", e),
               conn[c].step \in {"reading", "read"}
        PROVE  Threads' /\ Slots' /\ Past'
    <3>1. PICK r \in Handler : r = [step |-> "answering", entry |-> e]
      BY DEF Handler
    <3>2. Holders' = Holders
      <4>1. Holders' = Holders \cup {c}
        BY <2>0, <2>8, <3>1
      <4>2. c \in Holders
        BY <2>4, <2>8
      <4>3. QED
        BY <4>1, <4>2
    <3>3. QED
      BY <1>1, <1>5, <2>3, <2>8, <3>1, <3>2
  <2>9. CASE conn[c].step = "answering" /\ slots' = slots + 1 /\ Next("closed", NoEntry)
    <3>1. PICK r \in Handler : r = [step |-> "closed", entry |-> NoEntry]
      BY <1>2 DEF Handler
    <3>2. Holders' = Holders \ {c}
      BY <2>0, <2>9, <3>1
    <3>3. c \in Holders
      BY <2>4, <2>9
    <3>4. IsFiniteSet(Holders') /\ Cardinality(Holders') = Cardinality(Holders) - 1
      BY <1>1, <3>2, <3>3, FS_RemoveElement
    <3>5. slots' \in Nat /\ slots' + Cardinality(Holders') = Capacity
      BY <1>1, <2>9, <3>4
    <3>6. QED
      BY <1>5, <2>3, <2>9, <3>1, <3>4, <3>5
  <2>10. ASSUME NEW step \in {"reading", "answering"}, conn' = [conn EXCEPT ![c].step = step]
         PROVE  Next(step, old)
    <3>1. [conn[c] EXCEPT !.step = step] = [step |-> step, entry |-> old]
      BY <2>1, <2>2 DEF Handler
    <3>2. QED
      BY <2>10, <3>1
  <2>11. CASE Refuse(c)
    BY <2>5, <2>11 DEF Refuse, Close, Step
  <2>12. CASE Accept(c)
    BY <2>5, <2>6, <2>10, <2>12 DEF Accept, Close, Step
  <2>13. CASE Reject(c) \/ Expire(c)
    BY <2>2, <2>8, <2>10, <2>13 DEF Reject, Expire, Step
  <2>14. CASE Record(c)
    BY <1>2, <2>8, <2>14 DEF Record, Step
  <2>15. CASE Answer(c)
    BY <2>9, <2>15 DEF Answer, Close, Step
  <2>16. QED
    BY <1>6, <2>7, <2>11, <2>12, <2>13, <2>14, <2>15 DEF HandlerStep
<1>7. ASSUME NEW received \in Times, Ask(received) PROVE Threads' /\ Slots' /\ Past'
  <2>1. burst' \in [step : {"idle", "asked"}, received : Times, at : Times] /\ burst'.at = now
    BY <1>7 DEF Ask, Threads
  <2>2. Threads' /\ Slots'
    BY <1>3, <1>7, <2>1 DEF Ask, Threads
  <2>3. Past'
    BY <1>1, <1>7, <2>1 DEF Ask, Past, Step, memory
  <2>4. QED
    BY <2>2, <2>3
<1>8. CASE Correlate
  <2>1. Threads' /\ Slots'
    BY <1>2, <1>3, <1>8 DEF Correlate, Threads
  <2>2. horizon' <= now /\ burst'.step = "idle"
    <3>1. burst.at \in Nat /\ burst.at <= now
      BY <1>8 DEF Correlate, Threads, Past, Times
    <3>2. QED
      BY <1>1, <1>8, <3>1 DEF Correlate, Later, Past, IdleBurst
  <2>3. Past'
    BY <1>8, <2>2 DEF Correlate, Past, Step
  <2>4. QED
    BY <2>1, <2>3
<1>9. CASE UNCHANGED webhookVars
  BY <1>3, <1>9 DEF webhookVars, Threads, Past, Step
<1>10. QED
  BY <1>4, <1>6, <1>7, <1>8, <1>9 DEF WebhookNext

\* The inductive invariant of the webhook holds.
LEMMA WebhookInvHolds == WebhookSpec => []WebhookInv
<1>1. WebhookInit => WebhookInv
  <2> SUFFICES ASSUME WebhookInit PROVE WebhookInv
    OBVIOUS
  <2>1. Holders = {}
    BY DEF WebhookInit, Holders, Step
  <2>2. Slots
    <3>1. IsFiniteSet(Holders) /\ Cardinality(Holders) = 0
      BY <2>1, FS_EmptySet, Zenon
    <3>2. QED
      BY <3>1 DEF WebhookInit, Slots
  <2>3. Threads
    <3>1. 0 \in Times /\ Capacity \in 0 .. Capacity
      BY DEF Times
    <3>2. conn \in [Connections -> Handler] /\ \A c \in Connections : conn[c].step # "read"
      BY DEF WebhookInit, Handler
    <3>3. IdleBurst \in [step : {"idle", "asked"}, received : Times, at : Times]
      BY <3>1 DEF IdleBurst
    <3>4. QED
      BY <3>1, <3>2, <3>3 DEF WebhookInit, Threads
  <2>4. Queues
    BY DEF WebhookInit, Queues, Times
  <2>5. Past /\ Remembered /\ Waits
    BY DEF WebhookInit, Past, Remembered, Waits, IdleBurst, Step
  <2>6. QED
    BY <2>2, <2>3, <2>4, <2>5, WebhookTypes DEF WebhookInv
<1>2. WebhookInv /\ [WebhookNext]_webhookVars => WebhookInv'
  <2> SUFFICES ASSUME WebhookInv, [WebhookNext]_webhookVars PROVE WebhookInv'
    OBVIOUS
  <2>1. Threads /\ Queues /\ Slots /\ Past /\ Remembered /\ Waits
    BY WebhookTypes DEF WebhookInv
  <2>2. Threads' /\ Slots' /\ Past'
    BY <2>1, ThreadStep DEF Queues
  <2>3. Queues' /\ Remembered' /\ Waits'
    <3>1. ASSUME NEW c \in Connections, Record(c) PROVE Queues' /\ Remembered' /\ Waits'
      <4>1. conn[c].entry \in Entry
        BY <2>1, <3>1 DEF Record, Threads, Step
      <4>2. QED
        BY <2>1, <3>1, <4>1, RecordKeeps
    <3>2. CASE Correlate
      <4>1. burst.at \in Times
        BY <2>1 DEF Threads
      <4>2. QED
        BY <2>1, <3>2, <4>1, CorrelateKeeps
    <3>3. CASE UNCHANGED memory
      BY <2>1, <3>3 DEF memory, Queues, Remembered, Waits
    <3>4. (\E c \in Connections : Record(c)) \/ Correlate \/ UNCHANGED memory
      BY DEF WebhookNext, Tick, Refuse, Accept, Reject, HandlerStep, Expire, Answer, Receive, Ask,
             memory, webhookVars
    <3>5. QED
      BY <3>1, <3>2, <3>3, <3>4
  <2>4. (Threads /\ Queues => WebhookTypeOK)'
    BY WebhookTypes, PTL
  <2>5. QED
    BY <2>2, <2>3, <2>4 DEF WebhookInv
<1>3. QED
  BY <1>1, <1>2, PTL DEF WebhookSpec

\* The webhook server loses no slot and returns none twice, and the correlator's queues stay
\* within max_events and its double, for any number of connections and any limits.
THEOREM LimitsAlwaysKept == WebhookSpec => []LimitsKept
<1>1. WebhookInv => LimitsKept
  BY DEF WebhookInv, LimitsKept, SlotsAccounted, Slots, Holders
<1>2. QED
  BY <1>1, WebhookInvHolds, PTL

\* record accepts an event again only where the code cannot know it: its identity was displaced,
\* its own time does not bound its age, or a later call overtook this one at the lock.
THEOREM ResendNotCounted == WebhookSpec => AcceptedOnce
<1> DEFINE Once ==
      \A c \in Connections :
        LET entry == conn[c].entry IN
        Step(c) = "read" /\ conn'[c].step = "answering" /\ Accepts(entry) /\ last[entry.event] # NoTime
        => \/ entry.event \in evicted
           \/ alarm[entry.event] = NoTime \/ alarm[entry.event] > last[entry.event]
           \/ horizon > entry.at
<1>1. WebhookInv => Once
  <2> SUFFICES ASSUME WebhookInv, NEW c \in Connections, Step(c) = "read", Accepts(conn[c].entry),
                      last[conn[c].entry.event] # NoTime, conn[c].entry.event \notin evicted,
                      alarm[conn[c].entry.event] # NoTime,
                      ~(alarm[conn[c].entry.event] > last[conn[c].entry.event]),
                      ~(horizon > conn[c].entry.at)
               PROVE  FALSE
    BY Zenon
  <2>1. Threads /\ Queues
    BY WebhookTypes DEF WebhookInv
  <2>2. PICK entry \in Entry : entry = conn[c].entry
    BY <2>1 DEF Threads, Step
  <2>3. PICK v \in Events : v = entry.event
    BY DEF Entry
  <2>4. entry.at \in Times /\ last[v] \in Nat /\ alarm[v] \in Nat /\ horizon \in Nat
    BY <2>1, <2>2, <2>3 DEF Threads, Queues, Entry, Times
  <2>5. entry.at - alarm[v] <= TTL
    BY <2>2, <2>3, <2>4 DEF Accepts, Stale, Times
  <2>6. entry.at - last[v] <= TTL /\ ~(horizon - last[v] > TTL)
    BY <2>2, <2>3, <2>4, <2>5 DEF Times
  <2> DEFINE k == [event |-> v, at |-> last[v]]
  <2>7. k.event = v /\ k.at = last[v]
    OBVIOUS
  <2>8. k \in ToSet(seen)
    BY <2>2, <2>3, <2>6 DEF WebhookInv, Remembered
  <2> HIDE DEF k
  <2>9. k \in ToSet(Kept(seen, entry.at))
    BY <2>1, <2>4, <2>6, <2>7, <2>8, KeptFacts DEF Queues
  <2>10. entry.event \notin {known.event : known \in ToSet(Kept(seen, entry.at))}
    BY <2>2 DEF Accepts
  <2>11. QED
    BY <2>3, <2>7, <2>9, <2>10
<1>2. WebhookInv => [Once]_webhookVars
  BY <1>1
<1>3. QED
  BY <1>2, WebhookInvHolds, PTL DEF AcceptedOnce

\* A burst that is looked up in time consumes a camera event whenever one of its neighbourhood is
\* unmatched and was not displaced, for all values of the time limits with window <= ttl.
THEOREM EventsFound == WebhookSpec => NoMissedEvent
<1> DEFINE Found ==
      burst.step = "asked" /\ burst'.step = "idle" /\ now - burst.received <= TTL - Window
        /\ (\E entry \in waiting : Distance(entry, burst.received) <= Window)
        => Len(events') < Len(Kept(events, burst.at))
<1>1. WebhookInv /\ [WebhookNext]_webhookVars => [Found]_webhookVars
  <2> SUFFICES ASSUME WebhookInv, WebhookNext, burst.step = "asked", burst'.step = "idle",
                      now - burst.received <= TTL - Window,
                      NEW e \in waiting, Distance(e, burst.received) <= Window
               PROVE  Len(events') < Len(Kept(events, burst.at))
    OBVIOUS
  <2>1. Threads /\ Queues /\ Past /\ Remembered /\ Waits
    BY WebhookTypes DEF WebhookInv
  <2>2. Correlate
    BY DEF WebhookNext, Tick, Refuse, Accept, Reject, HandlerStep, Expire, Record, Answer, Receive,
           Ask
  <2>3. e.at \in Nat /\ burst.received \in Nat /\ burst.at \in Times /\ now \in Nat /\ horizon \in Nat
    BY <2>1 DEF Threads, Queues, Entry, Times
  <2>4. horizon <= now /\ burst.at <= now /\ burst.at \in Nat
    BY <2>1, <2>3 DEF Past, Times
  <2>5. now - e.at <= TTL
    BY <2>3 DEF Distance
  <2>6. ~(horizon - e.at > TTL) /\ burst.at - e.at <= TTL
    BY <2>3, <2>4, <2>5
  <2>7. e \in ToSet(events)
    BY <2>1, <2>6 DEF Waits
  <2>8. e \in ToSet(Kept(events, burst.at))
    BY <2>1, <2>3, <2>6, <2>7, KeptFacts DEF Queues
  <2>9. QED
    BY <2>1, <2>2, <2>3, <2>8, CorrelateKeeps
<1>2. QED
  BY <1>1, WebhookInvHolds, PTL DEF NoMissedEvent, WebhookSpec

HIDE WebhookAssumption
-----------------------------------------------------------------------------

USE HotStreamAssumption
-----------------------------------------------------------------------------
(* The hot stream: one child *)

\* Children that may run while the thread is at a step of run_forever, before the stop.
MayRun ==
    /\ thread.step \in {"check", "spawn"} => alive = {}
    /\ thread.step \in {"assign", "loop", "reading"} => alive \subseteq {thread.child}
    /\ thread.step \in {"loop", "reading"} => handle = thread.child
    /\ thread.step = "take" => alive \subseteq {handle}
    /\ thread.step \in {"drop", "kill"} => alive \subseteq {thread.took}

\* close does not touch the handle before the stop, and no child is started with another alive.
ChildInv ==
    /\ stop <=> closer.step # "no"
    /\ \A c, d \in alive : c = d
    /\ thread.step = "spawn" => alive = {}
    /\ ~stop => MayRun

ThreadRecord == [step : {"check", "spawn", "assign", "loop", "reading", "take", "drop", "kill", "ended"},
                 child : 0 .. MaxChildren, took : 0 .. MaxChildren]
CloserRecord == [step : {"no", "take", "drop", "kill", "done"}, took : 0 .. MaxChildren]

\* The parts of the type invariant that are about the processes, not the frames.
ProcessTypes ==
    /\ stop \in BOOLEAN /\ thread \in ThreadRecord /\ closer \in CloserRecord
    /\ handle \in 0 .. MaxChildren /\ alive \subseteq Children /\ spawned \in 0 .. MaxChildren

\* No step of run_forever or close starts a child while another runs.
LEMMA ChildStep ==
    ProcessTypes /\ ChildInv /\ [HotStreamNext]_hotStreamVars => ProcessTypes' /\ ChildInv'
<1> SUFFICES ASSUME ProcessTypes, ChildInv, [HotStreamNext]_hotStreamVars
             PROVE  ProcessTypes' /\ ChildInv'
  OBVIOUS
<1> USE DEF ProcessTypes, ChildInv, MayRun, ThreadRecord, CloserRecord, Children, frames
<1>1. CASE CheckStop
  BY <1>1 DEF CheckStop, Go
<1>2. CASE Spawn
  <2>1. alive' = {spawned + 1} /\ spawned' = spawned + 1 /\ spawned + 1 \in Children
    BY <1>2 DEF Spawn
  <2>2. thread' = [thread EXCEPT !.step = "assign", !.child = spawned + 1]
    BY <1>2 DEF Spawn
  <2>3. PICK n \in Children : n = spawned + 1
    BY <2>1
  <2> HIDE DEF Children
  <2>4. n \in 0 .. MaxChildren
    BY DEF Children
  <2>5. thread' \in ThreadRecord /\ thread'.step = "assign" /\ thread'.child = n
    BY <2>2, <2>3, <2>4
  <2>6. QED
    BY <1>2, <2>1, <2>3, <2>5 DEF Spawn, Children
<1>3. CASE SpawnFails
  BY <1>3 DEF SpawnFails, Go
<1>4. CASE Assign
  BY <1>4 DEF Assign, Go
<1>5. CASE Loop
  BY <1>5 DEF Loop, Go
<1>6. CASE ReadEnd
  BY <1>6 DEF ReadEnd, Go
<1>7. CASE Take
  BY <1>7 DEF Take
<1>8. CASE Drop
  BY <1>8 DEF Drop, Go
<1>9. CASE Kill
  <2>1. thread' \in ThreadRecord /\ thread'.step = "check"
    BY <1>9 DEF Kill
  <2>2. alive' \subseteq alive /\ (~stop => alive' = {})
    BY <1>9 DEF Kill
  <2>3. QED
    BY <1>9, <2>1, <2>2 DEF Kill
<1>10. CASE CloseOutput
  BY <1>10 DEF CloseOutput, Go
<1>11. CASE \E f \in Frames : ReadFrame(f)
  BY <1>11 DEF ReadFrame, Go
<1>12. CASE \E c \in Children : ChildDies(c)
  BY <1>12 DEF ChildDies
<1>13. CASE SetStop
  BY <1>13 DEF SetStop
<1>14. CASE CloseTake
  BY <1>14 DEF CloseTake
<1>15. CASE CloseDrop
  BY <1>15 DEF CloseDrop
<1>16. CASE CloseKill
  BY <1>16 DEF CloseKill
<1>17. CASE UNCHANGED hotStreamVars
  BY <1>17 DEF hotStreamVars
<1>18. QED
  BY <1>1, <1>2, <1>3, <1>4, <1>5, <1>6, <1>7, <1>8, <1>9, <1>10, <1>11, <1>12, <1>13, <1>14,
     <1>15, <1>16, <1>17 DEF HotStreamNext, Running, Closing

-----------------------------------------------------------------------------
(* HotFrameRing: sizes *)

Big(s) == {i \in DOMAIN s : s[i] \in Large}

\* The size of a queue is a number.
LEMMA BytesType ==
    ASSUME NEW S, NEW s \in Seq(S)
    PROVE  IsFiniteSet(Big(s)) /\ Cardinality(Big(s)) \in Nat /\ Bytes(s) \in Nat
           /\ Bytes(s) = Len(s) + Cardinality(Big(s)) /\ Len(s) \in Nat
<1>1. DOMAIN s = 1 .. Len(s) /\ Len(s) \in Nat
  BY LenProperties
<1>2. IsFiniteSet(1 .. Len(s))
  BY <1>1, FS_Interval
<1>3. Big(s) \in SUBSET (1 .. Len(s))
  BY <1>1 DEF Big
<1>4. IsFiniteSet(Big(s)) /\ Cardinality(Big(s)) \in Nat
  BY <1>2, <1>3, FS_Subset, FS_CardinalityType
<1>5. QED
  BY <1>1, <1>4 DEF Bytes, Big

\* The sizes of two queues add up when they are joined.
LEMMA BytesOfJoin ==
    ASSUME NEW S, NEW a \in Seq(S), NEW b \in Seq(S)
    PROVE  Bytes(a \o b) = Bytes(a) + Bytes(b)
<1>1. PICK r \in Seq(S) :
         /\ r = a \o b /\ Len(r) = Len(a) + Len(b)
         /\ \A i \in 1 .. Len(a) + Len(b) : r[i] = IF i <= Len(a) THEN a[i] ELSE b[i - Len(a)]
  <2>1. /\ a \o b \in Seq(S) /\ Len(a \o b) = Len(a) + Len(b)
        /\ \A i \in 1 .. Len(a) + Len(b) :
              (a \o b)[i] = IF i <= Len(a) THEN a[i] ELSE b[i - Len(a)]
    BY ConcatProperties, Zenon
  <2>2. QED
    BY <2>1
<1>2. /\ Len(a) \in Nat /\ Len(b) \in Nat /\ DOMAIN a = 1 .. Len(a) /\ DOMAIN b = 1 .. Len(b)
      /\ DOMAIN r = 1 .. Len(a) + Len(b)
  BY <1>1, LenProperties
<1> DEFINE T == {i + Len(a) : i \in Big(b)}
<1>3. Big(a) \subseteq 1 .. Len(a) /\ Big(b) \subseteq 1 .. Len(b)
  BY <1>2 DEF Big
<1>4. Big(r) = Big(a) \cup T
  <2>1. ASSUME NEW i \in Big(r) PROVE i \in Big(a) \cup T
    <3>1. CASE i <= Len(a)
      BY <1>1, <1>2, <3>1 DEF Big
    <3>2. CASE ~(i <= Len(a))
      <4>1. i \in 1 .. Len(a) + Len(b) /\ r[i] \in Large
        BY <1>2 DEF Big
      <4>2. i - Len(a) \in 1 .. Len(b) /\ b[i - Len(a)] \in Large /\ i = (i - Len(a)) + Len(a)
        BY <1>1, <1>2, <3>2, <4>1
      <4>3. i - Len(a) \in Big(b)
        BY <1>2, <4>2 DEF Big
      <4>4. QED
        BY <4>2, <4>3
    <3>3. QED
      BY <3>1, <3>2
  <2>2. ASSUME NEW i \in Big(a) PROVE i \in Big(r)
    BY <1>1, <1>2 DEF Big
  <2>3. ASSUME NEW i \in Big(b) PROVE i + Len(a) \in Big(r)
    <3>1. i \in 1 .. Len(b) /\ b[i] \in Large
      BY <1>2 DEF Big
    <3>2. i + Len(a) \in 1 .. Len(a) + Len(b) /\ ~(i + Len(a) <= Len(a)) /\ (i + Len(a)) - Len(a) = i
      BY <1>2, <3>1
    <3>3. QED
      BY <1>1, <1>2, <3>1, <3>2 DEF Big
  <2>4. QED
    BY <2>1, <2>2, <2>3
<1>5. Big(a) \cap T = {}
  BY <1>2, <1>3
<1>6. ExistsBijection(Big(b), T)
  <2> DEFINE f == [i \in Big(b) |-> i + Len(a)]
  <2>1. f \in [Big(b) -> T]
    OBVIOUS
  <2>2. \A i, j \in Big(b) : f[i] = f[j] => i = j
    BY <1>2, <1>3
  <2>3. \A t \in T : \E i \in Big(b) : f[i] = t
    OBVIOUS
  <2>4. f \in Bijection(Big(b), T)
    BY <2>1, <2>2, <2>3 DEF Bijection, Injection, Surjection, IsInjective
  <2>5. QED
    BY <2>4 DEF ExistsBijection
<1>7. IsFiniteSet(Big(a)) /\ IsFiniteSet(Big(b)) /\ Cardinality(Big(a)) \in Nat /\ Cardinality(Big(b)) \in Nat
  BY BytesType
<1>8. IsFiniteSet(T) /\ Cardinality(T) = Cardinality(Big(b))
  BY <1>6, <1>7, FS_Bijection
<1>9. Cardinality(Big(r)) = Cardinality(Big(a)) + Cardinality(Big(b))
  <2>1. Cardinality(Big(a) \cup T) = Cardinality(Big(a)) + Cardinality(T) - Cardinality(Big(a) \cap T)
    BY <1>7, <1>8, FS_Union
  <2> HIDE DEF T
  <2>2. Cardinality(Big(a) \cap T) = 0
    BY <1>5, FS_EmptySet
  <2>3. QED
    BY <1>4, <1>7, <1>8, <2>1, <2>2
<1>10. Bytes(r) = Len(r) + Cardinality(Big(r)) /\ Bytes(a) = Len(a) + Cardinality(Big(a))
       /\ Bytes(b) = Len(b) + Cardinality(Big(b))
  BY BytesType
<1>11. QED
  BY <1>1, <1>2, <1>7, <1>9, <1>10

\* One frame counts for its size.
LEMMA BytesOfOne ==
    ASSUME NEW S, NEW f \in S
    PROVE  <<f>> \in Seq(S) /\ Bytes(<<f>>) = Size(f) /\ Size(f) \in {1, 2}
<1>1. <<f>> \in Seq(S) /\ DOMAIN <<f>> = {1} /\ <<f>>[1] = f /\ Len(<<f>>) = 1
  OBVIOUS
<1>2. Big(<<f>>) = IF f \in Large THEN {1} ELSE {}
  BY <1>1 DEF Big
<1>3. Cardinality(Big(<<f>>)) = IF f \in Large THEN 1 ELSE 0
  BY <1>2, FS_EmptySet, FS_Singleton
<1>4. Bytes(<<f>>) = 1 + Cardinality(Big(<<f>>))
  BY <1>1, BytesType
<1>5. QED
  BY <1>1, <1>3, <1>4 DEF Size

\* Cutting a queue in two splits its size.
LEMMA BytesOfParts ==
    ASSUME NEW S, NEW s \in Seq(S), NEW n \in 0 .. Len(s)
    PROVE  /\ SubSeq(s, 1, n) \in Seq(S) /\ SubSeq(s, n + 1, Len(s)) \in Seq(S)
           /\ Bytes(s) = Bytes(SubSeq(s, 1, n)) + Bytes(SubSeq(s, n + 1, Len(s)))
<1>1. Len(s) \in Nat /\ SubSeq(s, 1, n) \in Seq(S) /\ SubSeq(s, n + 1, Len(s)) \in Seq(S)
  BY LenProperties
<1>2. SubSeq(s, 1, n) \o SubSeq(s, n + 1, Len(s)) = SubSeq(s, 1, Len(s))
  <2>1. 1 \in 1 .. Len(s) + 1 /\ n \in 1 - 1 .. Len(s) /\ Len(s) \in n .. Len(s)
    BY <1>1
  <2>2. QED
    BY <2>1, ConcatAdjacentSubSeq
<1>3. SubSeq(s, 1, Len(s)) = s
  BY SubSeqFull
<1>4. QED
  BY <1>1, <1>2, <1>3, BytesOfJoin

\* Taking a frame out, or adding one at the end, changes the size by its own.
LEMMA BytesOfChange ==
    ASSUME NEW S, NEW s \in Seq(S)
    PROVE  /\ \A f \in S : Bytes(Append(s, f)) = Bytes(s) + Size(f)
           /\ \A p \in 1 .. Len(s) : Bytes(s) = Bytes(RemoveAt(s, p)) + Size(s[p])
<1>1. ASSUME NEW f \in S PROVE Bytes(Append(s, f)) = Bytes(s) + Size(f)
  <2>1. Append(s, f) = s \o <<f>>
    OBVIOUS
  <2>2. PICK one \in Seq(S) : one = <<f>> /\ Bytes(one) = Size(f)
    BY BytesOfOne
  <2>3. Bytes(s \o one) = Bytes(s) + Bytes(one)
    BY BytesOfJoin
  <2>4. QED
    BY <2>1, <2>2, <2>3
<1>2. ASSUME NEW p \in 1 .. Len(s) PROVE Bytes(s) = Bytes(RemoveAt(s, p)) + Size(s[p])
  <2>1. Len(s) \in Nat /\ s[p] \in S
    OBVIOUS
  <2> DEFINE a == SubSeq(s, 1, p - 1)
             b == SubSeq(s, p, Len(s))
             c == SubSeq(s, p + 1, Len(s))
  <2>2. p - 1 \in 0 .. Len(s) /\ (p - 1) + 1 = p
    BY <2>1
  <2>3. a \in Seq(S) /\ b \in Seq(S) /\ Bytes(s) = Bytes(a) + Bytes(b)
    BY <2>2, BytesOfParts
  <2>4. c \in Seq(S)
    BY <2>1
  <2>5. b = <<s[p]>> \o c
    BY <2>1, SubSeqRecursiveFirst
  <2>6. RemoveAt(s, p) = a \o c
    BY DEF RemoveAt
  <2> HIDE DEF a, b, c
  <2>7. Bytes(b) = Size(s[p]) + Bytes(c)
    BY <2>1, <2>4, <2>5, BytesOfJoin, BytesOfOne
  <2>8. Bytes(RemoveAt(s, p)) = Bytes(a) + Bytes(c)
    BY <2>3, <2>4, <2>6, BytesOfJoin
  <2>9. Bytes(a) \in Nat /\ Bytes(c) \in Nat /\ Size(s[p]) \in Nat
    BY <2>1, <2>3, <2>4, BytesType, BytesOfOne
  <2>10. QED
    BY <2>3, <2>7, <2>8, <2>9
<1>3. QED
  BY <1>1, <1>2
-----------------------------------------------------------------------------
(* HotFrameRing: what is kept *)

\* s is the end of t.
EndOf(s, t) == Len(s) <= Len(t) /\ \A i \in 1 .. Len(s) : s[i] = t[Len(t) - Len(s) + i]

\* The same said with SubSeq.
LEMMA EndIsSubSeq ==
    ASSUME NEW S, NEW s \in Seq(S), NEW t \in Seq(S)
    PROVE  EndOf(s, t) <=> Len(s) <= Len(t) /\ s = SubSeq(t, Len(t) - Len(s) + 1, Len(t))
<1>1. Len(s) \in Nat /\ Len(t) \in Nat
  BY LenProperties
<1>2. SUFFICES ASSUME Len(s) <= Len(t)
               PROVE  EndOf(s, t) <=> s = SubSeq(t, Len(t) - Len(s) + 1, Len(t))
  BY DEF EndOf
<1>3. PICK k \in Nat : k = Len(t) - Len(s)
  BY <1>1, <1>2
<1>4. PICK e \in Seq(S) : /\ e = SubSeq(t, k + 1, Len(t)) /\ Len(e) = Len(s)
                          /\ \A i \in 1 .. Len(s) : e[i] = t[k + i]
  <2>1. k + 1 \in 1 .. Len(t) + 1 /\ Len(t) - (k + 1) + 1 = Len(s)
    BY <1>1, <1>2, <1>3
  <2>2. SubSeq(t, k + 1, Len(t)) \in Seq(S) /\ Len(SubSeq(t, k + 1, Len(t))) = Len(s)
    BY <1>1, <2>1
  <2>3. \A i \in 1 .. Len(s) : SubSeq(t, k + 1, Len(t))[i] = t[k + i]
    BY <1>1, <1>3
  <2>4. QED
    BY <2>2, <2>3
<1>5. (\A i \in 1 .. Len(s) : s[i] = t[k + i]) <=> s = e
  <2>1. ASSUME \A i \in 1 .. Len(s) : s[i] = t[k + i] PROVE s = e
    <3>1. \A i \in 1 .. Len(s) : s[i] = e[i]
      BY <1>4, <2>1
    <3>2. QED
      BY <1>4, <3>1, SeqEqual
  <2>2. QED
    BY <1>4, <2>1
<1>6. QED
  BY <1>2, <1>3, <1>4, <1>5 DEF EndOf

\* The end of an end is an end.
LEMMA EndOfEnd ==
    ASSUME NEW S, NEW s \in Seq(S), NEW t \in Seq(S), EndOf(s, t), NEW n \in 0 .. Len(s)
    PROVE  EndOf(SubSeq(s, n + 1, Len(s)), t)
<1>1. Len(s) \in Nat /\ Len(t) \in Nat /\ n \in Nat
  BY LenProperties
<1>2. /\ Len(SubSeq(s, n + 1, Len(s))) = Len(s) - n
      /\ \A i \in 1 .. Len(s) - n : SubSeq(s, n + 1, Len(s))[i] = s[n + i]
  BY <1>1
<1>3. ASSUME NEW i \in 1 .. Len(s) - n
      PROVE  SubSeq(s, n + 1, Len(s))[i] = t[Len(t) - (Len(s) - n) + i]
  <2>1. n + i \in 1 .. Len(s) /\ Len(t) - Len(s) + (n + i) = Len(t) - (Len(s) - n) + i
    BY <1>1
  <2>2. s[n + i] = t[Len(t) - Len(s) + (n + i)]
    BY <2>1 DEF EndOf
  <2>3. QED
    BY <1>2, <2>1, <2>2
<1>4. PICK e : e = SubSeq(s, n + 1, Len(s))
  OBVIOUS
<1>5. Len(e) = Len(s) - n /\ \A i \in 1 .. Len(e) : e[i] = t[Len(t) - Len(e) + i]
  BY <1>2, <1>3, <1>4
<1>6. Len(e) <= Len(t)
  BY <1>1, <1>5 DEF EndOf
<1>7. QED
  BY <1>4, <1>5, <1>6 DEF EndOf

\* A frame moved to the end of both, or added to both, leaves one the end of the other.
LEMMA EndRefreshed ==
    ASSUME NEW S, NEW s \in Seq(S), NEW t \in Seq(S), NEW f \in S, IsInjective(t), EndOf(s, t)
    PROVE  EndOf(Append(RemoveFirst(s, f), f), Append(RemoveFirst(t, f), f))
<1>1. Len(s) \in Nat /\ Len(t) \in Nat /\ Len(s) <= Len(t)
  BY LenProperties DEF EndOf
<1>2. PICK k \in Nat : k = Len(t) - Len(s)
  BY <1>1
<1>3. \A i \in 1 .. Len(s) : s[i] = t[k + i]
  BY <1>2 DEF EndOf
<1>4. \A i, j \in 1 .. Len(t) : t[i] = t[j] => i = j
  BY LenProperties DEF IsInjective
<1>5. SUFFICES ASSUME NEW a \in Seq(S), a = RemoveFirst(s, f), NEW b \in Seq(S), b = RemoveFirst(t, f)
               PROVE  EndOf(a, b)
  <2>1. RemoveFirst(t, f) \in Seq(S)
    BY RemoveFirstElements
  <2>2. RemoveFirst(s, f) \in Seq(S)
    <3>1. \A p \in 1 .. Len(s) : RemoveAt(s, p) \in Seq(S)
      BY RemoveAtElements
    <3>2. RemoveFirst(s, f) = s \/ \E p \in 1 .. Len(s) : RemoveFirst(s, f) = RemoveAt(s, p)
      BY RemoveFirstAt
    <3>3. QED
      BY <3>1, <3>2
  <2>3. PICK a \in Seq(S), b \in Seq(S) : a = RemoveFirst(s, f) /\ b = RemoveFirst(t, f)
    BY <2>1, <2>2
  <2>4. EndOf(a, b)
    BY <1>5, <2>3
  <2>5. /\ Len(Append(a, f)) = Len(a) + 1 /\ \A i \in 1 .. Len(a) : Append(a, f)[i] = a[i]
        /\ Append(a, f)[Len(a) + 1] = f /\ Len(a) \in Nat
        /\ Len(Append(b, f)) = Len(b) + 1 /\ \A i \in 1 .. Len(b) : Append(b, f)[i] = b[i]
        /\ Append(b, f)[Len(b) + 1] = f /\ Len(b) \in Nat
    BY AppendElements
  <2>6. ASSUME NEW i \in 1 .. Len(a) + 1
        PROVE  Append(a, f)[i] = Append(b, f)[(Len(b) + 1) - (Len(a) + 1) + i]
    <3>1. CASE i = Len(a) + 1
      <4>1. (Len(b) + 1) - (Len(a) + 1) + i = Len(b) + 1
        BY <2>5, <3>1
      <4>2. QED
        BY <2>5, <3>1, <4>1
    <3>2. CASE i \in 1 .. Len(a)
      <4>1. (Len(b) + 1) - (Len(a) + 1) + i = Len(b) - Len(a) + i
        BY <2>5
      <4>2. a[i] = b[Len(b) - Len(a) + i] /\ Len(b) - Len(a) + i \in 1 .. Len(b)
        BY <2>4, <2>5, <3>2 DEF EndOf
      <4>3. QED
        BY <2>5, <3>2, <4>1, <4>2
    <3>3. Len(a) \in Nat
      BY <2>5
    <3>4. i = Len(a) + 1 \/ i \in 1 .. Len(a)
      BY <3>3
    <3>5. QED
      BY <3>1, <3>2, <3>4
  <2>7. PICK c, d : c = Append(a, f) /\ d = Append(b, f)
    OBVIOUS
  <2>8. Len(c) = Len(a) + 1 /\ Len(d) = Len(b) + 1
    BY <2>5, <2>7
  <2>9. \A i \in 1 .. Len(c) : c[i] = d[Len(d) - Len(c) + i]
    BY <2>6, <2>7, <2>8
  <2>10. Len(a) \in Nat /\ Len(b) \in Nat /\ Len(a) <= Len(b)
    BY <2>4, <2>5 DEF EndOf
  <2>11. EndOf(c, d)
    BY <2>8, <2>9, <2>10 DEF EndOf
  <2>12. QED
    BY <2>3, <2>7, <2>11
<1>6. CASE f \in ToSet(s)
  <2>1. PICK p \in 1 .. Len(s) : s[p] = f /\ a = RemoveAt(s, p)
    BY <1>5, <1>6, RemoveFirstAt
  <2>2. k + p \in 1 .. Len(t) /\ t[k + p] = f
    BY <1>1, <1>2, <1>3, <2>1
  <2>3. f \in ToSet(t)
    BY <2>2, InToSet
  <2>4. PICK q \in 1 .. Len(t) : t[q] = f /\ b = RemoveAt(t, q)
    BY <1>5, <2>3, RemoveFirstAt
  <2>5. q = k + p
    BY <1>4, <2>2, <2>4
  <2>6. /\ Len(a) = Len(s) - 1
        /\ \A i \in 1 .. Len(s) - 1 : a[i] = IF i < p THEN s[i] ELSE s[i + 1]
    BY <2>1, RemoveAtElements
  <2>7. /\ Len(b) = Len(t) - 1
        /\ \A i \in 1 .. Len(t) - 1 : b[i] = IF i < q THEN t[i] ELSE t[i + 1]
    BY <2>4, RemoveAtElements
  <2>8. ASSUME NEW i \in 1 .. Len(s) - 1 PROVE a[i] = b[k + i]
    <3>1. k + i \in 1 .. Len(t) - 1 /\ (k + i < q <=> i < p)
      BY <1>1, <1>2, <2>5
    <3>2. i \in 1 .. Len(s) /\ i + 1 \in 1 .. Len(s) /\ (k + i) + 1 = k + (i + 1)
      BY <1>1, <1>2
    <3>3. CASE i < p
      BY <1>3, <2>6, <2>7, <3>1, <3>2, <3>3
    <3>4. CASE ~(i < p)
      BY <1>3, <2>6, <2>7, <3>1, <3>2, <3>4
    <3>5. QED
      BY <3>3, <3>4
  <2>9. QED
    BY <1>1, <1>2, <2>6, <2>7, <2>8 DEF EndOf
<1>7. CASE f \notin ToSet(s)
  <2>1. a = s
    BY <1>5, <1>7, RemoveFirstAt
  <2>2. CASE f \notin ToSet(t)
    BY <1>5, <2>1, <2>2, RemoveFirstAt
  <2>3. CASE f \in ToSet(t)
    <3>1. PICK q \in 1 .. Len(t) : t[q] = f /\ b = RemoveAt(t, q)
      BY <1>5, <2>3, RemoveFirstAt
    <3>2. q <= k
      <4>1. SUFFICES ASSUME q > k PROVE FALSE
        BY <1>2
      <4>2. q - k \in 1 .. Len(s) /\ k + (q - k) = q
        BY <1>1, <1>2, <4>1
      <4>3. s[q - k] = f
        BY <1>3, <3>1, <4>2
      <4>4. QED
        BY <1>7, <4>2, <4>3, InToSet
    <3>3. /\ Len(b) = Len(t) - 1
          /\ \A i \in 1 .. Len(t) - 1 : b[i] = IF i < q THEN t[i] ELSE t[i + 1]
      BY <3>1, RemoveAtElements
    <3>4. ASSUME NEW i \in 1 .. Len(s) PROVE s[i] = b[(k - 1) + i]
      <4>1. (k - 1) + i \in 1 .. Len(t) - 1 /\ ~((k - 1) + i < q) /\ ((k - 1) + i) + 1 = k + i
        BY <1>1, <1>2, <3>2
      <4>2. QED
        BY <1>3, <3>3, <4>1
    <3>5. QED
      BY <1>1, <1>2, <2>1, <3>2, <3>3, <3>4 DEF EndOf
  <2>4. QED
    BY <2>2, <2>3
<1>8. QED
  BY <1>6, <1>7

\* The ring is the end of all captures, within both limits, and its size is known.
RingInv ==
    /\ ring \in Seq(Frames) /\ recency \in Seq(Frames) /\ IsInjective(recency)
    /\ EndOf(ring, recency)
    /\ total = Bytes(ring) /\ total <= MaxBytes /\ Len(ring) <= MaxFrames

\* The loop that drops the oldest ends, at the latest with an empty ring.
LEMMA SurplusFits ==
    ASSUME NEW S, NEW q \in Seq(S), NEW new, new = [queue |-> q, bytes |-> Bytes(q)]
    PROVE  Surplus(new) \in 0 .. Len(q) /\ Fits(new, Surplus(new))
<1>1. Len(q) \in Nat /\ Bytes(q) \in Nat /\ new.queue = q /\ new.bytes = Bytes(q)
  BY BytesType
<1> DEFINE I == {n \in 0 .. Len(q) : Fits(new, n)}
<1>2. Len(q) \in I
  <2>1. SubSeq(q, 1, Len(q)) = q
    BY SubSeqFull
  <2>2. Len(q) - Len(q) <= MaxFrames /\ Bytes(q) - Bytes(q) <= MaxBytes
    BY <1>1
  <2>3. Fits(new, Len(q))
    BY <1>1, <2>1, <2>2 DEF Fits
  <2>4. QED
    BY <1>1, <2>3
<1>3. I \in SUBSET Nat
  BY <1>1
<1>4. Min(I) \in I /\ \A m \in I : Min(I) <= m
  BY <1>2, <1>3, LeastPosition
<1>5. PICK n \in 0 .. Len(q) : Fits(new, n) /\ \A m \in 0 .. n - 1 : ~Fits(new, m)
  <2>1. PICK n \in 0 .. Len(q) : Fits(new, n) /\ \A m \in I : n <= m
    BY <1>4
  <2>2. ASSUME NEW m \in 0 .. n - 1 PROVE ~Fits(new, m)
    <3>1. m \in 0 .. Len(q) /\ ~(n <= m)
      BY <1>1, <2>1
    <3>2. QED
      BY <2>1, <3>1
  <2>3. QED
    BY <2>1, <2>2
<1>6. QED
  BY <1>1, <1>5 DEF Surplus

\* add keeps the newest frames that fit and their size.
LEMMA RingAdd ==
    ASSUME RingInv, NEW f \in Frames, Add(f)
    PROVE  RingInv'
<1> DEFINE q == Append(RemoveFirst(ring, f), f)
           new == Added(f)
           n == Surplus(new)
           front == SubSeq(q, 1, n)
           rest == SubSeq(q, n + 1, Len(q))
<1>1. /\ ring \in Seq(Frames) /\ recency \in Seq(Frames) /\ Bytes(ring) \in Nat
      /\ total = Bytes(ring) /\ Size(f) \in Nat
  BY BytesType, BytesOfOne DEF RingInv
<1>2. q \in Seq(Frames) /\ new = [queue |-> q, bytes |-> Bytes(q)]
  <2>1. CASE f \notin ToSet(ring)
    <3>1. q = Append(ring, f) /\ new = [queue |-> Append(ring, f), bytes |-> total + Size(f)]
      BY <1>1, <2>1, RemoveFirstAt DEF Added
    <3>2. Bytes(Append(ring, f)) = total + Size(f)
      BY <1>1, BytesOfChange
    <3>3. QED
      BY <1>1, <3>1, <3>2
  <2>2. CASE f \in ToSet(ring)
    <3>1. PICK p \in 1 .. Len(ring) : ring[p] = f /\ RemoveFirst(ring, f) = RemoveAt(ring, p)
      BY <1>1, <2>2, RemoveFirstAt
    <3>2. PICK r \in Seq(Frames) : r = RemoveFirst(ring, f)
      BY <1>1, <3>1, RemoveAtElements
    <3>3. Bytes(ring) = Bytes(r) + Size(f)
      BY <1>1, <3>1, <3>2, BytesOfChange
    <3>4. Bytes(Append(r, f)) = Bytes(r) + Size(f)
      BY BytesOfChange
    <3>5. QED
      BY <1>1, <2>2, <3>2, <3>3, <3>4 DEF Added
  <2>3. QED
    BY <2>1, <2>2
<1>3. /\ n \in 0 .. Len(q) /\ Len(q) - n <= MaxFrames
      /\ Bytes(q) - Bytes(front) <= MaxBytes
  <2>1. n \in 0 .. Len(q) /\ Fits(new, n)
    BY <1>2, SurplusFits
  <2>2. QED
    BY <1>2, <2>1 DEF Fits
<1>4. /\ ring' = rest /\ total' = Bytes(q) - Bytes(front)
      /\ recency' = Append(RemoveFirst(recency, f), f)
  <2>1. /\ ring' = SubSeq(new.queue, n + 1, Len(new.queue))
        /\ total' = new.bytes - Bytes(SubSeq(new.queue, 1, n))
        /\ recency' = Append(RemoveFirst(recency, f), f)
    BY Zenon DEF Add
  <2>2. new.queue = q /\ new.bytes = Bytes(q)
    BY <1>2
  <2>3. QED
    BY <2>1, <2>2, Zenon
<1> HIDE DEF q, new, n, front, rest
<1>5. /\ front \in Seq(Frames) /\ rest \in Seq(Frames) /\ Bytes(q) = Bytes(front) + Bytes(rest)
  BY <1>2, <1>3, BytesOfParts DEF front, rest
<1>6. Bytes(front) \in Nat /\ Bytes(rest) \in Nat
  BY <1>5, BytesType
<1>7. total' = Bytes(ring') /\ total' <= MaxBytes
  BY <1>3, <1>4, <1>5, <1>6
<1>8. Len(ring') <= MaxFrames
  <2>1. Len(rest) = Len(q) - n
    BY <1>2, <1>3 DEF rest
  <2>2. QED
    BY <1>3, <1>4, <2>1
<1>9. /\ RemoveFirst(recency, f) \in Seq(Frames) /\ IsInjective(RemoveFirst(recency, f))
      /\ f \notin ToSet(RemoveFirst(recency, f))
  BY <1>1, RemoveFirstElements DEF RingInv
<1>10. recency' \in Seq(Frames) /\ IsInjective(recency')
  BY <1>4, <1>9, StillDistinct, AppendElements
<1>11. EndOf(q, recency')
  BY <1>1, <1>4, EndRefreshed DEF RingInv, q
<1>12. EndOf(ring', recency')
  BY <1>2, <1>3, <1>4, <1>10, <1>11, EndOfEnd DEF rest
<1>13. QED
  BY <1>4, <1>5, <1>7, <1>8, <1>10, <1>12 DEF RingInv

\* Only a frame that was read changes the ring.
LEMMA RingStep == RingInv /\ [HotStreamNext]_hotStreamVars => RingInv'
<1> SUFFICES ASSUME RingInv, [HotStreamNext]_hotStreamVars PROVE RingInv'
  OBVIOUS
<1>1. (\E f \in Frames : Add(f)) \/ UNCHANGED frames
  BY DEF HotStreamNext, Running, Closing, CheckStop, Spawn, SpawnFails, Assign, Loop, ReadEnd, Take,
         Drop, Kill, CloseOutput, ReadFrame, ChildDies, SetStop, CloseTake, CloseDrop, CloseKill,
         hotStreamVars, frames
<1>2. CASE \E f \in Frames : Add(f)
  BY <1>2, RingAdd
<1>3. CASE UNCHANGED frames
  BY <1>3 DEF frames, RingInv, IsInjective, EndOf, Bytes
<1>4. QED
  BY <1>1, <1>2, <1>3

HotStreamInv == ProcessTypes /\ ChildInv /\ RingInv

\* The inductive invariant of the hot stream holds.
LEMMA HotStreamInvHolds == HotStreamSpec => []HotStreamInv
<1>1. HotStreamInit => HotStreamInv
  <2> SUFFICES ASSUME HotStreamInit PROVE HotStreamInv
    OBVIOUS
  <2>1. ProcessTypes /\ ChildInv
    <3>1. 0 \in 0 .. MaxChildren
      OBVIOUS
    <3>2. thread \in ThreadRecord /\ thread.step = "check"
      BY <3>1 DEF HotStreamInit, ThreadRecord
    <3>3. closer \in CloserRecord /\ closer.step = "no"
      BY <3>1 DEF HotStreamInit, CloserRecord
    <3>4. QED
      BY <3>1, <3>2, <3>3 DEF HotStreamInit, ProcessTypes, ChildInv, MayRun
  <2>2. <<>> \in Seq(Frames) /\ Len(<<>>) = 0 /\ IsInjective(<<>>) /\ EndOf(<<>>, <<>>)
    BY DEF IsInjective, EndOf
  <2>3. Bytes(<<>>) = 0
    <3>1. PICK z \in Seq(Frames) : z = <<>> /\ Len(z) = 0
      BY <2>2
    <3>2. Big(z) = {}
      BY <3>1 DEF Big
    <3>3. Cardinality(Big(z)) = 0
      BY <3>2, FS_EmptySet, Zenon
    <3>4. Bytes(z) = Len(z) + Cardinality(Big(z))
      BY BytesType
    <3>5. Bytes(z) = 0
      BY <3>1, <3>3, <3>4
    <3>6. QED
      BY <3>1, <3>5
  <2>4. QED
    BY <2>1, <2>2, <2>3 DEF HotStreamInit, HotStreamInv, RingInv
<1>2. HotStreamInv /\ [HotStreamNext]_hotStreamVars => HotStreamInv'
  BY ChildStep, RingStep DEF HotStreamInv
<1>3. QED
  BY <1>1, <1>2, PTL DEF HotStreamSpec

\* HotStreamBuffer never has two ffmpeg children running, whatever fails, ends or stalls and
\* however close interleaves with run_forever.
THEOREM NeverTwoChildren == HotStreamSpec => []OneChild
<1>1. HotStreamInv => OneChild
  <2> SUFFICES ASSUME HotStreamInv PROVE OneChild
    OBVIOUS
  <2>1. alive = {} \/ \E c : alive = {c}
    BY DEF HotStreamInv, ChildInv
  <2>2. Cardinality({}) = 0 /\ \A c : Cardinality({c}) = 1
    BY FS_EmptySet, FS_Singleton, Zenon
  <2>3. Cardinality(alive) \in {0, 1}
    BY <2>1, <2>2
  <2>4. QED
    BY <2>3 DEF OneChild
<1>2. QED
  BY <1>1, HotStreamInvHolds, PTL

\* HotFrameRing keeps the newest frames that fit its limits and knows their size, through
\* refreshed duplicates and evictions, for every size of ring.
THEOREM RingKeepsNewest == HotStreamSpec => []RingConsistent
<1>1. HotStreamInv => RingConsistent
  <2> SUFFICES ASSUME HotStreamInv PROVE RingConsistent
    OBVIOUS
  <2>1. /\ ring \in Seq(Frames) /\ recency \in Seq(Frames) /\ total \in Nat /\ total <= MaxBytes
    BY BytesType DEF HotStreamInv, RingInv
  <2>2. HotStreamTypeOK
    <3>1. total \in 0 .. MaxBytes
      BY <2>1
    <3>2. QED
      BY <2>1, <3>1 DEF HotStreamInv, ProcessTypes, ThreadRecord, CloserRecord, HotStreamTypeOK
  <2>3. RingIsNewest
    BY <2>1, EndIsSubSeq DEF HotStreamInv, RingInv, RingIsNewest
  <2>4. Cardinality(ToSet(ring)) = Len(ring)
    <3>1. Len(ring) \in Nat /\ Len(recency) \in Nat /\ DOMAIN ring = 1 .. Len(ring)
          /\ DOMAIN recency = 1 .. Len(recency) /\ ring \in [1 .. Len(ring) -> Frames]
      BY <2>1, LenProperties
    <3>2. ASSUME NEW i \in 1 .. Len(ring), NEW j \in 1 .. Len(ring), ring[i] = ring[j] PROVE i = j
      <4>1. PICK k \in Nat : k = Len(recency) - Len(ring)
        <5>1. Len(ring) <= Len(recency)
          BY DEF HotStreamInv, RingInv, EndOf
        <5>2. Len(ring) \in Nat /\ Len(recency) \in Nat
          BY <3>1
        <5>3. Len(recency) - Len(ring) \in Nat
          BY <5>1, <5>2
        <5>4. QED
          BY <5>3
      <4>2. k + i \in DOMAIN recency /\ k + j \in DOMAIN recency
        BY <3>1, <4>1
      <4>3. recency[k + i] = recency[k + j]
        BY <3>2, <4>1 DEF HotStreamInv, RingInv, EndOf
      <4>4. k + i = k + j
        BY <4>2, <4>3 DEF HotStreamInv, RingInv, IsInjective
      <4>5. QED
        BY <4>1, <4>4
    <3>3. \A x \in ToSet(ring) : \E i \in 1 .. Len(ring) : ring[i] = x
      BY <2>1, InToSet
    <3>4. ring \in [1 .. Len(ring) -> ToSet(ring)]
      BY <3>1 DEF ToSet
    <3>5. ring \in Bijection(1 .. Len(ring), ToSet(ring))
      BY <3>1, <3>2, <3>3, <3>4 DEF Bijection, Injection, Surjection, IsInjective
    <3>6. IsFiniteSet(1 .. Len(ring)) /\ Cardinality(1 .. Len(ring)) = Len(ring)
      <4>1. PICK m \in Nat : m = Len(ring)
        BY <3>1
      <4>2. IsFiniteSet(1 .. m) /\ Cardinality(1 .. m) = IF 1 > m THEN 0 ELSE m - 1 + 1
        BY FS_Interval
      <4>3. (IF 1 > m THEN 0 ELSE m - 1 + 1) = m
        OBVIOUS
      <4>4. QED
        BY <4>1, <4>2, <4>3
    <3>7. QED
      BY <3>5, <3>6, FS_Bijection DEF ExistsBijection
  <2>5. QED
    BY <2>2, <2>3, <2>4 DEF RingConsistent, RingAccounted, HotStreamInv, RingInv
<1>2. QED
  BY <1>1, HotStreamInvHolds, PTL
=============================================================================
