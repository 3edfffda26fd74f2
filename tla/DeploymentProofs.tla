-------------------------- MODULE DeploymentProofs --------------------------
(***************************************************************************)
(* Theorems about what keeps a controller up to date: Updater, for         *)
(* every set of commits, any number of installed and kept releases and any *)
(* number of runs that die, and TurnRefresh, for any number of runs and of *)
(* probes.                                                                 *)
(***************************************************************************)
EXTENDS Updater, TurnRefresh, SequenceFacts
-----------------------------------------------------------------------------

USE UpdaterAssumption
-----------------------------------------------------------------------------
(* The updater: the inductive invariant *)

RunSteps == {"idle", "poll", "stage", "record", "upgrade", "retire", "link", "restart",
             "restore", "clear", "prune"}
Modes == {"none", "activate", "finish", "rollback", "settle"}
Runs == [step : RunSteps, mode : Modes, rec : Record \cup {NoPending}, todo : Seq(Shas)]

\* Steps at which a run works on an activation.
Busy == {"upgrade", "retire", "link", "restart", "restore", "clear"}

\* A service that has not gained anything.
Below(s, t) == (s.enabled => t.enabled) /\ (s.active => t.active)

\* The two releases of an activation, one of them current, the previous one healthy.
Activation(cand, prev) ==
    /\ cand \in Present \cap verified /\ prev \in Present \cap verified
    /\ cand # prev /\ current \in {cand, prev} /\ prev \in healthy

\* What rec knows of the legacy service is the state owed to it; while it knows nothing,
\* nobody has touched the service.
Knows(rec) == IF rec.known THEN rec.legacy = owed ELSE legacy = owed

Installed == IsInjective(releases) /\ current \in Present \cap verified

Recorded == pending # NoPending => Activation(pending.cand, pending.prev) /\ Knows(pending)

Unrecorded == pending = NoPending => current \in healthy

\* Before there is a record, and after it is gone.
Outside ==
    /\ run.step = "idle" => run = Idle
    /\ run.step \in {"poll", "stage", "record", "prune"} => pending = NoPending
    /\ run.step \in {"stage", "record"} => run.rec \in Record /\ run.rec.cand # current
    /\ run.step = "record" => /\ run.mode = "activate" /\ run.rec.cand \in Present \cap verified
                              /\ run.rec.prev = current
                              /\ run.rec.known /\ run.rec.legacy = legacy
    /\ run.step = "prune" => current \notin ToSet(run.todo)

\* The run and the record are about the same activation; only a rollback can go on
\* without the record.
Same ==
    run.step \in Busy =>
        /\ run.mode # "none" /\ run.rec \in Record
        /\ Activation(run.rec.cand, run.rec.prev) /\ Knows(run.rec)
        /\ IF pending = NoPending THEN run.mode = "rollback"
           ELSE /\ pending.cand = run.rec.cand /\ pending.prev = run.rec.prev
                /\ run.rec.known => pending.known

Forward == run.mode \in {"activate", "finish"}

\* Which release is current at each step, and how far the service was followed.
Progress ==
    /\ run.step = "upgrade" => run.mode = "finish" /\ current = run.rec.cand /\ ~run.rec.known
    /\ run.step = "retire" =>
          /\ Forward /\ run.rec.known
          /\ current = IF run.mode = "finish" THEN run.rec.cand ELSE run.rec.prev
    /\ run.step = "link" =>
          /\ run.mode \in {"activate", "rollback"}
          /\ run.mode = "activate" => run.rec.known /\ legacy = Off
    /\ run.step = "restart" =>
          IF Forward THEN current = run.rec.cand /\ run.rec.known /\ legacy = Off
          ELSE current = run.rec.prev
    /\ run.step = "restore" => ~Forward /\ current = run.rec.prev /\ confirmed = current
    /\ run.step = "clear" =>
          /\ confirmed = current /\ current \in healthy
          /\ IF Forward THEN current = run.rec.cand /\ run.rec.known /\ legacy = Off
             ELSE /\ current = run.rec.prev
                  /\ run.rec.known /\ current \in LegacyReleases => legacy = owed

UpdaterInv ==
    /\ TypeOK /\ run \in Runs
    /\ Installed /\ Recorded /\ Unrecorded /\ Below(legacy, owed)
    /\ Outside /\ Same /\ Progress

\* What survives a run, and what a run knows.
Durable == Installed /\ Recorded /\ Unrecorded /\ Below(legacy, owed)
InRun == run \in Runs /\ Outside /\ Same /\ Progress

\* A record names two commits, so it is not the absence of one.
LEMMA Records ==
    /\ Off \in Service /\ Idle \in Runs /\ Idle.step = "idle"
    /\ NoPending \notin Record
    /\ \A c, p \in Shas : \A s \in Service :
          /\ Version1(c, p) \in Record /\ Version2(c, p, s) \in Record
          /\ Version1(c, p).cand = c /\ Version1(c, p).prev = p /\ ~Version1(c, p).known
          /\ Version2(c, p, s).cand = c /\ Version2(c, p, s).prev = p
          /\ Version2(c, p, s).known /\ Version2(c, p, s).legacy = s
<1>1. Off \in Service
  BY DEF Off, Service
<1>2. NoPending \notin Record
  BY DEF NoPending, Record
<1>3. Idle \in Runs /\ Idle.step = "idle"
  <2>1. <<>> \in Seq(Shas)
    OBVIOUS
  <2>2. QED
    BY <2>1 DEF Idle, Runs, RunSteps, Modes
<1>4. QED
  BY <1>1, <1>2, <1>3 DEF Version1, Version2, Record

\* The run moves on within its mode.
LEMMA GoToFacts ==
    ASSUME run \in Runs, NEW s \in RunSteps
    PROVE  /\ GoTo(s) \in Runs /\ GoTo(s).step = s
           /\ GoTo(s).mode = run.mode /\ GoTo(s).rec = run.rec /\ GoTo(s).todo = run.todo
  BY DEF GoTo, Runs

\* A step that raises: a forward mode turns to the rollback, the others give up.
LEMMA RaisedFacts ==
    ASSUME run \in Runs, NEW cur
    PROVE  /\ Raised(cur) \in Runs
           /\ ~Forward => Raised(cur) = Idle
           /\ Forward => /\ Raised(cur).mode = "rollback" /\ Raised(cur).rec = run.rec
                         /\ Raised(cur).step = IF run.mode = "activate" /\ cur = run.rec.prev
                                               THEN "restart" ELSE "link"
<1>1. CASE run.mode = "activate"
  <2>1. Raised(cur) = [run EXCEPT !.mode = "rollback",
                          !.step = IF cur = run.rec.prev THEN "restart" ELSE "link"]
    BY <1>1 DEF Raised
  <2>2. QED
    BY <1>1, <2>1 DEF Runs, RunSteps, Modes, Forward
<1>2. CASE run.mode = "finish"
  <2>1. Raised(cur) = [run EXCEPT !.mode = "rollback", !.step = "link"]
    BY <1>2 DEF Raised
  <2>2. QED
    BY <1>2, <2>1 DEF Runs, RunSteps, Modes, Forward
<1>3. CASE ~Forward
  BY <1>3, Records DEF Raised, Forward
<1>4. QED
  BY <1>1, <1>2, <1>3 DEF Forward

\* A run that ended knows nothing.
LEMMA NothingInRun == ASSUME run' = Idle PROVE InRun'
  BY Records DEF InRun, Outside, Same, Progress, Busy

\* What is to be pruned is installed, and not the current release.
LEMMA PruneSpares ==
    ASSUME TypeOK, IsInjective(releases)
    PROVE  ToPrune \in Seq(Shas) /\ current \notin ToSet(ToPrune)
<1>1. PICK left \in Seq(Shas) : /\ left = RemoveFirst(releases, current)
                                /\ current \notin ToSet(left)
  BY RemoveFirstElements DEF TypeOK
<1>2. PICK back \in Seq(Shas) : back = Reverse(left)
  <2>1. Len(left) \in Nat /\ \A i \in 1 .. Len(left) : left[i] \in Shas
    OBVIOUS
  <2>2. \A i \in 1 .. Len(left) : (Len(left) - i) + 1 \in 1 .. Len(left)
    BY <2>1
  <2>3. Reverse(left) \in [1 .. Len(left) -> Shas]
    BY <2>1, <2>2 DEF Reverse
  <2>4. Reverse(left) \in Seq(Shas)
    BY <2>1, <2>3, SeqDef
  <2>5. QED
    BY <2>4
<1>3. Len(back) = Len(left) /\ \A i \in 1 .. Len(back) : back[i] = left[(Len(left) - i) + 1]
  BY <1>2 DEF Reverse
<1>4. ToPrune = SubSeq(back, Keep, Len(back))
  BY <1>1, <1>2 DEF ToPrune
<1>5. PICK todo \in Seq(Shas) : todo = ToPrune
  <2>1. Keep \in Nat /\ Keep >= 1 /\ Len(back) \in Nat
    OBVIOUS
  <2>2. SubSeq(back, Keep, Len(back)) \in Seq(Shas)
    BY <2>1, SubSeqProperties, SubSeqEmpty
  <2>3. QED
    BY <1>4, <2>2
<1>6. ASSUME NEW i \in 1 .. Len(todo) PROVE todo[i] # current
  <2>1. PICK j \in 1 .. Len(back) : todo[i] = back[j]
    <3>1. Len(todo) = IF Keep <= Len(back) THEN Len(back) - Keep + 1 ELSE 0
      BY <1>4, <1>5
    <3>2. Keep + i - 1 \in 1 .. Len(back)
      BY <3>1
    <3>3. todo[i] = back[Keep + i - 1]
      BY <1>4, <1>5, <3>1
    <3>4. QED
      BY <3>2, <3>3
  <2>2. PICK l \in 1 .. Len(left) : back[j] = left[l]
    <3>1. (Len(left) - j) + 1 \in 1 .. Len(left)
      BY <1>3
    <3>2. QED
      BY <1>3, <3>1
  <2>3. QED
    BY <1>1, <2>1, <2>2, InToSet
<1>7. QED
  BY <1>5, <1>6, InToSet

\* Nothing durable changed.
LEMMA DurableKept ==
    ASSUME Durable, UNCHANGED <<releases, verified, current, pending, legacy, healthy, owed>>
    PROVE  Durable'
  BY DEF Durable, Installed, Recorded, Unrecorded, Activation, Knows, Below, Present

\* The fields of the types.
LEMMA Fields ==
    ASSUME TypeOK
    PROVE  /\ legacy \in Service /\ owed \in Service
           /\ legacy.enabled \in BOOLEAN /\ legacy.active \in BOOLEAN
           /\ owed.enabled \in BOOLEAN /\ owed.active \in BOOLEAN
           /\ \A r \in Record : /\ r.cand \in Shas /\ r.prev \in Shas /\ r.known \in BOOLEAN
                                /\ r.legacy \in Service
           /\ \A s, t \in Service : s.enabled = t.enabled /\ s.active = t.active => s = t
<1>1. \A r \in Record : /\ r.cand \in Shas /\ r.prev \in Shas /\ r.known \in BOOLEAN
                        /\ r.legacy \in Service
  BY DEF Record
<1>2. \A s, t \in Service : s.enabled = t.enabled /\ s.active = t.active => s = t
  BY DEF Service
<1>3. QED
  BY <1>1, <1>2 DEF TypeOK, Service

\* Types are kept when the durable state and the run have theirs.
LEMMA TypeFromRun == ASSUME run \in Runs
    PROVE  /\ run.step \in RunSteps /\ run.mode \in Modes
           /\ run.rec \in Record \cup {NoPending} /\ run.todo \in Seq(Shas)
  BY DEF Runs

\* Every step of a run, and its death between any two, keeps the invariant.
LEMMA UpdaterInvStep == UpdaterInv /\ [Next]_vars => UpdaterInv'
<1> SUFFICES ASSUME UpdaterInv, [Next]_vars PROVE UpdaterInv'
  OBVIOUS
<1> TypeOK /\ Durable /\ InRun /\ run \in Runs
  BY DEF UpdaterInv, Durable, InRun
<1> USE Records, Fields
<1>z. ASSUME TypeOK', Durable', InRun' PROVE UpdaterInv'
  BY <1>z DEF UpdaterInv, Durable, InRun
<1>t. ASSUME run' \in Runs, UNCHANGED <<releases, verified, healthy, prior, crashes>>,
             current' \in Shas, pending' \in Record \cup {NoPending},
             legacy' \in Service, owed' \in Service, confirmed' \in Shas \cup {NoSha}
      PROVE  TypeOK'
  BY <1>t, TypeFromRun DEF TypeOK, Runs, RunSteps, Modes
\* A run that ends, or dies, and leaves everything durable as it was.
<1>i. ASSUME run' = Idle, UNCHANGED <<releases, verified, current, pending, legacy, healthy, owed, prior>>,
             confirmed' \in Shas \cup {NoSha}, crashes' \in 0 .. MaxCrashes
      PROVE  UpdaterInv'
  <2>1. TypeOK'
    BY <1>i DEF TypeOK, Runs, RunSteps, Modes
  <2>2. QED
    BY <1>i, <2>1, <1>z, DurableKept, NothingInRun
<1>1. CASE StartWithoutRecord
  <2>1. run' = GoTo("poll") /\ pending = NoPending /\ UNCHANGED <<unmoved, pending>>
    BY <1>1 DEF StartWithoutRecord
  <2>2. run' \in Runs /\ run'.step = "poll"
    BY <2>1, GoToFacts DEF RunSteps
  <2>3. TypeOK' /\ Durable'
    BY <2>1, <2>2, <1>t, DurableKept DEF unmoved, TypeOK
  <2>4. InRun'
    BY <2>1, <2>2 DEF InRun, Outside, Same, Progress, Busy, unmoved
  <2>5. QED
    BY <2>3, <2>4, <1>z
<1>2. CASE StartAtPrevious \/ StartAtCandidate
  <2>1. /\ run.step = "idle" /\ pending \in Record /\ UNCHANGED <<unmoved, pending>>
        /\ Activation(pending.cand, pending.prev) /\ Knows(pending)
    BY <1>2 DEF StartAtPrevious, StartAtCandidate, ReadPending, TypeOK, Durable, Recorded
  <2>2. PICK s \in RunSteps, m \in Modes :
             /\ run' = [Idle EXCEPT !.step = s, !.mode = m, !.rec = pending]
             /\ \/ s = "restart" /\ m = "settle" /\ current = pending.prev
                \/ /\ s = IF pending.known THEN "retire" ELSE "upgrade"
                   /\ m = "finish" /\ current = pending.cand
    BY <1>2 DEF StartAtPrevious, StartAtCandidate, RunSteps, Modes
  <2>3. run' \in Runs /\ run'.step = s /\ run'.mode = m /\ run'.rec = pending
    BY <2>1, <2>2 DEF Runs
  <2>4. TypeOK' /\ Durable'
    BY <2>1, <2>3, <1>t, DurableKept DEF unmoved, TypeOK
  <2>5. Outside'
    BY <2>2, <2>3 DEF Outside
  <2>6. Same'
    BY <2>1, <2>2, <2>3 DEF Same, unmoved, Activation, Knows, Present
  <2>7. Progress'
    BY <2>1, <2>2, <2>3 DEF Progress, unmoved, Forward
  <2>8. QED
    BY <2>3, <2>4, <2>5, <2>6, <2>7, <1>z DEF InRun
\* A step of an activation turns to the rollback.
<1>r. ASSUME run.step \in Busy, Forward, run' = Raised(current'),
             UNCHANGED <<releases, verified, healthy, owed, prior, crashes>>,
             current' \in {run.rec.cand, run.rec.prev},
             confirmed' \in Shas \cup {NoSha},
             legacy' \in Service, Below(legacy', owed),
             run.rec.known \/ legacy' = legacy,
             run.mode = "finish" => current' = run.rec.cand,
             \/ /\ pending' \in Record /\ Knows(pending)'
                /\ pending'.cand = run.rec.cand /\ pending'.prev = run.rec.prev
                /\ run.rec.known => pending'.known
             \/ pending' = NoPending /\ current' \in healthy
      PROVE  UpdaterInv'
  <2>1. /\ run' \in Runs /\ run'.mode = "rollback" /\ run'.rec = run.rec
        /\ run'.step \in {"restart", "link"}
        /\ run'.step = "restart" => current' = run.rec.prev
    BY <1>r, RaisedFacts
  <2>2. /\ run.rec \in Record /\ Activation(run.rec.cand, run.rec.prev) /\ Knows(run.rec)
    BY <1>r DEF InRun, Same
  <2>3. Activation(run.rec.cand, run.rec.prev)'
    BY <1>r, <2>1, <2>2 DEF Activation, Present
  <2>4. Knows(run.rec)'
    BY <1>r, <2>1, <2>2 DEF Knows
  <2>5. TypeOK'
    <3>1. current' \in Shas /\ pending' \in Record \cup {NoPending} /\ owed' \in Service
      BY <1>r, <2>2
    <3>2. QED
      BY <1>r, <2>1, <3>1, <1>t
  <2>6. Installed'
    BY <1>r, <2>2 DEF Installed, Activation, Present, Durable
  <2>7. Recorded' /\ Unrecorded'
    BY <1>r, <2>1, <2>3 DEF Recorded, Unrecorded, Activation, Present
  <2>8. Outside'
    BY <2>1 DEF Outside
  <2>9. Same'
    BY <1>r, <2>1, <2>2, <2>3, <2>4 DEF Same
  <2>10. Progress'
    BY <1>r, <2>1 DEF Progress, Forward
  <2>11. Below(legacy, owed)'
    BY <1>r DEF Below
  <2>12. QED
    BY <2>1, <2>5, <2>6, <2>7, <2>8, <2>9, <2>10, <2>11, <1>z DEF InRun, Durable
<1>3. CASE UpgradeRecord
  <2>1. PICK rec \in Record : rec = Version2(run.rec.cand, run.rec.prev, legacy)
    BY <1>3 DEF UpgradeRecord, InRun, Same, Busy
  <2>2. /\ run.step = "upgrade" /\ run.mode = "finish" /\ current = run.rec.cand
        /\ ~run.rec.known /\ UNCHANGED unmoved /\ legacy = owed /\ run.rec \in Record
        /\ pending \in Record /\ pending.cand = run.rec.cand /\ pending.prev = run.rec.prev
        /\ Activation(run.rec.cand, run.rec.prev) /\ Knows(pending)
    BY <1>3 DEF UpgradeRecord, InRun, Same, Progress, Knows, Busy, TypeOK, Durable, Recorded
  <2>3. rec.cand = run.rec.cand /\ rec.prev = run.rec.prev /\ rec.known /\ rec.legacy = owed
    BY <2>1, <2>2
  <2>4. CASE pending' = rec /\ run' = [run EXCEPT !.step = "retire", !.rec = rec]
    <3>1. run' \in Runs /\ run'.step = "retire" /\ run'.mode = "finish" /\ run'.rec = rec
      BY <2>2, <2>4 DEF Runs, RunSteps
    <3>2. Activation(rec.cand, rec.prev)' /\ Knows(rec)'
      BY <2>2, <2>3, <2>4 DEF Activation, Knows, Present, unmoved
    <3>3. TypeOK'
      BY <2>2, <2>4, <3>1, <1>t DEF unmoved, TypeOK
    <3>4. Durable'
      BY <2>2, <2>4, <3>2 DEF Durable, Installed, Recorded, Unrecorded, Below, Present, unmoved
    <3>5. InRun'
      BY <2>2, <2>3, <2>4, <3>1, <3>2 DEF InRun, Outside, Same, Progress, Forward, unmoved
    <3>6. QED
      BY <3>3, <3>4, <3>5, <1>z
  <2>5. CASE pending' \in {pending, rec} /\ run' = Raised(current)
    <3>1. Knows(pending)' /\ Below(legacy', owed)
      BY <2>2, <2>3, <2>5 DEF Knows, Below, unmoved
    <3>2. QED
      BY <2>2, <2>3, <2>5, <3>1, <1>r DEF Busy, Forward, unmoved, TypeOK
  <2>6. QED
    BY <1>3, <2>1, <2>4, <2>5 DEF UpgradeRecord
<1>4. CASE Poll
  BY <1>4, <1>i DEF Poll, unmoved, TypeOK
<1>5. ASSUME NEW sha \in Shas, Install(sha) PROVE UpdaterInv'
  <2>1. PICK rec \in Record : rec = Version1(sha, current)
    BY DEF TypeOK
  <2>2. /\ run.step = "poll" /\ sha # current /\ UNCHANGED <<unmoved, pending>>
        /\ run' = [run EXCEPT !.step = "stage", !.rec = rec] /\ pending = NoPending
    BY <1>5, <2>1 DEF Install, InRun, Outside
  <2>3. run' \in Runs /\ run'.step = "stage" /\ run'.rec = rec
    BY <2>2 DEF Runs, RunSteps
  <2>4. TypeOK' /\ Durable'
    BY <2>2, <2>3, <1>t, DurableKept DEF unmoved, TypeOK
  <2>5. rec.cand = sha
    BY <2>1 DEF TypeOK
  <2>6. InRun'
    BY <2>2, <2>3, <2>5 DEF InRun, Outside, Same, Progress, Busy, unmoved
  <2>7. QED
    BY <2>4, <2>6, <1>z
\* A candidate that was built or verified again.
<1>s. ASSUME run.step = "stage", releases' \in Seq(Shas), IsInjective(releases'),
             Present' = Present \cup {run.rec.cand}, verified' = verified \cup {run.rec.cand},
             run' \in {Staged, Idle},
             UNCHANGED <<current, pending, legacy, healthy, confirmed, owed, prior, crashes>>
      PROVE  UpdaterInv'
  <2>1. /\ pending = NoPending /\ run.rec \in Record /\ run.rec.cand # current
        /\ current \in Shas
    BY <1>s DEF InRun, Outside, TypeOK
  <2>2. PICK rec \in Record : rec = Version2(run.rec.cand, current, legacy)
    BY <2>1
  <2>3. Durable'
    BY <1>s, <2>1 DEF Durable, Installed, Recorded, Unrecorded, Below
  <2>4. run' \in Runs /\ InRun'
    <3>1. CASE run' = Idle
      BY <3>1, NothingInRun
    <3>2. CASE run' = Staged
      <4>1. /\ run' \in Runs /\ run'.step = "record" /\ run'.mode = "activate" /\ run'.rec = rec
        BY <2>2, <3>2 DEF Staged, Runs, RunSteps, Modes
      <4>2. /\ rec.cand = run.rec.cand /\ rec.prev = current /\ rec.known /\ rec.legacy = legacy
        BY <2>1, <2>2
      <4>3. QED
        BY <1>s, <2>1, <4>1, <4>2 DEF InRun, Outside, Same, Progress, Busy
    <3>3. QED
      BY <1>s, <3>1, <3>2
  <2>5. TypeOK'
    <3>1. verified' \subseteq Shas
      BY <1>s, <2>1 DEF TypeOK
    <3>2. QED
      BY <1>s, <2>4, <3>1, TypeFromRun DEF TypeOK, Runs, RunSteps, Modes
  <2>6. QED
    BY <2>3, <2>4, <2>5, <1>z
<1>6. CASE Reuse
  <2>1. CASE run' = Idle /\ UNCHANGED verified
    BY <1>6, <2>1, <1>i DEF Reuse, TypeOK
  <2>2. CASE run' = Staged /\ verified' = verified \cup {run.rec.cand}
    <3>1. releases' \in Seq(Shas) /\ IsInjective(releases') /\ Present' = Present
      BY <1>6 DEF Reuse, TypeOK, Durable, Installed, Present
    <3>2. QED
      BY <1>6, <2>2, <3>1, <1>s DEF Reuse
  <2>3. QED
    BY <1>6, <2>1, <2>2 DEF Reuse
<1>7. CASE Build
  <2>1. CASE run' = Idle /\ UNCHANGED <<releases, verified>>
    BY <1>7, <2>1, <1>i DEF Build, TypeOK
  <2>2. CASE /\ releases' = Append(releases, run.rec.cand)
             /\ verified' = verified \cup {run.rec.cand} /\ run' \in {Staged, Idle}
    <3>1. run.step = "stage" /\ run.rec.cand \notin Present
      BY <1>7 DEF Build
    <3>2. run.rec.cand \in Shas /\ releases \in Seq(Shas) /\ IsInjective(releases)
      BY <3>1 DEF InRun, Outside, TypeOK, Durable, Installed
    <3>3. releases' \in Seq(Shas) /\ IsInjective(releases') /\ Present' = Present \cup {run.rec.cand}
      BY <2>2, <3>1, <3>2, AppendElements, StillDistinct DEF Present
    <3>4. QED
      BY <1>7, <2>2, <3>1, <3>3, <1>s DEF Build
  <2>3. QED
    BY <1>7, <2>1, <2>2 DEF Build
<1>8. CASE WriteRecord
  <2>1. CASE run' = Idle /\ UNCHANGED <<pending, owed>>
    BY <1>8, <2>1, <1>i DEF WriteRecord, TypeOK
  <2>2. CASE pending' = run.rec /\ owed' = legacy /\ run' \in {GoTo("retire"), Idle}
    <3>1. /\ run.step = "record" /\ run.mode = "activate" /\ run.rec \in Record
          /\ run.rec.cand # current /\ run.rec.prev = current
          /\ run.rec.cand \in Present \cap verified /\ current \in Present \cap verified
          /\ run.rec.known /\ run.rec.legacy = legacy /\ current \in healthy
          /\ UNCHANGED <<releases, verified, current, legacy, healthy, confirmed, prior, crashes>>
      BY <1>8 DEF WriteRecord, InRun, Outside, Durable, Installed, Unrecorded
    <3>2. PICK rec \in Record : rec = run.rec
      BY <3>1
    <3>3. Activation(rec.cand, rec.prev)' /\ Knows(rec)' /\ pending' = rec
      BY <2>2, <3>1, <3>2 DEF Activation, Knows, Present
    <3>4. Durable'
      BY <2>2, <3>1, <3>3 DEF Durable, Installed, Recorded, Unrecorded, Below, Present
    <3>5. run' \in Runs /\ InRun'
      <4>1. CASE run' = Idle
        BY <4>1, NothingInRun
      <4>2. CASE run' = GoTo("retire")
        <5>1. run' \in Runs /\ run'.step = "retire" /\ run'.mode = "activate" /\ run'.rec = rec
          BY <3>1, <3>2, <4>2, GoToFacts DEF RunSteps
        <5>2. QED
          BY <3>1, <3>2, <3>3, <5>1 DEF InRun, Outside, Same, Progress, Forward
      <4>3. QED
        BY <2>2, <4>1, <4>2
    <3>6. TypeOK'
      BY <2>2, <3>1, <3>5, <1>t DEF TypeOK
    <3>7. QED
      BY <3>4, <3>5, <3>6, <1>z
  <2>3. QED
    BY <1>8, <2>1, <2>2 DEF WriteRecord
\* A step of an activation that succeeds.
<1>m. ASSUME run.step \in Busy, NEW s \in Busy, run' = GoTo(s),
             UNCHANGED <<releases, verified, pending, owed, prior, crashes>>,
             healthy \subseteq healthy', healthy' \subseteq Shas,
             current' \in {run.rec.cand, run.rec.prev},
             pending = NoPending => current' \in healthy',
             confirmed' \in Shas \cup {NoSha},
             legacy' \in Service, Below(legacy', owed),
             run.rec.known \/ legacy' = legacy,
             Progress'
      PROVE  UpdaterInv'
  <2>1. run' \in Runs /\ run'.step = s /\ run'.mode = run.mode /\ run'.rec = run.rec
    BY <1>m, GoToFacts DEF Busy, RunSteps
  <2>2. /\ run.rec \in Record /\ Activation(run.rec.cand, run.rec.prev) /\ Knows(run.rec)
        /\ run.mode # "none"
        /\ IF pending = NoPending THEN run.mode = "rollback"
           ELSE /\ pending.cand = run.rec.cand /\ pending.prev = run.rec.prev
                /\ run.rec.known => pending.known
    BY <1>m DEF InRun, Same
  <2>3. Activation(run.rec.cand, run.rec.prev)'
    BY <1>m, <2>1, <2>2 DEF Activation, Present
  <2>4. Knows(run.rec)'
    BY <1>m, <2>1, <2>2 DEF Knows
  <2>5. TypeOK'
    <3>1. current' \in Shas
      BY <1>m, <2>2
    <3>2. QED
      BY <1>m, <2>1, <3>1, TypeFromRun DEF TypeOK, Runs, RunSteps, Modes
  <2>6. Installed'
    BY <1>m, <2>2 DEF Installed, Activation, Present, Durable
  <2>7. Recorded'
    <3>1. CASE pending = NoPending
      BY <1>m, <3>1 DEF Recorded
    <3>2. CASE pending # NoPending
      <4>1. Activation(pending.cand, pending.prev)'
        BY <1>m, <2>1, <2>2, <2>3, <3>2 DEF Activation, Present
      <4>2. Knows(pending)'
        BY <1>m, <2>2, <3>2 DEF Knows, Durable, Recorded
      <4>3. QED
        BY <4>1, <4>2 DEF Recorded
    <3>3. QED
      BY <3>1, <3>2
  <2>8. Unrecorded' /\ Below(legacy, owed)'
    BY <1>m DEF Unrecorded, Below
  <2>9. Outside'
    BY <1>m, <2>1 DEF Outside, Busy
  <2>10. Same'
    BY <1>m, <2>1, <2>2, <2>3, <2>4 DEF Same
  <2>11. QED
    BY <1>m, <2>1, <2>5, <2>6, <2>7, <2>8, <2>9, <2>10, <1>z DEF InRun, Durable
\* What every step of an activation starts from.
<1>b. ASSUME run.step \in Busy
      PROVE  /\ run.rec \in Record /\ run.rec.cand # run.rec.prev /\ run.rec.prev \in healthy
             /\ current \in {run.rec.cand, run.rec.prev}
             /\ current \in Shas /\ confirmed \in Shas \cup {NoSha} /\ healthy \subseteq Shas
             /\ legacy \in Service /\ Below(legacy, owed)
             /\ pending = NoPending => current \in healthy /\ ~Forward
             /\ run.rec.known => run.rec.legacy = owed
             /\ pending # NoPending => /\ pending \in Record /\ Knows(pending)
                                       /\ pending.cand = run.rec.cand
                                       /\ pending.prev = run.rec.prev
                                       /\ run.rec.known => pending.known
  BY <1>b DEF InRun, Same, Activation, Knows, Durable, Unrecorded, Recorded, TypeOK, Forward
<1>9. CASE Retire
  <2>1. /\ run.step = "retire" /\ Forward /\ run.rec.known /\ run.step \in Busy
        /\ current = IF run.mode = "finish" THEN run.rec.cand ELSE run.rec.prev
        /\ UNCHANGED <<releases, verified, current, pending, healthy, confirmed, owed, prior, crashes>>
    BY <1>9 DEF Retire, InRun, Progress, Busy
  <2>2. CASE legacy' = Off /\ run' = GoTo(IF run.mode = "activate" THEN "link" ELSE "restart")
    <3>1. PICK s \in Busy : s = IF run.mode = "activate" THEN "link" ELSE "restart"
      BY DEF Busy
    <3>2. run'.step = s /\ run'.mode = run.mode /\ run'.rec = run.rec
      BY <2>2, <3>1, GoToFacts DEF Busy, RunSteps
    <3>3. Progress'
      BY <2>1, <2>2, <3>1, <3>2 DEF Progress, Forward
    <3>4. Below(legacy', owed) /\ legacy' \in Service
      BY <2>2 DEF Below, Off
    <3>5. QED
      BY <2>1, <2>2, <3>1, <3>3, <3>4, <1>b, <1>m
  <2>3. CASE legacy' \in PartlyOff /\ run' = Raised(current)
    <3>1. legacy' \in Service /\ Below(legacy', owed)
      BY <2>1, <2>3, <1>b DEF PartlyOff, Below
    <3>2. Knows(pending)'
      BY <2>1, <1>b DEF Knows
    <3>3. QED
      BY <2>1, <2>3, <3>1, <3>2, <1>b, <1>r
  <2>4. QED
    BY <1>9, <2>2, <2>3 DEF Retire
<1>10. CASE Link
  <2>1. /\ run.step = "link" /\ run.mode \in {"activate", "rollback"} /\ run.step \in Busy
        /\ run.mode = "activate" => run.rec.known /\ legacy = Off
        /\ UNCHANGED <<releases, verified, pending, legacy, healthy, confirmed, owed, prior, crashes>>
    BY <1>10 DEF Link, InRun, Progress, Busy
  <2>2. Target = IF Forward THEN run.rec.cand ELSE run.rec.prev
    BY <2>1 DEF Target, Forward
  <2>3. CASE current' = Target /\ run' = GoTo("restart")
    <3>1. run'.step = "restart" /\ run'.mode = run.mode /\ run'.rec = run.rec
      BY <2>3, GoToFacts DEF RunSteps
    <3>2. Progress'
      BY <2>1, <2>2, <2>3, <3>1 DEF Progress, Forward
    <3>3. pending = NoPending => current' \in healthy'
      BY <2>1, <2>2, <2>3, <1>b
    <3>4. "restart" \in Busy
      BY DEF Busy
    <3>5. QED
      BY <2>1, <2>2, <2>3, <3>2, <3>3, <3>4, <1>b, <1>m
  <2>4. CASE current' \in {current, Target} /\ run' = Raised(current')
    <3>1. current' \in {run.rec.cand, run.rec.prev} /\ Knows(pending)' = Knows(pending)
      BY <2>1, <2>2, <2>4, <1>b DEF Knows
    <3>2. CASE Forward
      BY <2>1, <2>4, <3>1, <3>2, <1>b, <1>r DEF Forward
    <3>3. CASE ~Forward
      <4>1. run' = Idle
        BY <2>4, <3>3, RaisedFacts
      <4>2. pending = NoPending => current' \in healthy'
        BY <2>1, <2>2, <2>4, <3>3, <1>b
      <4>3. InRun' /\ TypeOK'
        BY <2>1, <3>1, <4>1, <1>b, <1>t, NothingInRun DEF TypeOK
      <4>4. Durable'
        <5>1. Installed'
          BY <2>1, <2>4, <3>1 DEF Durable, Installed, InRun, Same, Activation, Present
        <5>2. Recorded'
          BY <2>1, <3>1, <1>b DEF Durable, Recorded, Activation, Knows, Present
        <5>3. QED
          BY <2>1, <4>2, <5>1, <5>2 DEF Durable, Unrecorded, Below
      <4>5. QED
        BY <4>3, <4>4, <1>z
    <3>4. QED
      BY <3>2, <3>3
  <2>5. QED
    BY <1>10, <2>3, <2>4 DEF Link
<1>11. CASE RestartHealthy
  <2>1. /\ run.step = "restart" /\ run.step \in Busy /\ confirmed' = current
        /\ healthy' = healthy \cup {current}
        /\ UNCHANGED <<releases, verified, current, pending, legacy, owed, prior, crashes>>
        /\ IF Forward THEN current = run.rec.cand /\ run.rec.known /\ legacy = Off
           ELSE current = run.rec.prev
    BY <1>11 DEF RestartHealthy, InRun, Progress, Busy
  <2>2. PICK s \in Busy : s = (IF Forward THEN "clear" ELSE "restore") /\ run' = GoTo(s)
    BY <1>11 DEF RestartHealthy, Busy, Forward
  <2>3. run'.step = s /\ run'.mode = run.mode /\ run'.rec = run.rec
    BY <2>2, GoToFacts DEF Busy, RunSteps
  <2>4. Progress'
    BY <2>1, <2>2, <2>3 DEF Progress, Forward
  <2>5. QED
    BY <2>1, <2>2, <2>4, <1>b, <1>m
<1>12. CASE RestartFails
  <2>1. /\ run.step = "restart" /\ run.step \in Busy /\ confirmed' = NoSha
        /\ UNCHANGED <<releases, verified, current, pending, legacy, healthy, owed, prior, crashes>>
        /\ Forward => current = run.rec.cand
        /\ run' = Raised(current)
    BY <1>12 DEF RestartFails, InRun, Progress, Busy
  <2>2. CASE Forward
    <3>1. Knows(pending)' = Knows(pending)
      BY <2>1 DEF Knows
    <3>2. QED
      BY <2>1, <2>2, <3>1, <1>b, <1>r DEF Forward
  <2>3. CASE ~Forward
    <3>1. crashes' \in 0 .. MaxCrashes /\ run' = Idle
      BY <2>1, <2>3, RaisedFacts DEF TypeOK
    <3>2. QED
      BY <2>1, <3>1, <1>i
  <2>4. QED
    BY <2>2, <2>3
<1>13. CASE Restore
  <2>1. /\ run.step = "restore" /\ run.step \in Busy /\ ~Forward /\ current = run.rec.prev
        /\ confirmed = current
        /\ UNCHANGED <<releases, verified, current, pending, healthy, confirmed, owed, prior, crashes>>
    BY <1>13 DEF Restore, InRun, Progress, Busy
  <2>2. "clear" \in Busy /\ "clear" \in RunSteps
    BY DEF Busy, RunSteps
  <2>3. run.rec.known => Restored \in Service /\ Restored = owed
    <3>1. ASSUME run.rec.known PROVE Restored \in Service /\ Restored = owed
      <4>1. run.rec.legacy = owed /\ Below(legacy, owed)
        BY <2>1, <3>1, <1>b
      <4>2. /\ (legacy.enabled \/ run.rec.legacy.enabled) = owed.enabled
            /\ (legacy.active \/ run.rec.legacy.active) = owed.active
        BY <4>1 DEF Below
      <4>3. Restored \in Service
        BY <4>2 DEF Restored, Service
      <4>4. Restored.enabled = owed.enabled /\ Restored.active = owed.active
        BY <4>2 DEF Restored
      <4>5. QED
        BY <4>3, <4>4
    <3>2. QED
      BY <3>1
  <2>4. CASE /\ run' = GoTo("clear")
             /\ \/ run.rec.known /\ legacy' = Restored
                \/ ~(run.rec.known /\ run.rec.prev \in LegacyReleases) /\ UNCHANGED legacy
    <3>1. run'.step = "clear" /\ run'.mode = run.mode /\ run'.rec = run.rec
      BY <2>2, <2>4, GoToFacts
    <3>2. Progress'
      BY <2>1, <2>3, <2>4, <3>1, <1>b DEF Progress, Forward
    <3>3. legacy' \in Service /\ Below(legacy', owed)
      BY <2>1, <2>3, <2>4, <1>b DEF Below
    <3>4. QED
      BY <2>1, <2>2, <2>4, <3>2, <3>3, <1>b, <1>m
  <2>5. CASE /\ run' = Idle /\ run.rec.known
             /\ legacy' \in {legacy, [legacy EXCEPT !.enabled = Restored.enabled], Restored}
    <3>1. legacy' \in Service /\ Below(legacy', owed)
      <4>1. [legacy EXCEPT !.enabled = Restored.enabled]
               = [enabled |-> owed.enabled, active |-> legacy.active]
        BY <2>3, <2>5 DEF Service
      <4>2. [enabled |-> owed.enabled, active |-> legacy.active] \in Service
        BY DEF Service
      <4>3. legacy \in Service /\ Below(legacy, owed) /\ Restored \in Service /\ Restored = owed
        BY <2>1, <2>3, <2>5, <1>b
      <4>4. CASE legacy' = legacy
        BY <4>3, <4>4
      <4>5. CASE legacy' = [legacy EXCEPT !.enabled = Restored.enabled]
        <5>1. /\ legacy' \in Service
              /\ legacy'.enabled = owed.enabled /\ legacy'.active = legacy.active
          BY <4>1, <4>2, <4>5
        <5>2. QED
          BY <4>3, <5>1 DEF Below
      <4>6. CASE legacy' = Restored
        BY <4>3, <4>6 DEF Below
      <4>7. QED
        BY <2>5, <4>4, <4>5, <4>6
    <3>2. Recorded'
      <4>1. pending # NoPending => pending.known
        BY <2>1, <2>5, <1>b
      <4>2. QED
        BY <2>1, <4>1 DEF Durable, Recorded, Activation, Knows, Present
    <3>3. Durable'
      BY <2>1, <3>1, <3>2 DEF Durable, Installed, Unrecorded, Below, Present
    <3>4. TypeOK'
      BY <2>1, <2>5, <3>1, <1>t DEF TypeOK
    <3>5. QED
      BY <2>5, <3>3, <3>4, NothingInRun, <1>z
  <2>6. QED
    BY <1>13, <2>4, <2>5 DEF Restore
<1>14. CASE Clear
  <2>1. /\ run.step = "clear" /\ run.step \in Busy /\ pending' = NoPending /\ current \in healthy
        /\ prior' \in {run.rec.prev, prior}
        /\ UNCHANGED <<releases, verified, current, legacy, healthy, confirmed, owed, crashes>>
    BY <1>14 DEF Clear, InRun, Progress, Busy
  <2>2. Durable'
    BY <2>1 DEF Durable, Installed, Recorded, Unrecorded, Below, Present
  <2>3. IsInjective(releases)
    BY DEF Durable, Installed
  <2>4. \/ run' = Idle
        \/ run' = [Idle EXCEPT !.step = "poll"]
        \/ run' = [Idle EXCEPT !.step = "prune", !.todo = ToPrune]
    BY <1>14 DEF Clear
  <2>5. InRun'
    <3>1. CASE run' = Idle
      BY <3>1, NothingInRun
    <3>2. CASE run' = [Idle EXCEPT !.step = "poll"]
      <4>1. run' \in Runs /\ run'.step = "poll"
        BY <3>2 DEF Runs, RunSteps
      <4>2. QED
        BY <2>1, <4>1 DEF InRun, Outside, Same, Progress, Busy
    <3>3. CASE run' = [Idle EXCEPT !.step = "prune", !.todo = ToPrune]
      <4>1. run' \in Runs /\ run'.step = "prune" /\ run'.todo = ToPrune
        BY <2>3, <3>3, PruneSpares DEF Runs, RunSteps
      <4>2. QED
        BY <2>1, <2>3, <4>1, PruneSpares DEF InRun, Outside, Same, Progress, Busy
    <3>4. QED
      BY <2>4, <3>1, <3>2, <3>3
  <2>6. TypeOK'
    BY <2>1, <2>5, <1>b, TypeFromRun DEF TypeOK, InRun, Runs, RunSteps, Modes
  <2>7. QED
    BY <2>2, <2>5, <2>6, <1>z
<1>15. CASE ClearFails
  <2>1. /\ run.step = "clear" /\ run.step \in Busy /\ pending' \in {pending, NoPending}
        /\ current \in healthy /\ UNCHANGED unmoved
    BY <1>15 DEF ClearFails, InRun, Progress, Busy
  <2>2. CASE run.mode = "activate"
    <3>1. run' = Raised(current')
      BY <1>15, <2>1, <2>2 DEF ClearFails, unmoved
    <3>2. pending' = pending => (Knows(pending)' = Knows(pending))
      BY <2>1 DEF Knows, unmoved
    <3>3. QED
      BY <2>1, <2>2, <3>1, <3>2, <1>b, <1>r DEF Forward, unmoved
  <2>3. CASE run.mode # "activate"
    <3>1. run' = Idle
      BY <1>15, <2>3, RaisedFacts DEF ClearFails, Forward
    <3>2. Durable'
      BY <2>1 DEF Durable, Installed, Recorded, Unrecorded, Activation, Knows, Below, Present, unmoved
    <3>3. TypeOK'
      BY <2>1, <3>1, <1>t DEF TypeOK, unmoved
    <3>4. QED
      BY <3>1, <3>2, <3>3, NothingInRun, <1>z
  <2>4. QED
    BY <2>2, <2>3
<1>16. CASE Prune
  <2>1. /\ run.step = "prune" /\ pending = NoPending /\ current \notin ToSet(run.todo)
        /\ UNCHANGED <<current, pending, legacy, confirmed, owed, prior, crashes>>
    BY <1>16 DEF Prune, InRun, Outside
  <2>2. CASE run' = Idle /\ UNCHANGED <<releases, verified, healthy>>
    BY <2>1, <2>2, <1>i DEF TypeOK
  <2>3. CASE /\ run.todo # <<>>
             /\ verified' = verified \ {Head(run.todo)} /\ healthy' = healthy \ {Head(run.todo)}
             /\ LET others == RemoveFirst(releases, Head(run.todo)) IN
                \/ releases' = others /\ run' = [run EXCEPT !.todo = Tail(@)]
                \/ releases' = Append(others, Head(run.todo)) /\ run' = Idle
    <3>1. PICK todo \in Seq(Shas) : todo = run.todo /\ todo # <<>>
      BY <2>3, TypeFromRun
    <3>2. PICK sha \in Shas : sha = Head(todo) /\ sha # current
      <4>1. Head(todo) = todo[1] /\ 1 \in 1 .. Len(todo) /\ Head(todo) \in Shas
        BY <3>1
      <4>2. Head(todo) \in ToSet(todo)
        BY <4>1, InToSet
      <4>3. QED
        BY <2>1, <3>1, <4>1, <4>2
    <3>3. Tail(todo) \in Seq(Shas) /\ current \notin ToSet(Tail(todo))
      BY <2>1, <3>1, TailElements
    <3>4. PICK others \in Seq(Shas) :
             /\ others = RemoveFirst(releases, sha)
             /\ ToSet(releases) \ {sha} \subseteq ToSet(others)
             /\ sha \notin ToSet(others) /\ IsInjective(others)
      BY RemoveFirstElements DEF TypeOK, Durable, Installed
    <3>5. /\ releases' \in Seq(Shas) /\ IsInjective(releases')
          /\ ToSet(others) \subseteq ToSet(releases')
      <4>1. CASE releases' = others
        BY <3>4, <4>1
      <4>2. CASE releases' = Append(others, sha)
        BY <3>2, <3>4, <4>2, AppendElements, StillDistinct
      <4>3. QED
        BY <2>3, <3>1, <3>2, <3>4, <4>1, <4>2
    <3>6. /\ verified' = verified \ {sha} /\ healthy' = healthy \ {sha}
      BY <2>3, <3>1, <3>2
    <3>7. Durable'
      BY <2>1, <3>2, <3>4, <3>5, <3>6
         DEF Durable, Installed, Recorded, Unrecorded, Below, Present
    <3>8. InRun'
      <4>1. CASE run' = Idle
        BY <4>1, NothingInRun
      <4>2. CASE run' = [run EXCEPT !.todo = Tail(@)]
        <5>1. run' \in Runs /\ run'.step = "prune" /\ run'.todo = Tail(todo)
          BY <2>1, <3>1, <3>3, <4>2 DEF Runs
        <5>2. QED
          BY <2>1, <3>3, <5>1 DEF InRun, Outside, Same, Progress, Busy
      <4>3. QED
        BY <2>3, <4>1, <4>2
    <3>9. TypeOK'
      BY <2>1, <3>5, <3>6, <3>8, TypeFromRun DEF TypeOK, InRun, Runs, RunSteps, Modes
    <3>10. QED
      BY <3>7, <3>8, <3>9, <1>z
  <2>4. QED
    BY <1>16, <2>2, <2>3 DEF Prune
<1>17. CASE Crash
  <2>1. crashes' \in 0 .. MaxCrashes
    BY <1>17 DEF Crash, TypeOK
  <2>2. QED
    BY <1>17, <2>1, <1>i DEF Crash
<1>18. CASE UNCHANGED vars
  <2>1. UNCHANGED <<releases, verified, current, pending, legacy, run, healthy, confirmed, owed,
                    prior, crashes>>
    BY <1>18 DEF vars
  <2>2. TypeOK'
    BY <2>1 DEF TypeOK
  <2>3. Durable'
    BY <2>1, DurableKept
  <2>4. InRun'
    BY <2>1 DEF InRun, Outside, Same, Progress, Activation, Knows, Forward, Present
  <2>5. QED
    BY <2>2, <2>3, <2>4, <1>z
<1>19. QED
  BY <1>1, <1>2, <1>3, <1>4, <1>5, <1>6, <1>7, <1>8, <1>9, <1>10, <1>11, <1>12, <1>13, <1>14,
     <1>15, <1>16, <1>17, <1>18 DEF Next, Step

\* An installed system, with or without the record of an older updater.
LEMMA UpdaterInvInit == Init => UpdaterInv
<1> SUFFICES ASSUME Init PROVE UpdaterInv
  OBVIOUS
<1> USE Records
<1>1. /\ releases = InitialReleases /\ ToSet(InitialReleases) \subseteq Shas
      /\ verified = ToSet(InitialReleases) /\ run = Idle /\ legacy \in Service /\ owed = legacy
      /\ current \in ToSet(InitialReleases) /\ prior = current /\ confirmed = NoSha /\ crashes = 0
  BY InToSet DEF Init
<1>2. InRun
  BY <1>1 DEF InRun, Outside, Same, Progress, Busy
<1>3. /\ pending \in Record \cup {NoPending} /\ healthy \subseteq Shas
      /\ Recorded /\ Unrecorded
  <2>1. CASE pending = NoPending /\ healthy = {current}
    BY <1>1, <2>1 DEF Recorded, Unrecorded
  <2>2. ASSUME NEW cand \in ToSet(InitialReleases), NEW prev \in ToSet(InitialReleases),
               cand # prev, current \in {cand, prev},
               pending = Version1(cand, prev), healthy = {prev}
        PROVE  /\ pending \in Record /\ healthy \subseteq Shas /\ Recorded /\ Unrecorded
    <3>1. pending \in Record /\ pending.cand = cand /\ pending.prev = prev /\ ~pending.known
      BY <1>1, <2>2
    <3>2. QED
      BY <1>1, <2>2, <3>1 DEF Recorded, Unrecorded, Activation, Knows, Present
  <2>3. QED
    BY <2>1, <2>2 DEF Init
<1>4. TypeOK
  <2>1. run \in Runs
    BY <1>1
  <2>2. QED
    BY <1>1, <1>3, <2>1, TypeFromRun DEF TypeOK, RunSteps, Modes
<1>5. Installed /\ Below(legacy, owed)
  BY <1>1 DEF Installed, Present, Below
<1>6. QED
  BY <1>2, <1>3, <1>4, <1>5 DEF UpdaterInv, InRun

\* The inductive invariant holds in every reachable state.
LEMMA UpdaterInvHolds == Spec => []UpdaterInv
  BY UpdaterInvInit, UpdaterInvStep, PTL DEF Spec

\* There is always a complete release to run: current never names a directory that did
\* not pass verify_release, and while a record exists both releases it names are complete
\* and current is one of them, whatever failed, died, was built again or pruned halfway.
THEOREM AlwaysAReleaseToRun == Spec => []ReleasesSound
<1>1. UpdaterInv => ReleasesSound
  BY DEF UpdaterInv, ReleasesSound, CurrentVerified, RollbackPossible, Installed, Recorded, Activation
<1>2. QED
  BY <1>1, UpdaterInvHolds, PTL

\* Between runs a current release without a record has passed a health check.
THEOREM UnrecordedIsHealthy == Spec => []SettledWithoutRecord
<1>1. UpdaterInv => SettledWithoutRecord
  BY DEF UpdaterInv, SettledWithoutRecord, Unrecorded
<1>2. QED
  BY <1>1, UpdaterInvHolds, PTL

\* The record goes only after a health check of the current release, and with the legacy
\* command service as that release wants it: off for the candidate, as it was before the
\* activation for a previous release that ships it.
THEOREM RecordGoesLast == Spec => RecordRemovedWhenSettled
<1> DEFINE Removal == pending # NoPending /\ pending' = NoPending =>
                /\ confirmed = current
                /\ current = pending.cand => legacy = Off
                /\ current = pending.prev /\ pending.known /\ current \in LegacyReleases => legacy = owed
<1>1. UpdaterInv /\ [Next]_vars => [Removal]_vars
  <2> SUFFICES ASSUME UpdaterInv, Next, pending # NoPending, pending' = NoPending
               PROVE  /\ confirmed = current
                      /\ current = pending.cand => legacy = Off
                      /\ current = pending.prev /\ pending.known /\ current \in LegacyReleases
                            => legacy = owed
    OBVIOUS
  <2> USE Records
  <2>1. Clear \/ ClearFails
    <3>1. CASE UpgradeRecord
      <4>1. run.rec \in Record /\ legacy \in Service
        BY <3>1 DEF UpgradeRecord, UpdaterInv, Same, Busy, TypeOK
      <4>2. Version2(run.rec.cand, run.rec.prev, legacy) \in Record
        BY <4>1 DEF Record
      <4>3. QED
        BY <3>1, <4>2 DEF UpgradeRecord
    <3>2. CASE WriteRecord
      BY <3>2 DEF WriteRecord, UpdaterInv, Outside
    <3>3. QED
      BY <3>1, <3>2 DEF Next, Step, StartWithoutRecord, StartAtPrevious, StartAtCandidate, Poll,
         Install, Reuse, Build, Retire, Link, RestartHealthy, RestartFails, Restore, Prune, Crash
  <2>2. run.step = "clear"
    BY <2>1 DEF Clear, ClearFails
  <2>3. /\ confirmed = current /\ run.rec.cand # run.rec.prev
        /\ pending.cand = run.rec.cand /\ pending.prev = run.rec.prev
        /\ ~run.rec.known => legacy = owed
        /\ IF Forward THEN current = run.rec.cand /\ legacy = Off
           ELSE /\ current = run.rec.prev
                /\ run.rec.known /\ current \in LegacyReleases => legacy = owed
    BY <2>2 DEF UpdaterInv, Same, Progress, Activation, Knows, Busy
  <2>4. QED
    BY <2>3
<1>2. QED
  BY <1>1, UpdaterInvHolds, PTL DEF Spec, RecordRemovedWhenSettled

HIDE UpdaterAssumption
-----------------------------------------------------------------------------

USE TurnRefreshAssumption
-----------------------------------------------------------------------------
(* The TURN refresh: types *)

RunNumbers == 0 .. MaxRuns
GatewayRecord == [state : {"up", "starting", "off"}, loaded : RunNumbers]
RefreshRecord == [step : Steps, previous : RunNumbers, staged : RunNumbers, active : BOOLEAN,
             probes : 0 .. Probes - 1]
GoodRecord == [last : RunNumbers, before : RunNumbers, active : BOOLEAN]

\* The ways a run goes on or ends keep its record and the history typed.
LEMMA RunMoves ==
    ASSUME TurnRefreshTypeOK
    PROVE  /\ 0 \in RunNumbers /\ 0 \in 0 .. Probes - 1 /\ NoRefresh \in RefreshRecord
           /\ \A step \in Steps : Go(step) => refresh' \in RefreshRecord
           /\ \A how \in {"ok", "error", "restored", "broken", "killed"} :
                 End(how) => /\ refresh' \in RefreshRecord /\ good' \in GoodRecord
                             /\ outcome' \in {"ok", "error", "restored", "broken", "killed"}
<1>1. 0 \in RunNumbers /\ 0 \in 0 .. Probes - 1
  BY DEF RunNumbers
<1>2. NoRefresh \in RefreshRecord
  BY <1>1 DEF NoRefresh, RefreshRecord, Steps
<1>3. ASSUME NEW step \in Steps, Go(step) PROVE refresh' \in RefreshRecord
  BY <1>1, <1>3 DEF Go, RefreshRecord, TurnRefreshTypeOK, RunNumbers
<1>4. ASSUME NEW how \in {"ok", "error", "restored", "broken", "killed"}, End(how)
      PROVE  /\ refresh' \in RefreshRecord /\ good' \in GoodRecord
             /\ outcome' \in {"ok", "error", "restored", "broken", "killed"}
  <2>1. [last |-> runs, before |-> good.last, active |-> refresh.active] \in GoodRecord
    BY DEF TurnRefreshTypeOK, GoodRecord, RunNumbers
  <2>2. good' \in GoodRecord
    BY <1>4, <2>1 DEF End, TurnRefreshTypeOK, GoodRecord, RunNumbers
  <2>3. QED
    BY <1>2, <1>4, <2>2 DEF End
<1>5. QED
  BY <1>1, <1>2, <1>3, <1>4

\* A gateway that starts, stops or is found in between keeps its type.
LEMMA GatewayMoves ==
    ASSUME TurnRefreshTypeOK
    PROVE  /\ [state |-> "up", loaded |-> file] \in GatewayRecord
           /\ \A s \in {"up", "starting", "off"} : [gateway EXCEPT !.state = s] \in GatewayRecord
           /\ AfterFailure \subseteq GatewayRecord
<1>1. [state |-> "up", loaded |-> file] \in GatewayRecord
  BY DEF TurnRefreshTypeOK, GatewayRecord, RunNumbers
<1>2. \A s \in {"up", "starting", "off"} : [gateway EXCEPT !.state = s] \in GatewayRecord
  BY DEF TurnRefreshTypeOK, GatewayRecord, RunNumbers
<1>3. QED
  BY <1>1, <1>2 DEF AfterFailure, TurnRefreshTypeOK, GatewayRecord, RunNumbers

\* The same types, with the record sets named.
LEMMA TurnRefreshTypeNamed ==
    TurnRefreshTypeOK <=>
        /\ file \in RunNumbers /\ gateway \in GatewayRecord /\ refresh \in RefreshRecord
        /\ runs \in RunNumbers /\ good \in GoodRecord
        /\ outcome \in {"none", "ok", "error", "restored", "broken", "killed"}
  BY DEF TurnRefreshTypeOK, RunNumbers, GatewayRecord, RefreshRecord, GoodRecord

\* The file, the service and the locals of a run keep their types in every step.
LEMMA TurnRefreshTypeStep == TurnRefreshTypeOK /\ [TurnRefreshNext]_turnRefreshVars => TurnRefreshTypeOK'
<1> SUFFICES ASSUME TurnRefreshTypeOK, [TurnRefreshNext]_turnRefreshVars PROVE TurnRefreshTypeOK'
  OBVIOUS
<1>a. /\ file \in RunNumbers /\ gateway \in GatewayRecord /\ refresh \in RefreshRecord
      /\ runs \in RunNumbers /\ good \in GoodRecord
      /\ outcome \in {"none", "ok", "error", "restored", "broken", "killed"}
  BY TurnRefreshTypeNamed
<1>b. refresh.staged \in RunNumbers /\ refresh.previous \in RunNumbers
  BY <1>a DEF RefreshRecord
<1>c. SUFFICES /\ file' \in RunNumbers /\ gateway' \in GatewayRecord /\ refresh' \in RefreshRecord
               /\ runs' \in RunNumbers /\ good' \in GoodRecord
               /\ outcome' \in {"none", "ok", "error", "restored", "broken", "killed"}
  BY DEF TurnRefreshTypeOK, RunNumbers, GatewayRecord, RefreshRecord, GoodRecord
<1>1. CASE Begin
  <2>1. refresh' \in RefreshRecord
    BY <1>1, <1>a, RunMoves DEF Begin, NoRefresh, RefreshRecord, Steps
  <2>2. QED
    BY <1>1, <1>a, <2>1 DEF Begin, RunNumbers
<1>2. CASE Fetch \/ Probe
  BY <1>2, <1>a DEF Fetch, Probe, RefreshRecord, Steps
<1>3. CASE Fail \/ Killed
  BY <1>3, <1>a, RunMoves DEF Fail, Killed
<1>4. CASE Write \/ WriteFails
  BY <1>4, <1>a, <1>b, RunMoves DEF Write, WriteFails, Steps
<1>5. CASE Restart \/ GatewayRestartFails
  BY <1>5, <1>a, RunMoves, GatewayMoves DEF Restart, GatewayRestartFails, Steps
<1>6. CASE Healthy
  <2>1. CASE /\ refresh' = [refresh EXCEPT !.probes = @ + 1] /\ refresh.probes < Probes - 1
             /\ UNCHANGED <<good, outcome>>
    BY <1>6, <1>a, <2>1 DEF Healthy, RefreshRecord
  <2>2. CASE End("ok") \/ End("restored")
    BY <1>6, <1>a, <2>2, RunMoves DEF Healthy
  <2>3. QED
    BY <1>6, <2>1, <2>2 DEF Healthy
<1>7. CASE Unhealthy \/ Rollback
  BY <1>7, <1>a, <1>b, RunMoves DEF Unhealthy, Rollback, Steps
<1>8. CASE GatewayDies \/ GatewayStarts \/ Operator
  BY <1>8, <1>a, GatewayMoves DEF GatewayDies, GatewayStarts, Operator
<1>9. CASE UNCHANGED turnRefreshVars
  BY <1>9, <1>a DEF turnRefreshVars
<1>10. QED
  BY <1>1, <1>2, <1>3, <1>4, <1>5, <1>6, <1>7, <1>8, <1>9 DEF TurnRefreshNext

\* The host starts typed, with no run under way.
LEMMA TurnRefreshTypeInit == TurnRefreshInit => TurnRefreshTypeOK
  BY DEF TurnRefreshInit, TurnRefreshTypeOK, NoRefresh, Steps
-----------------------------------------------------------------------------
(* The TURN refresh: what the file and the gateway hold while a run is under way *)

\* The file never falls behind the last run that exited with 0: what a run puts there is newer,
\* and what it puts back is what it found.
FileKeepsUp ==
    /\ good.before <= good.last /\ good.last <= file /\ file <= runs
    /\ ~At("idle") => good.last <= refresh.previous /\ refresh.previous <= runs
    /\ refresh.step \notin {"idle", "fetch"} => refresh.staged = runs

\* The file is the one the gateway is being restarted with.
FileInPlace ==
    /\ refresh.step \in {"restart", "health"} => file = refresh.staged
    /\ refresh.step \in {"restartOld", "healthOld"} => file = refresh.previous

\* A gateway that is up although the run found it down was started after the probe.
StartedSince ==
    At("write") /\ ~refresh.active /\ gateway.state = "up" => gateway.loaded >= good.last

RefreshInv ==
    TurnRefreshTypeOK /\ FileKeepsUp /\ FileInPlace /\ StartedSince /\ EndTruthful /\ CredentialAge

\* Neither a run, however it ends, nor the gateway's own deaths and starts break it.
LEMMA RefreshInvStep == RefreshInv /\ [TurnRefreshNext]_turnRefreshVars => RefreshInv'
<1> SUFFICES ASSUME RefreshInv, [TurnRefreshNext]_turnRefreshVars PROVE RefreshInv'
  OBVIOUS
<1>a. /\ file \in Nat /\ runs \in Nat
      /\ gateway \in [state : {"up", "starting", "off"}, loaded : Nat]
      /\ refresh \in [step : Steps, previous : Nat, staged : Nat, active : BOOLEAN, probes : Nat]
      /\ good \in [last : Nat, before : Nat, active : BOOLEAN]
  BY DEF RefreshInv, TurnRefreshTypeOK
<1>b. TurnRefreshTypeOK'
  BY TurnRefreshTypeStep DEF RefreshInv
<1>c. SUFFICES (FileKeepsUp /\ FileInPlace /\ StartedSince /\ EndTruthful /\ CredentialAge)'
  BY <1>b DEF RefreshInv
<1>d. /\ FileKeepsUp /\ FileInPlace /\ StartedSince /\ EndTruthful /\ CredentialAge
  BY DEF RefreshInv
<1>e. /\ \A step \in Steps : Go(step) => /\ refresh'.step = step /\ refresh'.previous = refresh.previous
                                        /\ refresh'.staged = refresh.staged
      /\ \A how : End(how) => refresh'.step = "idle"
  <2>1. ASSUME NEW step \in Steps, Go(step)
        PROVE  refresh'.step = step /\ refresh'.previous = refresh.previous /\ refresh'.staged = refresh.staged
    BY <1>a, <2>1 DEF Go
  <2>2. ASSUME NEW how, End(how) PROVE refresh'.step = "idle"
    BY <2>2 DEF End, NoRefresh
  <2>3. QED
    BY <2>1, <2>2
<1>f. Steps = {"idle", "fetch", "probe", "write", "restart", "health", "rollback", "restartOld",
               "healthOld"}
  BY DEF Steps
<1> USE DEF FileKeepsUp, FileInPlace, StartedSince, EndTruthful, CredentialAge, At
<1>1. CASE Begin
  BY <1>1, <1>a, <1>d DEF Begin, NoRefresh
<1>2. CASE Fetch \/ Probe
  <2>1. UNCHANGED <<file, gateway, runs, good>>
    BY <1>2 DEF Fetch, Probe
  <2>2. CASE Fetch
    <3>1. /\ refresh.step = "fetch" /\ refresh'.step = "probe" /\ refresh'.staged = runs
          /\ refresh'.previous = refresh.previous
      BY <1>a, <2>2 DEF Fetch
    <3>2. QED
      BY <1>d, <2>1, <3>1
  <2>3. CASE Probe
    <3>1. /\ refresh.step = "probe" /\ refresh'.step = "write" /\ refresh'.staged = refresh.staged
          /\ refresh'.previous = refresh.previous /\ refresh'.active = (gateway.state = "up")
      BY <1>a, <2>3 DEF Probe
    <3>2. QED
      BY <1>d, <2>1, <3>1
  <2>4. QED
    BY <1>2, <2>2, <2>3
<1>3. CASE Fail \/ Killed
  BY <1>3, <1>a, <1>d, <1>e, <1>f DEF Fail, Killed, End
<1>4. CASE Write
  <2>1. CASE ~refresh.active /\ End("ok")
    BY <1>4, <1>a, <1>d, <1>e, <1>f, <2>1 DEF Write, End
  <2>2. CASE refresh.active /\ Go("restart") /\ UNCHANGED <<good, outcome>>
    BY <1>4, <1>a, <1>d, <1>e, <1>f, <2>2 DEF Write
  <2>3. QED
    BY <1>4, <2>1, <2>2 DEF Write
<1>5. CASE WriteFails
  BY <1>5, <1>a, <1>d, <1>e, <1>f DEF WriteFails, End
<1>6. CASE Restart
  BY <1>6, <1>a, <1>d, <1>e, <1>f DEF Restart
<1>7. CASE GatewayRestartFails
  BY <1>7, <1>a, <1>d, <1>e, <1>f DEF GatewayRestartFails, AfterFailure, End
<1>8. CASE Healthy
  <2>1. CASE refresh' = [refresh EXCEPT !.probes = @ + 1] /\ UNCHANGED <<good, outcome>>
    BY <1>8, <1>a, <1>d, <2>1 DEF Healthy
  <2>2. CASE At("health") /\ End("ok")
    BY <1>8, <1>a, <1>d, <1>e, <1>f, <2>2 DEF Healthy, End
  <2>3. CASE End("restored")
    BY <1>8, <1>a, <1>d, <1>e, <1>f, <2>3 DEF Healthy, End
  <2>4. QED
    BY <1>8, <2>1, <2>2, <2>3 DEF Healthy
<1>9. CASE Unhealthy
  BY <1>9, <1>a, <1>d, <1>e, <1>f DEF Unhealthy, End
<1>10. CASE Rollback
  BY <1>10, <1>a, <1>d, <1>e, <1>f DEF Rollback
<1>11. CASE GatewayDies \/ GatewayStarts \/ Operator
  BY <1>11, <1>a, <1>d DEF GatewayDies, GatewayStarts, Operator
<1>12. CASE UNCHANGED turnRefreshVars
  BY <1>12, <1>d DEF turnRefreshVars
<1>13. QED
  BY <1>1, <1>2, <1>3, <1>4, <1>5, <1>6, <1>7, <1>8, <1>9, <1>10, <1>11, <1>12 DEF TurnRefreshNext

\* The inductive invariant holds in every reachable state.
LEMMA RefreshInvHolds == TurnRefreshSpec => []RefreshInv
<1>1. TurnRefreshInit => RefreshInv
  BY TurnRefreshTypeInit
     DEF TurnRefreshInit, RefreshInv, FileKeepsUp, FileInPlace, StartedSince, EndTruthful,
         CredentialAge, At, NoRefresh
<1>2. QED
  BY <1>1, RefreshInvStep, PTL DEF TurnRefreshSpec

\* ChecksTruthful: while the new or the restored configuration is checked, a gateway that is up
\* runs exactly that configuration.
THEOREM HealthIsOfThisFile == TurnRefreshSpec => []ChecksTruthful
<1>1. RefreshInv => ChecksTruthful
  BY DEF RefreshInv, ChecksTruthful
<1>2. QED
  BY <1>1, RefreshInvHolds, PTL

\* CredentialAge: a running gateway's credential is of the last run that exited with 0 or newer,
\* or of the last but one when that run found the gateway down.
THEOREM CredentialNotOlder == TurnRefreshSpec => []CredentialAge
<1>1. RefreshInv => CredentialAge
  BY DEF RefreshInv
<1>2. QED
  BY <1>1, RefreshInvHolds, PTL
=============================================================================
