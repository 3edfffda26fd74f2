------------------------------- MODULE Updater -------------------------------
(***************************************************************************)
(* The release updater, deployment/gate_controller_updater.py: a oneshot    *)
(* process started by a timer, serialised by flock.  A run first reconciles *)
(* the pending-activation record an earlier run left behind, then polls     *)
(* GitHub, stages and verifies a candidate, switches the current symlink,   *)
(* restarts the service, confirms its health and prunes old releases.       *)
(*                                                                         *)
(* Every durable effect is a step of its own; it can fail, also after it    *)
(* took effect (an fsync that raises after os.replace or unlink), and the   *)
(* process can die between any two.  A step that raises enters the rollback *)
(* or ends the run, as the code's handlers do.                              *)
(***************************************************************************)
EXTENDS Naturals, Sequences, SequencesExt

CONSTANTS
    Shas,             \* commit SHAs
    NoSha,
    Green,            \* those with a successful CI run
    Bad,              \* releases that never survive the health check
    LegacyReleases,   \* releases that ship the legacy command unit
    InitialReleases,  \* installed releases, oldest first
    Keep,             \* keep_releases
    MaxCrashes        \* bound: runs that die

ASSUME UpdaterAssumption ==
    /\ NoSha \notin Shas
    /\ Green \subseteq Shas /\ Bad \subseteq Shas /\ LegacyReleases \subseteq Shas
    /\ InitialReleases \in Seq(Shas) /\ IsInjective(InitialReleases)
    /\ Keep \in Nat /\ Keep >= 3 /\ MaxCrashes \in Nat

VARIABLES
    \* durable
    releases,    \* release directories, oldest modification time first
    verified,    \* directories whose present contents passed verify_release
    current,     \* the release the current symlink names
    pending,     \* pending-activation.json
    legacy,      \* systemd's state of the legacy command service
    \* the run
    run,
    \* history and the bound
    healthy,     \* directories whose present contents passed a health check
    confirmed,   \* release of the last health check, NoSha unless it passed
    owed,        \* state of the legacy service before the activation
    prior,       \* the release that was active before the current one
    crashes

vars == <<releases, verified, current, pending, legacy, run, healthy, confirmed, owed, prior, crashes>>

Service == [enabled : BOOLEAN, active : BOOLEAN]
Off == [enabled |-> FALSE, active |-> FALSE]

\* PendingActivation; a version 1 record does not know the legacy service.
Record == [cand : Shas, prev : Shas, known : BOOLEAN, legacy : Service]
NoPending == [cand |-> NoSha, prev |-> NoSha, known |-> FALSE, legacy |-> Off]
Version1(cand, prev) == [cand |-> cand, prev |-> prev, known |-> FALSE, legacy |-> Off]
Version2(cand, prev, service) == [cand |-> cand, prev |-> prev, known |-> TRUE, legacy |-> service]

\* step: what the run does next; mode: why (activate_release, the completion of a
\* recorded candidate, a rollback, the confirmation of a recorded rollback);
\* rec: its own PendingActivation; todo: releases still to prune.
Idle == [step |-> "idle", mode |-> "none", rec |-> NoPending, todo |-> <<>>]

TypeOK ==
    /\ releases \in Seq(Shas) /\ verified \subseteq Shas /\ current \in Shas
    /\ pending \in Record \cup {NoPending} /\ legacy \in Service
    /\ run.step \in {"idle", "poll", "stage", "record", "upgrade", "retire", "link", "restart",
                     "restore", "clear", "prune"}
    /\ run.mode \in {"none", "activate", "finish", "rollback", "settle"}
    /\ run.rec \in Record \cup {NoPending} /\ run.todo \in Seq(Shas)
    /\ healthy \subseteq Shas /\ confirmed \in Shas \cup {NoSha} /\ owed \in Service
    /\ prior \in Shas /\ crashes \in 0 .. MaxCrashes

Present == ToSet(releases)

\* An installed system; an older updater may have left a version 1 record.
Init ==
    /\ releases = InitialReleases /\ verified = ToSet(InitialReleases)
    /\ legacy \in Service /\ owed = legacy
    /\ current \in ToSet(InitialReleases)
    /\ \/ pending = NoPending /\ healthy = {current}
       \/ \E cand, prev \in ToSet(InitialReleases) :
             /\ cand # prev /\ current \in {cand, prev} /\ prev \notin Bad
             /\ pending = Version1(cand, prev) /\ healthy = {prev}
    /\ healthy \cap Bad = {}
    /\ prior = current /\ confirmed = NoSha /\ run = Idle /\ crashes = 0
-----------------------------------------------------------------------------
\* The step raised while current was cur: activate_release and the completion of
\* a recorded candidate roll back, a rollback or a confirmation gives up.
Raised(cur) ==
    CASE run.mode = "activate" ->
            [run EXCEPT !.mode = "rollback",
                        !.step = IF cur = run.rec.prev THEN "restart" ELSE "link"]
      [] run.mode = "finish" -> [run EXCEPT !.mode = "rollback", !.step = "link"]
      [] OTHER -> Idle

GoTo(step) == [run EXCEPT !.step = step]
-----------------------------------------------------------------------------
(* reconcile_pending_activation.  A record that names a release that is not   *)
(* there, or a current that is neither of the two, makes every run fail.      *)

unmoved == <<releases, verified, current, legacy, healthy, confirmed, owed, prior, crashes>>

ReadPending ==
    /\ pending # NoPending /\ {pending.cand, pending.prev} \subseteq Present

StartWithoutRecord ==
    /\ run.step = "idle" /\ pending = NoPending
    /\ run' = GoTo("poll")
    /\ UNCHANGED <<unmoved, pending>>

\* Mutant of StartAtPrevious: a record whose candidate is not current is left
\* for the operator.
StartAtPreviousRefused ==
    /\ run.step = "idle" /\ ReadPending /\ current = pending.prev
    /\ UNCHANGED vars

StartAtPrevious ==
    /\ run.step = "idle" /\ ReadPending /\ current = pending.prev
    /\ run' = [Idle EXCEPT !.step = "restart", !.mode = "settle", !.rec = pending]
    /\ UNCHANGED <<unmoved, pending>>

StartAtCandidate ==
    /\ run.step = "idle" /\ ReadPending /\ current = pending.cand
    /\ run' = [Idle EXCEPT !.step = IF pending.known THEN "retire" ELSE "upgrade",
                           !.mode = "finish", !.rec = pending]
    /\ UNCHANGED <<unmoved, pending>>

\* A version 1 record is rewritten with the state of the legacy service.  If the
\* write raises, the rollback works with the record as it was read.
UpgradeRecord ==
    LET rec == Version2(run.rec.cand, run.rec.prev, legacy) IN
    /\ run.step = "upgrade"
    /\ \/ pending' = rec /\ run' = [run EXCEPT !.step = "retire", !.rec = rec]
       \/ pending' \in {pending, rec} /\ run' = Raised(current)
    /\ UNCHANGED unmoved
-----------------------------------------------------------------------------
(* run_once: poll, stage, activate *)

\* Nothing to do, no successful CI run yet, or GitHub cannot be asked.
Poll ==
    /\ run.step = "poll"
    /\ run' = Idle
    /\ UNCHANGED <<unmoved, pending>>

\* decide_update says INSTALL.
Install(sha) ==
    /\ run.step = "poll" /\ sha # current /\ sha \in Green
    /\ run' = [run EXCEPT !.step = "stage", !.rec = Version1(sha, current)]
    /\ UNCHANGED <<unmoved, pending>>

\* Mutant of Staged: the previous release is not recorded.
StagedAlone == [run EXCEPT !.step = "record", !.mode = "activate",
                           !.rec = Version2(run.rec.cand, NoSha, legacy)]

Staged == [run EXCEPT !.step = "record", !.mode = "activate",
                      !.rec = Version2(run.rec.cand, current, legacy)]

\* Mutant of Reuse: a directory with the right name is taken as it is.
ReuseUnverified ==
    /\ run.step = "stage" /\ run.rec.cand \in Present
    /\ run' = Staged
    /\ UNCHANGED <<unmoved, pending>>

\* stage_release finds the directory and verifies it again: what is left of an
\* interrupted removal may or may not pass.
Reuse ==
    /\ run.step = "stage" /\ run.rec.cand \in Present
    /\ \/ run' = Staged /\ verified' = verified \cup {run.rec.cand}
       \/ run' = Idle /\ UNCHANGED verified
    /\ UNCHANGED <<releases, current, pending, legacy, healthy, confirmed, owed, prior, crashes>>

\* Build and verify in a staging directory, then rename; the fsync of the parent
\* may raise after the rename.
Build ==
    /\ run.step = "stage" /\ run.rec.cand \notin Present
    /\ \/ /\ releases' = Append(releases, run.rec.cand)
          /\ verified' = verified \cup {run.rec.cand}
          /\ run' \in {Staged, Idle}
       \/ run' = Idle /\ UNCHANGED <<releases, verified>>
    /\ UNCHANGED <<current, pending, legacy, healthy, confirmed, owed, prior, crashes>>

\* activate_release samples the legacy service and writes the record.
WriteRecord ==
    /\ run.step = "record"
    /\ \/ /\ pending' = run.rec /\ owed' = legacy
          /\ run' \in {GoTo("retire"), Idle}
       \/ run' = Idle /\ UNCHANGED <<pending, owed>>
    /\ UNCHANGED <<releases, verified, current, legacy, healthy, confirmed, prior, crashes>>

\* States systemctl disable --now can leave behind when it fails halfway.
PartlyOff == {s \in Service : (s.enabled => legacy.enabled) /\ (s.active => legacy.active)}

\* _retire_legacy_command_service
Retire ==
    /\ run.step = "retire"
    /\ \/ legacy' = Off /\ run' = GoTo(IF run.mode = "activate" THEN "link" ELSE "restart")
       \/ /\ run.mode = "finish" \/ legacy # Off
          /\ legacy' \in PartlyOff /\ run' = Raised(current)
    /\ UNCHANGED <<releases, verified, current, pending, healthy, confirmed, owed, prior, crashes>>

\* The release the link step names.
Target == IF run.mode = "activate" THEN run.rec.cand ELSE run.rec.prev

\* _atomic_symlink
Link ==
    /\ run.step = "link"
    /\ \/ current' = Target /\ run' = GoTo("restart")
       \/ current' \in {current, Target} /\ run' = Raised(current')
    /\ UNCHANGED <<releases, verified, pending, legacy, healthy, confirmed, owed, prior, crashes>>

\* _restart_and_confirm: active at every look during the health window.
RestartHealthy ==
    /\ run.step = "restart" /\ current \notin Bad
    /\ confirmed' = current /\ healthy' = healthy \cup {current}
    /\ run' = GoTo(IF run.mode \in {"activate", "finish"} THEN "clear" ELSE "restore")
    /\ UNCHANGED <<releases, verified, current, pending, legacy, owed, prior, crashes>>

\* Mutant of RestartFails: a service that does not stay up is not noticed.
RestartFailsUnseen ==
    /\ run.step = "restart" /\ confirmed' = NoSha
    /\ run' = GoTo(IF run.mode \in {"activate", "finish"} THEN "clear" ELSE "restore")
    /\ UNCHANGED <<releases, verified, current, pending, legacy, healthy, owed, prior, crashes>>

RestartFails ==
    /\ run.step = "restart" /\ confirmed' = NoSha
    /\ run' = Raised(current)
    /\ UNCHANGED <<releases, verified, current, pending, legacy, healthy, owed, prior, crashes>>

\* Mutant of Restored: an enabled service is not started again.
RestoredEnabled == [legacy EXCEPT !.enabled = @ \/ run.rec.legacy.enabled]

Restored ==
    [enabled |-> legacy.enabled \/ run.rec.legacy.enabled,
     active |-> legacy.active \/ run.rec.legacy.active]

\* _restore_legacy_command_service; enable may succeed and restart fail.
Restore ==
    /\ run.step = "restore"
    /\ IF run.rec.known /\ run.rec.prev \in LegacyReleases
       THEN \/ legacy' = Restored /\ run' = GoTo("clear")
            \/ /\ legacy' \in {legacy, [legacy EXCEPT !.enabled = Restored.enabled], Restored}
               /\ run' = Idle
       ELSE run' = GoTo("clear") /\ UNCHANGED legacy
    /\ UNCHANGED <<releases, verified, current, pending, healthy, confirmed, owed, prior, crashes>>

\* Mutant of ToPrune: the current release counts like any other.
ToPruneAny == SubSeq(Reverse(releases), Keep + 1, Len(releases))

\* releases_to_prune, newest first: inactive ones beyond the Keep - 1 newest.
ToPrune ==
    LET inactive == Reverse(RemoveFirst(releases, current))
    IN SubSeq(inactive, Keep, Len(inactive))

\* _clear_pending_activation succeeds.
Clear ==
    /\ run.step = "clear" /\ pending # NoPending
    /\ pending' = NoPending
    /\ prior' = IF run.mode \in {"activate", "finish"} THEN run.rec.prev ELSE prior
    /\ run' = CASE run.mode = "activate" -> [Idle EXCEPT !.step = "prune", !.todo = ToPrune]
                [] run.mode = "rollback" -> Idle
                [] OTHER -> [Idle EXCEPT !.step = "poll"]
    /\ UNCHANGED <<releases, verified, current, legacy, healthy, confirmed, owed, crashes>>

\* It raises, before or after the record is gone; only activate_release handles it.
ClearFails ==
    /\ run.step = "clear"
    /\ pending' \in {pending, NoPending}
    /\ run' = IF run.mode = "finish" THEN Idle ELSE Raised(current)
    /\ UNCHANGED unmoved

\* prune_releases: rmtree of the next release.  If it stops halfway the rest of
\* the directory stays behind, with a new modification time.
Prune ==
    /\ run.step = "prune"
    /\ IF run.todo = <<>> THEN run' = Idle /\ UNCHANGED <<releases, verified, healthy>>
       ELSE LET sha == Head(run.todo)
                others == RemoveFirst(releases, sha)
            IN /\ verified' = verified \ {sha} /\ healthy' = healthy \ {sha}
               /\ \/ releases' = others /\ run' = [run EXCEPT !.todo = Tail(@)]
                  \/ releases' = Append(others, sha) /\ run' = Idle
    /\ UNCHANGED <<current, pending, legacy, confirmed, owed, prior, crashes>>

\* The process dies, alone or with the machine.
Crash ==
    /\ run.step # "idle" /\ crashes < MaxCrashes
    /\ crashes' = crashes + 1 /\ run' = Idle /\ confirmed' = NoSha
    /\ UNCHANGED <<releases, verified, current, pending, legacy, healthy, owed, prior>>
-----------------------------------------------------------------------------
Step ==
    \/ StartWithoutRecord \/ StartAtPrevious \/ StartAtCandidate \/ UpgradeRecord
    \/ Poll \/ (\E sha \in Shas : Install(sha)) \/ Reuse \/ Build
    \/ WriteRecord \/ Retire \/ Link \/ RestartHealthy \/ RestartFails \/ Restore
    \/ Clear \/ ClearFails \/ Prune

Next == Step \/ Crash

Spec == Init /\ [][Next]_vars

\* The timer starts run after run; an operation that is tried again and again
\* succeeds at some time.
FairSpec ==
    /\ Spec /\ WF_vars(Step)
    /\ SF_vars(UpgradeRecord /\ run'.step = "retire")
    /\ SF_vars(Retire /\ run'.mode = run.mode)
    /\ SF_vars(Link /\ run'.step = "restart" /\ run'.mode = run.mode)
    /\ SF_vars(RestartHealthy)
    /\ SF_vars(Restore /\ run'.step = "clear")
    /\ SF_vars(Clear)
-----------------------------------------------------------------------------
(* Properties *)

\* The current symlink never names a directory whose contents did not pass
\* verify_release: not after pruning died halfway and the same SHA came back,
\* not after a rollback.
CurrentVerified == current \in verified

\* While a record exists both releases it names are complete and current is one
\* of them, so that reconcile_pending_activation never fails closed and either
\* direction stays open whatever step the last run died in.
RollbackPossible ==
    pending # NoPending => /\ {pending.cand, pending.prev} \subseteq Present \cap verified
                           /\ current \in {pending.cand, pending.prev}

\* There is always a complete release to run and, with a record, one to return to.
ReleasesSound == TypeOK /\ CurrentVerified /\ RollbackPossible

\* "If current is the candidate, it restarts and health-checks the candidate
\* rather than accepting the matching SHA": between runs, a current release
\* without a record has passed a health check.
SettledWithoutRecord ==
    run.step = "idle" /\ pending = NoPending => current \in healthy

\* "The marker is removed ... only after confirmed health": the record goes only
\* when the last health check was one of the current release, and the legacy
\* command service is as that release wants it: off, or as it was before.
RecordRemovedWhenSettled ==
    [][pending # NoPending /\ pending' = NoPending =>
        /\ confirmed = current
        /\ current = pending.cand => legacy = Off
        /\ current = pending.prev /\ pending.known /\ current \in LegacyReleases => legacy = owed]_vars

\* Every interrupted activation is completed or rolled back in the end.
PendingResolved == pending # NoPending ~> pending = NoPending

\* "The active release plus two prior releases are retained by default": the
\* release that was active before the current one is still there to return to.
PriorReleaseRetained == prior \in Present
=============================================================================
