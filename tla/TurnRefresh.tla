----------------------------- MODULE TurnRefresh -----------------------------
(***************************************************************************)
(* The TURN credential refresh: refresh_turn_credentials, run by a systemd  *)
(* timer under a file lock, the generated environment file it replaces, and *)
(* the gateway service that reads the file when it starts.                  *)
(*                                                                         *)
(* A credential is named after the run that fetched it.  The file is only   *)
(* replaced by a rename, so it is empty (the bootstrap file, 0) or one      *)
(* credential.  A systemctl call that fails or times out may still have     *)
(* stopped the gateway or queued its start; systemd itself starts a gateway *)
(* that died; a run may be killed at any step.                              *)
(***************************************************************************)
EXTENDS Naturals

CONSTANTS
    MaxRuns,    \* bound: runs of the timer
    Probes      \* GATEWAY_HEALTH_CHECK_ATTEMPTS

ASSUME TurnRefreshAssumption == MaxRuns \in Nat /\ Probes \in Nat \ {0}

VARIABLES
    file,       \* the generated TURN environment
    gateway,    \* the service: state, the credential it loaded
    refresh,    \* the run under way: step, previous file, staged file, was_active, probes
    runs,       \* history: runs begun
    good,       \* history: the last run that exited with 0, and the one before it
    outcome     \* how the last run ended

turnRefreshVars == <<file, gateway, refresh, runs, good, outcome>>

NoRefresh == [step |-> "idle", previous |-> 0, staged |-> 0, active |-> FALSE, probes |-> 0]
Steps == {"idle", "fetch", "probe", "write", "restart", "health",
          "rollback", "restartOld", "healthOld"}

TurnRefreshTypeOK ==
    /\ file \in 0 .. MaxRuns
    /\ gateway \in [state : {"up", "starting", "off"}, loaded : 0 .. MaxRuns]
    /\ refresh \in [step : Steps, previous : 0 .. MaxRuns, staged : 0 .. MaxRuns,
                active : BOOLEAN, probes : 0 .. Probes - 1]
    /\ runs \in 0 .. MaxRuns
    /\ good \in [last : 0 .. MaxRuns, before : 0 .. MaxRuns, active : BOOLEAN]
    /\ outcome \in {"none", "ok", "error", "restored", "broken", "killed"}

TurnRefreshInit ==
    /\ file = 0 /\ gateway = [state |-> "off", loaded |-> 0]
    /\ refresh = NoRefresh /\ runs = 0 /\ outcome = "none"
    /\ good = [last |-> 0, before |-> 0, active |-> FALSE]
-----------------------------------------------------------------------------
(* The run *)

At(step) == refresh.step = step
Go(step) == refresh' = [refresh EXCEPT !.step = step, !.probes = 0]

\* The run ends; exit status 0 only for "ok".
End(how) ==
    /\ refresh' = NoRefresh /\ outcome' = how
    /\ good' = IF how = "ok"
               THEN [last |-> runs, before |-> good.last, active |-> refresh.active]
               ELSE good

\* The secrets and the present environments are validated; an empty file is the bootstrap.
Begin ==
    /\ At("idle") /\ runs < MaxRuns
    /\ refresh' = [NoRefresh EXCEPT !.step = "fetch", !.previous = file]
    /\ runs' = runs + 1
    /\ UNCHANGED <<file, gateway, good, outcome>>

\* Cloudflare's answer is taken apart, staged and validated together with the other files.
Fetch ==
    /\ At("fetch")
    /\ refresh' = [refresh EXCEPT !.step = "probe", !.staged = runs]
    /\ UNCHANGED <<file, gateway, runs, good, outcome>>

\* Mutant of Probe: the answer is taken for its opposite.
ProbeInverted ==
    /\ At("probe")
    /\ refresh' = [refresh EXCEPT !.step = "write", !.active = gateway.state # "up"]
    /\ UNCHANGED <<file, gateway, runs, good, outcome>>

\* is_active: a service that is being started is not active.
Probe ==
    /\ At("probe")
    /\ refresh' = [refresh EXCEPT !.step = "write", !.active = gateway.state = "up"]
    /\ UNCHANGED <<file, gateway, runs, good, outcome>>

\* Invalid environments, no usable answer, or a state that cannot be determined.
Fail ==
    /\ refresh.step \in {"fetch", "probe"} /\ End("error")
    /\ UNCHANGED <<file, gateway, runs>>

\* The staged file is put in place; an inactive gateway is left alone.
Write ==
    /\ At("write") /\ file' = refresh.staged
    /\ \/ ~refresh.active /\ End("ok")
       \/ refresh.active /\ Go("restart") /\ UNCHANGED <<good, outcome>>
    /\ UNCHANGED <<gateway, runs>>

\* _atomic_write_environment raises, before the rename or after it.
WriteFails ==
    /\ refresh.step \in {"write", "rollback"} /\ End("error")
    /\ file' \in {file, IF At("write") THEN refresh.staged ELSE refresh.previous}
    /\ UNCHANGED <<gateway, runs>>

\* systemctl restart returns 0: the new process has the file of this moment.
Restart ==
    /\ \/ At("restart") /\ Go("health")
       \/ At("restartOld") /\ Go("healthOld")
    /\ gateway' = [state |-> "up", loaded |-> file]
    /\ UNCHANGED <<file, runs, good, outcome>>

\* What a systemctl restart that failed or timed out may leave.
AfterFailure == {gateway, [gateway EXCEPT !.state = "starting"], [gateway EXCEPT !.state = "off"]}

GatewayRestartFails ==
    /\ \/ At("restart") /\ Go("rollback") /\ UNCHANGED <<good, outcome>>
       \/ At("restartOld") /\ End("broken")
    /\ gateway' \in AfterFailure
    /\ UNCHANGED <<file, runs>>

\* Mutant of Healthy: one probe too many.
HealthyBeyond ==
    /\ gateway.state = "up"
    /\ \/ /\ refresh.step \in {"health", "healthOld"} /\ refresh.probes < Probes
          /\ refresh' = [refresh EXCEPT !.probes = @ + 1] /\ UNCHANGED <<good, outcome>>
       \/ At("health") /\ refresh.probes = Probes /\ End("ok")
       \/ At("healthOld") /\ refresh.probes = Probes /\ End("restored")
    /\ UNCHANGED <<file, gateway, runs>>

\* _gateway_is_healthy: one probe of several finds the gateway active.
Healthy ==
    /\ gateway.state = "up"
    /\ \/ /\ refresh.step \in {"health", "healthOld"} /\ refresh.probes < Probes - 1
          /\ refresh' = [refresh EXCEPT !.probes = @ + 1] /\ UNCHANGED <<good, outcome>>
       \/ At("health") /\ refresh.probes = Probes - 1 /\ End("ok")
       \/ At("healthOld") /\ refresh.probes = Probes - 1 /\ End("restored")
    /\ UNCHANGED <<file, gateway, runs>>

\* It finds the gateway inactive, or cannot tell.
Unhealthy ==
    /\ \/ At("health") /\ Go("rollback") /\ UNCHANGED <<good, outcome>>
       \/ At("healthOld") /\ End("broken")
    /\ UNCHANGED <<file, gateway, runs>>

\* Mutant of Rollback: the old gateway is restarted before the old file is back.
RollbackUnwritten ==
    /\ At("rollback") /\ Go("restartOld")
    /\ UNCHANGED <<file, gateway, runs, good, outcome>>

\* The previous file is put back.
Rollback ==
    /\ At("rollback") /\ file' = refresh.previous /\ Go("restartOld")
    /\ UNCHANGED <<gateway, runs, good, outcome>>

\* TimeoutStartSec, or the power: the file and the gateway are left as they are.
Killed ==
    /\ ~At("idle") /\ End("killed")
    /\ UNCHANGED <<file, gateway, runs>>
-----------------------------------------------------------------------------
(* The gateway service *)

\* The process ends; Restart=always starts it again until the start limit is hit.
GatewayDies ==
    /\ gateway.state = "up"
    /\ \E s \in {"starting", "off"} : gateway' = [gateway EXCEPT !.state = s]
    /\ UNCHANGED <<file, refresh, runs, good, outcome>>

\* systemd starts the process, which gets the file of this moment.
GatewayStarts ==
    /\ gateway.state = "starting"
    /\ gateway' = [state |-> "up", loaded |-> file]
    /\ UNCHANGED <<file, refresh, runs, good, outcome>>

\* An operator starts or stops the service.
Operator ==
    /\ \/ gateway.state = "off" /\ gateway' = [gateway EXCEPT !.state = "starting"]
       \/ gateway.state # "off" /\ gateway' = [gateway EXCEPT !.state = "off"]
    /\ UNCHANGED <<file, refresh, runs, good, outcome>>

TurnRefreshNext ==
    \/ Begin \/ Fetch \/ Probe \/ Fail \/ Write \/ WriteFails
    \/ Restart \/ GatewayRestartFails \/ Healthy \/ Unhealthy \/ Rollback \/ Killed
    \/ GatewayDies \/ GatewayStarts \/ Operator

TurnRefreshSpec == TurnRefreshInit /\ [][TurnRefreshNext]_turnRefreshVars
-----------------------------------------------------------------------------
(* Properties *)

\* A running gateway uses the credential of the last run that exited with 0 or a newer one if
\* that run found it active, and of the last but one or a newer one otherwise: however the runs
\* after it fail, roll back or are killed, and however the gateway dies and comes back between
\* the probe and the write.  The deployment guide's "This leaves several retry opportunities
\* after a failed run before a 24-hour credential expires" rests on it.
CredentialAge ==
    gateway.state = "up" => gateway.loaded >= IF good.active THEN good.last ELSE good.before

\* What the health checks find is the configuration they are about: while the new one is
\* checked a gateway that is up runs the file this run wrote, and while the restored one is
\* checked ("activation failure restores the old generated file and restarts and verifies the
\* old configuration") it runs the file the run found, also when the gateway died and was
\* started again between two probes, or by a restart that had timed out.
EndTruthful ==
    /\ At("health") /\ gateway.state = "up" => gateway.loaded = refresh.staged /\ file = refresh.staged
    /\ At("healthOld") /\ gateway.state = "up" => gateway.loaded = refresh.previous /\ file = refresh.previous

\* No run, however it ends, has judged a configuration by another one's health.
ChecksTruthful == TurnRefreshTypeOK /\ EndTruthful
=============================================================================
