-------------------------------- MODULE Relay --------------------------------
(***************************************************************************)
(* RelayController: one trigger call at a time under _lock, racing the      *)
(* shutdown latch, with the deactivation report handed from one to the      *)
(* other.                                                                   *)
(*                                                                         *)
(* The activation boundary is an RLock around every access to the pin, so   *)
(* each critical section of it is one step: test-and-raise, off-and-take,   *)
(* latch-off-and-take.  Everything else a thread does is a step of its own. *)
(* off() failing max_off_attempts times in a row is one outcome of the step.*)
(***************************************************************************)
EXTENDS Naturals

CONSTANTS MaxCalls,      \* bound: trigger calls
          MaxShutdowns   \* begin_shutdown calls; _shutdown_controller makes two

ASSUME BoundsAssumption == MaxCalls \in Nat /\ MaxShutdowns \in Nat

VARIABLES
    gpio,          \* the pin is HIGH
    shutdown,      \* _shutdown_requested
    latched,       \* _latched
    pc,            \* the trigger call that holds _lock
    calls,         \* trigger calls made
    hasReport,     \* the call passed on_deactivation
    active,        \* _active_deactivation_callback is this call's
    ready,         \* activation_notified is set
    notified,      \* the callback's _notified is set
    reports,       \* times on_deactivation ran for this call (history)
    stopper,       \* the thread inside begin_shutdown
    stops,         \* begin_shutdown calls made
    reporter,      \* the relay-deactivation-report thread
    outcome        \* _last_outcome

pin == <<gpio, shutdown, latched>>
report == <<hasReport, active, ready, notified, reports>>
stopping == <<stopper, stops, reporter>>
relayVars == <<pin, pc, calls, report, stopping, outcome>>

Outcomes == {"initialized_safe", "inhibited", "relay_latched", "relay_error",
             "relay_deenergize_error", "shutdown_safe", "activated"}

RelayTypeOK ==
    /\ gpio \in BOOLEAN /\ shutdown \in BOOLEAN /\ latched \in BOOLEAN
    /\ pc \in {"idle", "on", "notify", "pulse", "off", "recover", "report",
              "report_error", "await"}
    /\ calls \in Nat /\ stops \in Nat
    /\ hasReport \in BOOLEAN /\ active \in BOOLEAN /\ ready \in BOOLEAN
    /\ notified \in BOOLEAN /\ reports \in Nat
    /\ stopper \in {"idle", "handover", "report"}
    /\ reporter \in {"none", "waiting"}
    /\ outcome \in Outcomes

\* RelayController.__init__: the pin is forced off, or the relay starts latched.
RelayInit ==
    /\ \/ gpio = FALSE /\ latched = FALSE /\ outcome = "initialized_safe"
       \/ gpio = TRUE /\ latched = TRUE /\ outcome = "relay_deenergize_error"
    /\ shutdown = FALSE /\ pc = "idle" /\ calls = 0
    /\ hasReport = FALSE /\ active = FALSE /\ ready = FALSE /\ notified = FALSE /\ reports = 0
    /\ stopper = "idle" /\ stops = 0 /\ reporter = "none"
-----------------------------------------------------------------------------
(* trigger *)

\* activation_inhibition: the caller's test first, then the shutdown flag.
Inhibitions == {"inhibited"} \cup (IF shutdown THEN {"relay_latched"} ELSE {"none"})

\* Mutant of Trigger: a latched relay answers with the inhibition it did not find.
TriggerUnnamed ==
    /\ pc = "idle" /\ calls < MaxCalls
    /\ calls' = calls + 1
    /\ \E inhibition \in Inhibitions :
          IF inhibition # "none" \/ latched
          THEN outcome' = inhibition /\ UNCHANGED <<pc, report>>
          ELSE /\ pc' = "on"
               /\ hasReport' \in BOOLEAN /\ ready' = FALSE /\ notified' = FALSE /\ reports' = 0
               /\ UNCHANGED <<active, outcome>>
    /\ UNCHANGED <<pin, stopping>>

\* The call takes _lock and makes its first test; a refused call returns.
Trigger ==
    /\ pc = "idle" /\ calls < MaxCalls
    /\ calls' = calls + 1
    /\ \E inhibition \in Inhibitions :
          IF inhibition # "none" \/ latched
          THEN /\ outcome' = IF inhibition # "none" THEN inhibition ELSE "relay_latched"
               /\ UNCHANGED <<pc, report>>
          ELSE /\ pc' = "on"
               /\ hasReport' \in BOOLEAN /\ ready' = FALSE /\ notified' = FALSE /\ reports' = 0
               /\ UNCHANGED <<active, outcome>>
    /\ UNCHANGED <<pin, stopping>>

\* Mutant of SwitchOn: the flag is only tested before the boundary is entered.
SwitchOnUntested ==
    /\ pc = "on"
    /\ gpio' = TRUE /\ active' = hasReport /\ pc' = "notify"
    /\ UNCHANGED <<shutdown, latched, calls, hasReport, ready, notified, reports, stopping, outcome>>

\* Inside the boundary: the second test and the pin, in one step.
SwitchOn ==
    /\ pc = "on"
    /\ \E inhibition \in Inhibitions :
          IF inhibition # "none"
          THEN pc' = "idle" /\ outcome' = inhibition /\ UNCHANGED <<gpio, active>>
          ELSE /\ UNCHANGED outcome
               /\ \/ gpio' = TRUE /\ active' = hasReport /\ pc' = "notify"
                  \/ gpio' \in BOOLEAN /\ pc' = "recover" /\ UNCHANGED active   \* on() raised
    /\ UNCHANGED <<shutdown, latched, calls, hasReport, ready, notified, reports, stopping>>

\* on_activation ran (its exceptions are swallowed); activation_notified is set.
NotifyActivation ==
    /\ pc = "notify" /\ pc' = "pulse"
    /\ ready' = TRUE
    /\ UNCHANGED <<pin, calls, hasReport, active, notified, reports, stopping, outcome>>

\* The pulse wait returns, by its timer or because shutdown was requested, or it
\* raises.
EndPulse ==
    /\ pc = "pulse" /\ pc' \in {"off", "recover"}
    /\ UNCHANGED <<pin, calls, report, stopping, outcome>>

\* Mutant of Deenergize: a pin that stays high is reported but not latched.
DeenergizeUnlatched ==
    /\ pc \in {"off", "recover"}
    /\ \/ /\ gpio' = FALSE /\ active' = FALSE
          /\ pc' = IF active THEN "report" ELSE "await"
          /\ UNCHANGED outcome
       \/ /\ pc' = "idle" /\ outcome' = "relay_deenergize_error"
          /\ UNCHANGED <<gpio, active>>
    /\ UNCHANGED <<shutdown, latched, calls, hasReport, ready, notified, reports, stopping>>

\* _deenergize after a pulse, or after on() or the pulse raised.
Deenergize ==
    /\ pc \in {"off", "recover"}
    /\ \/ /\ gpio' = FALSE /\ active' = FALSE
          /\ \/ active /\ pc' = (IF pc = "off" THEN "report" ELSE "report_error")
                /\ UNCHANGED outcome
             \/ ~active /\ pc = "off" /\ pc' = "await" /\ UNCHANGED outcome
             \/ ~active /\ pc = "recover" /\ pc' = "idle" /\ outcome' = "relay_error"
          /\ UNCHANGED latched
       \/ /\ latched' = TRUE /\ pc' = "idle" /\ outcome' = "relay_deenergize_error"
          /\ UNCHANGED <<gpio, active>>
    /\ UNCHANGED <<shutdown, calls, hasReport, ready, notified, reports, stopping>>

\* _AfterEvent.__call__: wait for the activation to be reported, report the end.
RunReport == ready /\ reports' = reports + 1 /\ notified' = TRUE

\* The call took its own callback back and runs it; one that raised then returns.
ReportEnd ==
    /\ \/ pc = "report" /\ pc' = "await" /\ UNCHANGED outcome
       \/ pc = "report_error" /\ pc' = "idle" /\ outcome' = "relay_error"
    /\ RunReport
    /\ UNCHANGED <<pin, calls, hasReport, active, ready, stopping>>

\* wait_until_notified, then the call returns activated and releases _lock.
Return ==
    /\ pc = "await" /\ (hasReport => notified)
    /\ pc' = "idle"
    /\ outcome' = IF shutdown THEN "shutdown_safe" ELSE "activated"
    /\ UNCHANGED <<pin, calls, report, stopping>>
-----------------------------------------------------------------------------
(* begin_shutdown *)

\* Mutant of BeginShutdown: a failed off() still hands the report over.
BeginShutdownAlwaysTakes ==
    /\ stopper = "idle" /\ stops < MaxShutdowns
    /\ stops' = stops + 1
    /\ shutdown' = TRUE /\ latched' = TRUE
    /\ gpio' \in {FALSE, gpio} /\ active' = FALSE
    /\ stopper' = IF active THEN "handover" ELSE "idle"
    /\ UNCHANGED <<pc, calls, hasReport, ready, notified, reports, reporter, outcome>>

\* Latch, lower the pin and take the callback, inside the boundary.
BeginShutdown ==
    /\ stopper = "idle" /\ stops < MaxShutdowns
    /\ stops' = stops + 1
    /\ shutdown' = TRUE /\ latched' = TRUE
    /\ \/ /\ gpio' = FALSE /\ active' = FALSE
          /\ stopper' = IF active THEN "handover" ELSE "idle"
          /\ outcome' = IF active THEN outcome ELSE "shutdown_safe"
       \/ /\ outcome' = "relay_deenergize_error"
          /\ UNCHANGED <<gpio, active, stopper>>
    /\ UNCHANGED <<pc, calls, hasReport, ready, notified, reports, reporter>>

\* Mutant of HandOver: a thread that cannot start leaves the callback unnotified.
HandOverUnskipped ==
    /\ stopper = "handover"
    /\ \/ ready /\ stopper' = "report" /\ UNCHANGED reporter
       \/ ~ready /\ stopper' = "idle" /\ reporter' \in {"waiting", "none"}
    /\ UNCHANGED <<pin, pc, calls, report, stops, outcome>>

\* _notify_without_waiting: run a ready callback here, start a thread for one
\* that is not, and skip it when no thread can be started.
HandOver ==
    /\ stopper = "handover"
    /\ \/ ready /\ stopper' = "report" /\ UNCHANGED <<reporter, notified, outcome>>
       \/ /\ ~ready /\ stopper' = "idle" /\ outcome' = "shutdown_safe"
          /\ \/ reporter' = "waiting" /\ UNCHANGED notified
             \/ notified' = TRUE /\ UNCHANGED reporter
    /\ UNCHANGED <<pin, pc, calls, hasReport, active, ready, reports, stops>>

StopperReports ==
    /\ stopper = "report" /\ stopper' = "idle"
    /\ RunReport
    /\ outcome' = "shutdown_safe"
    /\ UNCHANGED <<pin, pc, calls, hasReport, active, ready, stops, reporter>>

\* The relay-deactivation-report thread.
ThreadReports ==
    /\ reporter = "waiting" /\ reporter' = "none"
    /\ RunReport
    /\ UNCHANGED <<pin, pc, calls, hasReport, active, ready, stopper, stops, outcome>>
-----------------------------------------------------------------------------
TriggerStep == SwitchOn \/ NotifyActivation \/ EndPulse \/ Deenergize \/ ReportEnd \/ Return
StopperStep == HandOver \/ StopperReports

RelayNext == Trigger \/ TriggerStep \/ BeginShutdown \/ StopperStep \/ ThreadReports

RelaySpec == RelayInit /\ [][RelayNext]_relayVars

\* A thread that can take its next step takes it; nobody has to call the relay.
RelayFairSpec ==
    /\ RelaySpec
    /\ WF_relayVars(TriggerStep) /\ WF_relayVars(StopperStep) /\ WF_relayVars(ThreadReports)
-----------------------------------------------------------------------------
(* Properties *)

\* Once begin_shutdown has latched the relay the pin never rises again, although a
\* trigger call that passed its first test may be waiting at the boundary.
NoRiseAfterShutdown == [][shutdown /\ gpio' => gpio]_relayVars

\* A pulse is reported over at most once, only after its start was reported and
\* only with the pin low, whichever of the three threads reports it.
ReportOnceAfterPulse == reports <= 1 /\ (reports = 1 => ready /\ ~gpio)

\* Between calls a pin that could not be lowered is always behind the latch.
HighPinIsLatched == pc = "idle" /\ gpio => latched

\* Every pulse is accounted for: reported over at most once, and latched if the
\* pin could not be lowered.  (That no report is left waiting is CallsReturn.)
PulseAccounted == RelayTypeOK /\ ReportOnceAfterPulse /\ HighPinIsLatched

\* Every trigger call returns and releases _lock, whoever took its callback and
\* even if the thread that should run it cannot be started; begin_shutdown
\* returns without waiting for a pulse, and a report thread ends.
CallsReturn ==
    /\ (pc # "idle") ~> (pc = "idle")
    /\ (stopper # "idle") ~> (stopper = "idle")
    /\ (reporter # "none") ~> (reporter = "none")
=============================================================================
