------------------------------- MODULE ControlRuntime -------------------------------
(***************************************************************************)
(* One normal runtime: ControlRuntime of                                   *)
(* src/src/controlel/application/runtime/control_runtime.py.  Every public *)
(* operation holds the execution lock from its first to its last statement *)
(* (_runtime_operation), so each is one action; what interleaves with them *)
(* is the clock, the scheduler that fires the single armed deadline, and   *)
(* the callback that fired but has not got the lock yet.                   *)
(*                                                                         *)
(* Almost every operation ends in _evaluate_heat_demand, which reads all   *)
(* evidence, decides, re-arms the deadline and only then calls the port.   *)
(***************************************************************************)
EXTENDS SourceControlPolicy, HeatDemandPolicy, SourceModePolicies

CONSTANTS
    MaxTime,        \* bound: the clock stops here
    MaxSkew,        \* max_future_skew of the timestamp validator
    MaxLag,         \* bound: how late a measurement may arrive
    Early,          \* bound: how early the scheduler may fire
    Temperatures,   \* the readings a sensor may send
    SafeReadings,   \* the readings a safe-heating sensor may send
    ReportStates,   \* the states the source controller may report
    ModeRequests,   \* the modes an operator may select
    Recovers,       \* bound: do recoveries begin, the first one as the first operation?
    MayEnd          \* bound: are stop and fatal_shutdown explored?

ASSUME RuntimeBounds ==
    /\ {MaxTime, MaxSkew, MaxLag, Early} \subseteq Nat
    /\ ReportStates \subseteq ReportedStates
    /\ ModeRequests \subseteq Modes
    /\ {Recovers, MayEnd} \subseteq BOOLEAN

Time == 0 .. MaxTime

VARIABLES
    now,        \* the injected clock
    latest,     \* RuntimeStateStore: per zone, the time of the latest accepted reading
    hysteresis, \* temperature_hysteresis_states: per zone, None or a demand
    demand,     \* ZoneDemandStore: per zone, None or [heat, at]
    confirm,    \* zone_heat_demand_confirmation_states: per zone, None or a state
    since,      \* HeatDemandSafetyState.indeterminate_since
    mode,       \* operating_mode_state
    safe,       \* safe_heating_preferred_evidence, safe_heating_fallback_evidence
    recovery,   \* source_recovery_state
    reported,   \* reported_source_evidence
    recon,      \* source_reconciliation_state, with last_evaluated_at as field at
    sc,         \* source_control_state
    applied,    \* HeatSourceStateStore
    wake,       \* the armed deadline and the callback in flight
    status,     \* "running", "stopped", "fatal"
    crashed,    \* the last operation ended in min() of no deadlines
    source      \* history: the last command the port executed

inputs == <<latest, hysteresis, demand, safe, reported>>
decided == <<confirm, since, mode, recovery, recon, sc, applied, source>>
vars == <<now, latest, hysteresis, demand, confirm, since, mode, safe, recovery, reported,
          recon, sc, applied, wake, status, crashed, source>>

Command == [action : Actions, at : Time, safety : BOOLEAN]

(* ReportedSourceEvidence *)
Reports == [state : ReportedStates, observedAt : Time, transitionAt : Maybe(Time)]

ASSUME NoneIsNoSnapshot ==
    /\ None \notin States(Time) /\ None \notin Command
    /\ None \notin Evidence(Time) /\ None \notin Reports
    /\ None \notin [waiting : BOOLEAN, until : Int]

Init ==
    /\ now = 0
    /\ latest = [z \in Zones |-> None]
    /\ hysteresis = [z \in Zones |-> None]
    /\ demand = [z \in Zones |-> None]
    /\ confirm = [z \in Zones |-> None]
    /\ since = None
    /\ mode = InitialMode
    /\ safe = [preferred |-> None, fallback |-> None]
    /\ recovery = None
    /\ reported = None
    /\ recon = None
    /\ sc = None
    /\ applied = None
    /\ wake = [timer |-> None, fired |-> None]
    /\ status = "running"
    /\ crashed = FALSE
    /\ source = None

------------------------------------------------------------------------------
(* The single deadline.  wake.timer is _scheduled_deadline; wake.fired is  *)
(* a callback the scheduler already started, with the deadline it carries  *)
(* and whether its generation is still the current one.                    *)

Outdated(fired) == IF fired = None THEN None ELSE [fired EXCEPT !.current = FALSE]

(* Mutant of Rearm: a callback in flight stays current. *)
Rearm_KeepsCallback(w, deadline, force) == [timer |-> deadline, fired |-> w.fired]

(* _replace_scheduled_evaluation: an unchanged deadline keeps its handle,  *)
(* anything else starts a new generation.                                  *)
Rearm(w, deadline, force) ==
    IF ~force /\ deadline = w.timer /\ w.timer # None
    THEN w
    ELSE [timer |-> deadline, fired |-> Outdated(w.fired)]

(* The scheduler fires; the callback waits for the lock.  One callback in  *)
(* flight at a time is a bound of the model.                               *)
Fire ==
    /\ status = "running"
    /\ wake.timer # None
    /\ wake.fired = None
    /\ now >= wake.timer - Early
    /\ wake' = [wake EXCEPT !.fired = [for |-> wake.timer, current |-> TRUE]]
    /\ UNCHANGED <<now, inputs, decided, status, crashed>>

------------------------------------------------------------------------------
(* _evaluate_heat_demand, stage by stage.                                  *)

(* control_runtime.py:825-847 *)
NormalAction(phase, building) ==
    CASE phase = "grace" -> None
      [] phase = "determinate" -> IF building = HEAT THEN "enable" ELSE "disable"
      [] phase = "timed_out" -> TimeoutAction

(* control_runtime.py:864 *)
SafetyAuthority(assessment, phase) ==
    assessment.safety \/ (phase = "timed_out" /\ ~ModeOverrides(assessment.state))

(* confirmation_callback_invalidated *)
PendingDropped(before, after) ==
    \E z \in Zones : IsPending(before[z]) /\ ~IsPending(after[z])

(* Mutant of BaseDeadlines: it leaves out the reconciliation. *)
BaseDeadlines_NoRecon(demands, confirmed, start, phase, modeNext, recovering, reconNext) ==
    LET all == EligibilityDeadlines(demands, now)
               \cup {confirmed[z].until : z \in Zones}
               \cup (IF phase = "grace" THEN {start + Grace} ELSE {})
               \cup {modeNext}
               \cup (IF RecoveryBlocks(recovering) THEN {recovering.until} ELSE {})
    IN  {d \in all \ {None} : d > now}

(* base_deadlines, control_runtime.py:803-820 and 899-910 *)
BaseDeadlines(demands, confirmed, start, phase, modeNext, recovering, reconNext) ==
    LET all == EligibilityDeadlines(demands, now)
               \cup {confirmed[z].until : z \in Zones}
               \cup (IF phase = "grace" THEN {start + Grace} ELSE {})
               \cup {modeNext, reconNext}
               \cup (IF RecoveryBlocks(recovering) THEN {recovering.until} ELSE {})
    IN  {d \in all \ {None} : d > now}

(* control_runtime.py:912-916 *)
ReconciliationBlocks(state, safety, action) ==
    \/ state.status = "correction_pending"
    \/ state.status = "drift_holding" /\ ~(safety /\ action = "disable")

(* control_runtime.py:940-947 *)
IsCorrective(state, safety, action, report) ==
    \/ state.status = "correction_required"
    \/ safety /\ action = "disable" /\ Owned /\ report # None /\ report.state = "enabled"

(* control_runtime.py:948-952 *)
AgreesWithoutHistory(state) ==
    Owned /\ state.status = "agreed" /\ (sc = None \/ sc.last = None)

(* The evaluation ends without asking the command path, with the deadlines *)
(* at hand.  The held branch takes min() of them, which raises ValueError  *)
(* when there are none: nothing after it happens.                          *)
HoldCommand(w, deadlines, force) ==
    /\ IF deadlines = {}
       THEN crashed' = TRUE /\ wake' = w
       ELSE crashed' = FALSE /\ wake' = Rearm(w, Earliest(deadlines), force)
    /\ UNCHANGED <<sc, applied, source>>

SkipCommand(w, deadlines, force) ==
    /\ wake' = Rearm(w, Earliest(deadlines), force)
    /\ crashed' = FALSE
    /\ UNCHANGED <<sc, applied, source>>

(* The command path, control_runtime.py:961-1052: assess, re-arm, then     *)
(* dispatch and record what came of it: the port executes or raises.       *)
EvidenceFor(corrective, report) == IF corrective THEN report ELSE None

CurrentSource == IF sc = None THEN InitialState(now) ELSE sc

(* Mutant of DropsDuplicate: a correction is dropped as a duplicate. *)
DropsDuplicate_Always(action, corrective) == applied = action

DropsDuplicate(action, corrective) == ~corrective /\ applied = action

CommandDeadlines(base, assessed) ==
    base \cup {d \in {assessed.deferredUntil} \ {None} : d > now}

CommandSource(w, base, force, action, safety, corrective, report, reconciled) ==
    LET evidence == EvidenceFor(corrective, report)
        verdict == Verdict(CurrentSource, action, now, safety, corrective, evidence)
        assessed == Assessed(CurrentSource, action, now, safety, corrective, evidence)
        armed == Rearm(w, Earliest(CommandDeadlines(base, assessed)), force)
        failedRecon == CorrectionFailed(reconciled, now)
    IN  /\ crashed' = FALSE
        /\ IF ~Dispatches(verdict)
           THEN /\ sc' = assessed /\ recon' = reconciled /\ wake' = armed
                /\ UNCHANGED <<applied, source>>
           ELSE IF DropsDuplicate(action, corrective)
           THEN /\ sc' = RecordSuppressedDuplicate(assessed, now)
                /\ recon' = reconciled /\ wake' = armed
                /\ UNCHANGED <<applied, source>>
           ELSE \/ /\ sc' = RecordDispatched(assessed, verdict, now)
                   /\ applied' = action
                   /\ source' = [action |-> action, at |-> now, safety |-> safety]
                   /\ recon' = IF corrective THEN CorrectionDispatched(reconciled, now) ELSE reconciled
                   /\ wake' = armed
                \/ /\ sc' = RecordFailed(assessed, now)
                   /\ recon' = IF corrective THEN failedRecon ELSE reconciled
                   /\ wake' = IF corrective THEN Rearm(armed, failedRecon.next, FALSE) ELSE armed
                   /\ UNCHANGED <<applied, source>>

(* The whole evaluation over the inputs an operation leaves behind: w is   *)
(* the deadline it finds, hint the deadline of a scheduled evaluation.     *)
Evaluate(demands, report, mode0, evidence, w, hint) ==
    LET confirmed == [z \in Zones |-> Confirm(confirm[z], ZoneInput(demands[z], now), now)]
        building == BuildingDemand(confirmed)
        start == IndeterminateSince(since, building, now, hint)
        phase == SafetyPhase(start, now)
        assessment == AssessMode(mode0, NormalAction(phase, building),
                                 evidence.preferred, evidence.fallback, now)
        action == assessment.action
        safety == SafetyAuthority(assessment, phase)
        recovering == AssessRecovery(recovery, building # UNKNOWN, Known(report), now)
        reconciled == Reconcile(recon, action, report, now)
        base == BaseDeadlines(demands, confirmed, start, phase, assessment.next,
                              recovering, reconciled.next)
        force == PendingDropped(confirm, confirmed)
    IN  /\ confirm' = confirmed
        /\ since' = start
        /\ mode' = assessment.state
        /\ recovery' = recovering
        /\ IF RecoveryBlocks(recovering) \/ ReconciliationBlocks(reconciled, safety, action)
           THEN recon' = reconciled /\ HoldCommand(w, base, force)
           ELSE IF action = None \/ AgreesWithoutHistory(reconciled)
           THEN recon' = reconciled /\ SkipCommand(w, base, force)
           ELSE CommandSource(w, base, force, action, safety,
                              IsCorrective(reconciled, safety, action, report),
                              report, reconciled)

------------------------------------------------------------------------------
(* The operations.  After the ValueError of the held branch the callers    *)
(* only stop the runtime or shut it down.                                  *)

Started == Recovers => recovery # None

Running == status = "running" /\ ~crashed /\ Started

(* process_temperature, for a reading that reaches a decision: accepted by *)
(* the timestamp validator and the store, and effective at this moment.    *)
Accepted(z, at) ==
    /\ at <= now + MaxSkew
    /\ latest[z] # None => at >= latest[z]

Effective(at) == at >= now - MaxAge /\ at <= now

ProcessTemperature(z, temperature, at) ==
    LET heat == Hysteresis(hysteresis[z], temperature)
        stored == [demand EXCEPT ![z] = [heat |-> heat = HEAT, at |-> at]]
    IN  /\ Running
        /\ Accepted(z, at)
        /\ Effective(at)
        /\ latest' = [latest EXCEPT ![z] = at]
        /\ hysteresis' = [hysteresis EXCEPT ![z] = heat]
        /\ demand' = stored
        /\ Evaluate(stored, reported, mode, safe, wake, None)
        /\ UNCHANGED <<now, safe, reported, status>>

(* process_temperature, for a reading that is stored but stale or          *)
(* future-dated: no decision, no evaluation.                               *)
StoreIneffective(z, at) ==
    /\ Running
    /\ Accepted(z, at)
    /\ ~Effective(at)
    /\ latest' = [latest EXCEPT ![z] = at]
    /\ UNCHANGED <<now, hysteresis, demand, safe, reported, decided, wake, status, crashed>>

(* mark_measurement_indeterminate clears the demand of every zone.         *)
NoDemand == [z \in Zones |-> None]

MarkIndeterminate ==
    /\ Running
    /\ demand' = NoDemand
    /\ Evaluate(NoDemand, reported, mode, safe, wake, None)
    /\ UNCHANGED <<now, latest, hysteresis, safe, reported, status>>

(* start and reevaluate_heat_demand *)
Reevaluate ==
    /\ Running
    /\ Evaluate(demand, reported, mode, safe, wake, None)
    /\ UNCHANGED <<now, inputs, status>>

(* ingest_reported_source_state, with the evidence host.py:1773-1822 maps  *)
(* from a state change: a transition time is known only for a change       *)
(* between the two stable states, and kept while the state stays.          *)
TransitionTimes(state) ==
    IF state \notin {"enabled", "disabled"} \/ ~Known(reported) THEN {None}
    ELSE IF reported.state = state THEN {None, reported.transitionAt}
    ELSE {None, now}

IngestReported(state, transitionAt) ==
    /\ Running
    /\ LET report == [state |-> state, observedAt |-> now, transitionAt |-> transitionAt]
       IN  /\ reported' = report
           /\ Evaluate(demand, report, mode, safe, wake, None)
    /\ UNCHANGED <<now, latest, hysteresis, demand, safe, status>>

(* set_operating_mode *)
SetMode(requested) ==
    /\ Running
    /\ Evaluate(demand, reported, ActivatedMode(mode, requested, now), safe, wake, None)
    /\ UNCHANGED <<now, inputs, status>>

(* ingest_safe_heating_temperature; without a profile it raises.           *)
SafeSensors == IF HasFallbackSensor THEN {"preferred", "fallback"} ELSE {"preferred"}

IngestSafeReading(sensor, reading) ==
    /\ Running
    /\ SafeProfile # None
    /\ LET readings == [safe EXCEPT ![sensor] = reading]
       IN  /\ safe' = readings
           /\ Evaluate(demand, reported, mode, readings, wake, None)
    /\ UNCHANGED <<now, latest, hysteresis, demand, reported, status>>

(* begin_source_recovery: ControlRuntimeStartup.begin calls it before any  *)
(* other operation; a runtime that is only start()ed never recovers.  The  *)
(* runtime before it may have been in a manual recovery, where there is    *)
(* one.                                                                    *)
BeginSourceRecovery(manualCancelled) ==
    /\ Recovers /\ recovery = None
    /\ manualCancelled => "manual_recovery_heat" \in ModeRequests
    /\ mode' = IF manualCancelled THEN ModeState("normal", TRUE, None, None) ELSE mode
    /\ recovery' = BeginRecovery(now)
    /\ wake' = Rearm(wake, now + RecoveryWindow, FALSE)
    /\ UNCHANGED <<now, inputs, confirm, since, recon, sc, applied, source, status, crashed>>

(* cancel_manual_recovery_for_reload: in any mode a recovery begins, and   *)
(* its deadline replaces every other one.  Bound: without a manual         *)
(* recovery only where recoveries are explored.                            *)
CancelManualRecovery ==
    /\ Running
    /\ Recovers \/ mode.mode = "manual_recovery_heat"
    /\ mode' = CancelledMode(mode)
    /\ recovery' = BeginRecovery(now)
    /\ wake' = Rearm(wake, now + RecoveryWindow, FALSE)
    /\ UNCHANGED <<now, inputs, confirm, since, recon, sc, applied, source, status, crashed>>

(* _scheduled_callback and _consume_scheduled_evaluation: a callback of an *)
(* old generation does nothing; a premature one re-arms; the current one   *)
(* consumes the deadline and evaluates with it as the hint.                *)
Consumed == [timer |-> None, fired |-> None]

(* Mutant of AfterPremature: the deadline is consumed too early and lost. *)
AfterPremature_Loses == Consumed

AfterPremature == Rearm(Consumed, wake.fired.for, FALSE)

Callback ==
    /\ Running
    /\ wake.fired # None
    /\ IF wake.fired.current /\ now >= wake.fired.for
       THEN Evaluate(demand, reported, mode, safe, Consumed, wake.fired.for)
       ELSE /\ wake' = IF wake.fired.current THEN AfterPremature ELSE [wake EXCEPT !.fired = None]
            /\ UNCHANGED <<decided, crashed>>
    /\ UNCHANGED <<now, inputs, status>>

Terminate(outcome) ==
    /\ status' = outcome
    /\ wake' = [timer |-> None, fired |-> Outdated(wake.fired)]
    /\ confirm' = [z \in Zones |-> IF confirm[z] = None THEN None
                                   ELSE TerminalConfirmation(confirm[z], outcome)]

(* stop *)
Stop ==
    /\ status = "running"
    /\ Terminate("stopped")
    /\ sc' = IF sc = None THEN None ELSE StoppedState(sc, sc.at)
    /\ UNCHANGED <<now, inputs, since, mode, recovery, recon, applied, source, crashed>>

(* fatal_shutdown: also after stop, once.                                  *)
FatalShutdown(failedAction, portOk) ==
    /\ status # "fatal"
    /\ Terminate("fatal")
    /\ sc' = FatalState(CurrentSource, now)
    /\ source' = IF failedAction # "disable" /\ portOk
                 THEN [action |-> "disable", at |-> now, safety |-> TRUE]
                 ELSE source
    /\ UNCHANGED <<now, inputs, since, mode, recovery, recon, applied, crashed>>

(* Bound: the clock stops at MaxTime, and once the runtime has ended.      *)
Tick ==
    /\ Running
    /\ now < MaxTime
    /\ now' = now + 1
    /\ UNCHANGED <<inputs, decided, wake, status, crashed>>

Operation ==
    \/ \E z \in Zones, temperature \in Temperatures, at \in (now - MaxLag) .. (now + MaxSkew) :
         ProcessTemperature(z, temperature, at)
    \/ MarkIndeterminate
    \/ Reevaluate
    \/ \E state \in ReportStates : \E transitionAt \in TransitionTimes(state) :
         IngestReported(state, transitionAt)
    \/ \E requested \in ModeRequests : SetMode(requested)
    \/ \E sensor \in SafeSensors, reading \in Maybe(SafeReadings) :
         IngestSafeReading(sensor, reading)
    \/ Callback

Next ==
    \/ Tick
    \/ Fire
    \/ Operation
    \/ \E z \in Zones, at \in (now - MaxLag) .. (now + MaxSkew) : StoreIneffective(z, at)
    \/ \E manualCancelled \in BOOLEAN : BeginSourceRecovery(manualCancelled)
    \/ CancelManualRecovery
    \/ MayEnd /\ Stop
    \/ MayEnd /\ \E failedAction \in Maybe(Actions), portOk \in BOOLEAN : FatalShutdown(failedAction, portOk)

Spec == Init /\ [][Next]_vars

------------------------------------------------------------------------------
(* Safety.                                                                 *)

ConfirmationStates ==
    [phase : {"indeterminate", "no_heat_required", "pending", "confirmed", "stopped", "fatal"},
     confirmed : {HEAT, NO_HEAT}, until : Maybe(Nat)]

TypeOK ==
    /\ now \in Time
    /\ \A z \in Zones :
         /\ latest[z] \in Maybe(Int)
         /\ hysteresis[z] \in {None, HEAT, NO_HEAT}
         /\ demand[z] \in Maybe([heat : BOOLEAN, at : Int])
         /\ confirm[z] \in Maybe(ConfirmationStates)
    /\ since \in Maybe(Time)
    /\ mode.mode \in Modes
    /\ reported \in Maybe(Reports)
    /\ sc \in Maybe(States(Time))
    /\ applied \in Maybe(Actions)
    /\ wake.timer \in Maybe(Int)
    /\ source \in Maybe(Command)

(* What waits for a time: a reading that expires, a confirmation, the      *)
(* grace, a manual recovery, the recovery window, a reconciliation         *)
(* deadline, and a deferred command while the command path is the one to   *)
(* decide.                                                                 *)
CommandPathDecides ==
    /\ since = None
    /\ mode.mode \in {"normal", "emergency_off"}
    /\ ~RecoveryBlocks(recovery)
    /\ recon.status \notin {"correction_pending", "drift_holding"}
    /\ ~AgreesWithoutHistory(recon)

WaitsFor ==
    EligibilityDeadlines(demand, now)
    \cup {confirm[z].until : z \in Zones}
    \cup (IF since = None THEN {} ELSE {since + Grace})
    \cup {mode.until, recon.next}
    \cup (IF RecoveryBlocks(recovery) THEN {recovery.until} ELSE {})
    \cup (IF CommandPathDecides /\ sc # None THEN {sc.deferredUntil} ELSE {})

(* Nothing that waits for a time is forgotten: the one armed deadline is   *)
(* never later than any of the pending ones.  The exceptions are the two   *)
(* places where the code arms a single deadline and drops the others: the  *)
(* retry of a failed correction (control_runtime.py:1011) and the recovery *)
(* window of a cancelled manual recovery (419).                            *)
EveryWaitIsArmed ==
    (Running /\ recon # None) =>
        \A d \in WaitsFor \ {None} :
            d > now => /\ wake.timer # None
                       /\ \/ wake.timer <= d
                          \/ recon.failed /\ wake.timer = recon.next
                          \/ RecoveryBlocks(recovery) /\ wake.timer = recovery.until

(* A grace period begins no earlier than the last evaluation before it,    *)
(* even when a late callback supplies its deadline as the start: the grace *)
(* is not shortened by time in which demand was known.                     *)
GraceStartsAfterLastEvaluation ==
    [][ (since = None /\ since' # None /\ recon # None) => since' >= recon.at ]_vars

(* One reading never switches the heat on: an enable in normal mode, while *)
(* demand is known, needs a zone whose request was confirmed before, or    *)
(* was pending with its confirmation time elapsed.                         *)
ConfirmedBefore(state) ==
    state # None /\ (state.confirmed = HEAT \/ (IsPending(state) /\ state.until <= now))

HeatIsConfirmedFirst ==
    [][ (source' # source /\ source'.action = "enable" /\ mode'.mode = "normal"
           /\ ConfirmFor > 0 /\ since' = None)
        => \E z \in Zones : ConfirmedBefore(confirm[z]) ]_vars

(* Every enable that reaches the source has its reason at that moment: a   *)
(* zone whose stored reading still asks for heat, a manual recovery that   *)
(* has not ended, a safe-heating reading, or a timed-out demand with       *)
(* enable as its action.  No older decision is replayed.                   *)
EnableHasReason ==
    [][ (source' # source /\ source'.action = "enable") =>
          \/ mode'.mode = "manual_recovery_heat" /\ now < mode'.until
          \/ mode'.mode = "safe_heating" /\ SafeReading(safe'.preferred, safe'.fallback) # None
          \/ mode'.mode = "normal" /\ \E z \in Zones : ZoneInput(demand'[z], now) = HEAT
          \/ mode'.mode = "normal" /\ since' # None /\ TimeoutAction = "enable" ]_vars

(* Once EMERGENCY_OFF has been evaluated the source is off, or the disable *)
(* failed at the port: no protection, duplicate suppression or order of    *)
(* mode changes keeps it from getting there.  Stated for a source that is  *)
(* not reconciled and does not recover.                                    *)
EmergencyOffReachesSource ==
    (Running /\ mode.mode = "emergency_off" /\ ~Owned /\ ~RecoveryBlocks(recovery)) =>
        \/ source # None /\ source.action = "disable"
        \/ sc # None /\ sc.outcome = "failed"

(* A correction that reached the source is not repeated before the report  *)
(* changes (source_reconciliation_policy.py:114-115), and one that failed  *)
(* is not retried before its deadline, unless safety asks for it.          *)
Same(state) ==
    recon # None /\ recon.desired = recon'.desired /\ status' = "running" /\ state

CorrectionsDoNotStorm ==
    [][ /\ (Same(recon.status = "correction_pending") /\ reported' = recon.reported)
              => source' = source
        /\ (Same(recon.failed) /\ reported'.state = recon.reported.state /\ now < recon.next)
              => (source' = source \/ source'.safety) ]_vars

(* The command path of the runtime is that of SourceControl: what is       *)
(* checked and proved there for any demand holds here.                     *)
CommandPath == INSTANCE SourceControl
ImplementsSourceControl == CommandPath!Spec

------------------------------------------------------------------------------
(* Liveness.  The clock moves on, the event loop fires an armed deadline   *)
(* and the executor runs the callback; no sensor, operator or report is    *)
(* relied upon.  Weak fairness, with its ENABLED written out.              *)
MayTick == Running /\ now < MaxTime
MayFire == /\ status = "running"
           /\ wake.timer # None /\ wake.fired = None /\ now >= wake.timer - Early
MayCallBack == Running /\ wake.fired # None

FairSpec ==
    /\ Spec
    /\ []<>~MayTick \/ []<><<Tick>>_vars
    /\ []<>~MayFire \/ []<><<Fire>>_vars
    /\ []<>~MayCallBack \/ []<><<Callback>>_vars

(* Whatever waits for a time within the bound stops waiting, without any   *)
(* new input: a deferred command is asked again unless demand became       *)
(* unknown, a pending request is confirmed or dropped, and an unknown      *)
(* demand is resolved or ends in a request for the timeout action.         *)
CommandWaits == sc # None /\ sc.deferred # None
RequestWaits(z) == IsPending(confirm[z])
GraceWaits == since # None /\ recon.at < since + Grace
TimeoutAsked == since # None /\ sc # None /\ sc.demand = TimeoutAction

EveryWaitEnds ==
    /\ (CommandWaits /\ sc.deferredUntil <= MaxTime) ~> (~CommandWaits \/ since # None)
    /\ (GraceWaits /\ since + Grace <= MaxTime) ~> (since = None \/ (~GraceWaits /\ TimeoutAsked))
    /\ \A z \in Zones : (RequestWaits(z) /\ confirm[z].until <= MaxTime) ~> ~RequestWaits(z)
==============================================================================
