------------------------------ MODULE OperationalEvents ------------------------------
(***************************************************************************)
(* What the recorder of operational events remembers of the runtime, and   *)
(* the events it emits when that changes, as operators on its record       *)
(* (src/src/controlel/application/services/operational_event_recorder.py). *)
(* An operation gives the next record with the emitted events appended to  *)
(* its "out"; the bounded stream that retains them is                      *)
(* operational_event_stream.py.  There is one zone and one source.         *)
(*                                                                         *)
(* Left out: severities, categories, summaries, and the correlation        *)
(* numbers of commands and of zone demand, which only diagnostics read; so *)
(* the counter of next_correlation_id counts the activity ids alone.       *)
(***************************************************************************)
EXTENDS Values, Sequences

(* An activity id is a scope and a number: a count, a generation, a time.  *)
ASSUME NoneIsNoActivity == None \notin STRING \X Int

NoRecord ==
    [measurement |-> None,      \* the last MeasurementEventCondition
     incident |-> None,         \* _measurement_activity_id
     phase |-> None,            \* _zone_confirmation of the zone
     demand |-> None,           \* _zone_demand of the zone
     safety |-> None,           \* _safety_phase
     reported |-> None,         \* _reported_source
     reconciliation |-> None,   \* _reconciliation_status
     campaign |-> None,         \* _reconciliation_activity_id
     episode |-> None,          \* _building_activity_id
     permitted |-> FALSE,       \* _building_permission_enabled
     deferred |-> None,         \* _active_deferred
     supervision |-> None,      \* _supervision_state
     fatal |-> FALSE,           \* _runtime_fatal_active
     ids |-> 0,                 \* activity ids handed out
     out |-> <<>>]

(* An event: its code, when, the activity it belongs to, and the one       *)
(* detail a consumer reads - the command, or how something ended.          *)
Event(code, at, activity, detail) ==
    [code |-> code, at |-> at, activity |-> activity, detail |-> detail]

Emitting(r, events) == [r EXCEPT !.out = @ \o events]
Emit(r, code, at, activity, detail) == Emitting(r, <<Event(code, at, activity, detail)>>)
EmitIf(cond, r, code, at, activity, detail) ==
    IF cond THEN Emit(r, code, at, activity, detail) ELSE r

(* self._x = self._x or next_correlation_id(scope)                         *)
Opened(r, field, scope) ==
    IF r[field] # None THEN r
    ELSE [r EXCEPT ![field] = <<scope, r.ids + 1>>, !.ids = @ + 1]

RuntimeStarted(r, at) == Emit(r, "runtime_started", at, None, None)
RuntimeStopped(r, at) == Emit(r, "runtime_stopped", at, None, None)

RuntimeFatal(r, at, activity) ==
    IF r.fatal THEN r
    ELSE Emit([r EXCEPT !.fatal = TRUE], "runtime_fatal", at, activity, None)

(* A measurement that is not "valid" opens an incident, the next valid one *)
(* closes it.                                                              *)
Measured(r, condition, at) ==
    IF condition = r.measurement THEN r
    ELSE IF condition = "valid"
    THEN LET recovered == r.measurement \in {"stale", "unavailable"}
         IN  Emit([r EXCEPT !.measurement = condition,
                            !.incident = IF recovered THEN None ELSE @],
                  IF recovered THEN "measurement_recovered" ELSE "measurement_became_valid",
                  at, r.incident, None)
    ELSE LET o == Opened([r EXCEPT !.measurement = condition], "incident", "measurement-incident")
         IN  Emit(o, "measurement_degraded", at, o.incident, None)

ReportedSource(r, state, at) ==
    EmitIf(r.reported \notin {None, state}, [r EXCEPT !.reported = state],
           "reported_source_state_changed", at, r.campaign, None)

(* The result of one evaluation of the control runtime, as far as the      *)
(* recorder reads it: when, the demand of the zone (which is the           *)
(* building's), the phase of its confirmation, the phase of the safety     *)
(* grace, the status of the reconciliation, on whose behalf a command was  *)
(* considered and what became of it.                                       *)
Demands == {"heat", "no_heat", "unknown"}
ConfirmationPhases == {"no_heat", "pending", "confirmed", "indeterminate"}
SafetyPhases == {"determinate", "grace", "timed_out"}
Reconciliations == {None, "agreed", "holding", "correction_required", "correction_pending"}
Drift == {"holding", "correction_required", "correction_pending"}
Fates == {None, "dispatched", "deferred", "suppressed", "held"}
Authorities == {"demand", "safety", "resilience"}

RecordDemand(r, e) ==
    LET was == r.phase
        begins == e.phase = "pending" /\ was # "pending"
        confirms == e.phase = "confirmed" /\ was # "confirmed"
        cancels == was = "pending" /\ e.phase \in {"no_heat", "indeterminate"}
        satisfied == r.demand = "heat" /\ e.demand = "no_heat"
        r1 == EmitIf(begins \/ (confirms /\ was # "pending"),
                     [r EXCEPT !.phase = e.phase, !.demand = e.demand],
                     "heat_demand_started", e.at, r.episode, None)
        r2 == EmitIf(confirms, r1, "heat_demand_confirmed", e.at, r.episode, None)
        r3 == EmitIf(cancels, r2, "heat_demand_cancelled", e.at, r.episode,
                     IF e.demand = "no_heat" THEN "building_episode_cancelled" ELSE None)
    IN  EmitIf(satisfied, r3, "heat_demand_satisfied", e.at, r.episode, None)

RecordSafety(r, e) ==
    LET s == [r EXCEPT !.safety = e.safety]
        expired == Emit(s, "safety_grace_expired", e.at, r.incident, None)
    IN  IF e.safety = r.safety \/ e.safety = "determinate" THEN s
        ELSE IF e.safety = "grace" THEN Emit(s, "safety_grace_started", e.at, r.incident, None)
        ELSE Emit(expired, "safety_disable_requested", e.at, r.incident, None)

RecordReconciliation(r, e) ==
    LET was == r.reconciliation
        drifts == e.reconciliation \in Drift /\ was \notin Drift
        settles == was \in Drift /\ e.reconciliation \notin Drift
        s == [r EXCEPT !.reconciliation = e.reconciliation]
        o == IF drifts THEN Opened(s, "campaign", "source-reconciliation") ELSE s
        r1 == EmitIf(drifts, o, "source_drift_detected", e.at, o.campaign, None)
        r2 == EmitIf(e.reconciliation = "correction_required" /\ was # e.reconciliation,
                     r1, "source_reconciliation_started", e.at, o.campaign, None)
        r3 == IF settles
              THEN Emit([r2 EXCEPT !.campaign = None], "source_reconciliation_completed", e.at,
                        o.campaign, IF e.reconciliation = "agreed" THEN "reported_agreement" ELSE None)
              ELSE r2
    IN  IF e.reconciliation = None THEN r
        ELSE EmitIf(e.fate = "held" /\ was # e.reconciliation, r3,
                    "corrective_action_held", e.at, r3.campaign, None)

(* _activity_id_for_result                                                 *)
ActivityOf(r, e) ==
    CASE e.by = "resilience" -> r.campaign
      [] e.by = "safety" -> r.incident
      [] e.by = "demand" -> r.episode

(* The events of a command that reached the source: asked for, then done.  *)
Commanded(r, action, at, activity) ==
    Emitting(r, <<Event("source_requested", at, activity, action),
                  Event("source_command_dispatched", at, activity, action)>>)

RecordCommand(r, e) ==
    LET activity == ActivityOf(r, e)
        r1 == Commanded([r EXCEPT !.deferred = None], e.command, e.at, activity)
    IN  IF e.command = None \/ e.fate = "held" THEN [r EXCEPT !.deferred = None]
        ELSE IF e.fate = "deferred"
        THEN EmitIf(r.deferred # <<e.command, e.until>>,
                    [r EXCEPT !.deferred = <<e.command, e.until>>],
                    "source_command_deferred", e.at, activity, e.command)
        ELSE IF e.fate = "dispatched"
        THEN EmitIf(e.by = "resilience", r1, "corrective_action_dispatched", e.at, activity, e.command)
        ELSE [r EXCEPT !.deferred = None]

(* The heating episode of the building: from the first evaluation that     *)
(* requires heat to the demand command that disables heating, or to the    *)
(* end of the demand when heating was never permitted.                     *)
Evaluated(r, e) ==
    LET r0 == IF e.demand = "heat" THEN Opened(r, "episode", "heating-episode") ELSE r
        r1 == RecordCommand(RecordReconciliation(RecordSafety(RecordDemand(r0, e), e), e), e)
        executed == e.by = "demand" /\ e.fate = "dispatched"
    IN  IF executed /\ e.command = "enable" THEN [r1 EXCEPT !.permitted = TRUE]
        ELSE IF executed THEN [r1 EXCEPT !.permitted = FALSE, !.episode = None]
        ELSE IF e.demand = "no_heat" /\ ~r1.permitted THEN [r1 EXCEPT !.episode = None]
        ELSE r1

CommandFailed(r, action, at, corrective) ==
    IF corrective
    THEN LET o == Opened(r, "campaign", "source-reconciliation")
         IN  Emitting(o, <<Event("source_requested", at, o.campaign, action),
                           Event("source_command_failed", at, o.campaign, action)>>)
    ELSE LET activity == <<"source-command-incident", r.ids + 1>>
         IN  Emitting([r EXCEPT !.ids = @ + 1],
                      <<Event("source_requested", at, activity, action),
                        Event("source_command_failed", at, activity, action)>>)

(* A transition of the heating anomaly; see HeatingPerformance.            *)
HeatingAnomaly(r, anomaly) ==
    Emit(r, "heating_anomaly", anomaly.at, <<"anomaly", anomaly.episode>>, anomaly.lifecycle)

(* RuntimeSupervisionState: phase, command authority, generation, whether  *)
(* the restart budget is exhausted.                                        *)
Supervision(r, s, at) ==
    LET was == r.supervision
        activity == <<"supervision", s.generation>>
        recovers == was.phase # "normal" /\ s.phase = "normal"
        r0 == [r EXCEPT !.supervision = s]
        r1 == EmitIf(was.authority # s.authority, r0, "command_authority_changed", at, activity, s.authority)
        r2 == EmitIf(was.phase # "failsafe" /\ s.phase = "failsafe", r1, "failsafe_entered", at, activity, None)
        r3 == IF recovers
              THEN Emitting([r2 EXCEPT !.fatal = FALSE],
                            <<Event("failsafe_exited", at, activity, None),
                              Event("runtime_recovered", at, activity, None)>>)
              ELSE r2
    IN  IF was = None THEN r0
        ELSE EmitIf(~was.exhausted /\ s.exhausted, r3, "restart_budget_exhausted", at, activity, None)

RestartAttemptStarted(r, at, generation) ==
    Emit(r, "restart_attempt_started", at, <<"supervision", generation>>, None)
RestartAttemptFailed(r, at, generation) ==
    Emit(r, "restart_attempt_failed", at, <<"supervision", generation>>, None)
==============================================================================
