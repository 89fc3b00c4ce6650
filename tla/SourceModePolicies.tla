----------------------------- MODULE SourceModePolicies -----------------------------
(***************************************************************************)
(* The three policies that stand between the building demand and the       *)
(* command path (src/src/controlel/application/services):                  *)
(*   operating_mode_policy         which action does the mode ask for?     *)
(*   source_recovery_policy        is there enough evidence after a start? *)
(*   source_reconciliation_policy  does the reported controller agree, and *)
(*                                 may it be corrected?                    *)
(***************************************************************************)
EXTENDS Values

CONSTANTS
    Owned,                \* source_ownership is CONTROLEL_OWNED
    ManualFor,            \* manual_recovery_duration
    RecoveryWindow,       \* recovery_window
    UnknownHold,          \* unknown_transition_hold
    RetryAfter,           \* correction_retry_interval
    SafeProfile,          \* [target, onDiff, offDiff] of safe heating, or None
    HasFallbackSensor     \* does the profile name a fallback sensor?

ASSUME ModeConstants ==
    /\ {Owned, HasFallbackSensor} \subseteq BOOLEAN
    /\ {ManualFor, RecoveryWindow, RetryAfter} \subseteq Nat \ {0}
    /\ UnknownHold \in Nat

------------------------------------------------------------------------------
(* OperatingModePolicy.  A mode state is                                   *)
(*   mode      normal, safe_heating, emergency_off, manual_recovery_heat   *)
(*   manual    the reason starts with "manual_recovery_"                   *)
(*   until     manual_recovery_deadline                                    *)
(*   safeHeat  safe_heating_requires_heat: None, TRUE or FALSE             *)

Modes == {"normal", "safe_heating", "emergency_off", "manual_recovery_heat"}

ModeState(mode, manual, until, safeHeat) ==
    [mode |-> mode, manual |-> manual, until |-> until, safeHeat |-> safeHeat]

InitialMode == ModeState("normal", FALSE, None, None)

(* activate *)
ActivatedMode(state, mode, now) ==
    LET manual == (mode = "manual_recovery_heat")
    IN  ModeState(mode, manual,
                  IF manual THEN now + ManualFor ELSE None,
                  IF mode = "safe_heating" THEN state.safeHeat ELSE None)

(* cancel_for_reload: only a manual recovery is cancelled, and its trace   *)
(* stays in the reason.                                                    *)
CancelledMode(state) ==
    IF state.mode = "manual_recovery_heat"
    THEN ModeState("normal", TRUE, None, None)
    ELSE state

(* _select_evidence: the preferred sensor, then the fallback.  A reading   *)
(* is None when absent or not valid.                                       *)
SafeReading(preferred, fallback) ==
    IF preferred # None THEN preferred
    ELSE IF HasFallbackSensor THEN fallback ELSE None

SafeHeat(previous, reading) ==
    IF reading < SafeProfile.target - SafeProfile.onDiff THEN TRUE
    ELSE IF reading > SafeProfile.target + SafeProfile.offDiff THEN FALSE
    ELSE IF previous # None THEN previous
    ELSE reading < SafeProfile.target

(* evaluate: the state that stays, the action the mode asks for (None: no  *)
(* command), whether it carries safety authority, and when to look again.  *)
ModeAssessment(state, action, safety, next) ==
    [state |-> state, action |-> action, safety |-> safety, next |-> next]

(* Mutant of AssessManual: the deadline itself still heats. *)
AssessManual_Inclusive(state, normalAction, now) ==
    IF now <= state.until
    THEN ModeAssessment([state EXCEPT !.manual = TRUE], "enable", FALSE, state.until)
    ELSE ModeAssessment(ModeState("normal", TRUE, None, None),
                        IF normalAction = None THEN "disable" ELSE normalAction,
                        normalAction = None, None)

AssessManual(state, normalAction, now) ==
    IF now < state.until
    THEN ModeAssessment([state EXCEPT !.manual = TRUE], "enable", FALSE, state.until)
    ELSE ModeAssessment(ModeState("normal", TRUE, None, None),
                        IF normalAction = None THEN "disable" ELSE normalAction,
                        normalAction = None, None)

AssessSafeHeating(state, preferred, fallback) ==
    LET reading == IF SafeProfile = None THEN None ELSE SafeReading(preferred, fallback)
        heat == SafeHeat(state.safeHeat, reading)
    IN  IF reading = None
        THEN ModeAssessment([state EXCEPT !.safeHeat = None], None, FALSE, None)
        ELSE ModeAssessment([state EXCEPT !.safeHeat = heat],
                            IF heat THEN "enable" ELSE "disable", FALSE, None)

AssessMode(state, normalAction, preferred, fallback, now) ==
    CASE state.mode = "manual_recovery_heat" -> AssessManual(state, normalAction, now)
      [] state.mode = "emergency_off" -> ModeAssessment(state, "disable", TRUE, None)
      [] state.mode = "normal" -> ModeAssessment(state, normalAction, FALSE, None)
      [] state.mode = "safe_heating" -> AssessSafeHeating(state, preferred, fallback)

(* mode_override, control_runtime.py:861-863: the mode, or the trace a     *)
(* manual recovery left in the reason.                                     *)
ModeOverrides(state) == state.mode # "normal" \/ state.manual

------------------------------------------------------------------------------
(* SourceRecoveryPolicy.  None, or [waiting, until].                       *)

BeginRecovery(now) == [waiting |-> TRUE, until |-> now + RecoveryWindow]

AssessRecovery(state, demandKnown, reportedKnown, now) ==
    IF state = None \/ ~state.waiting THEN state
    ELSE [state EXCEPT !.waiting = ~(demandKnown /\ reportedKnown) /\ now < state.until]

RecoveryBlocks(state) == state # None /\ state.waiting

------------------------------------------------------------------------------
(* SourceReconciliationPolicy.  Evidence is None or                        *)
(* [state, observedAt, transitionAt]; a reconciliation state is None or    *)
(*   status    observed_external, expected_unknown, reported_indeterminate,*)
(*             agreed, drift_holding, correction_required,                 *)
(*             correction_pending                                          *)
(*   failed    the reason is CORRECTIVE_COMMAND_FAILED_RETRY_WAIT          *)
(*   desired, reported      what was compared                              *)
(*   drift     drift_detected_at is set                                    *)
(*   holdUntil conservative_hold_deadline                                  *)
(*   next      next_reevaluation_at                                        *)
(*   at        last_evaluated_at                                           *)

Known(reported) == reported # None /\ reported.state \in {"enabled", "disabled"}

CommandFor(reportedState) == IF reportedState = "enabled" THEN "enable" ELSE "disable"

Reconciliation(status, desired, reported, now) ==
    [status |-> status, failed |-> FALSE, desired |-> desired, reported |-> reported,
     drift |-> FALSE, holdUntil |-> None, next |-> None, at |-> now]

SameDrift(current, desired, reported) ==
    /\ current # None
    /\ current.drift
    /\ current.desired = desired
    /\ current.reported # None
    /\ current.reported.state = reported.state

(* Mutant of AwaitsAgreement: a correction is repeated until it shows. *)
AwaitsAgreement_Never(current, desired, reported) == FALSE

AwaitsAgreement(current, desired, reported) ==
    /\ SameDrift(current, desired, reported)
    /\ current.reported = reported
    /\ current.status = "correction_pending"

WaitsForDeadline(current, desired, reported, now) ==
    /\ SameDrift(current, desired, reported)
    /\ current.next # None
    /\ now < current.next

(* A drift is corrected at once when it was already held, was corrected    *)
(* before, or has a known transition time; otherwise it is held first.     *)
CorrectsAtOnce(current, desired, reported) ==
    \/ /\ SameDrift(current, desired, reported)
       /\ \/ current.status = "correction_pending"
          \/ current.failed
          \/ current.holdUntil # None
    \/ reported.transitionAt # None
    \/ UnknownHold = 0

(* The branch of evaluate where the report contradicts the desire.         *)
ReconcileDrift(current, desired, reported, now) ==
    LET seen == SameDrift(current, desired, reported)
        drifting == [Reconciliation("drift_holding", desired, reported, now) EXCEPT
                        !.drift = TRUE,
                        !.holdUntil = IF seen THEN current.holdUntil ELSE None]
    IN  IF AwaitsAgreement(current, desired, reported)
        THEN [drifting EXCEPT !.status = "correction_pending"]
        ELSE IF WaitsForDeadline(current, desired, reported, now)
        THEN [drifting EXCEPT !.status = current.status, !.failed = current.failed,
                              !.next = current.next]
        ELSE IF CorrectsAtOnce(current, desired, reported)
        THEN [drifting EXCEPT !.status = "correction_required"]
        ELSE [drifting EXCEPT !.holdUntil = now + UnknownHold, !.next = now + UnknownHold]

Reconcile(current, desired, reported, now) ==
    IF ~Owned THEN Reconciliation("observed_external", desired, reported, now)
    ELSE IF desired = None THEN Reconciliation("expected_unknown", None, reported, now)
    ELSE IF ~Known(reported) THEN Reconciliation("reported_indeterminate", desired, reported, now)
    ELSE IF CommandFor(reported.state) = desired THEN Reconciliation("agreed", desired, reported, now)
    ELSE ReconcileDrift(current, desired, reported, now)

(* record_dispatched: a successful correction waits for new evidence.      *)
CorrectionDispatched(state, now) ==
    [state EXCEPT !.status = "correction_pending", !.failed = FALSE, !.next = None, !.at = now]

(* record_failed: a failed correction waits for the retry deadline.        *)
CorrectionFailed(state, now) ==
    [state EXCEPT !.status = "drift_holding", !.failed = TRUE,
                  !.next = now + RetryAfter, !.at = now]
==============================================================================
