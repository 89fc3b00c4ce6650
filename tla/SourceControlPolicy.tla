---------------------------- MODULE SourceControlPolicy ----------------------------
(***************************************************************************)
(* The minimum-on and minimum-off protection of the shared heat source:    *)
(* the pure class SourceControlPolicy and the frozen SourceControlState it *)
(* rewrites (services/source_control_policy.py and                         *)
(* state/source_control_state.py under src/src/controlel/application).     *)
(*                                                                         *)
(* A snapshot of the class SourceControlState is a record.  Its fields, in *)
(* the words of the source:                                                *)
(*   phase        phase                                                    *)
(*   demand       aggregate_demand                                         *)
(*   last         last_dispatched_command                                  *)
(*   enabledAt    last_successful_enable_dispatch                          *)
(*   disabledAt   last_successful_disable_dispatch                         *)
(*   enableFrom   earliest_next_enable_time                                *)
(*   disableFrom  earliest_next_disable_time                               *)
(*   lockout      active_lockout_type       lockoutUntil  ..._deadline     *)
(*   deferred     deferred_command          deferredUntil ..._deadline     *)
(*   since        deferred_since                                           *)
(*   bypass       safety_bypass_active                                     *)
(*   outcome      last_command_outcome                                     *)
(*   at           last_evaluated_at                                        *)
(* Wording only read by diagnostics (detailed_phase, deferred_reason,      *)
(* last_requested_command, last_normal_command_dispatch) is left out.      *)
(* Times are integers; an absent value is None.                            *)
(***************************************************************************)
EXTENDS Values

CONSTANTS
    MinOn,     \* minimum_on_time
    MinOff     \* minimum_off_time

ASSUME DurationsAreNonNegative == MinOn \in Nat /\ MinOff \in Nat

Lockouts == {"minimum_on", "minimum_off"}
ASSUME NoneIsNoLockout == None \notin Lockouts

Phases == {"idle", "heating_requested", "heating_not_requested",
           "deferred_enable", "deferred_disable", "stopped", "fatal_error"}
Outcomes == {"none", "requested", "dispatched", "suppressed_duplicate", "deferred", "failed"}

(* Reported evidence as the policy reads it: a controller state and, when  *)
(* known, the time of its last transition.                                 *)
ReportedStates == {"enabled", "disabled", "unknown", "unavailable"}
Evidence(T) == [state : ReportedStates, transitionAt : Maybe(T)]

States(T) ==
    [phase : Phases, demand : Maybe(Actions), last : Maybe(Actions),
     enabledAt : Maybe(T), disabledAt : Maybe(T),
     enableFrom : Maybe(Int), disableFrom : Maybe(Int),
     lockout : Maybe(Lockouts), lockoutUntil : Maybe(Int),
     deferred : Maybe(Actions), since : Maybe(T), deferredUntil : Maybe(Int),
     bypass : BOOLEAN, outcome : Outcomes, at : T]

InitialState(now) ==
    [phase |-> "idle", demand |-> None, last |-> None,
     enabledAt |-> None, disabledAt |-> None,
     enableFrom |-> None, disableFrom |-> None,
     lockout |-> None, lockoutUntil |-> None,
     deferred |-> None, since |-> None, deferredUntil |-> None,
     bypass |-> FALSE, outcome |-> "none", at |-> now]

(* _clear_deferred: drops the lockout and the deferral together. *)
ClearDeferred(s) ==
    [s EXCEPT !.lockout = None, !.lockoutUntil = None,
              !.deferred = None, !.since = None, !.deferredUntil = None]

SettledPhase(action) ==
    IF action = "enable" THEN "heating_requested" ELSE "heating_not_requested"

DeferredPhase(action) ==
    IF action = "disable" THEN "deferred_disable" ELSE "deferred_enable"

------------------------------------------------------------------------------
(* The lockouts.  Each is a pair <<type, deadline>>, or NoLockout.         *)

NoLockout == <<None, None>>

ProtectedOn(s, now) ==
    s.last = "enable" /\ s.disableFrom # None /\ now < s.disableFrom

ProtectedOff(s, now) ==
    s.last = "disable" /\ s.enableFrom # None /\ now < s.enableFrom

(* _blocking_lockout over _protection_boundary: the protection of the last *)
(* successful command blocks the opposite one only.                        *)
DispatchedLockout(s, action, now) ==
    IF action = "disable" /\ ProtectedOn(s, now) THEN <<"minimum_on", s.disableFrom>>
    ELSE IF action = "enable" /\ ProtectedOff(s, now) THEN <<"minimum_off", s.enableFrom>>
    ELSE NoLockout

(* _reported_blocking_lockout: a transition the controller reported        *)
(* protects too, without becoming command history.                         *)
ReportedLockout(evidence, action, now) ==
    IF evidence = None \/ evidence.transitionAt = None THEN NoLockout
    ELSE IF /\ evidence.state = "enabled" /\ action = "disable"
            /\ now < evidence.transitionAt + MinOn
         THEN <<"minimum_on", evidence.transitionAt + MinOn>>
    ELSE IF /\ evidence.state = "disabled" /\ action = "enable"
            /\ now < evidence.transitionAt + MinOff
         THEN <<"minimum_off", evidence.transitionAt + MinOff>>
    ELSE NoLockout

BlockingLockout(s, action, now, corrective, evidence) ==
    LET own == DispatchedLockout(s, action, now)
    IN  IF corrective /\ own = NoLockout
        THEN ReportedLockout(evidence, action, now)
        ELSE own

------------------------------------------------------------------------------
(* evaluate: one verdict, and the snapshot that goes with it.              *)

(* Mutants of Bypasses: safety overrides minimum-off too, or nothing. *)
Bypasses_AnyLockout(s, action, safety, lockout) == safety /\ lockout # NoLockout
Bypasses_Never(s, action, safety, lockout) == FALSE

Bypasses(s, action, safety, lockout) ==
    /\ safety
    /\ action = "disable"
    /\ s.last = "enable"
    /\ lockout[1] = "minimum_on"

(* The order of the tests is the source's: bypass, duplicate, defer, allow. *)
Verdict(s, action, now, safety, corrective, evidence) ==
    LET lockout == BlockingLockout(s, action, now, corrective, evidence)
    IN  IF Bypasses(s, action, safety, lockout) THEN "bypass"
        ELSE IF s.last = action /\ ~corrective THEN "suppress_duplicate"
        ELSE IF lockout # NoLockout THEN "defer"
        ELSE "dispatch"

BypassState(s, action, now) ==
    [ClearDeferred(s) EXCEPT !.demand = action, !.bypass = TRUE,
                             !.outcome = "requested", !.at = now]

DuplicateState(s, action, now) ==
    [ClearDeferred(s) EXCEPT !.phase = SettledPhase(action), !.demand = action,
                             !.bypass = FALSE, !.outcome = "suppressed_duplicate",
                             !.at = now]

DeferredState(s, action, now, lockout) ==
    [s EXCEPT !.phase = DeferredPhase(action), !.demand = action,
              !.lockout = lockout[1], !.lockoutUntil = lockout[2],
              !.deferred = action, !.deferredUntil = lockout[2],
              !.since = IF s.deferred = action /\ s.since # None THEN s.since ELSE now,
              !.bypass = FALSE, !.outcome = "deferred", !.at = now]

AllowedState(s, action, now) ==
    [ClearDeferred(s) EXCEPT !.demand = action, !.bypass = FALSE,
                             !.outcome = "requested", !.at = now]

Assessed(s, action, now, safety, corrective, evidence) ==
    LET verdict == Verdict(s, action, now, safety, corrective, evidence)
    IN  CASE verdict = "bypass" -> BypassState(s, action, now)
          [] verdict = "suppress_duplicate" -> DuplicateState(s, action, now)
          [] verdict = "defer" ->
               DeferredState(s, action, now,
                             BlockingLockout(s, action, now, corrective, evidence))
          [] verdict = "dispatch" -> AllowedState(s, action, now)

Dispatches(verdict) == verdict \in {"bypass", "dispatch"}

------------------------------------------------------------------------------
(* What is recorded afterwards.  The argument s is the assessed snapshot.  *)

(* record_dispatched: a successful command starts the opposite protection. *)
RecordDispatched(s, verdict, now) ==
    [ClearDeferred(s) EXCEPT
        !.phase = SettledPhase(s.demand),
        !.last = s.demand,
        !.enabledAt = IF s.demand = "enable" THEN now ELSE @,
        !.disabledAt = IF s.demand = "disable" THEN now ELSE @,
        !.enableFrom = IF s.demand = "disable" /\ MinOff > 0 THEN now + MinOff ELSE None,
        !.disableFrom = IF s.demand = "enable" /\ MinOn > 0 THEN now + MinOn ELSE None,
        !.bypass = (verdict = "bypass"),
        !.outcome = "dispatched",
        !.at = now]

(* Mutant of RecordFailed: the failed command becomes command history. *)
RecordFailed_AsCommand(s, now) ==
    [s EXCEPT !.last = s.demand, !.outcome = "failed", !.at = now]

RecordFailed(s, now) == [s EXCEPT !.outcome = "failed", !.at = now]

RecordSuppressedDuplicate(s, now) ==
    [s EXCEPT !.outcome = "suppressed_duplicate", !.at = now]

StoppedState(s, now) ==
    [ClearDeferred(s) EXCEPT !.phase = "stopped", !.bypass = FALSE, !.at = now]

(* fatal_state also forgets both protections, and raises the bypass flag.  *)
FatalState(s, now) ==
    [ClearDeferred(s) EXCEPT !.phase = "fatal_error", !.enableFrom = None,
                             !.disableFrom = None, !.bypass = TRUE, !.at = now]

------------------------------------------------------------------------------
(* __post_init__ of SourceControlState: the constructor raises ValueError  *)
(* for a snapshot that is not coherent.                                    *)
Coherent(s) ==
    /\ (s.lockout = None) <=> (s.lockoutUntil = None)
    /\ (s.deferred = None) <=> (s.since = None)
    /\ (s.deferred = None) <=> (s.deferredUntil = None)
    /\ s.deferred = None => s.lockout = None
    /\ s.deferred # None =>
         /\ s.deferred = s.demand
         /\ s.deferredUntil = s.lockoutUntil
         /\ s.lockout = IF s.deferred = "enable" THEN "minimum_off" ELSE "minimum_on"
    /\ s.bypass => s.lockout = None
==============================================================================
