------------------------------- MODULE UserActivities -------------------------------
(***************************************************************************)
(* User activities: what UserActivityComposer makes of the retained        *)
(* operational events, and the stream that keeps the latest revision of    *)
(* each activity, as operators on one record                               *)
(* (src/src/controlel/application/services/user_activity_composer.py and   *)
(* user_activity_stream.py).                                               *)
(*                                                                         *)
(* A lifecycle keeps when it began, when heating began in it and the last  *)
(* outcome of a command.  Left out: the provenance an activity lists (its  *)
(* events, zones, sources, parameters and their bounds), which nothing     *)
(* decides on.  `composed' counts the events composed; the code has no     *)
(* such counter, the accounting of the cursor is stated with it.           *)
(***************************************************************************)
EXTENDS Values, Sequences, FiniteSets

CONSTANTS
    OpenCapacity,      \* open_activity_capacity (64)
    ActivityCapacity   \* activity_capacity (200)

ASSUME ActivityCapacities == {OpenCapacity, ActivityCapacity} \subseteq Nat \ {0}

NoActivities ==
    [open |-> <<>>,       \* _open: lifecycles by activity id
     cursor |-> 0,        \* _source_last_processed_sequence
     missed |-> 0,        \* _source_events_missed
     overflows |-> 0,     \* _source_overflow_occurrences
     composed |-> 0,
     stumbled |-> FALSE,  \* the last pass met an event it could not compose
     activities |-> {},   \* the retained revisions, one of each activity
     revisions |-> 0]     \* _total_revisions_emitted

Lifecycle(at) == [started |-> at, heatingAt |-> None, outcome |-> None]

(* UserActivityStream.publish: a later revision replaces the earlier one   *)
(* in its place, a new activity may push out the oldest.  The places are   *)
(* in the order of the first revisions (`born').                           *)
Oldest(activities) == CHOOSE a \in activities : \A b \in activities : a.born <= b.born
Earlier(s, id) == {a \in s.activities : a.id = id}
Displaced(s, id) ==
    IF Earlier(s, id) = {} /\ Cardinality(s.activities) = ActivityCapacity
    THEN {Oldest(s.activities)} ELSE Earlier(s, id)
Retain(s, activity) ==
    LET seq == s.revisions + 1
        earlier == Earlier(s, activity.id)
        born == IF earlier = {} THEN seq ELSE Oldest(earlier).born
    IN  [s EXCEPT !.revisions = seq,
                  !.activities = (@ \ Displaced(s, activity.id)) \cup
                                 {[activity EXCEPT !.seq = seq, !.born = born]}]

(* _publish.  An activity that would end before it began cannot be built   *)
(* (UserActivity.__post_init__): nothing is published and the rest of the  *)
(* handler is skipped.                                                     *)
PublishApart(s, key, discriminator, context, type, status, at, outcome) ==
    IF s.stumbled THEN s
    ELSE IF at < context.started THEN [s EXCEPT !.stumbled = TRUE]
    ELSE Retain(s, [id |-> <<key, type, discriminator>>, type |-> type, status |-> status,
                    of |-> key, at |-> at, outcome |-> outcome, seq |-> 0, born |-> 0])
Publish(s, key, context, type, status, at, outcome) ==
    PublishApart(s, key, None, context, type, status, at, outcome)

Discard(s, keys) ==
    [s EXCEPT !.activities = {a \in @ : a.of \notin keys}]

IsOpen(s, key) == key \in DOMAIN s.open
Started(s, key, at) ==
    IF key = None \/ IsOpen(s, key) \/ Cardinality(DOMAIN s.open) >= OpenCapacity THEN s
    ELSE [s EXCEPT !.open = [k \in DOMAIN @ \cup {key} |-> IF k = key THEN Lifecycle(at) ELSE @[k]]]
Popped(s, key) ==
    [s EXCEPT !.open = [k \in DOMAIN @ \ {key} |-> @[k]]]

(* _capture: only a command's outcome is kept of an event.                 *)
CommandOutcome(event) ==
    CASE event.code \in {"source_requested", "safety_disable_requested"} -> "requested"
      [] event.code \in {"source_command_dispatched", "corrective_action_dispatched"} -> "dispatched"
      [] event.code = "source_command_deferred" -> "deferred"
      [] event.code = "source_command_failed" -> "failed"
      [] OTHER -> None
Captured(s, event) ==
    IF ~IsOpen(s, event.activity) \/ CommandOutcome(event) = None THEN s
    ELSE [s EXCEPT !.open[event.activity].outcome = CommandOutcome(event)]

(* What the handlers that publish do, on a lifecycle that is open.         *)
CommandDispatched(s, event) ==
    LET key == event.activity
        began == [s EXCEPT !.open[key].heatingAt = event.at]
        told == Publish(s, key, Lifecycle(event.at), "heating_stopped", "completed", event.at, event.detail)
    IN  IF key[1] # "heating-episode" THEN s
        ELSE IF event.detail = "enable"
        THEN Publish(began, key, Lifecycle(event.at), "heating_started", "completed", event.at, event.detail)
        ELSE IF s.open[key].heatingAt = None THEN s
        ELSE Popped(told, key)

CompleteReconciliation(s, event) ==
    LET context == s.open[event.activity]
        popped == Popped(s, event.activity)
    IN  IF event.detail # "reported_agreement" \/ context.outcome # "dispatched" THEN popped
        ELSE Publish(popped, event.activity, context, "source_state_corrected", "completed",
                     event.at, event.detail)

MeasurementRecovered(s, event) ==
    LET context == s.open[event.activity]
        closed == Publish(Popped(s, event.activity), event.activity, context,
                          "measurement_degraded", "recovered", event.at, "recovered")
    IN  Publish(closed, event.activity, context, "measurement_recovered", "recovered", event.at, "restored")

RuntimeRecovered(s, event) ==
    LET context == s.open[event.activity]
        closed == Publish(Popped(s, event.activity), event.activity, context,
                          "runtime_failsafe_entered", "recovered", event.at, "restored")
    IN  Publish(closed, event.activity, context, "runtime_recovered", "recovered", event.at, "restored")

DemandCancelled(s, event) ==
    LET context == s.open[event.activity]
        told == IF context.heatingAt # None THEN s
                ELSE Publish(s, event.activity, context, "heat_demand_cancelled", "cancelled",
                             event.at, "cancelled")
    IN  IF event.detail = "building_episode_cancelled" /\ ~told.stumbled
        THEN Popped(told, event.activity) ELSE told

(* A failed correction ends its lifecycle; any other failed command is     *)
(* told once per failure, of a lifecycle of its own when none is open.     *)
TellFailure(s, event, seq) ==
    LET key == event.activity
        corrective == key[1] = "source-reconciliation"
        context == IF IsOpen(s, key) THEN s.open[key] ELSE Lifecycle(event.at)
        base == IF corrective THEN Popped(s, key) ELSE s
    IN  IF corrective
        THEN Publish(base, key, context, "source_correction_failed", "failed", event.at, "command_failed")
        ELSE PublishApart(base, key, seq, context, "source_command_failed", "failed", event.at,
                          "command_failed")

Starting == {"source_drift_detected", "measurement_degraded", "heat_demand_started",
             "heat_demand_confirmed", "failsafe_entered", "restart_budget_exhausted"}
StartsHeating(event) ==
    event.code = "source_command_dispatched" /\ event.activity # None /\ event.activity[1] = "heating-episode"

(* _compose_event: the lifecycle an event opens, what it captures of the   *)
(* event, and what is published.                                           *)
Composed(s, event, seq) ==
    LET key == event.activity
        begun == IF event.code \in Starting \/ StartsHeating(event) THEN Started(s, key, event.at) ELSE s
        c == Captured(begun, event)
        Tell(type, status) == Publish(c, key, c.open[key], type, status, event.at, None)
    IN  IF event.code = "source_command_failed" THEN TellFailure(c, event, seq)
        ELSE IF key = None \/ ~IsOpen(c, key) THEN c
        ELSE CASE event.code = "source_command_dispatched" -> CommandDispatched(c, event)
               [] event.code = "source_reconciliation_completed" -> CompleteReconciliation(c, event)
               [] event.code = "measurement_recovered" -> MeasurementRecovered(c, event)
               [] event.code = "runtime_recovered" -> RuntimeRecovered(c, event)
               [] event.code = "heat_demand_cancelled" -> DemandCancelled(c, event)
               [] event.code \in {"measurement_degraded", "safety_grace_started", "safety_grace_expired"} ->
                    Tell("measurement_degraded", "open")
               [] event.code = "safety_disable_requested" -> Tell("safety_fallback_applied", "completed")
               [] event.code = "failsafe_entered" -> Tell("runtime_failsafe_entered", "open")
               [] event.code = "restart_budget_exhausted" -> Tell("runtime_restart_exhausted", "failed")
               [] OTHER -> c

(* process_available.  What was pushed out of the stream before it was     *)
(* read is counted, and every lifecycle that was open is given up with     *)
(* what was told of it.  The first event that cannot be composed ends the  *)
(* pass, before the cursor moves.                                          *)
Overrun_KeepsOpen(s, first) ==
    IF s.cursor + 1 >= first THEN s
    ELSE [s EXCEPT !.missed = @ + first - (s.cursor + 1), !.overflows = @ + 1,
                   !.cursor = first - 1, !.open = <<>>]

Overrun_MissesOne(s, first) ==
    IF s.cursor + 1 >= first THEN s
    ELSE Discard([s EXCEPT !.missed = @ + first - s.cursor, !.overflows = @ + 1,
                           !.cursor = first - 1, !.open = <<>>], DOMAIN s.open)

Overrun(s, first) ==
    IF s.cursor + 1 >= first THEN s
    ELSE Discard([s EXCEPT !.missed = @ + first - (s.cursor + 1), !.overflows = @ + 1,
                           !.cursor = first - 1, !.open = <<>>], DOMAIN s.open)

ComposeNext(s, event, seq) ==
    LET done == Composed(s, event, seq)
    IN  IF s.stumbled \/ seq <= s.cursor THEN s
        ELSE IF done.stumbled THEN done
        ELSE [done EXCEPT !.cursor = seq, !.composed = @ + 1]

ProcessAvailable(s, retained, total) ==
    LET first == total - Len(retained) + 1
        start == [s EXCEPT !.stumbled = FALSE]
        begun == IF retained = <<>> THEN start ELSE Overrun(start, first)
        pass[i \in 0 .. Len(retained)] ==
            IF i = 0 THEN begun ELSE ComposeNext(pass[i - 1], retained[i], first + i - 1)
    IN  pass[Len(retained)]
==============================================================================
