-------------------------------- MODULE Notifications --------------------------------
(***************************************************************************)
(* Which activity revisions are told to whom: NotificationPlanner and the  *)
(* cursor of NotificationProcessor, as operators on one record             *)
(* (src/src/controlel/application/services/notification_planner.py,        *)
(* notification_policy.py, notification_processor.py).                     *)
(*                                                                         *)
(* A recipient is a name and the activity types that its minimum level and *)
(* its categories let through; the planner's two rates, ordinary and       *)
(* critical, differ in their limits only.  `judged' counts the revisions   *)
(* processed; the code has no such counter.                                *)
(***************************************************************************)
EXTENDS Values, Sequences

CONSTANTS
    Recipients,     \* the enabled recipients, in their order: [name, wants]
    RateWindow,     \* rate_window
    RateLimit,      \* maximum_per_window
    SeenCapacity    \* history_capacity * 4

ASSUME NotificationPolicy ==
    /\ {RateWindow, RateLimit, SeenCapacity} \subseteq Nat \ {0}
    /\ Len(Recipients) \in Nat

NoNotices ==
    [seen |-> <<>>,      \* _seen
     rate |-> <<>>,      \* _rate: times of intents, by recipient and kind
     cursor |-> 0,       \* _source_last_processed_sequence
     missed |-> 0,       \* _source_events_missed
     overflows |-> 0,    \* _source_overflow_occurrences
     judged |-> 0]

(* ACTIVITY_NOTIFICATION_RULES: the one status that is told, by type, and  *)
(* what shares a rate.                                                     *)
NotifiableStatus(type) ==
    CASE type \in {"heating_started", "heating_stopped", "source_state_corrected",
                   "safety_fallback_applied"} -> "completed"
      [] type = "heat_demand_cancelled" -> "cancelled"
      [] type \in {"source_correction_failed", "source_command_failed",
                   "runtime_restart_exhausted"} -> "failed"
      [] type \in {"measurement_degraded", "runtime_failsafe_entered"} -> "open"
      [] type \in {"measurement_recovered", "runtime_recovered"} -> "recovered"
Category(type) ==
    CASE type \in {"heating_started", "heating_stopped", "heat_demand_cancelled"} -> "demand"
      [] type \in {"source_state_corrected", "source_correction_failed"} -> "source_resilience"
      [] type = "source_command_failed" -> "source_control"
      [] type \in {"measurement_degraded", "measurement_recovered"} -> "measurement"
      [] type = "safety_fallback_applied" -> "safety"
      [] type = "runtime_failsafe_entered" -> "supervision"
      [] type = "runtime_recovered" -> "runtime"
      [] type = "runtime_restart_exhausted" -> "critical"

(* _deduplication_key and _remember                                        *)
Key(name, activity) == <<name, activity.id, activity.status, activity.outcome>>
Remembers(seen, key) == \E i \in DOMAIN seen : seen[i] = key
Remember(seen, key) ==
    Append(IF Len(seen) = SeenCapacity THEN Tail(seen) ELSE seen, key)

(* _rate_limited: what is at least a window older than this activity goes, *)
(* from the front only.                                                    *)
Bucket(p, slot, now) ==
    LET times == IF slot \in DOMAIN p.rate THEN p.rate[slot] ELSE <<>>
        young == {i \in DOMAIN times : times[i] > now - RateWindow}
    IN  IF young = {} THEN <<>> ELSE SubSeq(times, CHOOSE i \in young : \A j \in young : i <= j, Len(times))

(* plan: the intents of one revision, one recipient after the other.       *)
Intend(acc, recipient, activity) ==
    LET slot == <<recipient.name, Category(activity.type)>>
        key == Key(recipient.name, activity)
        bucket == Bucket(acc.plan, slot, activity.at)
        limited == Len(bucket) >= RateLimit
        kept == IF limited THEN bucket ELSE Append(bucket, activity.at)
        rated == [acc.plan EXCEPT !.rate = [s \in DOMAIN @ \cup {slot} |-> IF s = slot THEN kept ELSE @[s]]]
    IN  IF activity.type \notin recipient.wants \/ Remembers(acc.plan.seen, key) THEN acc
        ELSE IF limited THEN [acc EXCEPT !.plan = rated]
        ELSE [plan |-> [rated EXCEPT !.seen = Remember(@, key)],
              intents |-> Append(acc.intents, key)]

Plan(p, activity) ==
    IF activity.status # NotifiableStatus(activity.type) THEN [plan |-> p, intents |-> <<>>]
    ELSE LET pass[i \in 0 .. Len(Recipients)] ==
                 IF i = 0 THEN [plan |-> p, intents |-> <<>>]
                 ELSE Intend(pass[i - 1], Recipients[i], activity)
         IN  pass[Len(Recipients)]

(* The revisions between the cursor and the next retained one were         *)
(* replaced or pushed out before they were read.                           *)
Skip(p, seq) == [p EXCEPT !.missed = @ + seq - (p.cursor + 1), !.cursor = seq - 1]

(* What is left to process of a snapshot of the activities, the revision   *)
(* that comes next, and the end of a pass.                                 *)
Unread(p, activities) == {a \in activities : a.seq > p.cursor}
NextIn(left) == CHOOSE a \in left : \A b \in left : a.seq <= b.seq
EndPass(p, total, gap) ==
    LET rest == p.cursor < total
        p1 == IF rest THEN [p EXCEPT !.missed = @ + total - p.cursor, !.cursor = total] ELSE p
    IN  IF gap \/ rest THEN [p1 EXCEPT !.overflows = @ + 1] ELSE p1
==============================================================================
