----------------------------- MODULE HeatingPerformance -----------------------------
(***************************************************************************)
(* The passive observation of heating: the episode of a zone               *)
(* (heating_episode_observer.py), the assessment of its progress           *)
(* (heating_performance_assessor.py, assess_progress) and what the monitor *)
(* makes of a row of assessments - a problem, its confirmed recovery, an   *)
(* anomaly with a lifecycle (heating_performance_monitor.py,               *)
(* shadow_heating_performance_monitor.py) - as operators on one record.    *)
(*                                                                         *)
(* One zone, whose target never changes while a runtime lives, so no       *)
(* window is rebased on a new target.  Left out: the report on a completed *)
(* episode (assess), which nothing reads back.  An assessment is known by  *)
(* its episode and its time, like heating_performance_assessment_id.       *)
(***************************************************************************)
EXTENDS Values, Sequences, FiniteSets

CONSTANTS
    Target,           \* the target temperature of the zone
    NearTarget,       \* near_target_tolerance
    Meaningful,       \* meaningful_temperature_change
    Window,           \* observation_window
    MinimumDuration,  \* minimum_observation_duration
    MinimumSamples,   \* minimum_valid_sample_count
    MaximumAge,       \* maximum_measurement_age
    Confirmations,    \* recovery_confirmation_count
    MaxSamples        \* max_samples_per_episode (100)

ASSUME PerformanceCriteria ==
    /\ {Target, NearTarget, Meaningful, Window, MinimumDuration, MaximumAge} \subseteq Nat
    /\ {MinimumSamples, Confirmations, MaxSamples} \subseteq Nat \ {0}

(* One sample: the reading the zone's demand rests on, and when the source *)
(* was last enabled, if that is the last thing it was told; and an episode *)
(* (HeatingEpisodeSample, HeatingEpisode).                                 *)
Samples == [at : Int, valid : BOOLEAN, reading : Maybe([value : Int, at : Int]), permittedAt : Maybe(Int)]
Episodes == [started : Int, active : BOOLEAN, truncated : BOOLEAN, samples : Seq(Samples)]
ASSUME NoneIsNoEpisode == None \notin Episodes

NotObserved ==
    [episode |-> None,    \* the active episode of the zone
     pending |-> None,    \* the latest snapshot of an episode not yet assessed
     problem |-> None,    \* _problem_status
     recoveries |-> 0,    \* _recovery_counts
     counted |-> None,    \* _last_recovery_assessment_id
     anomaly |-> None]    \* the episode of the active anomaly

Sample(at, reading, permittedAt) ==
    [at |-> at, valid |-> reading # None, reading |-> reading, permittedAt |-> permittedAt]

Later(samples, sample) ==
    LET all == Append(samples, sample)
    IN  IF Len(all) > MaxSamples THEN Tail(all) ELSE all

(* observe, and submit_observation of what it returns: an episode begins   *)
(* with confirmed demand and ends with the first other evaluation; the     *)
(* monitor keeps the latest snapshot of it only.                           *)
Observe(p, demand, sample) ==
    LET known == p.episode
        begun == [started |-> sample.at, active |-> TRUE, truncated |-> FALSE, samples |-> <<sample>>]
        updated == [known EXCEPT !.samples = Later(@, sample),
                                 !.truncated = @ \/ Len(known.samples) = MaxSamples,
                                 !.active = demand = "heat"]
        shown == IF known = None THEN begun ELSE updated
    IN  IF known = None /\ demand # "heat" THEN p
        ELSE [p EXCEPT !.episode = IF shown.active THEN shown ELSE None, !.pending = shown]

(* terminate_all: the runtime stops or fails.                              *)
Terminate(p) ==
    IF p.episode = None THEN p
    ELSE [p EXCEPT !.episode = None, !.pending = [p.episode EXCEPT !.active = FALSE]]

(* assess_progress: how the temperature answered since the source was      *)
(* enabled, within the window, by the distinct readings of that time.      *)
Progress(episode) ==
    LET all == episode.samples
        latest == all[Len(all)]
        floors == {episode.started, latest.at - Window, latest.permittedAt} \ {None}
        boundary == CHOOSE t \in floors : \A u \in floors : u <= t
        chosen == {i \in DOMAIN all : all[i].at >= boundary /\ all[i].valid}
        At(i) == all[i].reading.at
        Value(i) == all[i].reading.value
        first == CHOOSE i \in chosen : \A j \in chosen : At(i) <= At(j)
        last == CHOOSE i \in chosen : \A j \in chosen : At(i) >= At(j)
        change == Value(last) - Value(first)
        near == Value(last) \in (Target - NearTarget)..(Target + NearTarget)
        conflicting == \E i, j \in chosen :
            (i < j /\ At(j) < At(i)) \/ (At(i) = At(j) /\ Value(i) # Value(j))
    IN  IF \/ episode.truncated
           \/ latest.permittedAt = None
           \/ ~latest.valid
           \/ conflicting
           \/ latest.at - latest.reading.at > MaximumAge
           \/ Cardinality({At(i) : i \in chosen}) < MinimumSamples
           \/ At(last) - At(first) < MinimumDuration
        THEN "insufficient_evidence"
        ELSE IF (near /\ change > -Meaningful) \/ change >= Meaningful THEN "normal"
        ELSE IF change <= -Meaningful THEN "anomalous"
        ELSE "degraded"

(* _apply_recovery: a problem of this episode is over once enough distinct *)
(* assessments in a row were normal.                                       *)
OfEpisode(p, episode) ==
    IF p.problem # None /\ p.problem[1] # episode
    THEN [p EXCEPT !.problem = None, !.recoveries = 0, !.counted = None] ELSE p

ApplyRecovery_CountsRepeats(q, id, raw) ==
    LET p == OfEpisode(q, id[1])
        count == p.recoveries + 1
    IN  IF raw \in {"degraded", "anomalous"}
        THEN [p EXCEPT !.problem = <<id[1], raw>>, !.recoveries = 0, !.counted = None]
        ELSE IF raw = "insufficient_evidence" THEN [p EXCEPT !.recoveries = 0, !.counted = None]
        ELSE IF p.problem = None THEN [p EXCEPT !.recoveries = 0]
        ELSE IF count < Confirmations THEN [p EXCEPT !.recoveries = count, !.counted = id]
        ELSE [p EXCEPT !.problem = None, !.recoveries = 0, !.counted = None]

ApplyRecovery(q, id, raw) ==
    LET p == OfEpisode(q, id[1])
        count == IF p.counted = id THEN p.recoveries ELSE p.recoveries + 1
    IN  IF raw \in {"degraded", "anomalous"}
        THEN [p EXCEPT !.problem = <<id[1], raw>>, !.recoveries = 0, !.counted = None]
        ELSE IF raw = "insufficient_evidence" THEN [p EXCEPT !.recoveries = 0, !.counted = None]
        ELSE IF p.problem = None THEN [p EXCEPT !.recoveries = 0]
        ELSE IF count < Confirmations THEN [p EXCEPT !.recoveries = count, !.counted = id]
        ELSE [p EXCEPT !.problem = None, !.recoveries = 0, !.counted = None]

(* _observe_anomaly: the anomaly after an assessment, and its transitions. *)
Anomaly(episode, lifecycle, at) == [episode |-> episode, lifecycle |-> lifecycle, at |-> at]

ObserveAnomaly_KeepsReplaced(p, id, raw, recovered, active) ==
    LET current == p.anomaly
        over == current # None /\ (recovered \/ ~active)
        starts == current = None /\ active /\ raw = "anomalous"
    IN  [anomaly |-> IF starts THEN id[1] ELSE IF over THEN None ELSE current,
         out |-> IF over THEN <<Anomaly(current, IF recovered THEN "cleared" ELSE "observation_ended", id[2])>>
                 ELSE IF starts THEN <<Anomaly(id[1], "started", id[2])>> ELSE <<>>]

ObserveAnomaly(p, id, raw, recovered, active) ==
    LET replaced == p.anomaly # None /\ p.anomaly # id[1]
        current == IF replaced THEN None ELSE p.anomaly
        over == current # None /\ (recovered \/ ~active)
        starts == current = None /\ active /\ raw = "anomalous"
    IN  [anomaly |-> IF starts THEN id[1] ELSE IF over THEN None ELSE current,
         out |-> (IF replaced THEN <<Anomaly(p.anomaly, "observation_ended", id[2])>> ELSE <<>>)
                 \o (IF over THEN <<Anomaly(current, IF recovered THEN "cleared" ELSE "observation_ended", id[2])>>
                     ELSE IF starts THEN <<Anomaly(id[1], "started", id[2])>> ELSE <<>>)]

(* One episode snapshot assessed: the monitor after it, the transitions to *)
(* record, and the raw assessment.                                         *)
Assessed(p, episode) ==
    LET id == <<episode.started, episode.samples[Len(episode.samples)].at>>
        raw == Progress(episode)
        q == ApplyRecovery(p, id, raw)
        had == OfEpisode(p, id[1]).problem # None
        recovered == raw = "normal" /\ had /\ q.problem = None
        seen == ObserveAnomaly(q, id, raw, recovered, episode.active)
    IN  [perf |-> [q EXCEPT !.anomaly = seen.anomaly], out |-> seen.out, id |-> id, raw |-> raw]
==============================================================================
