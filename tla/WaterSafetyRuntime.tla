----------------------------- MODULE WaterSafetyRuntime -----------------------------
(***************************************************************************)
(* The Water Safety runtime of one moisture sensor, as operators on its    *)
(* snapshot (src/src/controlel/application/water_safety/runtime.py).       *)
(*                                                                         *)
(* An operation runs on a worker that waits whenever evidence is written   *)
(* (_emit) or an output is asked for, and the snapshot changes between     *)
(* these waits.  An operation gives the snapshot it has when it first      *)
(* waits, its waits, each with the snapshot it has afterwards, and whether *)
(* it saves the last one.  Of the evidence only the writes before a change *)
(* are kept.  A failed request or write is recorded and changes nothing    *)
(* else, so an outcome is not part of it.                                  *)
(*                                                                         *)
(* Left out: the content of the evidence, message texts, command and event *)
(* numbers, and last_incident and last_confirmed_observation, which only   *)
(* diagnostics read.  processing_enabled is state # "disabled" and         *)
(* unavailable_since is the deadline less the grace, as                    *)
(* WaterSafetySnapshot.__post_init__ demands.                              *)
(***************************************************************************)
EXTENDS Values, Sequences

CONSTANTS
    Grace,          \* unavailable_grace_seconds
    RepeatEvery,    \* fault_repeat_interval_seconds, or None
    Critical        \* critical_sensor

ASSUME WaterConstants ==
    /\ Grace \in Nat
    /\ RepeatEvery \in Maybe(Nat \ {0})
    /\ Critical \in BOOLEAN

(* MoistureCondition; UNKNOWN and UNAVAILABLE take the same path.          *)
Conditions == {"dry", "wet", "unknown"}

(* raw_value of the sensor, as _map_condition reads it: what is neither    *)
(* wet nor dry is unknown, never dry.                                      *)
Condition(raw) ==
    IF raw \in {"wet", "on", "true", "1"} THEN "wet"
    ELSE IF raw \in {"dry", "off", "false", "0"} THEN "dry"
    ELSE "unknown"

Fresh ==
    [state |-> "ok", latest |-> None, incident |-> None, deadline |-> None,
     repeat |-> None, nextIncident |-> 1]

(* WaterSafetySnapshot.__post_init__: the snapshots that can be built.     *)
Coherent(w) ==
    /\ w.state = "wet" => w.incident # None
    /\ w.state = "ok" => w.incident = None
    /\ w.deadline # None => w.state \in {"ok", "wet"}
    /\ w.repeat # None => w.state = "fault"

NextDeadline(w) ==
    IF w.state = "disabled" THEN None ELSE Earliest({w.deadline, w.repeat} \ {None})

Result(w, out, saves) == [w |-> w, out |-> out, saves |-> saves]
Nothing(w) == Result(w, <<>>, FALSE)

(* The worker waits for ask; the snapshot it then goes on with is w.       *)
Wait(ask, w) == [ask |-> ask, w |-> w]
Asking(asks, w) == [i \in DOMAIN asks |-> Wait(asks[i], w)]

(* From the snapshot w the evidence is written, and then r happens.        *)
RecordFirst(w, r) == Result(w, <<Wait("record", r.w)>> \o r.out, r.saves)

(* A verdict: the next snapshot, and then its requests.                    *)
Verdict(w, asks) == Result(w, Asking(asks, w), TRUE)

EnterSensorFault_EndsIncident(w, at) ==
    Verdict([w EXCEPT !.state = "fault", !.incident = None, !.deadline = None,
                      !.repeat = IF Critical /\ RepeatEvery # None
                                 THEN at + RepeatEvery ELSE None],
            IF Critical THEN <<"notify_fault">> ELSE <<>>)

EnterSensorFault(w, at) ==
    Verdict([w EXCEPT !.state = "fault", !.deadline = None,
                      !.repeat = IF Critical /\ RepeatEvery # None
                                 THEN at + RepeatEvery ELSE None],
            IF Critical THEN <<"notify_fault">> ELSE <<>>)

ProcessDry(w) ==
    Verdict([w EXCEPT !.state = "ok", !.incident = None, !.deadline = None, !.repeat = None],
            IF w.incident = None THEN <<>> ELSE <<"siren_off", "notify_recovery">>)

ProcessWet(w, at, reassert) ==
    LET new == w.incident = None
        incident == IF new THEN [id |-> w.nextIncident, wetAt |-> at, silenced |-> FALSE]
                    ELSE [w.incident EXCEPT !.wetAt = at]
        siren == IF incident.silenced THEN <<>> ELSE <<"siren_on">>
    IN  Verdict([w EXCEPT !.state = "wet", !.incident = incident, !.deadline = None,
                          !.repeat = None, !.nextIncident = IF new THEN @ + 1 ELSE @],
                IF new THEN <<"valve_close", "siren_on", "notify_wet">>
                ELSE IF reassert THEN <<"valve_close">> \o siren ELSE <<>>)

ProcessIndeterminate(w, at) ==
    LET graced == [w EXCEPT !.deadline = IF @ = None THEN at + Grace ELSE @]
    IN  IF w.state = "fault" THEN Verdict(w, <<>>)
        ELSE IF Grace = 0 \/ at >= graced.deadline THEN EnterSensorFault(w, at)
        ELSE Verdict(graced, <<>>)

ProcessObservation(w0, obs, reassert) ==
    LET w == [w0 EXCEPT !.latest = obs] IN
    RecordFirst(w, CASE obs.cond = "dry" -> ProcessDry(w)
                     [] obs.cond = "wet" -> ProcessWet(w, obs.at, reassert)
                     [] OTHER            -> ProcessIndeterminate(w, obs.at))

StartRuntime(w, obs) ==
    IF w.state = "disabled" THEN Result(w, <<>>, TRUE)
    ELSE RecordFirst(w, ProcessObservation(w, obs, TRUE))

Observe(w, obs) ==
    IF w.state = "disabled" THEN Nothing(w)
    ELSE IF w.latest # None /\ obs.at < w.latest.at THEN Result(w, <<>>, TRUE)
    ELSE ProcessObservation(w, obs, FALSE)

TickAt(w, at) ==
    IF w.state = "disabled" THEN Nothing(w)
    ELSE IF w.deadline # None /\ at >= w.deadline THEN EnterSensorFault(w, at)
    ELSE IF w.state = "fault" /\ w.repeat # None /\ at >= w.repeat
         THEN Result(w, <<Wait("notify_fault", w),
                          Wait("record", [w EXCEPT !.repeat = at + RepeatEvery])>>, TRUE)
    ELSE Nothing(w)

Silence(w) ==
    IF w.state = "disabled" \/ w.incident = None \/ w.incident.silenced THEN Nothing(w)
    ELSE Verdict([w EXCEPT !.incident.silenced = TRUE], <<"siren_off">>)

Disable(w) ==
    IF w.state = "disabled" THEN Nothing(w)
    ELSE Result(w, <<Wait("siren_off", w),
                     Wait("record", [w EXCEPT !.state = "disabled", !.deadline = None,
                                              !.repeat = None])>>, TRUE)

Enable(w, obs) ==
    LET resumed == [w EXCEPT !.state = IF w.incident = None THEN "ok" ELSE "wet"] IN
    IF w.state # "disabled" THEN ProcessObservation(w, obs, FALSE)
    ELSE RecordFirst(resumed, ProcessObservation(resumed, obs, TRUE))

(* _restored_snapshot_for_effective: what a new host starts from.  A new   *)
(* revision keeps the old snapshot only while an incident is active.       *)
Restored(saved, sameRevision) ==
    IF saved = None THEN Fresh
    ELSE IF sameRevision \/ saved.incident # None THEN saved ELSE Fresh
==============================================================================
