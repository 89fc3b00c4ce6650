------------------------------ MODULE HeatDemandPolicy ------------------------------
(***************************************************************************)
(* From a room temperature to the heat demand of the building: the pure    *)
(* policies ControlRuntime chains on every evaluation                      *)
(* (src/src/controlel/application/services and .../state):                 *)
(*   temperature_hysteresis_policy       a reading and the last demand     *)
(*   heat_demand_aggregator              is the stored zone demand usable? *)
(*   zone_heat_demand_confirmation_policy has heat been asked long enough? *)
(*   demand_arbitrator                   one status for all zones          *)
(*   heat_demand_safety_policy           how long has it been unknown?     *)
(*   heat_demand_deadline_calculator     when does usability change?       *)
(* One unit of time is datetime.resolution, the least step between times.  *)
(***************************************************************************)
EXTENDS Values

CONSTANTS
    Zones,           \* the configured zones, one primary sensor each
    Target,          \* target temperature (one for all zones)
    OnDiff, OffDiff, \* turn_on_differential, turn_off_differential
    MaxAge,          \* primary_measurement_max_age
    ConfirmFor,      \* confirmation_duration
    Grace,           \* grace_period of the safety policy
    TimeoutAction    \* the action once the grace has elapsed

ASSUME DemandDurations == {OnDiff, OffDiff, MaxAge, ConfirmFor, Grace} \subseteq Nat
ASSUME TimeoutIsAction == TimeoutAction \in Actions

HEAT == "heat_required"
NO_HEAT == "no_heat_required"
UNKNOWN == "indeterminate"
Statuses == {HEAT, NO_HEAT, UNKNOWN}

------------------------------------------------------------------------------
(* TemperatureHysteresisPolicy.evaluate, after HeatingStrategy's raw       *)
(* decision: outside the band the reading decides, inside it the previous  *)
(* demand is kept; without a previous demand, or without a band, the raw   *)
(* decision stands.                                                        *)
RawDemand(temperature) == IF temperature < Target THEN HEAT ELSE NO_HEAT

Hysteresis(previous, temperature) ==
    LET enableAt == Target - OnDiff
        disableAt == Target + OffDiff
    IN  IF previous = None \/ (OnDiff = 0 /\ OffDiff = 0) THEN RawDemand(temperature)
        ELSE IF previous = HEAT /\ temperature >= disableAt THEN NO_HEAT
        ELSE IF previous = NO_HEAT /\ temperature <= enableAt THEN HEAT
        ELSE previous

------------------------------------------------------------------------------
(* HeatDemandAggregator.evaluate.  A stored demand is [heat, at] or None.  *)

Expired(demand, now) == demand.at < now - MaxAge
FutureDated(demand, now) == demand.at > now

ZoneInput(demand, now) ==
    IF demand = None \/ Expired(demand, now) \/ FutureDated(demand, now) THEN UNKNOWN
    ELSE IF demand.heat THEN HEAT ELSE NO_HEAT

------------------------------------------------------------------------------
(* ZoneHeatDemandConfirmationPolicy.evaluate.  A confirmation state is     *)
(* None or [phase, confirmed, until]; until is set while pending only.     *)

Confirmation(phase, confirmed, until) ==
    [phase |-> phase, confirmed |-> confirmed, until |-> until]

WasConfirmed(state) == state # None /\ state.confirmed = HEAT
IsPending(state) == state # None /\ state.phase = "pending"

(* Mutant of Confirm: a second request confirms a pending one at once. *)
Confirm_BySecondRequest(state, input, now) ==
    CASE input = UNKNOWN ->
           Confirmation("indeterminate", IF WasConfirmed(state) THEN HEAT ELSE NO_HEAT, None)
      [] input = NO_HEAT -> Confirmation("no_heat_required", NO_HEAT, None)
      [] input = HEAT /\ (ConfirmFor = 0 \/ WasConfirmed(state) \/ IsPending(state)) ->
           Confirmation("confirmed", HEAT, None)
      [] OTHER -> Confirmation("pending", NO_HEAT, now + ConfirmFor)

Confirm(state, input, now) ==
    CASE input = UNKNOWN ->
           Confirmation("indeterminate", IF WasConfirmed(state) THEN HEAT ELSE NO_HEAT, None)
      [] input = NO_HEAT ->
           Confirmation("no_heat_required", NO_HEAT, None)
      [] input = HEAT /\ (ConfirmFor = 0 \/ (WasConfirmed(state) /\ ~IsPending(state))) ->
           Confirmation("confirmed", HEAT, None)
      [] input = HEAT /\ ConfirmFor # 0 /\ IsPending(state) ->
           IF now < state.until THEN state ELSE Confirmation("confirmed", HEAT, None)
      [] OTHER ->
           Confirmation("pending", NO_HEAT, now + ConfirmFor)

(* output_demand: a pending request is not heat yet.                       *)
OutputDemand(state) ==
    CASE state.phase = "indeterminate" -> UNKNOWN
      [] state.phase = "confirmed" -> HEAT
      [] OTHER -> NO_HEAT

(* preserves_confirmed_heat, control_runtime.py:757-760. *)
PreservesHeat(state) == state.phase = "indeterminate" /\ state.confirmed = HEAT

(* stopped_state and fatal_state keep the confirmed demand, drop the rest. *)
TerminalConfirmation(state, phase) ==
    Confirmation(phase, IF state = None THEN NO_HEAT ELSE state.confirmed, None)

------------------------------------------------------------------------------
(* MultiZoneDemandArbitrator.resolve over the confirmation states.         *)
BuildingDemand(states) ==
    IF \E z \in Zones : OutputDemand(states[z]) = HEAT THEN HEAT
    ELSE IF \E z \in Zones : PreservesHeat(states[z]) THEN UNKNOWN
    ELSE IF \E z \in Zones : OutputDemand(states[z]) = NO_HEAT THEN NO_HEAT
    ELSE UNKNOWN

------------------------------------------------------------------------------
(* HeatDemandSafetyPolicy.evaluate: since is indeterminate_since.  A       *)
(* scheduled evaluation passes its deadline as the hint.                   *)

IndeterminateSince(since, building, now, hint) ==
    IF building # UNKNOWN THEN None
    ELSE IF since # None THEN since
    ELSE IF hint # None THEN hint
    ELSE now

SafetyPhase(since, now) ==
    IF since = None THEN "determinate"
    ELSE IF now < since + Grace THEN "grace" ELSE "timed_out"

------------------------------------------------------------------------------
(* HeatDemandDeadlineCalculator.next_eligibility_change_at: the deadlines  *)
(* of all zones; expiry is inclusive, so a demand expires one unit later.  *)
EligibilityDeadlines(demands, now) ==
    LET stored == {demands[z] : z \in Zones} \ {None}
    IN  {d.at : d \in {e \in stored : FutureDated(e, now)}}
        \cup {d.at + MaxAge + 1 : d \in {e \in stored : ~FutureDated(e, now)
                                                          /\ e.at + MaxAge + 1 > now}}
==============================================================================
