------------------------------- MODULE ZoneHeatDelivery -------------------------------
(***************************************************************************)
(* What a zone's actuators are told: ZoneHeatDeliveryController and        *)
(* HeatDeliveryPolicy (src/src/controlel/application/services), through    *)
(* the port of custom_components/controlel/heat_delivery.py.  Every        *)
(* evaluation of a zone offers each actuator the value its mode asks for;  *)
(* a value that was accepted before is not sent again.                     *)
(*                                                                         *)
(* Home Assistant composes one actuator, for setpoint assist; the other    *)
(* modes are the core's.  A value is a name here: the zone's target does   *)
(* not change while its runtime runs.  Left out: forwarding a temperature  *)
(* to the actuator, and record_reported_state, which nothing calls.        *)
(***************************************************************************)
EXTENDS Values

CONSTANT Configurations   \* each actuator's configuration: [mode, owned, always]

VARIABLES
    actuators,   \* _states and _successful_values of the actuators fitted
    asked        \* history: the last determinate demand evaluated

delivery == <<actuators, asked>>

Demands == {"heat", "no_heat", "indeterminate"}

(* The commands an actuator may get. *)
Commands == {"zone_target", "assist_target", "heating", "idle", "open", "shut"}
ASSUME NoneIsNoCommand == None \notin Commands

(* accepted: the value in _successful_values; failure: the state's         *)
(* actuator_failure_active; device: what the actuator really is set to;    *)
(* touched: it was set by hand since (both external).                      *)
NewActuator == [accepted |-> None, failure |-> FALSE, device |-> None, touched |-> FALSE]

DeliveryInit(fitted) ==
    /\ actuators = [a \in fitted |-> NewActuator]
    /\ asked = None

(* HeatDeliveryPolicy.desired_commands: the value of the actuator's one    *)
(* command, None when it gets no command.                                  *)
Desired(a, demand) ==
    LET configuration == Configurations[a]
        heating == demand = "heat"
    IN  IF demand = "indeterminate" \/ ~configuration.owned THEN None
        ELSE CASE configuration.mode = "native" -> "zone_target"
               [] configuration.mode = "setpoint_assist" ->
                      IF heating /\ configuration.always THEN "assist_target" ELSE "zone_target"
               [] configuration.mode = "direct_position" -> IF heating THEN "heating" ELSE "idle"
               [] configuration.mode = "binary" -> IF heating THEN "open" ELSE "shut"
               [] OTHER -> None

(* The port takes the command, or fails - with or without its effect.      *)
Executed(actuator, value) ==
    {[accepted |-> value, failure |-> FALSE, device |-> value, touched |-> FALSE]}
    \cup {[actuator EXCEPT !.failure = TRUE, !.device = set] : set \in {actuator.device, value}}

(* Mutant of Dispatched: a suppressed command counts as a delivered one. *)
Dispatched_SuppressedIsDelivered(actuator, value) ==
    IF value = None THEN {actuator}
    ELSE IF value = actuator.accepted THEN {[actuator EXCEPT !.failure = FALSE]}
    ELSE Executed(actuator, value)

(* _dispatch: a value accepted last is suppressed, and a failure keeps the *)
(* value accepted before it.                                               *)
Dispatched(actuator, value) ==
    IF value \in {None, actuator.accepted} THEN {actuator} ELSE Executed(actuator, value)

(* evaluate_zone *)
EvaluateZone(demand) ==
    LET next == [a \in DOMAIN actuators |-> Dispatched(actuators[a], Desired(a, demand))]
    IN  /\ actuators' \in {f \in [DOMAIN actuators -> UNION {next[a] : a \in DOMAIN actuators}] :
                              \A a \in DOMAIN actuators : f[a] \in next[a]}
        /\ asked' = IF demand = "indeterminate" \/ actuators = <<>> THEN asked ELSE demand

(* Somebody sets the actuator by hand.                                     *)
SetByHand(a) ==
    /\ ~actuators[a].touched
    /\ \E demand \in {"heat", "no_heat"} :
         actuators' = [actuators EXCEPT ![a].device = Desired(a, demand), ![a].touched = TRUE]
    /\ UNCHANGED asked

------------------------------------------------------------------------------
(* An actuator that is not set to what the last demand asked of it is one  *)
(* whose failure is shown, or was set by hand: a failed command whose      *)
(* effect came through must not look delivered when the next demand asks   *)
(* for the value accepted before it (_dispatch of                          *)
(* zone_heat_delivery_controller.py).                                      *)
ActuatorFollowsDemand ==
    asked # None =>
        \A a \in DOMAIN actuators :
            \/ actuators[a].device = Desired(a, asked)
            \/ actuators[a].failure \/ actuators[a].touched
======================================================================================
