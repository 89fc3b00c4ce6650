--------------------------------- MODULE MCHeatingHost ---------------------------------
(* A host without actuators, followed through its whole life, and one with *)
(* the actuator Home Assistant composes, followed through evaluations.     *)
EXTENDS HeatingHost

MCConfigurations ==
    [radiator |-> [mode |-> "setpoint_assist", owned |-> TRUE, always |-> TRUE]]
MCFittings == {{}, {"radiator"}}

MCMaxEvents == [f \in MCFittings |-> IF f = {} THEN 5 ELSE 3]
========================================================================================
