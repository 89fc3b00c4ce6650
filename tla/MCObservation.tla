-------------------------------- MODULE MCObservation --------------------------------
(* Two recipients: one wants every type of activity, one the critical.     *)
EXTENDS Observation

Told == {"heating_started", "heating_stopped", "source_state_corrected", "safety_fallback_applied",
         "heat_demand_cancelled", "source_correction_failed", "source_command_failed",
         "measurement_degraded", "measurement_recovered", "runtime_failsafe_entered",
         "runtime_recovered", "runtime_restart_exhausted"}
MCRecipients ==
    <<[name |-> "owner", wants |-> Told],
      [name |-> "guard", wants |-> {"runtime_failsafe_entered", "runtime_restart_exhausted"}]>>

(* How far each part of the behaviour is followed.                         *)
ByScenario(measurement, demand, resilience, supervision, performance) ==
    [s \in Scenarios |-> CASE s = "measurement" -> measurement [] s = "demand" -> demand
                         [] s = "resilience" -> resilience [] s = "supervision" -> supervision
                         [] s = "performance" -> performance]
MCMaxTime == ByScenario(3, 1, 2, 2, 4)
MCMaxEvents == ByScenario(5, 8, 6, 9, 13)
MCMaxReturns == ByScenario(1, 1, 1, 2, 1)
======================================================================================
