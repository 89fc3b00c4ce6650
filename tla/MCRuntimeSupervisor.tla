---------------------------- MODULE MCRuntimeSupervisor ----------------------------
(* RuntimeSupervisor with one or two failures, restart attempts and        *)
(* operator actions on a clock of a few units.                             *)
EXTENDS RuntimeSupervisor

(* The zone's own target and differentials serve as the failsafe profile   *)
(* (custom_components/controlel/__init__.py:279-290).                      *)
RoomProfile == [target |-> 20, onDiff |-> 1, offDiff |-> 1]
==============================================================================
