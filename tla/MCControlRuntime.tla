------------------------------ MODULE MCControlRuntime ------------------------------
(* ControlRuntime on a few time units, with durations short enough for the *)
(* deadlines of different kinds to coincide, overtake and expire.          *)
EXTENDS ControlRuntime

(* A safe-heating profile with a deadband of one degree on either side. *)
FrostProfile == [target |-> 6, onDiff |-> 1, offDiff |-> 1]

------------------------------------------------------------------------------
(* What the documents say and the code does not do.                        *)

(* README.md:122-124: "Failed or still-unconfirmed correction remains      *)
(* retryable".  The held branch takes min() of an empty list of deadlines  *)
(* when a correction awaits agreement and nothing else is pending          *)
(* (control_runtime.py:922), and its ValueError ends the runtime.          *)
UnconfirmedCorrectionSurvives == ~crashed
==============================================================================
