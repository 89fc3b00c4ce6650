------------------------------- MODULE MCSourceControl -------------------------------
(* SourceControl on a short clock: long enough for a command, its whole     *)
(* protection, the opposite command and its protection.                     *)
EXTENDS SourceControl

CONSTANT MaxTime
ClockTimes == 0 .. MaxTime
==============================================================================
