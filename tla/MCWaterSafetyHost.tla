----------------------------- MODULE MCWaterSafetyHost -----------------------------
(* WaterSafetyHost on a clock of a few units.                              *)
EXTENDS WaterSafetyHost
==============================================================================
