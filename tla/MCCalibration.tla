--------------------------- MODULE MCCalibration ---------------------------
(* The calibration on a small instance: two commands for one side, so that *)
(* one may be run again in the middle.                                     *)
EXTENDS Calibration

MCRunsOf == [d \in Directions |-> IF d = "left" THEN 2 ELSE 1]
=============================================================================
