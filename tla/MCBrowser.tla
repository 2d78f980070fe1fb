----------------------------- MODULE MCBrowser -----------------------------
(***************************************************************************)
(* What a user does in a browser, on small instances and in one run: the   *)
(* sessions and the calibration.  They share no state here: "scenario"     *)
(* says which of them moves, the other stays as it is at the start.        *)
(***************************************************************************)
EXTENDS MCDashboard, MCCalibration

VARIABLE scenario

Sessions(A) == scenario = "sessions" /\ A /\ UNCHANGED <<scenario, calibVars>>
Calibrate(A) == scenario = "calibrate" /\ A /\ UNCHANGED <<scenario, vars>>

BrowserInit == scenario \in {"sessions", "calibrate"} /\ Init /\ CalibInit

BrowserNext == Sessions(Next) \/ Calibrate(CalibNext)

\* send_heartbeat starts itself again by a timer, whatever happens.
BrowserSpec ==
  /\ BrowserInit /\ [][BrowserNext]_<<scenario, vars, calibVars>>
  /\ WF_vars(scenario = "sessions" /\ SendHeartbeat)
=============================================================================
