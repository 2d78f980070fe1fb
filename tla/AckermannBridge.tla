-------------------------- MODULE AckermannBridge --------------------------
(***************************************************************************)
(* processAckermannBridge: in AUTO it turns the planner's commands into    *)
(* speeds for the serial handler.  It learns the mode from two messages    *)
(* that travel through different queues of the gateway, StateChange of the *)
(* state machine and DrivingMode of the dashboard, while the dashboard     *)
(* sends speeds of its own.                                                *)
(*                                                                         *)
(* Each queue keeps its order, and which one the gateway serves is left    *)
(* open: "Critical" comes first, but a batch of "General" is finished      *)
(* while a Critical message waits, and a batch of "Critical" has a limit   *)
(* (Gateway has the batches).  The subscribers hold the newest message.  A *)
(* speed is "planned", by the bridge, "hand", by the dashboard, or "zero"; *)
(* steering, which goes the same way, and the scaling are left out.        *)
(* LEGACY is for the bridge what MANUAL is.                                *)
(***************************************************************************)
EXTENDS Naturals, Sequences

CONSTANT MaxQueued \* bound: a dashboard or a timer that finds more messages waits

ASSUME AckermannBridgeAssumption == MaxQueued \in Nat

Modes == {"default", "manual", "auto", "stop"}
Speeds == {"planned", "hand", "zero"}
NoMode == "no mode"

VARIABLES
  sysMode,   \* the mode of the state machine
  critical,  \* the unsent StateChange messages
  general,   \* the unsent DrivingMode and SpeedMotor messages
  stateChange, drivingMode, \* the unread message of each, or NoMode
  speed,     \* the SpeedMotor message the serial handler got last
  driver,    \* the bridge's ROS node: "first", "later", "none", "failed" for good
  autoActive,
  pendingCmd \* a command waits for the send timer

driverVars == <<driver, autoActive, pendingCmd>>
driveVars == <<sysMode, critical, general, stateChange, drivingMode, speed, driverVars>>

DriverUp == driver \in {"first", "later"}

DriveTypeOK ==
  /\ sysMode \in Modes
  /\ critical \in Seq(Modes)
  /\ general \in Seq(Modes \cup Speeds)
  /\ stateChange \in Modes \cup {NoMode}
  /\ drivingMode \in Modes \cup {NoMode}
  /\ speed \in Speeds
  /\ driver \in {"first", "later", "none", "failed"}
  /\ autoActive \in BOOLEAN /\ pendingCmd \in BOOLEAN

\* The bridge has its subscribers, and the starting mode was announced.
DriveInit ==
  /\ sysMode = "default" /\ critical = <<>> /\ general = <<>>
  /\ stateChange = "default" /\ drivingMode = NoMode
  /\ speed = "zero"
  /\ driver = "first" /\ autoActive = FALSE /\ pendingCmd = FALSE
----------------------------------------------------------------------------
\* handle_driving_mode of the dashboard: request_mode, then DrivingMode, then, for
\* STOP, a speed of zero.
PressMode(m) ==
  /\ m # "default" /\ Len(general) < MaxQueued /\ Len(critical) < MaxQueued
  /\ sysMode' = m
  /\ critical' = IF m = sysMode THEN critical ELSE Append(critical, m)
  /\ general' = general \o (IF m = "stop" THEN <<m, "zero">> ELSE <<m>>)
  /\ UNCHANGED <<stateChange, drivingMode, speed, driverVars>>

\* A speed of a page, or the zero of a safety stop: the server looks at no mode.
DriveByHand ==
  /\ Len(general) < MaxQueued
  /\ \E v \in {"hand", "zero"} : general' = Append(general, v)
  /\ UNCHANGED <<sysMode, critical, stateChange, drivingMode, speed, driverVars>>

\* The gateway.
DeliverCritical ==
  /\ critical # <<>>
  /\ stateChange' = IF DriverUp THEN Head(critical) ELSE stateChange
  /\ critical' = Tail(critical)
  /\ UNCHANGED <<sysMode, general, drivingMode, speed, driverVars>>

DeliverGeneral ==
  /\ general # <<>>
  /\ general' = Tail(general)
  /\ LET msg == Head(general) IN
       /\ speed' = IF msg \in Speeds THEN msg ELSE speed
       /\ drivingMode' = IF msg \in Modes /\ DriverUp THEN msg ELSE drivingMode
  /\ UNCHANGED <<sysMode, critical, stateChange, driverVars>>
----------------------------------------------------------------------------
(* The bridge: one thread runs all of its callbacks. *)

\* When a zero is sent.  (Mutant: never.)
StopsOn_Never(m) == FALSE
StopsOn(m) == autoActive \/ m = "stop"

\* Which modes leave it active.  (Mutant: only STOP ends it.)
Activates_Kept(m) == m = "auto" \/ (autoActive /\ m # "stop")
Activates(m) == m = "auto"

\* _apply_mode: when it leaves AUTO, and on every STOP, it sends a zero.
ApplyMode(m) ==
  /\ autoActive' = Activates(m)
  /\ IF m # "auto" /\ StopsOn(m)
     THEN general' = Append(general, "zero") /\ pendingCmd' = FALSE
     ELSE UNCHANGED <<general, pendingCmd>>

FirstMode == IF stateChange # NoMode THEN stateChange ELSE drivingMode

\* _poll_driving_mode: a StateChange, or else a DrivingMode.
PollDrivingMode ==
  /\ DriverUp
  /\ stateChange # NoMode \/ drivingMode # NoMode
  /\ ApplyMode(FirstMode)
  /\ stateChange' = NoMode
  /\ drivingMode' = IF stateChange # NoMode THEN drivingMode ELSE NoMode
  /\ UNCHANGED <<sysMode, critical, speed, driver>>

HandleAckermann ==
  /\ DriverUp /\ autoActive
  /\ pendingCmd' = TRUE
  /\ UNCHANGED <<sysMode, critical, general, stateChange, drivingMode, speed, driver,
                 autoActive>>

PublishPendingCmd ==
  /\ DriverUp /\ pendingCmd
  /\ Len(general) < MaxQueued
  /\ general' = IF autoActive THEN Append(general, "planned") ELSE general
  /\ pendingCmd' = FALSE
  /\ UNCHANGED <<sysMode, critical, stateChange, drivingMode, speed, driver, autoActive>>

\* spin_once raises: the node is dropped; the next one has subscribers of its own
\* and is not active.
SpinOnceFails ==
  /\ DriverUp
  /\ driver' = "none" /\ autoActive' = FALSE /\ pendingCmd' = FALSE
  /\ stateChange' = NoMode /\ drivingMode' = NoMode
  /\ UNCHANGED <<sysMode, critical, general, speed>>

InitDriver ==
  /\ driver = "none"
  /\ driver' \in {"later", "failed"}
  /\ UNCHANGED <<sysMode, critical, general, stateChange, drivingMode, speed, autoActive,
                 pendingCmd>>
----------------------------------------------------------------------------
DriveNext ==
  \/ \E m \in Modes : PressMode(m)
  \/ DriveByHand \/ DeliverCritical \/ DeliverGeneral
  \/ PollDrivingMode \/ HandleAckermann \/ PublishPendingCmd
  \/ SpinOnceFails \/ InitDriver

DriveSpec == DriveInit /\ [][DriveNext]_driveVars
----------------------------------------------------------------------------
(* Safety. *)

\* A planner's command waits for the send timer only while the bridge is active:
\* no order of the modes, the callbacks and a lost node leaves one for later.
DriveInv ==
  /\ DriveTypeOK
  /\ pendingCmd => autoActive
  /\ autoActive => DriverUp
----------------------------------------------------------------------------
(* Liveness: the gateway and the bridge's timers run, fairly. *)

\* If its first node never fails the bridge ends up in the mode of the state
\* machine, in whatever order the two messages of each change arrive: it may obey
\* an older DrivingMode after a StateChange, but not for good.
ModesAgree ==
  /\ <>[](driver = "first") /\ <>[](sysMode = "auto") => <>[]autoActive
  /\ <>[](driver = "first") /\ <>[](sysMode # "auto") => <>[](~autoActive)

\* Outside AUTO the planner lets go of the car: whatever order the modes, the waiting
\* command and the gateway's queues make, the speed that the serial handler has got
\* last is not the planner's for good, for a zero follows the bridge's last speed.
PlannerLetsGo ==
  <>[](driver = "first") /\ <>[](sysMode # "auto") => <>[](speed # "planned")
=============================================================================
