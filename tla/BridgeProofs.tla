---------------------------- MODULE BridgeProofs ----------------------------
(***************************************************************************)
(* The proof of DriveInv of AckermannBridge, which is inductive as it      *)
(* stands.                                                                 *)
(***************************************************************************)
EXTENDS AckermannBridge, SequenceTheorems, TLAPS

\* A message more at the end of a queue, or one less at its head.
LEMMA QueueTyped ==
  ASSUME NEW S, NEW q \in Seq(S)
  PROVE  /\ \A m \in S : Append(q, m) \in Seq(S)
         /\ q # <<>> => Head(q) \in S /\ Tail(q) \in Seq(S)
OBVIOUS

\* The queues of the gateway hold what the actions put in.
LEMMA DriveQueues ==
  ASSUME DriveTypeOK, [DriveNext]_driveVars
  PROVE  critical' \in Seq(Modes) /\ general' \in Seq(Modes \cup Speeds)
<1>1. /\ critical \in Seq(Modes) /\ general \in Seq(Modes \cup Speeds)
      /\ "zero" \in Modes \cup Speeds /\ "planned" \in Modes \cup Speeds
  BY DEF DriveTypeOK, Speeds
<1>2. ASSUME NEW m \in Modes, PressMode(m)
      PROVE  critical' \in Seq(Modes) /\ general' \in Seq(Modes \cup Speeds)
  <2>1. critical' \in Seq(Modes)
    <3>1. critical' = IF m = sysMode THEN critical ELSE Append(critical, m)
      BY <1>2 DEF PressMode
    <3>2. QED
      BY <1>1, <3>1, QueueTyped
  <2>2. <<m, "zero">> \in Seq(Modes \cup Speeds) /\ <<m>> \in Seq(Modes \cup Speeds)
    BY <1>1
  <2>3. general' = general \o <<m, "zero">> \/ general' = general \o <<m>>
    BY <1>2 DEF PressMode
  <2>4. /\ general \o <<m, "zero">> \in Seq(Modes \cup Speeds)
        /\ general \o <<m>> \in Seq(Modes \cup Speeds)
    BY <1>1, <2>2, ConcatProperties
  <2>5. QED
    BY <2>1, <2>3, <2>4
<1>3. CASE DriveByHand
  <2>1. PICK v \in {"hand", "zero"} : general' = Append(general, v)
    BY <1>3 DEF DriveByHand
  <2>2. QED
    BY <1>1, <1>3, <2>1, QueueTyped DEF DriveByHand, Speeds
<1>4. CASE DeliverCritical \/ DeliverGeneral
  BY <1>1, <1>4, QueueTyped DEF DeliverCritical, DeliverGeneral
<1>5. CASE PollDrivingMode
  BY <1>1, <1>5, QueueTyped DEF PollDrivingMode, ApplyMode
<1>6. CASE PublishPendingCmd
  BY <1>1, <1>6, QueueTyped DEF PublishPendingCmd
<1>7. CASE HandleAckermann \/ SpinOnceFails \/ InitDriver \/ UNCHANGED driveVars
  BY <1>1, <1>7 DEF HandleAckermann, SpinOnceFails, InitDriver, driveVars
<1>8. QED
  BY <1>2, <1>3, <1>4, <1>5, <1>6, <1>7 DEF DriveNext

\* What the mode it applies leaves of a command that waits.
LEMMA ApplyKeeps ==
  ASSUME DriveInv, NEW m, ApplyMode(m)
  PROVE  /\ autoActive' \in BOOLEAN /\ pendingCmd' \in BOOLEAN
         /\ pendingCmd' => autoActive'
<1>1. autoActive \in BOOLEAN /\ pendingCmd \in BOOLEAN /\ (pendingCmd => autoActive)
  BY DEF DriveInv, DriveTypeOK
<1>2. CASE m # "auto" /\ StopsOn(m)
  BY <1>2 DEF ApplyMode, Activates
<1>3. CASE m # "auto" /\ ~StopsOn(m)
  BY <1>1, <1>3 DEF ApplyMode, Activates, StopsOn
<1>4. CASE m = "auto"
  BY <1>1, <1>4 DEF ApplyMode, Activates
<1>5. QED
  BY <1>2, <1>3, <1>4

\* The actions of the dashboard and of the gateway leave the bridge alone.
LEMMA AroundKeeps ==
  ASSUME DriveInv, critical' \in Seq(Modes), general' \in Seq(Modes \cup Speeds),
         \/ \E m \in Modes : PressMode(m)
         \/ DriveByHand \/ DeliverCritical \/ DeliverGeneral
  PROVE  DriveInv'
<1>1. UNCHANGED driverVars
  BY DEF PressMode, DriveByHand, DeliverCritical, DeliverGeneral
<1>2. sysMode' \in Modes
  BY DEF DriveInv, DriveTypeOK, PressMode, DriveByHand, DeliverCritical, DeliverGeneral
<1>3. stateChange' \in Modes \cup {NoMode} /\ drivingMode' \in Modes \cup {NoMode}
  BY QueueTyped DEF DriveInv, DriveTypeOK, PressMode, DriveByHand, DeliverCritical,
                    DeliverGeneral
<1>4. speed' \in Speeds
  BY DEF DriveInv, DriveTypeOK, PressMode, DriveByHand, DeliverCritical, DeliverGeneral
<1>5. QED
  BY <1>1, <1>2, <1>3, <1>4 DEF DriveInv, DriveTypeOK, driverVars, DriverUp

\* The bridge's own actions.
LEMMA BridgeKeeps ==
  ASSUME DriveInv, critical' \in Seq(Modes), general' \in Seq(Modes \cup Speeds),
         \/ PollDrivingMode \/ HandleAckermann \/ PublishPendingCmd
         \/ SpinOnceFails \/ InitDriver
  PROVE  DriveInv'
<1>1. CASE PollDrivingMode
  <2>1. autoActive' \in BOOLEAN /\ pendingCmd' \in BOOLEAN /\ (pendingCmd' => autoActive')
    BY <1>1, ApplyKeeps DEF PollDrivingMode
  <2>2. /\ DriverUp /\ UNCHANGED <<sysMode, speed, driver>>
        /\ stateChange' \in Modes \cup {NoMode} /\ drivingMode' \in Modes \cup {NoMode}
    BY <1>1 DEF DriveInv, DriveTypeOK, PollDrivingMode
  <2>3. QED
    BY <2>1, <2>2 DEF DriveInv, DriveTypeOK, DriverUp
<1>2. CASE HandleAckermann
  <2>1. pendingCmd' \in BOOLEAN /\ autoActive
    BY <1>2 DEF HandleAckermann
  <2>2. UNCHANGED <<sysMode, stateChange, drivingMode, speed, driver, autoActive>>
    BY <1>2 DEF HandleAckermann
  <2>3. QED
    BY <2>1, <2>2 DEF DriveInv, DriveTypeOK, DriverUp
<1>3. CASE PublishPendingCmd
  <2>1. pendingCmd' \in BOOLEAN /\ ~pendingCmd'
    BY <1>3 DEF PublishPendingCmd
  <2>2. UNCHANGED <<sysMode, stateChange, drivingMode, speed, driver, autoActive>>
    BY <1>3 DEF PublishPendingCmd
  <2>3. QED
    BY <2>1, <2>2 DEF DriveInv, DriveTypeOK, DriverUp
<1>4. CASE SpinOnceFails
  <2>1. /\ pendingCmd' \in BOOLEAN /\ ~pendingCmd' /\ autoActive' \in BOOLEAN /\ ~autoActive'
    BY <1>4 DEF SpinOnceFails
  <2>2. QED
    BY <1>4, <2>1 DEF SpinOnceFails, DriveInv, DriveTypeOK
<1>5. CASE InitDriver
  <2>1. /\ ~autoActive
        /\ UNCHANGED <<sysMode, stateChange, drivingMode, speed, autoActive, pendingCmd>>
    BY <1>5 DEF InitDriver, DriveInv, DriverUp
  <2>2. driver' \in {"first", "later", "none", "failed"}
    BY <1>5 DEF InitDriver
  <2>3. QED
    BY <2>1, <2>2 DEF DriveInv, DriveTypeOK
<1>6. QED
  BY <1>1, <1>2, <1>3, <1>4, <1>5

\* A planner's command waits to be sent only while the bridge is in AUTO, and the
\* bridge is in AUTO only with a node (DriveInv), for every length of the queues.
THEOREM DriveSafe == DriveSpec => []DriveInv
<1>1. DriveInit => DriveInv
  <2> SUFFICES ASSUME DriveInit PROVE DriveInv
    OBVIOUS
  <2>1. autoActive \in BOOLEAN /\ pendingCmd \in BOOLEAN /\ ~pendingCmd /\ ~autoActive
    BY DEF DriveInit
  <2>2. QED
    BY <2>1 DEF DriveInit, DriveInv, DriveTypeOK, Modes, Speeds
<1>2. ASSUME DriveInv, [DriveNext]_driveVars
      PROVE  DriveInv'
  <2>1. critical' \in Seq(Modes) /\ general' \in Seq(Modes \cup Speeds)
    BY <1>2, DriveQueues DEF DriveInv
  <2>2. CASE UNCHANGED driveVars
    BY <1>2, <2>2 DEF driveVars, driverVars, DriveInv, DriveTypeOK, DriverUp
  <2>3. QED
    BY <1>2, <2>1, <2>2, AroundKeeps, BridgeKeeps DEF DriveNext
<1>3. QED
  BY <1>1, <1>2, PTL DEF DriveSpec
=============================================================================
