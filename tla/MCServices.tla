----------------------------- MODULE MCServices -----------------------------
(***************************************************************************)
(* The components around the message bus, on small instances and in one    *)
(* run.  They share no state here: "scenario" says which of them moves,    *)
(* the others stay as they are at the start.                               *)
(***************************************************************************)
EXTENDS SerialLink, SerialRead, TrafficUpload, TrafficFeed, PlanningBridge,
        AckermannBridge

VARIABLE scenario

vars == <<scenario, linkVars, readVars, uploadVars, feedVars, planVars, driveVars>>

\* The component of a scenario moves, and no other.  The positions and the lights
\* of the feed share nothing but the clock and the node, and take turns too.
Link(A) ==
  /\ scenario = "link" /\ A
  /\ UNCHANGED <<scenario, readVars, uploadVars, feedVars, planVars, driveVars>>
Read(A) ==
  /\ scenario = "read" /\ A
  /\ UNCHANGED <<scenario, linkVars, uploadVars, feedVars, planVars, driveVars>>
Upload(A) ==
  /\ scenario = "upload" /\ A
  /\ UNCHANGED <<scenario, linkVars, readVars, feedVars, planVars, driveVars>>
Feed(A) ==
  /\ A
  /\ \/ scenario = "positions" /\ UNCHANGED lightVars
     \/ scenario = "lights" /\ UNCHANGED gpsVars
  /\ UNCHANGED <<scenario, linkVars, readVars, uploadVars, planVars, driveVars>>
Plan(A) ==
  /\ scenario = "plan" /\ A
  /\ UNCHANGED <<scenario, linkVars, readVars, uploadVars, feedVars, driveVars>>
Drive(A) ==
  /\ scenario = "drive" /\ A
  /\ UNCHANGED <<scenario, linkVars, readVars, uploadVars, feedVars, planVars>>

\* Components that do not move start in one of their initial states only.
Init ==
  /\ scenario \in {"link", "read", "upload", "positions", "lights", "plan", "drive"}
  /\ LinkInit /\ (scenario # "link" => device = "ok")
  /\ PlanInit /\ (scenario # "plan" => graphFile /\ \A list \in Lists : planned <= list)
  /\ ReadInit /\ UploadInit /\ FeedInit /\ DriveInit

Next ==
  \/ Link(LinkNext) \/ Read(ReadNext) \/ Upload(UploadNext) \/ Feed(FeedNext)
  \/ Plan(PlanNext) \/ Drive(DriveNext)

\* Of the component that moves.
Fairness ==
  \* the process's loop, the timers' thread, and the read and write threads
  /\ WF_linkVars(scenario = "link" /\ LinkReconnect)
  /\ WF_linkVars(scenario = "link" /\ LinkLoop)
  /\ WF_linkVars(scenario = "link" /\ ThreadsEnd)
  /\ WF_linkVars(scenario = "link" /\ ReportSerialError)
  /\ WF_linkVars(scenario = "link" /\ WatchdogFires)
  \* the collector thread, the reactor, and the server's broadcasts
  /\ WF_uploadVars(scenario = "upload" /\ FlushEvent)
  /\ WF_uploadVars(scenario = "upload" /\ (ConnectTcp \/ SendEventTcp \/ CloseTcp))
  /\ WF_uploadVars(scenario = "upload" /\ Reactor)
  /\ WF_uploadVars(scenario = "upload" /\ ServerBroadcasts)
  \* the bridge's thread, the planner, time, and the topics that spin_once serves in turn
  /\ WF_planVars(scenario = "plan" /\ PlanWork)
  /\ WF_planVars(scenario = "plan" /\ PlannerPublishes)
  /\ SF_planVars(scenario = "plan" /\ PlanTick)
  /\ SF_planVars(scenario = "plan" /\ OnTrackNodeIds)
  /\ SF_planVars(scenario = "plan" /\ OnPose /\ ~subscribed /\ subscribed')
  \* the gateway, and the timers of the ROS node
  /\ WF_driveVars(scenario = "drive" /\ DeliverCritical)
  /\ WF_driveVars(scenario = "drive" /\ DeliverGeneral)
  /\ WF_driveVars(scenario = "drive" /\ PollDrivingMode)
  /\ WF_driveVars(scenario = "drive" /\ PublishPendingCmd)

Spec == Init /\ [][Next]_vars /\ Fairness
=============================================================================
