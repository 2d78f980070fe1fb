--------------------------- MODULE PlanningBridge ---------------------------
(***************************************************************************)
(* The thread of processGlobalPlanningBridge.  It sends the nodes of the   *)
(* map, when it starts and on request; relays the goal the user picked to  *)
(* the planner; and relays the planner's list of checkpoints to the        *)
(* dashboard, no two lists within SendTicks, and again every ResendTicks   *)
(* for a dashboard that comes late.                                        *)
(*                                                                         *)
(* A list is what is left of a message of the planner after the filter, a  *)
(* number; 0 is the empty one.  Of the other topics (path, poses, road     *)
(* signs, each dropped if it comes too early) only the first pose matters: *)
(* the lists are subscribed to when it arrives.  The ROS topic and the     *)
(* messages of the gateway keep the newest value only.                     *)
(***************************************************************************)
EXTENDS Naturals

CONSTANTS
  Lists,      \* bound: the lists the planner sends
  SendTicks,  \* _checkpoints_send_period
  ResendTicks \* _checkpoints_resend_period

ASSUME PlanningBridgeAssumption ==
  /\ Lists \subseteq Nat \ {0}
  /\ SendTicks \in Nat /\ ResendTicks \in Nat /\ SendTicks <= ResendTicks

VARIABLES
  \* the planner, and the topic track_path_node_ids
  planned,    \* the list it publishes, again and again
  topic,      \* the unread message, or 0
  \* the dashboard
  shown,      \* the checkpoints it shows
  mapWanted,  \* history: MapNodes was asked for, and not sent since
  \* the messages of the gateway
  mapRequest, \* unread RequestMapNodes
  goal,       \* unread GlobalPlanningGoalNodeId
  \* the bridge
  graphFile,  \* the map can be read
  graphSent,
  bridge,     \* its ROS node: "none", "up", "failed" for good
  subscribed, \* to the lists
  last, pending, \* the list sent last, and the one that waits, or 0
  since,      \* ticks since it was sent, at most ResendTicks
  work        \* where thread_work is

mapVars == <<mapWanted, mapRequest, graphFile, graphSent>>
listVars == <<last, pending, since, shown>>
planVars == <<planned, topic, goal, bridge, subscribed, work, mapVars, listVars>>

PlanTypeOK ==
  /\ planned \in Lists /\ topic \in Lists \cup {0}
  /\ shown \in Lists \cup {0} /\ mapWanted \in BOOLEAN
  /\ mapRequest \in BOOLEAN /\ goal \in BOOLEAN
  /\ graphFile \in BOOLEAN /\ graphSent \in BOOLEAN
  /\ bridge \in {"none", "up", "failed"} /\ subscribed \in BOOLEAN
  /\ last \in Lists \cup {0} /\ pending \in Lists \cup {0}
  /\ since \in 0..ResendTicks
  /\ work \in {"graph", "request", "ros", "spin", "flush", "resend"}

PlanInit ==
  /\ planned \in Lists /\ topic = 0
  /\ shown = 0 /\ mapWanted = FALSE /\ mapRequest = FALSE /\ goal = FALSE
  /\ graphFile \in BOOLEAN /\ graphSent = FALSE
  /\ bridge = "none" /\ subscribed = FALSE
  /\ last = 0 /\ pending = 0 /\ since = ResendTicks
  /\ work = "graph"
----------------------------------------------------------------------------
(* The planner, the dashboard, the file, the clock. *)

PlannerPublishes ==
  /\ topic' = IF subscribed THEN planned ELSE topic
  /\ UNCHANGED <<planned, goal, bridge, subscribed, work, mapVars, listVars>>

PlannerReplans ==
  /\ planned' \in Lists
  /\ UNCHANGED <<topic, goal, bridge, subscribed, work, mapVars, listVars>>

\* A page of the dashboard that is loaded shows no checkpoints yet.
DashboardLoads ==
  /\ shown' = 0
  /\ UNCHANGED <<planned, topic, goal, bridge, subscribed, work, mapVars, last, pending,
                 since>>

MapRequested ==
  /\ mapWanted' = TRUE /\ mapRequest' = TRUE
  /\ UNCHANGED <<planned, topic, goal, bridge, subscribed, work, graphFile, graphSent,
                 listVars>>

UserPicksGoal ==
  /\ goal' = TRUE
  /\ UNCHANGED <<planned, topic, bridge, subscribed, work, mapVars, listVars>>

GraphFileChanges ==
  /\ graphFile' = ~graphFile
  /\ UNCHANGED <<planned, topic, goal, bridge, subscribed, work, mapWanted, mapRequest,
                 graphSent, listVars>>

\* A turn of thread_work is short: time is seen to pass between two of them.
PlanTick ==
  /\ work = "graph" /\ since < ResendTicks
  /\ since' = since + 1
  /\ UNCHANGED <<planned, topic, goal, bridge, subscribed, work, mapVars, last, pending,
                 shown>>
----------------------------------------------------------------------------
(* thread_work, part by part. *)

SendGraph ==
  IF graphFile THEN graphSent' = TRUE /\ mapWanted' = FALSE
               ELSE UNCHANGED <<graphSent, mapWanted>>

\* _maybe_send_graph_nodes until it succeeds once, a second apart at least.
MaybeSendGraph ==
  /\ work = "graph" /\ work' = "request"
  /\ \/ ~graphSent /\ SendGraph
     \/ UNCHANGED <<graphSent, mapWanted>>
  /\ UNCHANGED <<planned, topic, goal, bridge, subscribed, mapRequest, graphFile, listVars>>

\* A request is answered though the map was sent before.  (Mutant: it is not.)
Answers_Once == ~graphSent
Answers == TRUE

AnswerMapRequest ==
  /\ work = "request" /\ work' = "ros"
  /\ mapRequest' = FALSE
  /\ IF mapRequest /\ Answers THEN SendGraph ELSE UNCHANGED <<graphSent, mapWanted>>
  /\ UNCHANGED <<planned, topic, goal, bridge, subscribed, graphFile, listVars>>

\* Without ROS the goal stays where it is; an init that fails is not tried again.
MaybeInitRos ==
  /\ work = "ros" /\ work' = "graph"
  /\ bridge # "up"
  /\ IF bridge = "none" THEN bridge' \in {"up", "failed"} ELSE UNCHANGED bridge
  /\ UNCHANGED <<planned, topic, goal, subscribed, mapVars, listVars>>

PublishGoal ==
  /\ work = "ros" /\ work' = "spin"
  /\ bridge = "up"
  /\ goal' = FALSE
  /\ UNCHANGED <<planned, topic, bridge, subscribed, mapVars, listVars>>

Send(list) == last' = list /\ since' = 0 /\ shown' = list

\* spin_once: _on_track_node_ids.  A list that may be sent at once does not remove
\* an older one that waits.
OnTrackNodeIds ==
  /\ work = "spin" /\ work' = "flush"
  /\ topic # 0 /\ topic' = 0
  /\ \/ topic = last /\ pending' = 0 /\ UNCHANGED <<last, since, shown>>
     \/ topic # last /\ since >= SendTicks /\ Send(topic) /\ UNCHANGED pending
     \/ topic # last /\ since < SendTicks /\ pending' = topic
        /\ UNCHANGED <<last, since, shown>>
  /\ UNCHANGED <<planned, goal, bridge, subscribed, mapVars>>

\* spin_once: a pose.  The subscription to the lists may fail; the next pose tries again.
OnPose ==
  /\ work = "spin" /\ work' = "flush"
  /\ subscribed' \in {subscribed, TRUE}
  /\ UNCHANGED <<planned, topic, goal, bridge, mapVars, listVars>>

\* spin_once: a path, a road sign (its class may not be known), or nothing.
OnOtherTopic ==
  /\ work = "spin" /\ work' = "flush"
  /\ UNCHANGED <<planned, topic, goal, bridge, subscribed, mapVars, listVars>>

\* spin_once raises: the node is dropped, and what it knew.
SpinFails ==
  /\ work = "spin" /\ work' = "graph"
  /\ bridge' = "none" /\ subscribed' = FALSE /\ topic' = 0
  /\ last' = 0 /\ pending' = 0 /\ since' = ResendTicks
  /\ UNCHANGED <<planned, goal, shown, mapVars>>

FlushPending ==
  /\ work = "flush" /\ work' = "resend"
  /\ \/ pending \in {0, last} /\ pending' = 0 /\ UNCHANGED <<last, since, shown>>
     \/ pending \notin {0, last} /\ since < SendTicks /\ UNCHANGED listVars
     \/ pending \notin {0, last} /\ since >= SendTicks /\ Send(pending) /\ pending' = 0
  /\ UNCHANGED <<planned, topic, goal, bridge, subscribed, mapVars>>

\* (Mutant: a list is sent once.)
ResendDue_Never == FALSE
ResendDue == last # 0 /\ since >= ResendTicks

ResendIfStale ==
  /\ work = "resend" /\ work' = "graph"
  /\ IF ResendDue THEN Send(last) ELSE UNCHANGED <<last, since, shown>>
  /\ UNCHANGED <<planned, topic, goal, bridge, subscribed, pending, mapVars>>
----------------------------------------------------------------------------
PlanWork ==
  \/ MaybeSendGraph \/ AnswerMapRequest \/ MaybeInitRos \/ PublishGoal
  \/ OnTrackNodeIds \/ OnPose \/ OnOtherTopic \/ FlushPending \/ ResendIfStale

PlanNext ==
  \/ PlannerPublishes \/ PlannerReplans \/ DashboardLoads \/ MapRequested
  \/ UserPicksGoal \/ GraphFileChanges \/ PlanTick \/ PlanWork \/ SpinFails

PlanSpec == PlanInit /\ [][PlanNext]_planVars
----------------------------------------------------------------------------
(* Liveness: the thread runs, the planner publishes and time passes, fairly, and *)
(* spin_once serves each topic in turn.                                         *)

\* Once the planner, the dashboard and the node stay as they are, the dashboard
\* shows the planner's list for good: one that overtook it, one that was held
\* back and one it got before it was loaded give way to it (line 399).
ListArrives ==
  /\ <>[][~PlannerReplans /\ ~DashboardLoads /\ ~SpinFails]_planVars
  /\ []<>(bridge = "up")
  => <>[](shown = planned)

\* A request for the map is answered, sent before or not, if it can be read.
MapArrives == []graphFile => []<>~mapWanted
=============================================================================
