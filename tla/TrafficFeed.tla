----------------------------- MODULE TrafficFeed -----------------------------
(***************************************************************************)
(* What reaches the car from the traffic infrastructure, and what the      *)
(* collector thread of the traffic process publishes of it on ROS:         *)
(* positions of the car, from the server over the collector's own socket   *)
(* (read by a thread of its own), from the server over the Twisted client  *)
(* (as Location messages), from the UWB receiver and from the cars'        *)
(* broadcasts; and the states of the traffic lights, which                 *)
(* processSemaphores receives by UDP and sends as Semaphores messages.     *)
(*                                                                         *)
(* Parsing, the filters on ids and the covariances are left out: a payload *)
(* here is one that passes.  A position is the time at which it was        *)
(* received, a state of a light its number.  Location, Cars and Semaphores *)
(* are lastOnly: one place for the newest message.                         *)
(***************************************************************************)
EXTENDS Naturals, Sequences

CONSTANTS
  Period,   \* TRAFFIC_GPS_MIN_PUBLISH_PERIOD
  MaxTime,  \* bound: the clock
  MaxQueue, \* bound: positions that wait in both queues
  Lights,   \* the traffic lights
  MaxLightStates \* bound: states a light takes

ASSUME TrafficFeedAssumption ==
  /\ MaxTime \in Nat /\ Period \in 1..MaxTime /\ MaxQueue \in Nat
  /\ MaxLightStates \in Nat

Times == 1..MaxTime
Sources == {"tcp", "uwb"}

VARIABLES
  clock,
  node,       \* the collector has its ROS node
  queue,      \* queue[s]: the positions of source s that wait
  location,   \* the unread Location message, or 0
  cars,       \* an unread Cars message, which carries no time
  lastGps,    \* _last_gps_publish
  published,  \* history: the times of the positions published
  dropped,    \* history: ... and of those dropped for being too early
  lightState, \* the state of each light
  semaphore,  \* the unread Semaphores message
  relayed     \* history: the newest state of each light published

gpsVars == <<queue, location, cars, lastGps, published, dropped>>
lightVars == <<lightState, semaphore, relayed>>
feedVars == <<clock, node, gpsVars, lightVars>>

None == [light |-> "none", state |-> 0]

FeedTypeOK ==
  /\ clock \in Times /\ node \in BOOLEAN
  /\ queue \in [Sources -> Seq(Times)]
  /\ location \in 0..MaxTime /\ cars \in BOOLEAN
  /\ lastGps \in 0..MaxTime
  /\ published \in Seq(Times) /\ dropped \subseteq Times
  /\ lightState \in [Lights -> 0..MaxLightStates]
  /\ semaphore \in [light : Lights, state : 1..MaxLightStates] \cup {None}
  /\ relayed \in [Lights -> 0..MaxLightStates]

\* The clock starts more than a period after 0, the first _last_gps_publish.
FeedInit ==
  /\ clock = Period /\ node = FALSE
  /\ queue = [s \in Sources |-> <<>>]
  /\ location = 0 /\ cars = FALSE
  /\ lastGps = 0 /\ published = <<>> /\ dropped = {}
  /\ lightState = [l \in Lights |-> 0] /\ semaphore = None
  /\ relayed = [l \in Lights |-> 0]
----------------------------------------------------------------------------
Tick ==
  /\ clock < MaxTime
  /\ clock' = clock + 1
  /\ UNCHANGED <<node, gpsVars, lightVars>>

NodeChanges ==
  /\ node' = ~node
  /\ UNCHANGED <<clock, gpsVars, lightVars>>

\* A position waits with the time of its reception.
ReceivePosition(s) ==
  /\ Len(queue["tcp"]) + Len(queue["uwb"]) < MaxQueue
  /\ queue' = [queue EXCEPT ![s] = Append(@, clock)]
  /\ UNCHANGED <<clock, node, location, cars, lastGps, published, dropped, lightVars>>

\* The receiving thread of the socket, and the thread of the UWB receiver.
ReceiveFromServer == ReceivePosition("tcp")
ReceiveFromUwb == ReceivePosition("uwb")

\* The Twisted client: it notes the time at which it received the position.
ReceiveLocation ==
  /\ location' = clock
  /\ UNCHANGED <<clock, node, queue, cars, lastGps, published, dropped, lightVars>>

\* processSemaphores: a car's broadcast, and a light's.
ReceiveCar ==
  /\ cars' = TRUE
  /\ UNCHANGED <<clock, node, queue, location, lastGps, published, dropped, lightVars>>

ReceiveLight(l) ==
  /\ lightState[l] < MaxLightStates
  /\ lightState' = [lightState EXCEPT ![l] = @ + 1]
  /\ semaphore' = [light |-> l, state |-> lightState[l] + 1]
  /\ UNCHANGED <<clock, node, gpsVars, relayed>>
----------------------------------------------------------------------------
(* The collector. *)

\* Is a position of time t a period later than the last?  (Mutant: it is
\* compared with the time at which it is handled.)
Due_Now(t) == clock >= lastGps + Period
Due(t) == t >= lastGps + Period

\* _publish_gps of a position of time t; without a node nothing happens.
PublishGps(t) ==
  IF ~node THEN UNCHANGED <<lastGps, published, dropped>>
  ELSE IF Due(t)
       THEN /\ published' = Append(published, t)
            /\ lastGps' = t
            /\ UNCHANGED dropped
       ELSE /\ dropped' = dropped \cup {t}
            /\ UNCHANGED <<lastGps, published>>

\* _drain_gps_rx_queue and _drain_uwb_queue.
DrainPosition(s) ==
  /\ queue[s] # <<>>
  /\ queue' = [queue EXCEPT ![s] = Tail(@)]
  /\ PublishGps(Head(queue[s]))
  /\ UNCHANGED <<clock, node, location, cars, lightVars>>

PollLocation ==
  /\ location # 0
  /\ location' = 0
  /\ PublishGps(location)
  /\ UNCHANGED <<clock, node, queue, cars, lightVars>>

PollCars ==
  /\ cars
  /\ cars' = FALSE
  /\ PublishGps(clock)
  /\ UNCHANGED <<clock, node, queue, location, lightVars>>

\* One place for the states of all lights: one that is overwritten is not published.
PollSemaphore ==
  /\ semaphore # None
  /\ semaphore' = None
  /\ relayed' = IF node THEN [relayed EXCEPT ![semaphore.light] = semaphore.state]
                        ELSE relayed
  /\ UNCHANGED <<clock, node, gpsVars, lightState>>

FeedPoll ==
  \/ \E s \in Sources : DrainPosition(s)
  \/ PollLocation \/ PollCars \/ PollSemaphore

FeedNext ==
  \/ Tick \/ NodeChanges
  \/ ReceiveFromServer \/ ReceiveFromUwb
  \/ ReceiveLocation \/ ReceiveCar
  \/ \E l \in Lights : ReceiveLight(l)
  \/ FeedPoll

FeedSpec == FeedInit /\ [][FeedNext]_feedVars
----------------------------------------------------------------------------
(* Safety. *)

\* Positions are published in the order of their reception, whichever of the four
\* ways they came, a period apart; and what is dropped was within a period of,
\* or older than, one that is published (line 1349: positions that piled up and
\* are handled at once are all published if they were received a period apart).
GpsPaced ==
  /\ \A i, j \in DOMAIN published : i < j => published[i] + Period <= published[j]
  /\ \A t \in dropped : \E i \in DOMAIN published : t < published[i] + Period

\* A light's published state never falls back behind one that was published.
LightsInOrder ==
  /\ \A l \in Lights : relayed[l] <= lightState[l]
  /\ semaphore # None => semaphore.state > relayed[semaphore.light]

FeedInv == FeedTypeOK /\ GpsPaced /\ LightsInOrder
=============================================================================
