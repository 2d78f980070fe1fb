# A TLA+ verification of the Brain

`src/Brain` is the program on the car's Raspberry Pi: some ten Python processes
that exchange messages through one gateway, drive a micro-controller over a
serial line and are operated from a browser. This directory holds TLA+ modules of
the parts where its correctness depends on order, interleaving and failure, TLC
configurations that check them on small instances, and proofs for TLAPS that
hold for every instance. Paths below are relative to `src/Brain/src`; "line n" is
a line of the file named last.

Run, in this directory: `tlc -config MCBus.cfg MCBus` for a check,
`tlapm MailboxProofs.tla` for a proof. `PROJECT.json` lists every run, which
definition models which lines, the hazards, the findings and the theorems.

## 1. Inventory

| part | state it keeps | operations and interaction | what is hard | what makes it correct |
|---|---|---|---|---|
| Gateway thread (`gateway/threads/threadGateway.py`) | `sendingList`, `messageApproved`, six queues | drains the queues in priority order, in batches; `send` writes to every registered pipe; serves subscribe/unsubscribe from Config | one thread for all; requests and messages race; pipes die | the two tables agree, subscribers are routed, nothing starves |
| Senders (`utils/messages/messageHandlerSender.py`) | - | put, or drop-old put for bounded queues | full queue with two producers | the newest image gets in |
| Subscribers (`utils/messages/messageHandlerSubscriber.py`) | pipe, cache, drain thread, `_lastonly_discarding` | subscribe, receive, empty, pipe recovery | drain thread against `empty()`, two threads in `empty()`, fork | order, no duplicates, nothing stranded |
| Serial write thread (`hardware/serialhandler/threads/threadWrite.py`) | `_stop_latched`, `_stop_sent`, `running`, `engineEnabled` | one cycle reads all inputs in priority order; `force_stop` from the process's thread | stop against motion, mode and KL in any order; link that drops commands | a latched stop takes hold and stays |
| Serial handler (`.../processSerialHandler.py`, `templates/`) | connection, `reconnecting`, timer, events, threads | connect, reconnect, pause and resume threads, stop | timer, loop, disconnection, mode changes and stop at once | one chain of attempts; connected means running; stop ends |
| Serial read thread (`.../threadRead.py`) | buffer, watchdog, ROS node | frames from bytes, publishes, reports a silent board | reads cut frames anywhere; one-shot watchdog and its reset | damage stays local; a silent board is reported again |
| State machine (`statemachine/`) | mode in shared memory | `request_mode` of several processes, under a lock | order of mode and StateChange | the messages tell the mode |
| Dashboard (`dashboard/processDashboard.py`) | session, heartbeat counters, clients | browser messages, heartbeat loop, safety stop | stale sessions, reconnects | one user; the car stops when the user is lost |
| Calibration (`dashboard/components/calibration.py`, `frontend/.../calibration/`) | one step counter, command table, valid and maximal angles, completion; the wizard's page | continue, run, re-run, submit, save, recalibrate; waits for the board | one counter for all directions; reloads, repetitions, late answers, flags a reset has overtaken | measured before completed; limits of the right side |
| Ackermann bridge (`bridge/processAckermannBridge.py`) | `_auto_active`, `_pending_cmd`, ROS node | polls two mode messages, rate-limits commands | old command or mode after a stop, two queues that overtake each other | it ends in the mode; outside AUTO the planner's speed gives way |
| Planning bridge (`bridge/processGlobalPlanningBridge.py`) | last and pending list, times, graph sent | ROS in both directions, requests of the dashboard | rate limit against newest, late dashboard, lost node | the newest list and the map arrive |
| Traffic upload (`data/TrafficCommunication/`) | event counters, shared ring, two connections, UDP port | events and states to a server found by UDP | connection lost while sending, broadcasts while connecting, a port that is still closing, full ring | the newest event arrives or is lost with the server; never deaf; ring is a queue |
| Traffic feed (the same, and `data/Semaphores/`) | queues of positions, last time, newest light | server, UWB, broadcasts to ROS | four sources in bursts, one place for all lights | order and pace of reception |
| ROS camera (`hardware/camera/`) | ROS context | frames, restart, pause by mode | context restart | frames follow the mode |
| Templates and `main.py` | events, process list | start, pause, resume, stop, enable by mode | shutdown order, mode against pause | nobody waits for ever |

How they meet: every message goes sender -> queue -> gateway thread -> pipe ->
subscriber. `Gateway` models the way up to the pipe, `Mailbox` from the pipe to
the reader, `SerialWrite` the reader that matters most. The queues carry order
within a priority only: Critical overtakes General, and the consequences of that
are what the third module is about. `Dashboard` models where most of those messages
begin: the browser, its session and its loss; `Calibration` is the other dialogue with the browser.
The six modules of the run `services` are the components at the other ends: the link below the
write thread, the reader of the micro-controller, the traffic server's two connections and the ROS
bridges.

## 2. Modules

**`Gateway`**: the bus. `sendingList[key]` is a partial function from receivers to
pipes, `messageApproved` a count per key (the code's list with repetitions);
the queues are sequences. `TakeMessage`, `TakeImage`, `TakeConfig` and `EndPhase` are
`_drain_queue`, the camera shortcut, `_process_config_messages` and the loop of
`thread_work`; a `send()` is `BeginSend`, one `Deliver` for each pipe, `FinishSend`, so that receivers
act between two pipes. `Subscribe`, `Unsubscribe`, `RecoverUnsubscribe`,
`RecoverResubscribe` and `Restart` are the receivers' side. A message is its key.

**`LatestValue`**: the abstract specification of a lastOnly subscriber: one place,
whose content may be replaced by something newer, taken, or discarded.

**`Mailbox`**: the detailed one: pipe, drain thread (`DrainRecv` outside the lock,
`DrainStore` inside), `ReceiveCached`, `empty()` of several threads (`EmptyStart` and `EmptyEnd`
are its two locked parts), `RecoverPipe`. Messages are numbered. It implements
`LatestValue` with `slot <- cached` (`ImplementsLatestValue`).

**`SerialWrite`**: one action for each receive, command or locked step of
`threadWrite.thread_work`, because `force_stop` runs concurrently in the thread of
`processSerialHandler`. `stage[t]` says where thread `t` is in
`_send_immediate_stop`. The inputs are the subscribers' caches, and a `Store` action is a drain
thread storing a message, whenever it was sent. The order given by a StateChange or DrivingMode is
"stop" or "go"; motion is "speed" or "control" (a timed run on the micro-controller). `Forks` says
whether processes are forked, when `force_stop` is never called (finding 2).
The `missed` and `old` values are history: what was lost on the link, and what was in a
cache when a stop was latched.

**`Dashboard`**: the server's handlers (`SessionAccess`, `Logout`, `Drive`, `DrivingMode`,
`Connect`, `Disconnect`, `SendHeartbeat`) and the login state of each open page
(`ReceiveAccess`, `ReceiveHeartbeat`, `ReceiveHeartbeatDisconnect`, `Unload`). A socket is a number;
`cut` holds the connections on which nothing passes any more though neither side
knows. A message of a page is handled when sent or lost; events for a page wait in `inbox`
until the page runs. `Hear` is what each message does to the heartbeat.

**`SerialLink`**: `processSerialHandler` with its base class. `attempt` is where a call of
`_try_reconnect` is, `loop` where `run()` is, so that the timer's thread, the loop, the threads
and `stop()` interleave at every step that another one can see; what the code does
under `serialLock` is one action. The read and write threads are one variable,
since they are paused, resumed and stopped together. It is the component as it is meant to
work: under fork its StateChange and SerialConnectionState do not arrive (finding 2).

**`SerialRead`**: bytes to messages. A frame is a head and a tail, divided in its name (`InName`), in its
value, or between its two ";" (`InEnd`); `wire`, `buffer` and `chunks` are the port, `self.buffer` and the result
of `_split_compound_messages`, which splits only where "@name:" is found and takes the whole message if it
does not begin with one. `cut`, `skipped` and `swallowed` are history: frames that lost a piece, frames behind
one that raised, and frames that got no chunk of their own. An "imu" frame is two messages for the gateway
(lines 627 and 810).

**`DropOldest`** is the abstract specification of the shared memory: a queue that
loses only its oldest entry, and only when full. **`TrafficUpload`** has the ring of slots
with finish flags that implements it, the collector with its own socket, and the Twisted
client: `ServerFound`, `PortClosed`, `ConnectionMade`, `ConnectionLost`, the periodic task. The UDP port is open,
closing (`stopListening` only asks the reactor to close it) or closed, and `missed` records that `listenUDP` failed
because it was closing. The collector's socket is "dead" once its server is gone, which nothing tells it at first:
`sendall` succeeds and the event is `lost`. Events are numbered, `sharedSeq` and `tcpSeq` are the last sent on each
way. By default only the shared memory and the client are in use: with TRAFFIC_LEGACY_ENABLE on, the collector's
socket is off (`processTrafficCommunication.py` 167-169); the module has both, which share nothing but the event.

**`TrafficFeed`**: the way back. A position is the time of its reception; each of the four ways
(`ReceiveFromServer`, `ReceiveFromUwb`, `ReceiveLocation`, `ReceiveCar`) has its queue or place, and
`PublishGps` paces them. A light's state is a number, in one place for all lights.

**`PlanningBridge`**: one action for each part of a turn of `thread_work`, among them the
callbacks of `spin_once`. A list of checkpoints is a number; `since` counts ticks since
the last was sent, up to the period of repetition.

**`AckermannBridge`**: two queues of the gateway (StateChange in Critical, DrivingMode and SpeedMotor in
General), the bridge's node and the speed the serial handler got last. A page's speed (`DriveByHand`) passes in every
mode, as the server looks at none. Which queue is served is left open: a batch of General is finished while a
Critical message waits, and a batch of Critical has a limit. `Gateway` has the batches; here any order of the two
queues is possible, more than the batches allow.

**`Calibration`**: the wizard's pages and their guards, the requests on their way, the server, which
reads nothing while it waits for the board, and the board's two answers, either of which may be
lost. `submitted` is the submission the page waits for; leaving the wizard does not cancel it, and
its answer (`Answered`) moves the page wherever that is by then. `hasty` is history: the user did not
wait for such an answer. `known` is what the page takes to be completed, renewed by the answers to `get_status`, which
may come between any two requests; opening the wizard clears it, `Recalibrate` does not. `stale` is history too: Save was
pressed while `known` was not what the server had completed, or a reset was still unread. An angle is a class of equal angles within the tolerance; what is recorded with it is the
side it was measured on.

**`GatewayProofs`, `MailboxProofs`, `SerialWriteProofs`, `DashboardProofs`, `SerialProofs` (link and
reader), `TrafficProofs` (upload and feed), `BridgeProofs`, `CalibrationProofs`** hold the proofs;
**`MCGateway`, `MCMailbox`, `MCSerialWrite`, `MCDashboard`, `MCCalibration`** give the constants their
values, and **`MCBus`, `MCBrowser`, `MCServices`** put several components into one run.

Definitions with an underscore and a second name (`StillSent_Always`) are mutants:
plausible mistakes in the definition that follows them. Each property is
violated when one of them replaces its original; nothing else uses them.

## 3. Runs

| run | shows | bounds |
|---|---|---|
| `bus` | gateway: tables consistent, overtaking bounded, no queue starves, subscriptions served | two receivers of a Critical topic, an unsubscribed General and a camera topic, three requests under way, batches of two (Critical) or one |
| | mailbox: refinement of `LatestValue`, order, nothing stranded | pipe of 2, 4 messages, two threads that empty, one failure |
| `gateway_recovery` | served subscribers are routed and approved, though pipes fail and receivers restart | one receiver that recovers its pipe and one that restarts, two pipes each, two requests under way |
| `gateway_dead_pipe` | finding: a dead pipe ends the gateway | one failure |
| `mailbox_forked` | finding: a subscriber constructed before the fork never delivers | 4 messages |
| `mailbox_emptied` | finding: `empty()` leaves a message behind | one thread, no time-out |
| `serial_write` | the stop protocol's invariant, with lost commands and `STOP_HARD_KL0` | KL 0 and 30, otherwise none: all inputs arrive without limit |
| `serial_write_live` | a latched stop takes hold; motion that was cached when it was latched is never executed | KL 30, link up |
| `serial_write_old_mode` | finding: an older DrivingMode releases a STOP | forked processes, no KL, link up |
| `browser` | sessions: who holds the session, how it ends, and that it ends | two pages, three sockets, mode AUTO after the first, two retries |
| | calibrate: `CalibInv`, `SubmissionsFit`, `MaxAngleOwn`, `WizardAgrees` | two runs on the left, one elsewhere, two angles, two requests |
| `dashboard_lost` | finding: closing the page leaves the car driving | as in `browser`, and STOP |
| `calibration_hasty` | finding: a late answer makes a calibration complete that was not measured | the same, five requests |
| `services` | link: `LinkInv`, `HangIsHandled`, `LinkComesBack`, `LinkStops` | none: finite as it is |
| | read: `ReadInv`, `DamageIsLocal` | four frames: one divided in its name, one in its end, two in their value; two samples, one of them "imu" |
| | upload: `UploadInv`, `ReportsAreQueued`, `EventsArrive`, `ReportsAreTaken` | ring of 2, two events, a state, two connections, two datagrams |
| | positions and lights: `FeedInv` | clock to 4, period 2, two positions waiting; two lights |
| | plan: `ListArrives`, `MapArrives` | two lists, sent after 1 and repeated after 2 ticks |
| | drive: `DriveInv`, `ModesAgree`, `PlannerLetsGo` | two messages a queue |

`MCBus` and `MCBrowser` extend two components each, `MCServices` six, that share no variable. `scenario`, fixed at the
start, says which of them moves while the others rest, so that the run is the union of the
components' state spaces and not their product; a property of one component is checked
in all its behaviours, and holds trivially in the others'. Fairness is stated for the component
that moves.

Why the bounds are enough. Gateway: its tables are per key, and receivers of
one key interact only through that key's entry, so two receivers of one key and keys of the
other queues show every interaction; the batch limits are constants of the model, small
enough to be reached (128, 64 and so on in the code). Mailbox: four messages fill
pipe, drain thread and cache and leave one to come. Dashboard: with three
sockets a page can reconnect and another can log in while the server still counts the first
page's dead socket; two retries give both outcomes of the heartbeat (12 in the code); AUTO and
another mode, here the one at the start, are all that the stop tells apart, and the theorems hold
for all buttons. SerialWrite and SerialLink have no
counter at all: their state spaces are finite because an unread message is replaced.
Read: four frames let two damaged ones share a message with intact ones on both sides. Upload: a ring
of 2 wraps and overflows with three entries; two connections give the overlap of an old one and a
new one. Feed: the clock runs two periods, so that positions within and beyond a period wait together.
Calibration: two runs give a first, a repeated and a last one; all that the code compares
is a counter with a length, and an angle with the one before; with a third request the component, alone,
shows nothing else (the theorems hold for any number; `browser` is the largest run, 2.5 million states, of which calibration has
1.5). The finding of `calibration_hasty` needs five: submission, exit, start,
continue and run, all unread.

Fairness. The gateway thread, the drain threads and the two threads of the serial
handler are loops without exit while their process lives, so each is weakly
fair as a whole. An `empty()` that has begun ends: its wait is limited to 100 ms
(strong fairness of `EmptyEnd`, whose guard "the pipe is quiet" may come and go;
with the time limit it is enabled throughout). Receivers
of the gateway's messages are fair readers: a receiver that never reads blocks `pipe.send` and the
bus with it, which the code does nothing about. `send_heartbeat` starts itself again by a timer.
In `services` the loop of the serial handler, its timers' thread, its two threads (as far as they report
errors and end), the collector, the reactor, the bridges' threads and the gateway are weakly fair: each is a loop
or a timer that re-arms itself. A traffic server that is up broadcasts (its protocol), the planner publishes
its list again and again (it is a periodic topic), and `spin_once` serves the topics that have a
message in turn, hence strong fairness of `OnTrackNodeIds` and of a pose that subscribes; time
passes (`PlanTick`, strong because it is seen only between two turns). None is assumed to
stay up: the premises of the properties say when. Senders, users, pages, the link and the
micro-controller are never assumed to do anything. `CHECK_DEADLOCK FALSE` stands
where the environment may stop sending (bounded messages and requests).

## 4. Findings

1. A pipe that dies is removed from `sendingList` and not from `messageApproved`; the next
   message of its key raises `KeyError` in the gateway thread (`gateway_dead_pipe`).
2. `processSerialHandler` and `processRosCamera` construct lastOnly subscribers before the
   fork; their drain threads stay in the parent, so the children never see StateChange or
   SerialConnectionState: `force_stop` is dead code under fork (`mailbox_forked`).
   `SerialWrite` models it as it is meant to work.
3. `empty()` may return while the drain thread holds an older message (`mailbox_emptied`). For the write thread this means
   that motion older than a stop may be executed after its release, which its docstring (line 188) excludes.
4. A DrivingMode older than a StateChange STOP releases it in the next cycle (`serial_write_old_mode`). `force_stop` has no part in
   it: the run has `Forks = TRUE`. The cycle that reads the STOP skips DrivingMode, latches, stops the car and
   drains motion; the next one finds the older mode still cached.
5. Leaving the wizard does not cancel its submission. If that is still unanswered when the wizard is opened
   again, which happens while the link is down, its answer opens the start of a run twice; a direction
   is then completed with a command that was never measured (`calibration_hasty`).
6. A page that is closed ends its session without a stop, so that the loss of its link is
   nobody's loss: outside AUTO the car drives on (`dashboard_lost`).

Met while reading, not shown by a run: `_stop_sent` is set even if every stop
command was dropped by a link that is down (`SentMeansStopped` therefore speaks of
`missed`); `heartbeat_retries` survives a session; `reset_engine_state` is called
and defined nowhere. And, by part:

- *Link*: the notice to the dashboard may overwrite the one False of the watchdog, in one lastOnly
  place: a board that hangs at that moment is not reported again (`HangIsHandled` has the premise). The
  parent's `stop()` sets its own copy of the shut-down flag; the first timer (line 218) is not a daemon.
- *Read*: `self.buffer` survives a reconnection, so that the half of a frame before it meets the
  first after it; an exception while one part of a compound message is handled drops the rest of it; one
  failed publication shuts ROS for good. A message that begins with a frame cut in its name (or between its two ";") is one unknown name: the intact
  frames behind it are swallowed.
- *Upload*: an event that is overtaken before it was sent, or written to a socket whose server is gone, is lost,
  though the comment at line 823 says that each is sent once; if a connection is lost in the reactor iteration that found
  the server, `listenUDP` fails unheard and the periodic task rests, with a connection, until a later one is lost; the periodic task sends the slots by index, not by age; broadcasts that
  were queued while connecting open further connections, of which only the last is used; an address
  that refuses is tried for ever.
- *Feed*: one place for all lights: a change of one can be lost behind another's. The time
  stamps of positions mix reception less a second with the present.
- *Planning*: a list that waits may be sent after a newer one, until the planner's next; a request for the map is lost
  if the file cannot be read then; nothing in the repository sends RequestMapNodes; an empty list is never
  repeated; an initialisation that fails is not repeated.
- *Ackermann*: a node that replaces a failed one starts inactive in AUTO and sends no zero.
- *Calibration*: after Recalibrate the page keeps its completion flags until an answer renews them, and Save may then write
  an emptied table. The server waits for the board without limit (lines 314, 319, 425, 442); if an
  answer is lost the whole dashboard waits. A repeated run leaves the angle of the discarded one in
  `valid_angles`. Saving reports success also when there are too few points.

## 5. Proofs

| theorem | says | rests on |
|---|---|---|
| `TypeCorrect`, `RoutingCorrect` | types; the tables, requests and the running `send()` fit together | `RoutingInv` is inductive |
| `ApprovalsExact`, `GatewayLives` | each key is approved as often as registered; no `KeyError` | conjuncts of `RoutingInv` |
| `ApprovalsCover` | with failures: never more registered pipes than approvals | `ApprovalInv` is inductive |
| `SubscribersAreRouted` | with failures: served means routed | `TrackedInv` is inductive |
| `OvertakingBounded` | one batch of General messages passes a waiting Critical one | `OvertakingInv` is inductive |
| `OrderCorrect`, `ReadsInOrder` | messages stay in order on their way | `OrderInv` is inductive |
| `Refinement` | `Mailbox` implements `LatestValue` | step simulation under `OrderInv` |
| `StopCorrect`, `SentStopHolds` | `_stop_sent` never hides a moving car | `StopInv` is inductive |
| `SessionCorrect` | the session is nobody's or a connected socket's | `SessionInv` is inductive |
| `SessionEndsSafely` | sessions end with a stop, in AUTO or by logout, and never pass straight to another user | `SessionInv` |
| `CachedMotionDropped` | motion that was in its cache when a stop was latched is never executed | `OldIsDrained`, a part of `StopInv` |
| `LinkSafe` | one chain of reconnection; paused only while down; stopped means not paused | `LinkInv` is inductive |
| `ReadSafe` | frames are handled in order and once, an "imu" frame as two messages in a row; only a cut frame mixes with another | `ReadIInv` is inductive (`ReadInvariant`) |
| `DamageLocal` | what was not cut is published, but for the one frame behind a cut one that raised, and those behind cut frames of which the first was cut in its name or end | `NothingLost` and `ChunkDamage`, parts of `ReadIInv` |
| `UploadSafe` | the client is never deaf; its task rests only while it listens or since `listenUDP` was missed | `UploadInv` with the counts of attempts, and an attempt while the port is closing (`Attempted`) |
| `ReportsQueued` | the ring implements `DropOldest`, for every size | step simulation under an invariant of slots |
| `FeedSafe` | positions in order and a period apart; lights never fall back | `FeedIInv` |
| `DriveSafe` | a command waits only while the bridge is active, with a node | `DriveInv` is inductive |
| `SubmissionSafe`, `MaxAngleSafe` | of any user: a submission is of a driven command; a steering limit is of its side | `AnyUser` is inductive (`AnyUserInvariant`) |
| `CalibSafe`, `WizardSafe` | of a user who waits for answers: completed is driven and measured, nothing less is saved but by a Save pressed on stale flags; page and server agree | `AnyUser` with `WaitingUser` is inductive (`WaitingInvariant`) |

Assumptions: those on the constants, named in each module, and for `RoutingCorrect`,
`ApprovalsExact` and `GatewayLives` also `Disciplined` (no pipe fails and no receiver
restarts), for with failures they are false (finding 1). What remains true with failures is
`ApprovalsCover` and `SubscribersAreRouted`, proved without that assumption (a receiver restarted without an
unsubscribe is left out of "served means routed", see `SubscribedIsRouted`).

Why the invariants look as they do. *Gateway*: "served means routed" is not inductive,
because a request under way may undo it. `RoutingInv` therefore relates each
receiver's view (`subscribed`) to the tables *and* its pending requests, which alternate
between subscribe and unsubscribe, and says what a `send()` under way may
rely on. With failures an entry may go by itself and pending requests may name replaced pipes. `TrackedInv`
says that the last request names the present pipe, that a subscribe finds no old
entry when it is served, and that only replaced pipes are in `to_remove`. `ApprovalInv` counts, instead of
the entries, the receivers that hold an approval (`Held`): registered, or dropped with an unsubscribe
still to come. `OvertakingInv` says at which queue of the cycle the count can be positive. TLC found these three to hold
on the gateway's instances of the runs `bus` and `gateway_recovery`. *Mailbox*: order of the cache needs order in the drain thread's hand
and in the pipe. *SerialWrite*: `SentMeansStopped` needs to know, at each point of a stop
sequence, which motions it has already ended, with the other thread
writing the same commands (`StopTakesEffect`), and that motion is written only after
`_stop_sent` was reset (`MotionPhase`). *Dashboard*: `SessionInv` is inductive as it stands, for it
includes that each page uses a socket of its own. *SerialLink*: "paused only while
down" must count the resume event that an attempt is going to set, and "one chain" where each
attempt is between two locks. *TrafficUpload*: that only the oldest is lost needs the number of the entry
in each slot (`Number`, by linear arithmetic where the code has an index that wraps) and that what is newer
than an unread entry is unread (`RingInv`). *TrafficFeed*: a position that was
dropped is near a published one only because the time of the last published one is kept
(`LastKept`) and nothing was received in the first period (`Late`).

*SerialRead*: the histories alone say nothing about what is to come. `ReadIInv` gives every piece its
place in the order of sending (`Key`), says that the input, `buffer` and `wire` together, is in that order
(`InputInOrder`) and that a frame which is a message, or was one, lies behind all of it (`Past`); then the order of
`gateway`, of `onRos` and of the chunks at hand are one fact. That damage stays local needs `Paired`: of a frame that
was not cut, both pieces are unread or the tail is still to be sent. A whole frame behind a cut one in a
message is then the last of it, and the cut one is the frame just before (`ChunkDamage`): were there a frame between,
it would be neither handled nor unread, hence cut itself (`NothingLost`). TLC checked `ReadIInv` on the
instance of `services` before it was proved. *Calibration*: what matters is not the state
of the page or of the server but the sequence of what is asked: the run that is served, the unread requests, and what
the page allows next (`Asked`). Each request about a run follows from the one before it (`Follows`), and
the server suits the first (`ServerSuits`); a handler takes the first away and makes itself suit the
next, a button adds one that follows from the last. The first version, in which the answers of the server were
forgotten when the wizard was left, was not inductive, and rightly: that is finding 5. `WaitingUser` adds that runs and
submissions take turns, which is true only of a user who waits. Since Recalibrate keeps the page's flags, a direction may be
continued right behind a reset, and a late answer may open a run after a reset, a test run or a save: the invariant says that
steps are then at the first (`AtFirst`), and that a Save which is not stale has no reset before it and everything completed.

Only model-checked: liveness (`NoQueueStarves`, `SubscriptionServed`,
`EveryMessageCounts`, `LatchedStops`, `EmergencyStops`, `StaleSessionsEnd`, and of `services`
`HangIsHandled`, `LinkComesBack`, `LinkStops`, `EventsArrive`, `ReportsAreTaken`, `ListArrives`, `MapArrives`,
`ModesAgree`, `PlannerLetsGo`), which TLAPS cannot do here, for it
needs ENABLED. Every invariant and action property that a passing run checks is also proved.
No module with proofs uses RECURSIVE operators, which the
prover cannot handle, nor induction over data.

## 6. Abstractions

- Message contents, formatting, logging and rates are left out; a KL value, an order and
  the kind of motion are all that the stop protocol tells apart. Zero speed
  is not sent as motion.
- In `SerialWrite` `empty()` empties the cache at once. What the real one may leave in the pipe or with the drain thread
  is stored by a later `Store`, like a message sent then: the properties are about what was cached (`CachedMotionIsDropped`),
  and what `empty()` leaves behind is `Mailbox`'s subject (finding 3).
- Time is nondeterministic: a time-out may happen at any moment it is enabled.
- `force_stop` sets its two flags in one step; reading a message and acting on its
  order (`_stop_latched`) is one step too. A `force_stop` between the two behaves like
  one just before the read, or is repeated by the writer's own StateChange STOP.
- A command that reaches the serial line takes effect at once: bytes left in the
  output buffer when it is flushed are not modelled.
- Dashboard: emits do not raise; a motion command of zero is counted with the STOP
  button; commands that the socket.io client keeps while it is disconnected are lost.
- The micro-controller is external: motion lasts until a command ends it (and a timed run
  may end by itself), and KL 0 ends all motion.
- Serial link: what runs under `serialLock` is one step. Of time only the watchdog's is kept: it does
  not expire in the moments between its reset and the end of the attempt that reset it.
- Serial read: a frame is cut in one of three ways, its name, its value or its end, and in one place; a value that breaks off behind
  a ";" of its own is left out. Samples of the encoder alone, of which the gateway gets ten a second, are left out; time
  stamps and covariances too.
- Upload: what waits for a period may go at any moment; position, rotation and speed are one
  kind of entry. `ReportsAreTaken` ends where they are written to the factory's connection: what a server that has gone does
  not read any more is lost. Signatures and the server's acceptance are left out.
- Feed: parsing, filters by id and covariances are left out: a payload is one that passes.
- Planning: a turn of the thread is short, time passes between turns.
- Ackermann: the order of the two queues is free (see section 2); scaling and steering are left out; LEGACY is for the bridge what MANUAL is.
- Calibration: Recalibrate's exit and start, sent one after the other, are one request; `get_status` may be answered at any moment
  the server reads, also when the page has not asked. An answer of the server reaches the page at once unless it was reloaded; one that is lost with the
  connection is not modelled (the page then waits until it is left). Distances, splines and the generated code are
  left out.

## 7. Plan

Built, in this order: the bus (everything depends on it), the mailbox (every reader does),
the stop protocol (the most important behaviour), the dashboard's sessions (who may drive), then
the components around the bus: the link, the reader, the traffic's two directions, the two ROS
bridges and the calibration.

Next, in order of importance:

1. Composition of the bus with the stop protocol: two priorities, one cycle.
2. `Lifecycle`: `main.py` with the templates: start, replacement of a dead process, shutdown order.
3. The ROS camera thread, with the pause by mode.

## 8. Not modelled

The numerical part of the calibration and the tools `calib_gui.py` and `odom_calibrator.py` (geometry and
curve fitting: no state that order could break); the rest of the frontend (user interface); `Dashboard_mac.py`
(a reduced copy); the former camera (never imported by `main.py`) and the cmd_vel bridge
(`ENABLE_CMDVELBRIDGE` is False); key signing (a library); scaffolding and installation scripts (no part of the running
program); the life cycle of the processes in `main.py` but for the restart of one (in this
configuration no mode disables one).
