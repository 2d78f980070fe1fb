----------------------------- MODULE Dashboard -----------------------------
(***************************************************************************)
(* Who drives the car from a browser: the session, heartbeat, safety stop  *)
(* and camera demand of dashboard/processDashboard.py, the mode requested  *)
(* through statemachine/stateMachine.py, and the login state of the        *)
(* frontend (frontend/src/app/app.component.ts) in each open page.         *)
(*                                                                         *)
(* A socket is a number that is free again when nobody refers to it.       *)
(* Either side learns late that it is dead.  A message of a page is        *)
(* handled when it is sent, or lost with its socket; events of the server  *)
(* wait in the page until it runs, and a page waits with any set of them.  *)
(***************************************************************************)
EXTENDS Naturals

CONSTANTS
  Pages,       \* the open pages
  Buttons,     \* the modes a user may ask for
  MaxRetries,  \* heartbeat_max_retries
  MaxSockets   \* bound on the sockets in use

ASSUME DashboardAssumption ==
  /\ Buttons \subseteq {"AUTO", "MANUAL", "LEGACY", "STOP"}
  /\ MaxRetries \in Nat \ {0} /\ MaxSockets \in Nat

Sockets == 1 .. MaxSockets
Events == {"access", "heartbeat", "heartbeat_disconnect"}

VARIABLES
  \* the server
  connectedClients,
  activeUser,            \* the socket that holds the session; 0 if not sessionActive
  heartbeat_received,
  heartbeat_retries,
  camera_stream_enabled,
  mode,                  \* the shared mode of the state machine
  \* the pages
  socket,                \* socket[p]: the socket page p believes in, 0 if none
  isAuthenticated,       \* always equal to shouldRestoreSession
  inbox,                 \* events that wait in p
  \* the network
  cut,                   \* open sockets on which nothing passes any more
  \* the car
  driving                \* it was told to move, and not to stop since

server == <<connectedClients, camera_stream_enabled>>
heartbeat == <<heartbeat_received, heartbeat_retries>>
vars == <<server, activeUser, heartbeat, mode, socket, isAuthenticated, inbox, cut,
          driving>>

TypeOK ==
  /\ connectedClients \subseteq Sockets
  /\ activeUser \in Sockets \cup {0}
  /\ heartbeat_received \in BOOLEAN
  /\ heartbeat_retries \in 0 .. MaxRetries - 1
  /\ camera_stream_enabled \in BOOLEAN
  /\ mode \in Buttons \cup {"DEFAULT"}
  /\ socket \in [Pages -> Sockets \cup {0}]
  /\ isAuthenticated \in [Pages -> BOOLEAN]
  /\ inbox \in [Pages -> SUBSET Events]
  /\ cut \subseteq Sockets
  /\ driving \in BOOLEAN

Init ==
  /\ connectedClients = {} /\ activeUser = 0
  /\ heartbeat_received = FALSE /\ heartbeat_retries = 0
  /\ camera_stream_enabled = FALSE
  /\ mode = "DEFAULT"
  /\ socket = [p \in Pages |-> 0]
  /\ isAuthenticated = [p \in Pages |-> FALSE]
  /\ inbox = [p \in Pages |-> {}]
  /\ cut = {}
  /\ driving = FALSE
----------------------------------------------------------------------------
(* handle_message, for a message of page p. *)

\* What p sends arrives.
Reaches(p) == socket[p] \in connectedClients \ cut

\* A message that is not refused: there is no session, or it is the sender's.
Accepted(p) == Reaches(p) /\ activeUser \in {0, socket[p]}

\* Any message but SessionAccess from the active user shows that it is there; a
\* Heartbeat counts without a session as well.  (Mutant: refused ones count too.)
Alive_Anyone(p, name) == Reaches(p)
Alive(p, name) ==
  Accepted(p) /\ (activeUser = socket[p] \/ name = "Heartbeat")

Hear(p, name) ==
  IF Alive(p, name)
  THEN heartbeat_received' = TRUE /\ heartbeat_retries' = 0
  ELSE UNCHANGED heartbeat

\* An event for page p.  (emit to its room)
Notify(p, e) == inbox' = [inbox EXCEPT ![p] = @ \cup {e}]

\* handle_single_user_session.  A page that is refused ignores the answer.
SessionAccess(p) ==
  /\ IF Accepted(p)
     THEN activeUser' = socket[p] /\ Notify(p, "access")
     ELSE UNCHANGED <<activeUser, inbox>>
  /\ UNCHANGED <<server, heartbeat, mode, socket, isAuthenticated, cut, driving>>

\* handle_session_end, called by logout() of the page.
Logout(p) ==
  /\ isAuthenticated' = [isAuthenticated EXCEPT ![p] = FALSE]
  /\ Hear(p, "SessionEnd")
  /\ activeUser' = IF Accepted(p) THEN 0 ELSE activeUser
  /\ UNCHANGED <<server, mode, socket, cut, driving>>

\* send_message_to_brain of a motion command.
Drive(p) ==
  /\ isAuthenticated[p] /\ socket[p] # 0
  /\ Hear(p, "SpeedMotor")
  /\ driving' = (driving \/ Accepted(p))
  /\ UNCHANGED <<server, activeUser, mode, socket, isAuthenticated, inbox, cut>>

\* handle_driving_mode: the table allows each button in each mode.
DrivingMode(p, button) ==
  /\ isAuthenticated[p] /\ socket[p] # 0
  /\ Hear(p, "DrivingMode")
  /\ IF Accepted(p)
     THEN mode' = button /\ driving' = (driving /\ button # "STOP")
     ELSE UNCHANGED <<mode, driving>>
  /\ UNCHANGED <<server, activeUser, socket, isAuthenticated, inbox, cut>>
----------------------------------------------------------------------------
(* Connections. *)

\* _sync_camera_stream_state
SyncCamera(clients) == camera_stream_enabled' = (clients # {})

Free == Sockets \ (connectedClients \cup {socket[p] : p \in Pages})

\* handle_connect; a page that had a session asks for it again, and then for the
\* state of the serial link.
Connect(p) ==
  /\ socket[p] = 0 /\ Free # {}
  /\ LET s == CHOOSE s \in Free : TRUE
     IN  /\ socket' = [socket EXCEPT ![p] = s]
         /\ connectedClients' = connectedClients \cup {s}
         /\ IF isAuthenticated[p] /\ activeUser = 0
            THEN /\ activeUser' = s /\ Notify(p, "access")
                 /\ heartbeat_received' = TRUE /\ heartbeat_retries' = 0
            ELSE UNCHANGED <<activeUser, inbox, heartbeat>>
  /\ SyncCamera(connectedClients')
  /\ UNCHANGED <<mode, isAuthenticated, cut, driving>>

\* The network fails, or the page is gone without a word.
Cut(p) ==
  /\ Reaches(p)
  /\ cut' = cut \cup {socket[p]}
  /\ UNCHANGED <<server, activeUser, heartbeat, mode, socket, isAuthenticated, inbox, driving>>

\* The page notices, or is closed after it has logged out.
Leave(p) ==
  /\ socket[p] # 0
  /\ ~Reaches(p) \/ ~isAuthenticated[p]
  /\ socket' = [socket EXCEPT ![p] = 0]
  /\ inbox' = [inbox EXCEPT ![p] = {}]
  /\ UNCHANGED <<server, activeUser, heartbeat, mode, isAuthenticated, cut, driving>>

\* _should_safety_stop_on_dashboard_loss and _trigger_safety_stop: whether the car
\* still drives.  (Mutant: the condition is turned round.)
Stopped_InAuto == driving /\ mode # "AUTO"
Stopped == driving /\ mode = "AUTO"

\* Who holds the session when socket s has gone.  (Mutant: it is released only
\* together with a safety stop.)
Released_WithStop(s) == IF activeUser = s /\ mode # "AUTO" THEN 0 ELSE activeUser
Released(s) == IF activeUser = s THEN 0 ELSE activeUser

\* handle_disconnect
Disconnect(s) ==
  /\ s \in connectedClients
  /\ s \in cut \/ \A p \in Pages : socket[p] # s
  /\ connectedClients' = connectedClients \ {s}
  /\ SyncCamera(connectedClients')
  /\ activeUser' = Released(s)
  /\ driving' = IF activeUser = s THEN Stopped ELSE driving
  /\ cut' = cut \ {s}
  /\ UNCHANGED <<heartbeat, mode, socket, isAuthenticated, inbox>>
----------------------------------------------------------------------------
(* The heartbeat. *)

Broadcast(e) ==
  inbox' = [p \in Pages |-> IF Reaches(p) THEN inbox[p] \cup {e} ELSE inbox[p]]

\* send_heartbeat
SendHeartbeat ==
  /\ IF ~heartbeat_received /\ activeUser # 0
     THEN IF heartbeat_retries + 1 < MaxRetries
          THEN /\ heartbeat_retries' = heartbeat_retries + 1
               /\ Broadcast("heartbeat")
               /\ UNCHANGED <<activeUser, driving>>
          ELSE /\ heartbeat_retries' = 0
               /\ Broadcast("heartbeat_disconnect")
               /\ activeUser' = 0
               /\ driving' = Stopped
     ELSE UNCHANGED <<heartbeat_retries, activeUser, driving, inbox>>
  /\ heartbeat_received' = FALSE
  /\ UNCHANGED <<server, mode, socket, isAuthenticated, cut>>

\* The page runs and takes up an event.
Handled(p, e) == inbox' = [inbox EXCEPT ![p] = @ \ {e}]

ReceiveAccess(p) ==
  /\ "access" \in inbox[p] /\ Handled(p, "access")
  /\ isAuthenticated' = [isAuthenticated EXCEPT ![p] = TRUE]
  /\ Hear(p, "GetCurrentSerialConnectionState")
  /\ UNCHANGED <<server, activeUser, mode, socket, cut, driving>>

ReceiveHeartbeat(p) ==
  /\ "heartbeat" \in inbox[p] /\ Handled(p, "heartbeat")
  /\ IF isAuthenticated[p] THEN Hear(p, "Heartbeat") ELSE UNCHANGED heartbeat
  /\ UNCHANGED <<server, activeUser, mode, socket, isAuthenticated, cut, driving>>

ReceiveHeartbeatDisconnect(p) ==
  /\ "heartbeat_disconnect" \in inbox[p] /\ Handled(p, "heartbeat_disconnect")
  /\ Logout(p)

\* The password is entered; the page is closed, or is about to be (handleUnload).
SubmitPassword(p) == socket[p] # 0 /\ ~isAuthenticated[p] /\ SessionAccess(p)
Unload(p) == isAuthenticated[p] /\ Logout(p) /\ UNCHANGED inbox

Page(p) ==
  \/ Connect(p) \/ Cut(p) \/ Leave(p)
  \/ SubmitPassword(p) \/ Unload(p) \/ Drive(p)
  \/ \E button \in Buttons : DrivingMode(p, button)
  \/ ReceiveAccess(p) \/ ReceiveHeartbeat(p) \/ ReceiveHeartbeatDisconnect(p)

Next ==
  \/ \E p \in Pages : Page(p)
  \/ \E s \in Sockets : Disconnect(s)
  \/ SendHeartbeat

Spec == Init /\ [][Next]_vars

\* send_heartbeat starts itself again by a timer, whatever happens.
FairSpec == Spec /\ WF_vars(SendHeartbeat)
----------------------------------------------------------------------------
(* Properties. *)

\* The session is held by a socket the server counts as connected, the camera
\* streams while anyone watches, and no page uses the socket of another.
SessionInv ==
  /\ TypeOK
  /\ activeUser # 0 => activeUser \in connectedClients
  /\ camera_stream_enabled = (connectedClients # {})
  /\ cut \subseteq connectedClients
  /\ \A p, q \in Pages : p # q /\ socket[p] = socket[q] => socket[p] = 0

\* A session never passes from one user straight to another, and it ends with the
\* car told to stop, unless it drives by itself in AUTO or the user has logged out.
LostSessionStops ==
  [][activeUser # 0 /\ activeUser' # activeUser =>
       /\ activeUser' = 0
       /\ driving' => \/ mode = "AUTO"
                     \/ \E p \in Pages : socket[p] = activeUser /\ ~isAuthenticated'[p]]_vars

\* A session ends, or its user is heard, again and again: the heartbeat ends the
\* session of one that is gone, whatever the other pages answer.
StaleSessionsEnd ==
  []<>(\/ activeUser = 0
       \/ heartbeat_received /\ \E p \in Pages : socket[p] = activeUser /\ Reaches(p))

\* "Force a safe stop on the vehicle when control link is lost" (line 454): outside
\* AUTO, a car that drives is stopped when the last page is gone.
LostLinkStops ==
  [][connectedClients' = {} /\ connectedClients # {} => ~driving' \/ mode = "AUTO"]_vars
=============================================================================
