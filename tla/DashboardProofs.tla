--------------------------- MODULE DashboardProofs ---------------------------
(***************************************************************************)
(* Proofs about Dashboard: SessionInv is inductive as it stands, and a     *)
(* session ends only as LostSessionStops says, for all pages, buttons and  *)
(* limits.                                                                 *)
(***************************************************************************)
EXTENDS Dashboard, TLAPS

\* What a message of a page does to the heartbeat keeps its counters in range.
LEMMA HearTyped ==
  ASSUME TypeOK, NEW p \in Pages, NEW name, Hear(p, name)
  PROVE  heartbeat_received' \in BOOLEAN /\ heartbeat_retries' \in 0 .. MaxRetries - 1
<1>1. MaxRetries \in Nat /\ MaxRetries > 0
  BY DashboardAssumption
<1>2. CASE Alive(p, name)
  BY <1>1, <1>2 DEF Hear
<1>3. CASE ~Alive(p, name)
  BY <1>3 DEF Hear, heartbeat, TypeOK
<1>4. QED
  BY <1>2, <1>3

\* Adding events to a page's inbox or taking one out keeps its type.
LEMMA InboxTyped ==
  ASSUME TypeOK, NEW p \in Pages, NEW e \in Events
  PROVE  /\ Notify(p, e) => inbox' \in [Pages -> SUBSET Events]
         /\ Handled(p, e) => inbox' \in [Pages -> SUBSET Events]
         /\ Broadcast(e) => inbox' \in [Pages -> SUBSET Events]
BY DEF TypeOK, Notify, Handled, Broadcast

\* The session is well kept (SessionInv) from the start.
LEMMA InitSession == Init => SessionInv
<1> SUFFICES ASSUME Init PROVE SessionInv
  OBVIOUS
<1>1. 0 \in 0 .. MaxRetries - 1
  BY DashboardAssumption
<1>2. TypeOK
  BY <1>1 DEF Init, TypeOK
<1>3. QED
  BY <1>2 DEF Init, SessionInv

\* The end of a session by a page changes the user only to nobody.
LEMMA LogoutKeeps ==
  ASSUME SessionInv, NEW p \in Pages, Logout(p),
         inbox' \in [Pages -> SUBSET Events]
  PROVE  SessionInv'
<1>1. heartbeat_received' \in BOOLEAN /\ heartbeat_retries' \in 0 .. MaxRetries - 1
  BY HearTyped DEF SessionInv, Logout
<1>2. activeUser' \in {0, activeUser}
  BY DEF Logout
<1>3. TypeOK'
  BY <1>1, <1>2 DEF SessionInv, TypeOK, Logout, server
<1>4. QED
  BY <1>2, <1>3 DEF SessionInv, Logout, server

\* A page's message that leaves user, sockets and clients alone.
LEMMA MessageKeeps ==
  ASSUME SessionInv, NEW p \in Pages, NEW name, Hear(p, name),
         UNCHANGED <<server, activeUser, socket, cut>>,
         isAuthenticated' \in [Pages -> BOOLEAN],
         inbox' \in [Pages -> SUBSET Events],
         mode' \in Buttons \cup {"DEFAULT"},
         driving' \in BOOLEAN
  PROVE  SessionInv'
<1>1. heartbeat_received' \in BOOLEAN /\ heartbeat_retries' \in 0 .. MaxRetries - 1
  BY HearTyped DEF SessionInv
<1>2. TypeOK'
  BY <1>1 DEF SessionInv, TypeOK, server
<1>3. QED
  BY <1>2 DEF SessionInv, server

\* Connect gives a page a socket that nobody refers to.
LEMMA ConnectKeeps ==
  ASSUME SessionInv, NEW p \in Pages, Connect(p)
  PROVE  SessionInv'
<1> DEFINE s == CHOOSE s \in Free : TRUE
<1>1. s \in Free
  BY DEF Connect
<1>2. s \in Sockets /\ s \notin connectedClients /\ \A q \in Pages : socket[q] # s
  BY <1>1 DEF Free
<1>3. /\ socket' = [socket EXCEPT ![p] = s]
      /\ connectedClients' = connectedClients \cup {s}
      /\ activeUser' \in {activeUser, s}
      /\ camera_stream_enabled' = (connectedClients' # {})
  BY DEF Connect, SyncCamera
<1>4. heartbeat_received' \in BOOLEAN /\ heartbeat_retries' \in 0 .. MaxRetries - 1
  <2>1. 0 \in 0 .. MaxRetries - 1
    BY DashboardAssumption
  <2>2. QED
    BY <2>1 DEF Connect, heartbeat, SessionInv, TypeOK
<1>5. inbox' \in [Pages -> SUBSET Events]
  <2>1. inbox' = inbox \/ Notify(p, "access")
    BY DEF Connect
  <2>2. QED
    BY <2>1, InboxTyped DEF SessionInv, TypeOK, Events
<1>6. TypeOK'
  BY <1>2, <1>3, <1>4, <1>5 DEF SessionInv, TypeOK, Connect
<1>7. \A q, r \in Pages : q # r /\ socket'[q] = socket'[r] => socket'[q] = 0
  BY <1>2, <1>3 DEF SessionInv, TypeOK
<1>8. QED
  BY <1>3, <1>6, <1>7 DEF SessionInv, Connect

\* A disconnect takes the session of the socket with it.
LEMMA DisconnectKeeps ==
  ASSUME SessionInv, NEW s \in Sockets, Disconnect(s)
  PROVE  SessionInv'
<1>1. TypeOK'
  BY DEF SessionInv, TypeOK, Disconnect, SyncCamera, Released, Stopped, heartbeat
<1>2. activeUser' # 0 => activeUser' \in connectedClients'
  BY DEF SessionInv, Disconnect, Released
<1>3. QED
  BY <1>1, <1>2 DEF SessionInv, Disconnect, SyncCamera

\* The heartbeat keeps its count below MaxRetries and changes the user only to
\* nobody.
LEMMA HeartbeatKeeps ==
  ASSUME SessionInv, SendHeartbeat
  PROVE  SessionInv'
<1>1. MaxRetries \in Nat /\ MaxRetries > 0 /\ heartbeat_retries \in Nat
  BY DashboardAssumption DEF SessionInv, TypeOK
<1>2. heartbeat_retries' \in 0 .. MaxRetries - 1 /\ heartbeat_received' = FALSE
  BY <1>1 DEF SendHeartbeat, SessionInv, TypeOK
<1>3. activeUser' \in {0, activeUser} /\ driving' \in BOOLEAN
  BY DEF SendHeartbeat, SessionInv, TypeOK, Stopped
<1>4. inbox' \in [Pages -> SUBSET Events]
  <2>1. inbox' = inbox \/ Broadcast("heartbeat") \/ Broadcast("heartbeat_disconnect")
    BY DEF SendHeartbeat
  <2>2. \A e \in Events : Broadcast(e) => inbox' \in [Pages -> SUBSET Events]
    BY DEF Broadcast, SessionInv, TypeOK
  <2>3. QED
    BY <2>1, <2>2 DEF SessionInv, TypeOK, Events
<1>5. UNCHANGED <<server, mode, socket, isAuthenticated, cut>>
  BY DEF SendHeartbeat
<1>6. TypeOK'
  BY <1>2, <1>3, <1>4, <1>5 DEF SessionInv, TypeOK, server
<1>7. QED
  BY <1>3, <1>5, <1>6 DEF SessionInv, server

\* What a page does keeps SessionInv.
LEMMA PageKeeps ==
  ASSUME SessionInv, NEW p \in Pages, Page(p)
  PROVE  SessionInv'
<1>1. CASE Connect(p)
  BY <1>1, ConnectKeeps
<1>2. CASE Cut(p)
  BY <1>2 DEF SessionInv, TypeOK, Cut, Reaches, server, heartbeat
<1>3. CASE Leave(p)
  <2>1. TypeOK'
    BY <1>3 DEF SessionInv, TypeOK, Leave, server, heartbeat
  <2>2. QED
    BY <1>3, <2>1 DEF SessionInv, TypeOK, Leave, server
<1>4. CASE SubmitPassword(p)
  <2>1. UNCHANGED <<server, heartbeat, mode, socket, isAuthenticated, cut, driving>>
    BY <1>4 DEF SubmitPassword, SessionAccess
  <2>2. \/ activeUser' = activeUser
        \/ activeUser' = socket[p] /\ socket[p] \in connectedClients
    BY <1>4 DEF SubmitPassword, SessionAccess, Accepted, Reaches
  <2>3. inbox' \in [Pages -> SUBSET Events]
    <3>1. inbox' = inbox \/ Notify(p, "access")
      BY <1>4 DEF SubmitPassword, SessionAccess
    <3>2. QED
      BY <3>1, InboxTyped DEF SessionInv, TypeOK, Events
  <2>4. TypeOK'
    BY <2>1, <2>2, <2>3 DEF SessionInv, TypeOK, server, heartbeat
  <2>5. QED
    BY <2>1, <2>2, <2>4 DEF SessionInv, server
<1>5. CASE Unload(p)
  BY <1>5, LogoutKeeps DEF Unload, SessionInv, TypeOK
<1>6. CASE Drive(p)
  <2>1. driving' \in BOOLEAN
    BY <1>6 DEF Drive
  <2>2. QED
    BY <1>6, <2>1, MessageKeeps DEF Drive, SessionInv, TypeOK
<1>7. CASE \E button \in Buttons : DrivingMode(p, button)
  <2>1. PICK button \in Buttons : DrivingMode(p, button)
    BY <1>7
  <2>2. mode' \in Buttons \cup {"DEFAULT"} /\ driving' \in BOOLEAN
    BY <2>1 DEF DrivingMode, SessionInv, TypeOK
  <2>3. QED
    BY <2>1, <2>2, MessageKeeps DEF DrivingMode, SessionInv, TypeOK
<1>8. CASE ReceiveAccess(p)
  <2>1. inbox' \in [Pages -> SUBSET Events]
    BY <1>8, InboxTyped DEF ReceiveAccess, SessionInv, Events
  <2>2. isAuthenticated' \in [Pages -> BOOLEAN]
    BY <1>8 DEF ReceiveAccess, SessionInv, TypeOK
  <2>3. QED
    BY <1>8, <2>1, <2>2, MessageKeeps DEF ReceiveAccess, SessionInv, TypeOK
<1>9. CASE ReceiveHeartbeat(p)
  <2>1. inbox' \in [Pages -> SUBSET Events]
    BY <1>9, InboxTyped DEF ReceiveHeartbeat, SessionInv, Events
  <2>2. CASE isAuthenticated[p]
    BY <1>9, <2>1, <2>2, MessageKeeps DEF ReceiveHeartbeat, SessionInv, TypeOK
  <2>3. CASE ~isAuthenticated[p]
    <3>1. TypeOK'
      BY <1>9, <2>1, <2>3 DEF ReceiveHeartbeat, SessionInv, TypeOK, server, heartbeat
    <3>2. QED
      BY <1>9, <3>1 DEF ReceiveHeartbeat, SessionInv, server
  <2>4. QED
    BY <2>2, <2>3
<1>10. CASE ReceiveHeartbeatDisconnect(p)
  <2>1. inbox' \in [Pages -> SUBSET Events]
    BY <1>10, InboxTyped DEF ReceiveHeartbeatDisconnect, SessionInv, Events
  <2>2. QED
    BY <1>10, <2>1, LogoutKeeps DEF ReceiveHeartbeatDisconnect
<1>11. QED
  BY <1>1, <1>2, <1>3, <1>4, <1>5, <1>6, <1>7, <1>8, <1>9, <1>10 DEF Page

\* handle_disconnect, send_heartbeat and the messages of the pages, in any order,
\* leave the session with a connected socket or with nobody, and the camera
\* streaming exactly while somebody is connected.
THEOREM SessionCorrect == Spec => []SessionInv
<1>1. SessionInv /\ [Next]_vars => SessionInv'
  <2> SUFFICES ASSUME SessionInv, [Next]_vars PROVE SessionInv'
    OBVIOUS
  <2>1. CASE \E p \in Pages : Page(p)
    BY <2>1, PageKeeps
  <2>2. CASE \E s \in Sockets : Disconnect(s)
    BY <2>2, DisconnectKeeps
  <2>3. CASE SendHeartbeat
    BY <2>3, HeartbeatKeeps
  <2>4. CASE UNCHANGED vars
    BY <2>4 DEF vars, server, heartbeat, SessionInv, TypeOK
  <2>5. QED
    BY <2>1, <2>2, <2>3, <2>4 DEF Next
<1>2. QED
  BY InitSession, <1>1, PTL DEF Spec

\* What LostSessionStops says of one step.
EndsSafely ==
  activeUser # 0 /\ activeUser' # activeUser =>
    /\ activeUser' = 0
    /\ driving' => \/ mode = "AUTO"
                  \/ \E p \in Pages : socket[p] = activeUser /\ ~isAuthenticated'[p]

\* A page ends a session only by logging out, and only its own.
LEMMA LogoutEndsSafely ==
  ASSUME TypeOK, NEW p \in Pages, Logout(p)
  PROVE  EndsSafely
<1> SUFFICES ASSUME activeUser # 0, activeUser' # activeUser
             PROVE  /\ activeUser' = 0
                    /\ socket[p] = activeUser /\ ~isAuthenticated'[p]
  BY DEF EndsSafely
<1>1. Accepted(p) /\ activeUser' = 0
  BY DEF Logout
<1>2. socket[p] = activeUser
  BY <1>1 DEF Accepted
<1>3. ~isAuthenticated'[p]
  BY DEF Logout, TypeOK
<1>4. QED
  BY <1>1, <1>2, <1>3

\* The same of all that a page does.
LEMMA PageEndsSafely ==
  ASSUME TypeOK, NEW p \in Pages, Page(p)
  PROVE  EndsSafely
<1>1. CASE Unload(p) \/ ReceiveHeartbeatDisconnect(p)
  BY <1>1, LogoutEndsSafely DEF Unload, ReceiveHeartbeatDisconnect
<1>2. CASE SubmitPassword(p)
  BY <1>2 DEF SubmitPassword, SessionAccess, Accepted, EndsSafely
<1>3. CASE Connect(p)
  BY <1>3 DEF Connect, EndsSafely
<1>4. CASE \/ Cut(p) \/ Leave(p) \/ Drive(p)
           \/ \E button \in Buttons : DrivingMode(p, button)
           \/ ReceiveAccess(p) \/ ReceiveHeartbeat(p)
  BY <1>4 DEF Cut, Leave, Drive, DrivingMode, ReceiveAccess, ReceiveHeartbeat, EndsSafely
<1>5. QED
  BY <1>1, <1>2, <1>3, <1>4 DEF Page

\* A session passes from its user to nobody, never straight to another user, and a
\* disconnect or missing heartbeats that end it outside AUTO stop the car.
THEOREM SessionEndsSafely == Spec => LostSessionStops
<1>1. SessionInv /\ [Next]_vars => [EndsSafely]_vars
  <2> SUFFICES ASSUME SessionInv, Next PROVE EndsSafely
    OBVIOUS
  <2>1. CASE \E p \in Pages : Page(p)
    BY <2>1, PageEndsSafely DEF SessionInv
  <2>2. CASE \E s \in Sockets : Disconnect(s)
    BY <2>2 DEF Disconnect, Released, Stopped, EndsSafely
  <2>3. CASE SendHeartbeat
    BY <2>3 DEF SendHeartbeat, Stopped, EndsSafely
  <2>4. QED
    BY <2>1, <2>2, <2>3 DEF Next
<1>2. QED
  BY SessionCorrect, <1>1, PTL DEF Spec, LostSessionStops, EndsSafely
=============================================================================
