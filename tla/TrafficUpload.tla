---------------------------- MODULE TrafficUpload ----------------------------
(***************************************************************************)
(* How the car reports to the traffic server: the collector thread, which  *)
(* caches what it hears on ROS and sends it over its own TCP socket and    *)
(* through the shared memory; the periodic task that takes it from there;  *)
(* and the Twisted client, which finds the server by its UDP broadcasts    *)
(* and connects to it.  By default only the shared memory and the client   *)
(* are in use, with TRAFFIC_LEGACY_ENABLE off only the collector's own     *)
(* socket, with TRAFFIC_SIMPLE_TCP_ENABLE on too both (processTraffic-     *)
(* Communication 167-169): both are here, and share nothing but the event. *)
(*                                                                         *)
(* Position, rotation and speed are sent at most once a second and again   *)
(* every heartbeat: one kind of entry, "state".  A history event is to be  *)
(* sent once.  Time is left out: what waits for a period may go at any     *)
(* moment.  A connection attempt that fails is repeated after a second     *)
(* (clientConnectionFailed) and so remains an attempt.                     *)
(***************************************************************************)
EXTENDS Naturals, FiniteSets

CONSTANTS
  MemSize,   \* entries of the shared memory
  MaxEvents, \* bound: history events
  MaxStates, \* bound: state entries
  MaxConns,  \* bound: connections at a time, made and attempted
  MaxHeard   \* bound: datagrams that wait in the UDP socket

ASSUME TrafficUploadAssumption ==
  /\ MemSize \in Nat \ {0}
  /\ MaxEvents \in Nat /\ MaxStates \in Nat
  /\ MaxConns \in Nat /\ MaxHeard \in Nat

Slots == 0..(MemSize - 1)

VARIABLES
  \* the collector
  rosUp,     \* it has its ROS node
  eventSeq,  \* _history_update_seq: the number of the newest event
  sharedSeq, \* _last_shared_history_seq
  tcpSeq,    \* _last_tcp_history_seq
  sock,      \* its TCP socket: "none", "open", "dead" (the server is gone, which
             \* nothing has told it yet) or "broken" (sends and reads fail)
  arrived,   \* history: the newest event that reached the server over it
  lost,      \* history: the newest that was written to it when it was dead
  states,    \* state entries put in the shared memory
  \* the shared memory
  ring,      \* the number of the unread entry in each slot; 0: finishflag is off
  lastMem,
  inserted,  \* history: the entries put in so far
  taken,     \* history: the entries get() returned
  \* the Twisted client
  port,      \* the UDP port: "open", "closing" (stopListening has been called, the
             \* reactor closes it in its next iteration) or "closed"
  heard,     \* datagrams that wait in it
  connecting, conns, \* attempts and connections of the factory
  connection, \* factory.connection is set
  period,    \* the periodic task runs
  missed,    \* history: listenUDP failed because the port was closing, and the task
             \* was not started since
  server     \* the server is up

collected == <<rosUp, eventSeq, sharedSeq, tcpSeq, states>>
tcp == <<sock, arrived, lost>>
shared == <<ring, lastMem, inserted, taken>>
client == <<port, heard, connecting, conns, connection, period, missed>>
uploadVars == <<collected, tcp, shared, client, server>>

\* Every state entry, and for every event one entry at most.
MaxEntries == MaxEvents + MaxStates

UploadTypeOK ==
  /\ rosUp \in BOOLEAN /\ eventSeq \in 0..MaxEvents
  /\ sharedSeq \in 0..MaxEvents /\ tcpSeq \in 0..MaxEvents
  /\ sock \in {"none", "open", "dead", "broken"} /\ states \in 0..MaxStates
  /\ arrived \in 0..MaxEvents /\ lost \in 0..MaxEvents
  /\ ring \in [Slots -> 0..MaxEntries] /\ lastMem \in Slots
  /\ inserted \in 0..MaxEntries
  /\ taken \subseteq 1..MaxEntries
  /\ port \in {"open", "closing", "closed"} /\ heard \in 0..MaxHeard
  /\ connecting \in 0..MaxConns /\ conns \in 0..MaxConns
  /\ connection \in BOOLEAN /\ period \in BOOLEAN /\ missed \in BOOLEAN
  /\ server \in BOOLEAN

UploadInit ==
  /\ rosUp = FALSE /\ eventSeq = 0 /\ sharedSeq = 0 /\ tcpSeq = 0 /\ states = 0
  /\ sock = "none" /\ arrived = 0 /\ lost = 0
  /\ ring = [i \in Slots |-> 0] /\ lastMem = 0 /\ inserted = 0 /\ taken = {}
  /\ port = "open" /\ heard = 0 /\ connecting = 0 /\ conns = 0
  /\ connection = FALSE /\ period = FALSE /\ missed = FALSE
  /\ server = FALSE
----------------------------------------------------------------------------
(* The server. *)

\* It goes down, or out of reach, without a word; or comes back.
ServerChanges ==
  /\ server' = ~server
  /\ sock' = IF sock = "open" /\ server THEN "dead" ELSE sock
  /\ UNCHANGED <<collected, arrived, lost, shared, client>>

\* A dead socket may be told so, by a FIN or a RST.
SockBreaks ==
  /\ sock = "dead"
  /\ sock' = "broken"
  /\ UNCHANGED <<collected, arrived, lost, shared, client, server>>

ServerBroadcasts ==
  /\ server /\ port # "closed" /\ heard < MaxHeard
  /\ heard' = heard + 1
  /\ UNCHANGED <<collected, tcp, shared, port, connecting, conns, connection, period,
                 missed, server>>
----------------------------------------------------------------------------
(* The collector: ROS. *)

\* _init_ros, or a spin that fails and closes the node; both are tried again.
RosChanges ==
  /\ rosUp' = ~rosUp
  /\ UNCHANGED <<eventSeq, sharedSeq, tcpSeq, states, tcp, shared, client, server>>

\* _on_history_event_xy; the event before is overwritten.
HearEvent ==
  /\ rosUp /\ eventSeq < MaxEvents
  /\ eventSeq' = eventSeq + 1
  /\ UNCHANGED <<rosUp, sharedSeq, tcpSeq, states, tcp, shared, client, server>>
----------------------------------------------------------------------------
(* The collector: the shared memory. *)

Unread == {i \in Slots : ring[i] # 0}

\* The next slot.  (Mutant: it wraps one slot early.)
NextSlot_Early(i) == IF i + 2 >= MemSize THEN 0 ELSE i + 1
NextSlot(i) == IF i + 1 = MemSize THEN 0 ELSE i + 1

Insert ==
  /\ inserted' = inserted + 1
  /\ ring' = [ring EXCEPT ![lastMem] = inserted + 1]
  /\ lastMem' = NextSlot(lastMem)

\* The values heard last: changed, or due for their heartbeat, which they are without
\* a node too.
FlushStates ==
  /\ rosUp \/ states > 0
  /\ states < MaxStates
  /\ Insert
  /\ states' = states + 1
  /\ UNCHANGED <<rosUp, eventSeq, sharedSeq, tcpSeq, tcp, taken, client, server>>

FlushEvent ==
  /\ eventSeq # sharedSeq
  /\ Insert
  /\ sharedSeq' = eventSeq
  /\ UNCHANGED <<rosUp, eventSeq, tcpSeq, states, tcp, taken, client, server>>
----------------------------------------------------------------------------
(* The collector: its own TCP socket, and the thread that receives from it. *)

ConnectTcp ==
  /\ sock = "none" /\ server
  /\ sock' = "open"
  /\ UNCHANGED <<collected, arrived, lost, shared, client, server>>

\* The event counts as sent once sendall has returned, which it does on a dead
\* socket too.
SendEventTcp ==
  /\ eventSeq # tcpSeq /\ sock \in {"open", "dead"}
  /\ tcpSeq' = eventSeq
  /\ IF sock = "open" THEN arrived' = eventSeq /\ UNCHANGED lost
                      ELSE lost' = eventSeq /\ UNCHANGED arrived
  /\ UNCHANGED <<rosUp, eventSeq, sharedSeq, states, sock, shared, client, server>>

\* What is left of a socket that was closed.  (Mutant: the closed socket.)
ClosedSock_Kept == sock
ClosedSock == "none"

\* A send or a read fails, by either thread: the socket is closed, to be opened again.
CloseTcp ==
  /\ sock = "broken"
  /\ sock' = ClosedSock
  /\ UNCHANGED <<collected, arrived, lost, shared, client, server>>
----------------------------------------------------------------------------
(* The Twisted client: one thread runs all of its callbacks. *)

\* datagramReceived and serverFound: connect, stop listening, start the task.
\* Datagrams that waited with the first are received in the same read.
ServerFound ==
  /\ heard > 0 /\ connecting + conns < MaxConns
  /\ heard' = heard - 1
  /\ connecting' = connecting + 1
  /\ port' = "closing" /\ period' = TRUE /\ missed' = FALSE
  /\ UNCHANGED <<collected, tcp, shared, conns, connection, server>>

\* The reactor closes the port, with what waits in it.
PortClosed ==
  /\ port = "closing"
  /\ port' = "closed" /\ heard' = 0
  /\ UNCHANGED <<collected, tcp, shared, connecting, conns, connection, period, missed,
                 server>>

\* The newest connection is the factory's.  An attempt is made in a later iteration
\* than the one that began it: while the port is closing, only an older one is.
ConnectionMade ==
  /\ server /\ connecting > (IF port = "closing" THEN 1 ELSE 0)
  /\ connecting' = connecting - 1 /\ conns' = conns + 1
  /\ connection' = TRUE
  /\ UNCHANGED <<collected, tcp, shared, port, heard, period, missed, server>>

\* listenUDP of serverLost, which fails, unheard, while the port is open or closing.
\* (Mutant: serverLost does not listen again.)
ListensAgain_Not == port
ListensAgain == IF port = "closed" THEN "open" ELSE port

\* Any connection of the factory is lost: it forgets the one it uses, stops the
\* periodic task and listens.
ConnectionLost ==
  /\ conns > 0
  /\ conns' = conns - 1
  /\ connection' = FALSE
  /\ period' = FALSE /\ port' = ListensAgain /\ missed' = (port = "closing")
  /\ UNCHANGED <<collected, tcp, shared, heard, connecting, server>>

\* periodic_check: everything unread is taken, in the order of the slots, and
\* written to the connection, which does not fail while it is the factory's; what
\* a server that is gone does not read is lost with it.
PeriodicCheck ==
  /\ period /\ connection
  /\ Unread # {}
  /\ taken' = taken \cup {ring[i] : i \in Unread}
  /\ ring' = [i \in Slots |-> 0]
  /\ UNCHANGED <<collected, tcp, lastMem, inserted, client, server>>
----------------------------------------------------------------------------
Collector == FlushStates \/ FlushEvent \/ ConnectTcp \/ SendEventTcp \/ CloseTcp
Reactor == ServerFound \/ PortClosed \/ ConnectionMade \/ PeriodicCheck

UploadNext ==
  \/ ServerChanges \/ SockBreaks \/ ServerBroadcasts \/ RosChanges \/ HearEvent
  \/ Collector \/ Reactor \/ ConnectionLost

UploadSpec == UploadInit /\ [][UploadNext]_uploadVars
----------------------------------------------------------------------------
(* Safety. *)

\* The client is never deaf: it has a connection, tries to get one, or listens for
\* the server.  Its periodic task is stopped only while it listens, or since a
\* connection was lost in the very iteration in which the server was found.
NeverDeaf ==
  /\ connection \/ connecting > 0 \/ port = "open"
  /\ period \/ port = "open" \/ missed
  /\ connection => conns > 0

UploadInv == UploadTypeOK /\ NeverDeaf

\* The shared memory is a queue of MemSize entries that loses only its oldest
\* entry, only when it is full, and hands out none twice.
Reports == INSTANCE DropOldest
  WITH Size <- MemSize, count <- inserted, queued <- {ring[i] : i \in Unread}
ReportsAreQueued == Reports!Spec
----------------------------------------------------------------------------
(* Liveness: the collector and the reactor run, and a server that is up *)
(* broadcasts, fairly.                                                  *)

\* Once the server stays, the newest history event has reached it over the collector's
\* own socket, however often that broke, or was lost with a server that was gone when
\* the event was written.
EventsArrive == <>[]server => <>[](eventSeq \in {0, arrived, lost})

\* Once the server stays and no connection of the client is lost any more, all that
\* is in the shared memory is taken, and the newest event was put in: the client that
\* lost the server finds it again, and starts its task, unless listenUDP was missed.
ReportsAreTaken ==
  <>[](server /\ ~missed) /\ <>[][~ConnectionLost]_uploadVars =>
    <>[](Unread = {} /\ sharedSeq = eventSeq)
=============================================================================
