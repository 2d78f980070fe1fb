----------------------------- MODULE SerialRead -----------------------------
(***************************************************************************)
(* What threadRead makes of the bytes of the micro-controller: frames      *)
(* "@name:value;;" arrive in pieces, reads that fail lose what they        *)
(* read, a reconnection empties the port but not self.buffer, and frames   *)
(* cut off by either are taken apart again at the "@name:" of the next.    *)
(*                                                                         *)
(* A frame is a head (from its "@") and a tail (to its ";;"), divided in   *)
(* its name, in its value or between the two ";", for what the reader sees *)
(* of its neighbours depends on that.  A frame is either a sample of the   *)
(* IMU, which is also published on ROS, or any other message to the        *)
(* gateway; what is in it does not matter, nor which of the 14 messages it *)
(* becomes.  Frames of the encoder alone, of which the gateway gets ten a  *)
(* second, and of the speed, of which it gets none, are left out.          *)
(***************************************************************************)
EXTENDS Naturals, Sequences

CONSTANTS
  MaxFrames, \* bound: frames the board sends
  Samples,   \* which of them are samples: "imuenc" and "imu" frames
  Imu,       \* which of the samples are "imu" frames
  InName,    \* the frames divided in their name ("@ba", "ttery:79;;"),
  InEnd      \* and those divided between the two ";"; the others in their value

ASSUME SerialReadAssumption ==
  /\ MaxFrames \in Nat
  /\ Imu \subseteq Samples /\ Samples \subseteq 1..MaxFrames
  /\ InName \subseteq 1..MaxFrames /\ InEnd \subseteq 1..MaxFrames
  /\ InName \cap InEnd = {}

Frames == 1..MaxFrames
Pieces == [frame : Frames, part : {"head", "tail"}]

VARIABLES
  begun,     \* frames the board has begun to send
  inFrame,   \* it has sent the head of the last one only
  wire,      \* pieces in the port's input
  buffer,    \* self.buffer
  chunks,    \* what is left of the list _split_compound_messages made of the
             \* message at hand, by the place where each chunk begins
  gateway,   \* history: what send_queue handled for the gateway
  onRos,     \* history: the samples published on ROS
  ros,       \* the node: "none", "up", or "shut" (_ros_shutdown_requested)
  cut,       \* history: the frames of which a piece was lost
  skipped,   \* history: frames dropped because one before them raised
  swallowed  \* history: frames that got no chunk of their own

omitted == <<skipped, swallowed>>
readVars == <<begun, inFrame, wire, buffer, chunks, gateway, onRos, ros, cut, omitted>>

\* A chunk: the frame its head is from, and that of its tail (0: it has none).
Chunks == [head : Frames, tail : Frames \cup {0}]

ReadTypeOK ==
  /\ begun \in 0..MaxFrames /\ inFrame \in BOOLEAN
  /\ wire \in Seq(Pieces) /\ buffer \in Seq(Pieces)
  /\ DOMAIN chunks \subseteq Nat /\ \A i \in DOMAIN chunks : chunks[i] \in Chunks
  /\ gateway \in Seq(Chunks)
  /\ onRos \in Seq(Chunks)
  /\ ros \in {"none", "up", "shut"}
  /\ cut \subseteq Frames /\ skipped \subseteq Frames /\ swallowed \subseteq Frames

ReadInit ==
  /\ begun = 0 /\ inFrame = FALSE
  /\ wire = <<>> /\ buffer = <<>> /\ chunks = <<>>
  /\ gateway = <<>> /\ onRos = <<>> /\ ros = "none"
  /\ cut = {} /\ skipped = {} /\ swallowed = {}

FramesIn(s) == {s[i].frame : i \in DOMAIN s}
----------------------------------------------------------------------------
(* The board and the link. *)

BoardSends ==
  /\ \/ /\ ~inFrame /\ begun < MaxFrames
        /\ begun' = begun + 1
        /\ wire' = Append(wire, [frame |-> begun + 1, part |-> "head"])
     \/ /\ inFrame
        /\ wire' = Append(wire, [frame |-> begun, part |-> "tail"])
        /\ UNCHANGED begun
  /\ inFrame' = ~inFrame
  /\ UNCHANGED <<buffer, chunks, gateway, onRos, ros, cut, omitted>>

\* The board restarts in the middle of a frame.
BoardRestarts ==
  /\ inFrame
  /\ inFrame' = FALSE
  /\ cut' = cut \cup {begun}
  /\ UNCHANGED <<begun, wire, buffer, chunks, gateway, onRos, ros, omitted>>

\* _try_serial_connection empties the port; a read that is no ASCII is dropped.
InputLost ==
  /\ wire # <<>>
  /\ wire' = <<>>
  /\ cut' = cut \cup FramesIn(wire)
  /\ UNCHANGED <<begun, inFrame, buffer, chunks, gateway, onRos, ros, omitted>>
----------------------------------------------------------------------------
(* thread_work: one read, then every message that is complete. *)

\* Where a ";;" ends: the tail of a frame divided between the two ";" needs the
\* other one before it.
Ends(s) ==
  {i \in DOMAIN s : /\ s[i].part = "tail"
                    /\ s[i].frame \in InEnd => i > 1 /\ s[i - 1].frame \in InEnd}

ReadSerial ==
  /\ DOMAIN chunks = {} /\ Ends(buffer) = {}
  /\ wire # <<>>
  /\ buffer' = buffer \o wire
  /\ wire' = <<>>
  /\ UNCHANGED <<begun, inFrame, chunks, gateway, onRos, ros, cut, omitted>>

\* Where "@name:" is found: the name may be in the head, or be completed by a tail.
Starts(msg) ==
  {i \in 1..(Len(msg) - 1) :
     /\ msg[i].part = "head"
     /\ msg[i].frame \in InName => i = Len(msg) - 1 /\ msg[i + 1].frame \in InName}

\* _split_compound_messages: chunks from "@name:" to "@name:", but the whole message
\* if it does not begin with one; without an "@" send_queue drops it.
\* (Mutant: the message is always taken whole.)
SplitCompound_Whole(msg) ==
  [i \in {k \in {1} : msg[k].part = "head"} |->
     [head |-> msg[1].frame, tail |-> msg[Len(msg)].frame]]
SplitCompound(msg) ==
  LET starts == IF \A i \in DOMAIN msg : msg[i].part = "tail" THEN {}
                ELSE IF 1 \in Starts(msg) THEN Starts(msg) ELSE {1}
  IN  [i \in starts |->
         [head |-> msg[i].frame,
          tail |-> IF \E j \in starts : i < j THEN 0 ELSE msg[Len(msg)].frame]]

\* What is left of the buffer behind the first ";;".  (Mutant: all of it.)
Rest_Kept(s, end) == s
Rest(s, end) == SubSeq(s, end + 1, Len(s))

NextMessage ==
  /\ DOMAIN chunks = {}
  /\ \E end \in Ends(buffer) :
       /\ \A i \in Ends(buffer) : end <= i
       /\ LET msg == SubSeq(buffer, 1, end) IN
            /\ chunks' = SplitCompound(msg)
            /\ swallowed' = swallowed \cup
                 (FramesIn(msg) \ {chunks'[i].head : i \in DOMAIN chunks'})
       /\ buffer' = Rest(buffer, end)
  /\ UNCHANGED <<begun, inFrame, wire, gateway, onRos, ros, cut, skipped>>

Intact(c) == c.head = c.tail

\* _init_ros: without a node one is made (it may fail), unless ROS was shut.
MayPublish == ros # "shut"

\* The sample is published, or not (the rate limit, no node); a publication that
\* fails shuts ROS for good.
PublishSample(c) ==
  \/ UNCHANGED <<onRos, ros>>
  \/ MayPublish /\ ros' = "up" /\ onRos' = Append(onRos, c)
  \/ MayPublish /\ ros' = "shut" /\ UNCHANGED onRos

\* The loop over the chunks: the first of them, and those that are left.
First(i) == \A j \in DOMAIN chunks : i <= j
Without(S) == [j \in DOMAIN chunks \ S |-> chunks[j]]

\* The messages of a sample: an "imu" frame is sent by send_queue and again by
\* _handle_imu_sample, unless it is damaged in a value (line 813).
MessagesOf(c) ==
  IF c.head \notin Imu THEN {<<c>>}
  ELSE {<<c, c>>} \cup (IF Intact(c) THEN {} ELSE {<<c>>})

\* send_queue of a chunk: a sample, or any other message.
SendSample ==
  /\ \E i \in DOMAIN chunks :
       /\ First(i) /\ chunks[i].head \in Samples
       /\ \E sent \in MessagesOf(chunks[i]) : gateway' = gateway \o sent
       /\ PublishSample(chunks[i])
       /\ chunks' = Without({i})
  /\ UNCHANGED <<begun, inFrame, wire, buffer, cut, omitted>>

SendOther ==
  /\ \E i \in DOMAIN chunks :
       /\ First(i) /\ chunks[i].head \notin Samples
       /\ gateway' = Append(gateway, chunks[i])
       /\ chunks' = Without({i})
  /\ UNCHANGED <<begun, inFrame, wire, buffer, onRos, ros, cut, omitted>>

\* A chunk that is not intact may be rejected (a name nobody knows, a sample with too
\* few values, a value that matches nothing), or raise, which ends its message.
RejectChunk ==
  /\ \E i \in DOMAIN chunks :
       /\ First(i) /\ ~Intact(chunks[i])
       /\ \/ chunks' = Without({i}) /\ UNCHANGED skipped
          \/ /\ chunks' = Without(DOMAIN chunks)
             /\ skipped' = skipped \cup {chunks[j].head : j \in DOMAIN chunks \ {i}}
  /\ UNCHANGED <<begun, inFrame, wire, buffer, gateway, onRos, ros, cut, swallowed>>

ReadNext ==
  \/ BoardSends \/ BoardRestarts \/ InputLost
  \/ ReadSerial \/ NextMessage \/ SendSample \/ SendOther \/ RejectChunk

ReadSpec == ReadInit /\ [][ReadNext]_readVars
----------------------------------------------------------------------------
(* Safety. *)

\* A value is published that the board never sent only if pieces of that frame
\* were lost: nothing else mixes frames, however reads cut them.
OnlyCutFramesMix ==
  \A i \in DOMAIN gateway : Intact(gateway[i]) \/ gateway[i].head \in cut

\* Frames are handled in the order they were sent, and each once; only an "imu"
\* frame becomes two messages, one behind the other.
FramesInOrder ==
  /\ \A i, j \in DOMAIN gateway : i < j =>
       \/ gateway[i].head < gateway[j].head
       \/ gateway[i] = gateway[j] /\ gateway[i].head \in Imu /\ j = i + 1
  /\ \A i, j \in DOMAIN onRos : i < j => onRos[i].head < onRos[j].head

\* A frame that was not cut is published, with two exceptions: the frame before it was
\* cut, was in the same message and raised; or the message begins with a frame cut in
\* its name or its end, and all between are cut too.  ROS costs the gateway nothing.
DamageIsLocal ==
  /\ \A f \in 1..begun :
       \/ f \in cut \cup skipped \cup swallowed
       \/ \E i \in DOMAIN gateway : gateway[i] = [head |-> f, tail |-> f]
       \/ f \in FramesIn(wire) \cup FramesIn(buffer)
       \/ \E i \in DOMAIN chunks : chunks[i].head = f
  /\ \A f \in skipped : f \in cut \/ f - 1 \in cut
  /\ \A f \in swallowed : f \in cut \/
       \E g \in InName \cup InEnd : g < f /\ g..(f - 1) \subseteq cut

ReadInv == ReadTypeOK /\ OnlyCutFramesMix /\ FramesInOrder
=============================================================================
