---------------------------- MODULE SerialProofs ----------------------------
(***************************************************************************)
(* Proofs about the serial handler's link and its read thread.             *)
(*                                                                         *)
(* SerialLink: LinkInv is inductive as it stands.  That there is one chain *)
(* of reconnections and that threads are paused only while something will  *)
(* resume them need each other, and the place where the loop and the       *)
(* attempt are, so they are proved together.                               *)
(*                                                                         *)
(* SerialRead: the pieces of all frames have one order, in which they are  *)
(* sent and lie in the input; what is a message, or was one, is behind all *)
(* that is unread.  ReadIInv says that, and that of a frame which was not  *)
(* cut the head and the tail come and go together.                         *)
(***************************************************************************)
EXTENDS SerialLink, SerialRead, SequenceTheorems, TLAPS
-----------------------------------------------------------------------------
(* The link. *)

LEMMA InitLink == LinkInit => LinkInv
BY DEF LinkInit, LinkInv, LinkTypeOK, OneReconnection, PausedOnlyWhileDown,
       StoppedNotPaused

\* The board and the cable change nothing the handler keeps.
LEMMA BoardHangsKeeps ==
  ASSUME LinkInv, BoardHangs
  PROVE  LinkInv'
<1>1. LinkTypeOK'
  BY DEF LinkInv, LinkTypeOK, linkFlags, linkEvents, linkThreads, OneReconnection,
         BoardHangs
<1>2. OneReconnection'
  BY DEF LinkInv, LinkTypeOK, linkFlags, linkEvents, linkThreads, OneReconnection,
         BoardHangs
<1>3. PausedOnlyWhileDown' /\ StoppedNotPaused'
  BY DEF LinkInv, LinkTypeOK, linkFlags, linkEvents, linkThreads, OneReconnection,
         PausedOnlyWhileDown, StoppedNotPaused, BoardHangs
<1>4. QED
  BY <1>1, <1>2, <1>3 DEF LinkInv, linkFlags, linkEvents, linkThreads, BoardHangs

LEMMA CableMovesKeeps ==
  ASSUME LinkInv, CableMoves
  PROVE  LinkInv'
<1>1. LinkTypeOK'
  BY DEF LinkInv, LinkTypeOK, linkFlags, linkEvents, linkThreads, OneReconnection,
         CableMoves
<1>2. OneReconnection'
  BY DEF LinkInv, LinkTypeOK, linkFlags, linkEvents, linkThreads, OneReconnection,
         CableMoves
<1>3. PausedOnlyWhileDown' /\ StoppedNotPaused'
  BY DEF LinkInv, LinkTypeOK, linkFlags, linkEvents, linkThreads, OneReconnection,
         PausedOnlyWhileDown, StoppedNotPaused, CableMoves
<1>4. QED
  BY <1>1, <1>2, <1>3 DEF LinkInv, linkFlags, linkEvents, linkThreads, CableMoves

\* Each step of an attempt.
LEMMA TimerFiresKeeps ==
  ASSUME LinkInv, TimerFires
  PROVE  LinkInv'
<1>1. LinkTypeOK'
  BY DEF LinkInv, LinkTypeOK, linkFlags, linkEvents, linkThreads, OneReconnection,
         TimerFires
<1>2. OneReconnection'
  BY DEF LinkInv, LinkTypeOK, linkFlags, linkEvents, linkThreads, OneReconnection,
         TimerFires
<1>3. PausedOnlyWhileDown' /\ StoppedNotPaused'
  BY DEF LinkInv, LinkTypeOK, linkFlags, linkEvents, linkThreads, OneReconnection,
         PausedOnlyWhileDown, StoppedNotPaused, TimerFires
<1>4. QED
  BY <1>1, <1>2, <1>3 DEF LinkInv, linkFlags, linkEvents, linkThreads, TimerFires

LEMMA TrySerialConnectionKeeps ==
  ASSUME LinkInv, TrySerialConnection
  PROVE  LinkInv'
<1>1. LinkTypeOK'
  BY DEF LinkInv, LinkTypeOK, linkFlags, linkEvents, linkThreads, OneReconnection,
         TrySerialConnection
<1>2. OneReconnection'
  BY DEF LinkInv, LinkTypeOK, linkFlags, linkEvents, linkThreads, OneReconnection,
         TrySerialConnection
<1>3. PausedOnlyWhileDown' /\ StoppedNotPaused'
  BY DEF LinkInv, LinkTypeOK, linkFlags, linkEvents, linkThreads, OneReconnection,
         PausedOnlyWhileDown, StoppedNotPaused, TrySerialConnection
<1>4. QED
  BY <1>1, <1>2, <1>3 DEF LinkInv, linkFlags, linkEvents, linkThreads, TrySerialConnection

LEMMA AttemptFailsKeeps ==
  ASSUME LinkInv, AttemptFails
  PROVE  LinkInv'
<1>1. LinkTypeOK'
  <2>1. reconnecting' \in BOOLEAN
    BY DEF AttemptFails
  <2>2. QED
    BY <2>1 DEF LinkInv, LinkTypeOK, linkFlags, linkEvents, linkThreads, OneReconnection,
                AttemptFails, TryAgain
<1>2. OneReconnection'
  BY DEF LinkInv, LinkTypeOK, linkFlags, linkEvents, linkThreads, OneReconnection,
         AttemptFails, TryAgain
<1>3. PausedOnlyWhileDown' /\ StoppedNotPaused'
  BY DEF LinkInv, LinkTypeOK, linkFlags, linkEvents, linkThreads, OneReconnection,
         PausedOnlyWhileDown, StoppedNotPaused, AttemptFails, TryAgain
<1>4. QED
  BY <1>1, <1>2, <1>3 DEF LinkInv, linkFlags, linkEvents, linkThreads, AttemptFails, TryAgain

LEMMA TellConnectedKeeps ==
  ASSUME LinkInv, TellConnected
  PROVE  LinkInv'
<1>1. LinkTypeOK'
  BY DEF LinkInv, LinkTypeOK, linkFlags, linkEvents, linkThreads, OneReconnection,
         TellConnected
<1>2. OneReconnection'
  BY DEF LinkInv, LinkTypeOK, linkFlags, linkEvents, linkThreads, OneReconnection,
         TellConnected
<1>3. PausedOnlyWhileDown' /\ StoppedNotPaused'
  BY DEF LinkInv, LinkTypeOK, linkFlags, linkEvents, linkThreads, OneReconnection,
         PausedOnlyWhileDown, StoppedNotPaused, TellConnected
<1>4. QED
  BY <1>1, <1>2, <1>3 DEF LinkInv, linkFlags, linkEvents, linkThreads, TellConnected

LEMMA ResetThreadErrorsKeeps ==
  ASSUME LinkInv, ResetThreadErrors
  PROVE  LinkInv'
<1>1. LinkTypeOK'
  BY DEF LinkInv, LinkTypeOK, linkFlags, linkEvents, linkThreads, OneReconnection,
         ResetThreadErrors, RearmedWatchdog
<1>2. OneReconnection'
  BY DEF LinkInv, LinkTypeOK, linkFlags, linkEvents, linkThreads, OneReconnection,
         ResetThreadErrors, RearmedWatchdog
<1>3. PausedOnlyWhileDown' /\ StoppedNotPaused'
  BY DEF LinkInv, LinkTypeOK, linkFlags, linkEvents, linkThreads, OneReconnection,
         PausedOnlyWhileDown, StoppedNotPaused, ResetThreadErrors, RearmedWatchdog
<1>4. QED
  BY <1>1, <1>2, <1>3 DEF LinkInv, linkFlags, linkEvents, linkThreads, ResetThreadErrors, RearmedWatchdog

LEMMA ResumeAfterReconnectKeeps ==
  ASSUME LinkInv, ResumeAfterReconnect
  PROVE  LinkInv'
<1>1. LinkTypeOK'
  BY DEF LinkInv, LinkTypeOK, linkFlags, linkEvents, linkThreads, OneReconnection,
         ResumeAfterReconnect
<1>2. OneReconnection'
  BY DEF LinkInv, LinkTypeOK, linkFlags, linkEvents, linkThreads, OneReconnection,
         ResumeAfterReconnect
<1>3. PausedOnlyWhileDown' /\ StoppedNotPaused'
  BY DEF LinkInv, LinkTypeOK, linkFlags, linkEvents, linkThreads, OneReconnection,
         PausedOnlyWhileDown, StoppedNotPaused, ResumeAfterReconnect
<1>4. QED
  BY <1>1, <1>2, <1>3 DEF LinkInv, linkFlags, linkEvents, linkThreads, ResumeAfterReconnect

LEMMA AttemptSucceedsKeeps ==
  ASSUME LinkInv, AttemptSucceeds
  PROVE  LinkInv'
<1>1. LinkTypeOK'
  <2>1. reconnecting' \in BOOLEAN
    BY DEF AttemptSucceeds
  <2>2. QED
    BY <2>1 DEF LinkInv, LinkTypeOK, linkFlags, linkEvents, linkThreads, OneReconnection,
                AttemptSucceeds
<1>2. OneReconnection'
  BY DEF LinkInv, LinkTypeOK, linkFlags, linkEvents, linkThreads, OneReconnection,
         AttemptSucceeds
<1>3. PausedOnlyWhileDown' /\ StoppedNotPaused'
  BY DEF LinkInv, LinkTypeOK, linkFlags, linkEvents, linkThreads, OneReconnection,
         PausedOnlyWhileDown, StoppedNotPaused, AttemptSucceeds
<1>4. QED
  BY <1>1, <1>2, <1>3 DEF LinkInv, linkFlags, linkEvents, linkThreads, AttemptSucceeds

\* Each step of the loop of the process.
LEMMA InitSerialThreadsKeeps ==
  ASSUME LinkInv, InitSerialThreads
  PROVE  LinkInv'
<1>1. LinkTypeOK'
  BY DEF LinkInv, LinkTypeOK, linkFlags, linkEvents, linkThreads, OneReconnection,
         InitSerialThreads
<1>2. OneReconnection'
  BY DEF LinkInv, LinkTypeOK, linkFlags, linkEvents, linkThreads, OneReconnection,
         InitSerialThreads
<1>3. PausedOnlyWhileDown' /\ StoppedNotPaused'
  BY DEF LinkInv, LinkTypeOK, linkFlags, linkEvents, linkThreads, OneReconnection,
         PausedOnlyWhileDown, StoppedNotPaused, InitSerialThreads
<1>4. QED
  BY <1>1, <1>2, <1>3 DEF LinkInv, linkFlags, linkEvents, linkThreads, InitSerialThreads

LEMMA HandleStateChangeKeeps ==
  ASSUME LinkInv, HandleStateChange
  PROVE  LinkInv'
<1>1. LinkTypeOK'
  BY DEF LinkInv, LinkTypeOK, linkFlags, linkEvents, linkThreads, OneReconnection,
         HandleStateChange
<1>2. OneReconnection'
  BY DEF LinkInv, LinkTypeOK, linkFlags, linkEvents, linkThreads, OneReconnection,
         HandleStateChange
<1>3. PausedOnlyWhileDown' /\ StoppedNotPaused'
  BY DEF LinkInv, LinkTypeOK, linkFlags, linkEvents, linkThreads, OneReconnection,
         PausedOnlyWhileDown, StoppedNotPaused, HandleStateChange
<1>4. QED
  BY <1>1, <1>2, <1>3 DEF LinkInv, linkFlags, linkEvents, linkThreads, HandleStateChange

LEMMA ReceiveSerialStateKeeps ==
  ASSUME LinkInv, ReceiveSerialState
  PROVE  LinkInv'
<1>1. LinkTypeOK'
  BY DEF LinkInv, LinkTypeOK, linkFlags, linkEvents, linkThreads, OneReconnection,
         ReceiveSerialState
<1>2. OneReconnection'
  BY DEF LinkInv, LinkTypeOK, linkFlags, linkEvents, linkThreads, OneReconnection,
         ReceiveSerialState
<1>3. PausedOnlyWhileDown' /\ StoppedNotPaused'
  BY DEF LinkInv, LinkTypeOK, linkFlags, linkEvents, linkThreads, OneReconnection,
         PausedOnlyWhileDown, StoppedNotPaused, ReceiveSerialState
<1>4. QED
  BY <1>1, <1>2, <1>3 DEF LinkInv, linkFlags, linkEvents, linkThreads, ReceiveSerialState

LEMMA HandleSerialDisconnectionKeeps ==
  ASSUME LinkInv, HandleSerialDisconnection
  PROVE  LinkInv'
<1>1. LinkTypeOK'
  <2>1. CASE Disconnects
    <3>1. serialConnected' \in BOOLEAN /\ pauseEvent' \in BOOLEAN
      BY <2>1 DEF HandleSerialDisconnection
    <3>2. timers' = 1
      BY <2>1 DEF HandleSerialDisconnection, Disconnects, LinkInv, LinkTypeOK,
                  OneReconnection
    <3>3. QED
      BY <2>1, <3>1, <3>2 DEF LinkInv, LinkTypeOK, linkFlags, linkEvents, linkThreads,
                              HandleSerialDisconnection
  <2>2. CASE ~Disconnects
    BY <2>2 DEF LinkInv, LinkTypeOK, linkFlags, linkEvents, linkThreads,
                HandleSerialDisconnection
  <2>3. QED
    BY <2>1, <2>2
<1>2. OneReconnection'
  BY DEF LinkInv, LinkTypeOK, linkFlags, linkEvents, linkThreads, OneReconnection,
         HandleSerialDisconnection, Disconnects
<1>3. PausedOnlyWhileDown' /\ StoppedNotPaused'
  BY DEF LinkInv, LinkTypeOK, linkFlags, linkEvents, linkThreads, OneReconnection,
         PausedOnlyWhileDown, StoppedNotPaused, HandleSerialDisconnection, Disconnects
<1>4. QED
  BY <1>1, <1>2, <1>3 DEF LinkInv, linkFlags, linkEvents, linkThreads, HandleSerialDisconnection, Disconnects

LEMMA ApplyPauseKeeps ==
  ASSUME LinkInv, ApplyPause
  PROVE  LinkInv'
<1>1. LinkTypeOK'
  <2>1. pauseEvent' \in BOOLEAN
    BY DEF ApplyPause
  <2>2. QED
    BY <2>1 DEF LinkInv, LinkTypeOK, linkFlags, linkEvents, linkThreads, OneReconnection,
                ApplyPause
<1>2. OneReconnection'
  BY DEF LinkInv, LinkTypeOK, linkFlags, linkEvents, linkThreads, OneReconnection,
         ApplyPause
<1>3. PausedOnlyWhileDown' /\ StoppedNotPaused'
  BY DEF LinkInv, LinkTypeOK, linkFlags, linkEvents, linkThreads, OneReconnection,
         PausedOnlyWhileDown, StoppedNotPaused, ApplyPause
<1>4. QED
  BY <1>1, <1>2, <1>3 DEF LinkInv, linkFlags, linkEvents, linkThreads, ApplyPause

LEMMA ApplyResumeKeeps ==
  ASSUME LinkInv, ApplyResume
  PROVE  LinkInv'
<1>1. LinkTypeOK'
  <2>1. resumeEvent' \in BOOLEAN
    BY DEF ApplyResume
  <2>2. QED
    BY <2>1 DEF LinkInv, LinkTypeOK, linkFlags, linkEvents, linkThreads, OneReconnection,
                ApplyResume
<1>2. OneReconnection'
  BY DEF LinkInv, LinkTypeOK, linkFlags, linkEvents, linkThreads, OneReconnection,
         ApplyResume
<1>3. PausedOnlyWhileDown' /\ StoppedNotPaused'
  BY DEF LinkInv, LinkTypeOK, linkFlags, linkEvents, linkThreads, OneReconnection,
         PausedOnlyWhileDown, StoppedNotPaused, ApplyResume
<1>4. QED
  BY <1>1, <1>2, <1>3 DEF LinkInv, linkFlags, linkEvents, linkThreads, ApplyResume

LEMMA StopThreadsKeeps ==
  ASSUME LinkInv, StopThreads
  PROVE  LinkInv'
<1>1. LinkTypeOK'
  BY DEF LinkInv, LinkTypeOK, linkFlags, linkEvents, linkThreads, OneReconnection,
         StopThreads, Unpaused
<1>2. OneReconnection'
  BY DEF LinkInv, LinkTypeOK, linkFlags, linkEvents, linkThreads, OneReconnection,
         StopThreads, Unpaused
<1>3. PausedOnlyWhileDown' /\ StoppedNotPaused'
  BY DEF LinkInv, LinkTypeOK, linkFlags, linkEvents, linkThreads, OneReconnection,
         PausedOnlyWhileDown, StoppedNotPaused, StopThreads, Unpaused
<1>4. QED
  BY <1>1, <1>2, <1>3 DEF LinkInv, linkFlags, linkEvents, linkThreads, StopThreads, Unpaused

\* The reports of the read and write threads are messages only.
LEMMA ReadBoardKeeps ==
  ASSUME LinkInv, ReadBoard
  PROVE  LinkInv'
<1>1. LinkTypeOK'
  BY DEF LinkInv, LinkTypeOK, linkFlags, linkEvents, linkThreads, OneReconnection,
         ReadBoard, ThreadsRun
<1>2. OneReconnection'
  BY DEF LinkInv, LinkTypeOK, linkFlags, linkEvents, linkThreads, OneReconnection,
         ReadBoard, ThreadsRun
<1>3. PausedOnlyWhileDown' /\ StoppedNotPaused'
  BY DEF LinkInv, LinkTypeOK, linkFlags, linkEvents, linkThreads, OneReconnection,
         PausedOnlyWhileDown, StoppedNotPaused, ReadBoard, ThreadsRun
<1>4. QED
  BY <1>1, <1>2, <1>3 DEF LinkInv, linkFlags, linkEvents, linkThreads, ReadBoard, ThreadsRun

LEMMA ReadGarbageKeeps ==
  ASSUME LinkInv, ReadGarbage
  PROVE  LinkInv'
<1>1. LinkTypeOK'
  BY DEF LinkInv, LinkTypeOK, linkFlags, linkEvents, linkThreads, OneReconnection,
         ReadGarbage, ThreadsRun
<1>2. OneReconnection'
  BY DEF LinkInv, LinkTypeOK, linkFlags, linkEvents, linkThreads, OneReconnection,
         ReadGarbage, ThreadsRun
<1>3. PausedOnlyWhileDown' /\ StoppedNotPaused'
  BY DEF LinkInv, LinkTypeOK, linkFlags, linkEvents, linkThreads, OneReconnection,
         PausedOnlyWhileDown, StoppedNotPaused, ReadGarbage, ThreadsRun
<1>4. QED
  BY <1>1, <1>2, <1>3 DEF LinkInv, linkFlags, linkEvents, linkThreads, ReadGarbage, ThreadsRun

LEMMA ReportSerialErrorKeeps ==
  ASSUME LinkInv, ReportSerialError
  PROVE  LinkInv'
<1>1. LinkTypeOK'
  BY DEF LinkInv, LinkTypeOK, linkFlags, linkEvents, linkThreads, OneReconnection,
         ReportSerialError, ThreadsRun
<1>2. OneReconnection'
  BY DEF LinkInv, LinkTypeOK, linkFlags, linkEvents, linkThreads, OneReconnection,
         ReportSerialError, ThreadsRun
<1>3. PausedOnlyWhileDown' /\ StoppedNotPaused'
  BY DEF LinkInv, LinkTypeOK, linkFlags, linkEvents, linkThreads, OneReconnection,
         PausedOnlyWhileDown, StoppedNotPaused, ReportSerialError, ThreadsRun
<1>4. QED
  BY <1>1, <1>2, <1>3 DEF LinkInv, linkFlags, linkEvents, linkThreads, ReportSerialError, ThreadsRun

LEMMA WatchdogFiresKeeps ==
  ASSUME LinkInv, WatchdogFires
  PROVE  LinkInv'
<1>1. LinkTypeOK'
  BY DEF LinkInv, LinkTypeOK, linkFlags, linkEvents, linkThreads, OneReconnection,
         WatchdogFires, ThreadsRun
<1>2. OneReconnection'
  BY DEF LinkInv, LinkTypeOK, linkFlags, linkEvents, linkThreads, OneReconnection,
         WatchdogFires, ThreadsRun
<1>3. PausedOnlyWhileDown' /\ StoppedNotPaused'
  BY DEF LinkInv, LinkTypeOK, linkFlags, linkEvents, linkThreads, OneReconnection,
         PausedOnlyWhileDown, StoppedNotPaused, WatchdogFires, ThreadsRun
<1>4. QED
  BY <1>1, <1>2, <1>3 DEF LinkInv, linkFlags, linkEvents, linkThreads, WatchdogFires, ThreadsRun

\* The notice to the dashboard, stop(), and the end of the threads.
LEMMA NoticeConnectedKeeps ==
  ASSUME LinkInv, NoticeConnected
  PROVE  LinkInv'
<1>1. LinkTypeOK'
  BY DEF LinkInv, LinkTypeOK, linkFlags, linkEvents, linkThreads, OneReconnection,
         NoticeConnected, SerialStateOf
<1>2. OneReconnection'
  BY DEF LinkInv, LinkTypeOK, linkFlags, linkEvents, linkThreads, OneReconnection,
         NoticeConnected, SerialStateOf
<1>3. PausedOnlyWhileDown' /\ StoppedNotPaused'
  BY DEF LinkInv, LinkTypeOK, linkFlags, linkEvents, linkThreads, OneReconnection,
         PausedOnlyWhileDown, StoppedNotPaused, NoticeConnected, SerialStateOf
<1>4. QED
  BY <1>1, <1>2, <1>3 DEF LinkInv, linkFlags, linkEvents, linkThreads, NoticeConnected, SerialStateOf

LEMMA StopSerialHandlerKeeps ==
  ASSUME LinkInv, StopSerialHandler
  PROVE  LinkInv'
<1>1. LinkTypeOK'
  <2>1. resumeEvent' \in BOOLEAN
    BY DEF LinkInv, LinkTypeOK, StopSerialHandler
  <2>2. QED
    BY <2>1 DEF LinkInv, LinkTypeOK, linkFlags, linkEvents, linkThreads, OneReconnection,
                StopSerialHandler
<1>2. OneReconnection'
  BY DEF LinkInv, LinkTypeOK, linkFlags, linkEvents, linkThreads, OneReconnection,
         StopSerialHandler
<1>3. PausedOnlyWhileDown' /\ StoppedNotPaused'
  BY DEF LinkInv, LinkTypeOK, linkFlags, linkEvents, linkThreads, OneReconnection,
         PausedOnlyWhileDown, StoppedNotPaused, StopSerialHandler
<1>4. QED
  BY <1>1, <1>2, <1>3 DEF LinkInv, linkFlags, linkEvents, linkThreads, StopSerialHandler

LEMMA ThreadsEndKeeps ==
  ASSUME LinkInv, ThreadsEnd
  PROVE  LinkInv'
<1>1. LinkTypeOK'
  BY DEF LinkInv, LinkTypeOK, linkFlags, linkEvents, linkThreads, OneReconnection,
         ThreadsEnd
<1>2. OneReconnection'
  BY DEF LinkInv, LinkTypeOK, linkFlags, linkEvents, linkThreads, OneReconnection,
         ThreadsEnd
<1>3. PausedOnlyWhileDown' /\ StoppedNotPaused'
  BY DEF LinkInv, LinkTypeOK, linkFlags, linkEvents, linkThreads, OneReconnection,
         PausedOnlyWhileDown, StoppedNotPaused, ThreadsEnd
<1>4. QED
  BY <1>1, <1>2, <1>3 DEF LinkInv, linkFlags, linkEvents, linkThreads, ThreadsEnd

\* The link always has exactly one way back (one timer or one attempt while it is
\* down, none while it is up), its threads are paused only while something resumes
\* them, and none is left paused when the process has stopped (LinkInv).
THEOREM LinkSafe == LinkSpec => []LinkInv
<1>1. LinkInit => LinkInv
  BY InitLink
<1>2. ASSUME LinkInv, [LinkNext]_linkVars
      PROVE  LinkInv'
  <2>1. CASE LinkBoard
    BY <1>2, <2>1, BoardHangsKeeps, CableMovesKeeps DEF LinkBoard
  <2>2. CASE LinkReconnect
    BY <1>2, <2>2, TimerFiresKeeps, TrySerialConnectionKeeps, AttemptFailsKeeps,
       TellConnectedKeeps, ResetThreadErrorsKeeps, ResumeAfterReconnectKeeps,
       AttemptSucceedsKeeps DEF LinkReconnect
  <2>3. CASE LinkLoop
    BY <1>2, <2>3, InitSerialThreadsKeeps, HandleStateChangeKeeps,
       ReceiveSerialStateKeeps, HandleSerialDisconnectionKeeps, ApplyPauseKeeps,
       ApplyResumeKeeps, StopThreadsKeeps DEF LinkLoop
  <2>4. CASE LinkReports
    BY <1>2, <2>4, ReadBoardKeeps, ReadGarbageKeeps, ReportSerialErrorKeeps,
       WatchdogFiresKeeps DEF LinkReports
  <2>5. CASE UNCHANGED linkVars
    BY <1>2, <2>5 DEF LinkInv, LinkTypeOK, OneReconnection, PausedOnlyWhileDown,
       StoppedNotPaused, linkVars, linkFlags, linkEvents, linkThreads
  <2>6. QED
    BY <1>2, <2>1, <2>2, <2>3, <2>4, <2>5, NoticeConnectedKeeps, StopSerialHandlerKeeps,
       ThreadsEndKeeps DEF LinkNext
<1>3. QED
  BY <1>1, <1>2, PTL DEF LinkSpec
-----------------------------------------------------------------------------
(* The read thread. *)

\* What was received and is not yet a message, in the order it was sent.
Input == buffer \o wire

\* The pieces of all frames in the order the board sends them, and the last sent.
Key(p) == 2 * p.frame + (IF p.part = "head" THEN 0 ELSE 1)
LastKey == 2 * begun + (IF inFrame THEN 0 ELSE 1)

HeadOf(f) == [frame |-> f, part |-> "head"]
TailOf(f) == [frame |-> f, part |-> "tail"]
Unread(p) == \E i \in 1..Len(Input) : Input[i] = p

InputInOrder ==
  /\ inFrame => begun >= 1
  /\ \A i \in 1..Len(Input) : Key(Input[i]) <= LastKey
  /\ \A i, j \in 1..Len(Input) : i < j => Key(Input[i]) < Key(Input[j])

\* A frame that is a message or was one is behind everything unread.
Past(f) ==
  /\ 2 * f + 1 <= LastKey
  /\ \A i \in 1..Len(Input) : 2 * f + 1 < Key(Input[i])

HandledArePast ==
  /\ \A i \in DOMAIN chunks : Past(chunks[i].head)
  /\ \A i \in 1..Len(gateway) : Past(gateway[i].head)
  /\ \A i \in 1..Len(onRos) : Past(onRos[i].head)
  /\ \A f \in skipped \cup swallowed : Past(f)

\* Of a frame that was not cut both pieces are unread, or the second is still to come.
Paired ==
  /\ \A f \in Frames \ cut :
       /\ Unread(HeadOf(f)) => Unread(TailOf(f)) \/ (inFrame /\ f = begun)
       /\ Unread(TailOf(f)) => Unread(HeadOf(f))
  /\ inFrame => begun \in cut \/ Unread(HeadOf(begun))

ChunksInOrder ==
  /\ \A i, j \in DOMAIN chunks : i < j => chunks[i].head < chunks[j].head
  /\ \A i \in 1..Len(gateway), j \in DOMAIN chunks : gateway[i].head < chunks[j].head
  /\ \A i \in 1..Len(onRos), j \in DOMAIN chunks : onRos[i].head < chunks[j].head

\* Behind a chunk that raises there is none but of a cut frame or of the one after it.
ChunkDamage ==
  /\ \A i \in DOMAIN chunks : Intact(chunks[i]) \/ chunks[i].head \in cut
  /\ \A i, j \in DOMAIN chunks :
       i < j => chunks[j].head \in cut \/ chunks[j].head - 1 \in cut

\* DamageIsLocal, with Input for the two places it is kept in.
NothingLost ==
  \A f \in 1..begun :
    \/ f \in cut \cup skipped \cup swallowed
    \/ \E i \in 1..Len(gateway) : gateway[i] = [head |-> f, tail |-> f]
    \/ \E i \in 1..Len(Input) : Input[i].frame = f
    \/ \E i \in DOMAIN chunks : chunks[i].head = f

SkippedNearCut == \A f \in skipped : f \in cut \/ f - 1 \in cut

SwallowedNearCut ==
  \A f \in swallowed :
    f \in cut \/ \E g \in InName \cup InEnd : g < f /\ g..(f - 1) \subseteq cut

ReadIInv ==
  /\ ReadTypeOK /\ InputInOrder /\ HandledArePast /\ Paired /\ ChunksInOrder
  /\ ChunkDamage /\ FramesInOrder /\ OnlyCutFramesMix /\ NothingLost
  /\ SkippedNearCut /\ SwallowedNearCut

\* What a position of Input is.
InputFacts ==
  /\ Input \in Seq(Pieces)
  /\ Len(Input) \in Nat /\ Len(buffer) \in Nat /\ Len(wire) \in Nat
  /\ Len(Input) = Len(buffer) + Len(wire)
  /\ \A i \in 1..Len(Input) : Input[i] \in Pieces
  /\ \A i \in 1..Len(Input) :
       Input[i] = IF i <= Len(buffer) THEN buffer[i] ELSE wire[i - Len(buffer)]
  /\ \A i \in 1..Len(buffer) : Input[i] = buffer[i]
  /\ \A i \in 1..Len(wire) : Input[Len(buffer) + i] = wire[i]

LEMMA InputIs == ReadTypeOK => InputFacts
<1> SUFFICES ASSUME ReadTypeOK PROVE InputFacts
  OBVIOUS
<1>1. buffer \in Seq(Pieces) /\ wire \in Seq(Pieces)
  BY DEF ReadTypeOK
<1>2. Len(buffer) \in Nat /\ Len(wire) \in Nat
  BY <1>1
<1>3. /\ buffer \o wire \in Seq(Pieces)
      /\ Len(buffer \o wire) = Len(buffer) + Len(wire)
      /\ \A i \in 1..(Len(buffer) + Len(wire)) :
           (buffer \o wire)[i] =
              IF i <= Len(buffer) THEN buffer[i] ELSE wire[i - Len(buffer)]
  BY <1>1, ConcatProperties
<1>4. \A i \in 1..Len(buffer \o wire) : (buffer \o wire)[i] \in Pieces
  BY <1>3, ElementOfSeq
<1>5. QED
  BY <1>2, <1>3, <1>4 DEF Input, InputFacts

LEMMA InputIsNext == ReadTypeOK' => InputFacts'
BY InputIs, PTL

LEMMA PieceIs ==
  ASSUME NEW p \in Pieces
  PROVE  /\ p.frame \in Frames /\ p.frame \in Nat /\ p.frame >= 1
         /\ p.part \in {"head", "tail"}
         /\ Key(p) \in Nat
         /\ p.part = "head" => Key(p) = 2 * p.frame /\ p = HeadOf(p.frame)
         /\ p.part = "tail" => Key(p) = 2 * p.frame + 1 /\ p = TailOf(p.frame)
         /\ Key(p) <= 2 * p.frame + 1 /\ Key(p) >= 2 * p.frame
<1>1. p.frame \in Frames /\ p.part \in {"head", "tail"}
  BY DEF Pieces
<1>2. p.frame \in Nat /\ p.frame >= 1
  BY <1>1, SerialReadAssumption DEF Frames, SerialReadAssumption
<1>3. p = [frame |-> p.frame, part |-> p.part]
  BY DEF Pieces
<1>4. QED
  BY <1>1, <1>2, <1>3 DEF Key, HeadOf, TailOf

LEMMA ChunkIs ==
  ASSUME NEW c \in Chunks
  PROVE  /\ c.head \in Frames /\ c.head \in Nat /\ c.head >= 1
         /\ c.tail \in Nat
         /\ c = [head |-> c.head, tail |-> c.tail]
BY SerialReadAssumption DEF Chunks, Frames, SerialReadAssumption

LEMMA ReceivedFrames ==
  ASSUME ReadTypeOK, NEW f
  PROVE  f \in FramesIn(wire) \cup FramesIn(buffer)
           <=> \E i \in 1..Len(Input) : Input[i].frame = f
<1>1. DOMAIN wire = 1..Len(wire) /\ DOMAIN buffer = 1..Len(buffer)
  BY LenProperties DEF ReadTypeOK
<1>2. ASSUME f \in FramesIn(wire)
      PROVE  \E i \in 1..Len(Input) : Input[i].frame = f
  <2>1. PICK i \in 1..Len(wire) : wire[i].frame = f
    BY <1>1, <1>2 DEF FramesIn
  <2>2. Input[Len(buffer) + i].frame = f /\ Len(buffer) + i \in 1..Len(Input)
    BY <2>1, InputIs DEF InputFacts
  <2>3. QED
    BY <2>2
<1>3. ASSUME f \in FramesIn(buffer)
      PROVE  \E i \in 1..Len(Input) : Input[i].frame = f
  <2>1. PICK i \in 1..Len(buffer) : buffer[i].frame = f
    BY <1>1, <1>3 DEF FramesIn
  <2>2. Input[i].frame = f /\ i \in 1..Len(Input)
    BY <2>1, InputIs DEF InputFacts
  <2>3. QED
    BY <2>2
<1>4. ASSUME NEW i \in 1..Len(Input), Input[i].frame = f
      PROVE  f \in FramesIn(wire) \cup FramesIn(buffer)
  <2>1. CASE i <= Len(buffer)
    <3>1. i \in 1..Len(buffer) /\ buffer[i].frame = f
      BY <1>4, <2>1, InputIs DEF InputFacts
    <3>2. QED
      BY <1>1, <3>1 DEF FramesIn
  <2>2. CASE ~(i <= Len(buffer))
    <3>1. i - Len(buffer) \in 1..Len(wire) /\ wire[i - Len(buffer)].frame = f
      BY <1>4, <2>2, InputIs DEF InputFacts
    <3>2. QED
      BY <1>1, <3>1 DEF FramesIn
  <2>3. QED
    BY <2>1, <2>2
<1>5. QED
  BY <1>2, <1>3, <1>4

LEMMA DamageIs ==
  ASSUME ReadTypeOK
  PROVE  DamageIsLocal <=> NothingLost /\ SkippedNearCut /\ SwallowedNearCut
<1>1. DOMAIN gateway = 1..Len(gateway)
  BY LenProperties DEF ReadTypeOK
<1>2. ASSUME NEW f \in 1..begun
      PROVE  f \in FramesIn(wire) \cup FramesIn(buffer)
               <=> \E i \in 1..Len(Input) : Input[i].frame = f
  BY ReceivedFrames
<1>3. QED
  BY <1>1, <1>2 DEF DamageIsLocal, NothingLost, SkippedNearCut, SwallowedNearCut

\* What is in chunks and histories are frames.
LEMMA HandledAreFrames ==
  ASSUME ReadTypeOK
  PROVE  /\ \A i \in DOMAIN chunks : i \in Nat /\ chunks[i] \in Chunks
                                    /\ chunks[i].head \in Frames
         /\ \A i \in 1..Len(gateway) : gateway[i] \in Chunks /\ gateway[i].head \in Frames
         /\ \A i \in 1..Len(onRos) : onRos[i] \in Chunks /\ onRos[i].head \in Frames
         /\ \A f \in skipped \cup swallowed : f \in Frames
<1>1. gateway \in Seq(Chunks) /\ onRos \in Seq(Chunks)
  BY DEF ReadTypeOK
<1>2. /\ \A i \in DOMAIN chunks : i \in Nat /\ chunks[i] \in Chunks
      /\ \A i \in 1..Len(gateway) : gateway[i] \in Chunks
      /\ \A i \in 1..Len(onRos) : onRos[i] \in Chunks
  BY <1>1, ElementOfSeq DEF ReadTypeOK
<1>3. QED
  BY <1>2, ChunkIs DEF ReadTypeOK

LEMMA BoardSendsKeeps ==
  ASSUME ReadIInv, BoardSends
  PROVE  ReadIInv'
<1> USE DEF ReadIInv
<1>1. begun \in Nat /\ begun <= MaxFrames /\ MaxFrames \in Nat /\ inFrame \in BOOLEAN
  BY SerialReadAssumption DEF ReadTypeOK, SerialReadAssumption
<1>2. PICK p \in Pieces :
        /\ wire' = Append(wire, p)
        /\ Key(p) = LastKey + 1 /\ Key(p) = LastKey'
        /\ \/ /\ ~inFrame /\ inFrame' /\ p = HeadOf(begun') /\ begun' = begun + 1
           \/ /\ inFrame /\ ~inFrame' /\ p = TailOf(begun) /\ begun' = begun
        /\ p.frame = begun'
  <2>1. CASE ~inFrame
    <3>1. /\ begun < MaxFrames /\ begun' = begun + 1 /\ inFrame' = TRUE
          /\ wire' = Append(wire, HeadOf(begun + 1))
      BY <2>1 DEF BoardSends, HeadOf
    <3>2. HeadOf(begun + 1) \in Pieces
      BY <1>1, <3>1 DEF HeadOf, Pieces, Frames
    <3>3. Key(HeadOf(begun + 1)) = 2 * (begun + 1)
      BY <1>1 DEF Key, HeadOf
    <3>4. LastKey = 2 * begun + 1 /\ LastKey' = 2 * (begun + 1)
      BY <1>1, <2>1, <3>1 DEF LastKey
    <3>5. QED
      BY <1>1, <2>1, <3>1, <3>2, <3>3, <3>4 DEF HeadOf
  <2>2. CASE inFrame
    <3>1. /\ begun' = begun /\ inFrame' = FALSE
          /\ wire' = Append(wire, TailOf(begun))
      BY <2>2 DEF BoardSends, TailOf
    <3>2. TailOf(begun) \in Pieces
      BY <1>1, <2>2 DEF TailOf, Pieces, Frames, InputInOrder
    <3>3. Key(TailOf(begun)) = 2 * begun + 1
      BY <1>1 DEF Key, TailOf
    <3>4. LastKey = 2 * begun /\ LastKey' = 2 * begun + 1
      BY <1>1, <2>2, <3>1 DEF LastKey
    <3>5. QED
      BY <1>1, <2>2, <3>1, <3>2, <3>3, <3>4 DEF TailOf
  <2>3. QED
    BY <1>1, <2>1, <2>2
<1>3. UNCHANGED <<buffer, chunks, gateway, onRos, ros, cut, skipped, swallowed>>
  BY DEF BoardSends, omitted
<1>4. ReadTypeOK'
  <2>1. wire' \in Seq(Pieces)
    BY <1>2, AppendProperties DEF ReadTypeOK
  <2>2. begun' \in 0..MaxFrames /\ inFrame' \in BOOLEAN
    BY <1>1 DEF BoardSends
  <2>3. QED
    BY <1>3, <2>1, <2>2 DEF ReadTypeOK
<1>5. LastKey \in Nat /\ LastKey' \in Nat
  <2>1. LastKey \in Nat
    BY <1>1 DEF LastKey
  <2>2. QED
    BY <1>2, <2>1
<1>6. /\ Len(wire') = Len(wire) + 1 /\ wire'[Len(wire) + 1] = p
      /\ \A i \in 1..Len(wire) : wire'[i] = wire[i]
  BY <1>2, AppendProperties DEF ReadTypeOK
<1>7. /\ Len(Input) \in Nat /\ Len(Input') = Len(Input) + 1
      /\ Input'[Len(Input) + 1] = p
      /\ \A i \in 1..Len(Input) : Input'[i] = Input[i] /\ Input[i] \in Pieces
  <2>1. Len(Input) \in Nat /\ Len(Input') = Len(Input) + 1
    BY <1>3, <1>4, <1>6, InputIs, InputIsNext DEF InputFacts
  <2>2. Input'[Len(Input) + 1] = p
    BY <1>3, <1>4, <1>6, <2>1, InputIs, InputIsNext DEF InputFacts
  <2>3. ASSUME NEW i \in 1..Len(Input)
        PROVE  Input'[i] = Input[i] /\ Input[i] \in Pieces
    <3>1. Input'[i] = IF i <= Len(buffer) THEN buffer[i] ELSE wire'[i - Len(buffer)]
      BY <1>3, <1>4, <2>1, InputIsNext DEF InputFacts
    <3>2. i <= Len(buffer) \/ i - Len(buffer) \in 1..Len(wire)
      BY <2>1, InputIs DEF InputFacts
    <3>3. QED
      BY <1>6, <3>1, <3>2, InputIs DEF InputFacts
  <2>4. QED
    BY <2>1, <2>2, <2>3
<1>8. \A i \in 1..Len(Input) : Key(Input[i]) \in Nat
  BY <1>7, PieceIs
<1>9. InputInOrder'
  <2>1. inFrame' => begun' >= 1
    BY <1>1, <1>2 DEF InputInOrder
  <2>2. \A i \in 1..Len(Input') : Key(Input'[i]) <= LastKey'
    BY <1>2, <1>5, <1>7, <1>8 DEF InputInOrder
  <2>3. ASSUME NEW i \in 1..Len(Input'), NEW j \in 1..Len(Input'), i < j
        PROVE  Key(Input'[i]) < Key(Input'[j])
    <3>1. i \in 1..Len(Input)
      BY <1>7, <2>3
    <3>2. CASE j = Len(Input) + 1
      BY <1>2, <1>5, <1>7, <1>8, <3>1, <3>2 DEF InputInOrder
    <3>3. CASE j \in 1..Len(Input)
      BY <1>7, <2>3, <3>1, <3>3 DEF InputInOrder
    <3>4. QED
      BY <1>7, <3>2, <3>3
  <2>4. QED
    BY <2>1, <2>2, <2>3 DEF InputInOrder
<1>10. \A f \in Frames : Past(f) => /\ 2 * f + 1 <= LastKey'
                                    /\ \A i \in 1..Len(Input') : 2 * f + 1 < Key(Input'[i])
  <2> SUFFICES ASSUME NEW f \in Frames, Past(f)
               PROVE  /\ 2 * f + 1 <= LastKey'
                      /\ \A i \in 1..Len(Input') : 2 * f + 1 < Key(Input'[i])
    OBVIOUS
  <2>1. 2 * f + 1 \in Nat
    BY SerialReadAssumption DEF Frames, SerialReadAssumption
  <2>2. 2 * f + 1 <= LastKey
    BY DEF Past
  <2>3. ASSUME NEW i \in 1..Len(Input') PROVE 2 * f + 1 < Key(Input'[i])
    BY <1>2, <1>5, <1>7, <1>8, <2>1, <2>2 DEF Past
  <2>4. QED
    BY <1>2, <1>5, <2>1, <2>2, <2>3
<1>11. HandledArePast'
  BY <1>3, <1>10, HandledAreFrames DEF HandledArePast, Past
<1>12. Paired'
  <2>1. ASSUME NEW f \in Frames \ cut, NEW i \in 1..Len(Input'), Input'[i] = HeadOf(f)
        PROVE  \/ \E j \in 1..Len(Input') : Input'[j] = TailOf(f)
               \/ inFrame' /\ f = begun'
    <3>1. CASE i = Len(Input) + 1
      BY <1>2, <1>7, <2>1, <3>1 DEF HeadOf, TailOf
    <3>2. CASE i \in 1..Len(Input)
      <4>1. Unread(HeadOf(f))
        BY <1>7, <2>1, <3>2 DEF Unread
      <4>2. CASE Unread(TailOf(f))
        BY <1>7, <4>2 DEF Unread
      <4>3. CASE inFrame /\ f = begun
        BY <1>2, <1>7, <4>3
      <4>4. QED
        BY <2>1, <4>1, <4>2, <4>3 DEF Paired
    <3>3. QED
      BY <1>7, <3>1, <3>2
  <2>2. ASSUME NEW f \in Frames \ cut, NEW i \in 1..Len(Input'), Input'[i] = TailOf(f)
        PROVE  \E j \in 1..Len(Input') : Input'[j] = HeadOf(f)
    <3>1. Unread(HeadOf(f))
      <4>1. CASE i = Len(Input) + 1
        <5>1. inFrame /\ f = begun
          BY <1>2, <1>7, <2>2, <4>1 DEF HeadOf, TailOf
        <5>2. QED
          BY <2>2, <5>1 DEF Paired
      <4>2. CASE i \in 1..Len(Input)
        <5>1. Unread(TailOf(f))
          BY <1>7, <2>2, <4>2 DEF Unread
        <5>2. QED
          BY <2>2, <5>1 DEF Paired
      <4>3. QED
        BY <1>7, <4>1, <4>2
    <3>2. QED
      BY <1>7, <3>1 DEF Unread
  <2>3. inFrame' => \E j \in 1..Len(Input') : Input'[j] = HeadOf(begun')
    BY <1>2, <1>7
  <2>4. QED
    BY <1>3, <2>1, <2>2, <2>3 DEF Paired, Unread
<1>13. ChunksInOrder' /\ ChunkDamage' /\ FramesInOrder' /\ OnlyCutFramesMix'
      /\ SkippedNearCut' /\ SwallowedNearCut'
  BY <1>3 DEF ChunksInOrder, ChunkDamage, FramesInOrder, OnlyCutFramesMix,
     SkippedNearCut, SwallowedNearCut
<1>14. NothingLost'
  <2> SUFFICES ASSUME NEW f \in 1..begun'
               PROVE  \/ f \in cut \cup skipped \cup swallowed
                      \/ \E i \in 1..Len(gateway) : gateway[i] = [head |-> f, tail |-> f]
                      \/ \E i \in 1..Len(Input') : Input'[i].frame = f
                      \/ \E i \in DOMAIN chunks : chunks[i].head = f
    BY <1>3 DEF NothingLost
  <2>1. CASE f = begun'
    BY <1>2, <1>7, <2>1
  <2>2. CASE f \in 1..begun
    <3>1. CASE \E i \in 1..Len(Input) : Input[i].frame = f
      BY <1>7, <3>1
    <3>2. QED
      BY <2>2, <3>1 DEF NothingLost
  <2>3. QED
    BY <1>1, <1>2, <2>1, <2>2
<1>15. QED
  BY <1>4, <1>9, <1>11, <1>12, <1>13, <1>14

LEMMA BoardRestartsKeeps ==
  ASSUME ReadIInv, BoardRestarts
  PROVE  ReadIInv'
<1> USE DEF ReadIInv
<1>1. begun \in Nat /\ begun <= MaxFrames /\ begun \in Frames /\ MaxFrames \in Nat
  BY SerialReadAssumption DEF ReadTypeOK, SerialReadAssumption, BoardRestarts, InputInOrder,
     Frames
<1>2. UNCHANGED <<begun, wire, buffer, chunks, gateway, onRos, ros, skipped, swallowed>>
  BY DEF BoardRestarts, omitted
<1>3. inFrame /\ inFrame' = FALSE /\ cut' = cut \cup {begun}
  BY DEF BoardRestarts
<1>4. ReadTypeOK'
  BY <1>1, <1>2, <1>3 DEF ReadTypeOK
<1>5. Input' = Input
  BY <1>2 DEF Input
<1>6. LastKey \in Nat /\ LastKey' = LastKey + 1
  BY <1>1, <1>2, <1>3 DEF LastKey
<1>7. /\ Len(Input) \in Nat
      /\ \A i \in 1..Len(Input) : Input[i] \in Pieces /\ Key(Input[i]) \in Nat
  BY InputIs, PieceIs DEF InputFacts
<1>8. InputInOrder'
  <2>1. \A i \in 1..Len(Input) : Key(Input[i]) <= LastKey'
    BY <1>6, <1>7 DEF InputInOrder
  <2>2. \A i, j \in 1..Len(Input) : i < j => Key(Input[i]) < Key(Input[j])
    BY DEF InputInOrder
  <2>3. QED
    BY <1>3, <1>5, <2>1, <2>2 DEF InputInOrder
<1>9. ASSUME NEW f \in Frames, Past(f)
      PROVE  /\ 2 * f + 1 <= LastKey'
             /\ \A i \in 1..Len(Input) : 2 * f + 1 < Key(Input[i])
  <2>1. f \in Nat
    BY SerialReadAssumption DEF Frames, SerialReadAssumption
  <2>2. QED
    BY <1>6, <1>9, <2>1 DEF Past
<1>10. HandledArePast'
  BY <1>2, <1>5, <1>9, HandledAreFrames DEF HandledArePast, Past
<1>11. Paired'
  <2>1. ASSUME NEW f \in Frames \ cut'
        PROVE  /\ Unread(HeadOf(f)) => Unread(TailOf(f))
               /\ Unread(TailOf(f)) => Unread(HeadOf(f))
    BY <1>3, <2>1 DEF Paired
  <2>2. QED
    BY <1>3, <1>5, <2>1 DEF Paired, Unread
<1>12. ChunksInOrder' /\ ChunkDamage' /\ FramesInOrder' /\ OnlyCutFramesMix'
      /\ SkippedNearCut' /\ SwallowedNearCut'
  BY <1>2, <1>3 DEF ChunksInOrder, ChunkDamage, FramesInOrder, OnlyCutFramesMix,
     SkippedNearCut, SwallowedNearCut
<1>13. NothingLost'
  BY <1>2, <1>3, <1>5 DEF NothingLost
<1>14. QED
  BY <1>4, <1>8, <1>10, <1>11, <1>12, <1>13

LEMMA InputLostKeeps ==
  ASSUME ReadIInv, InputLost
  PROVE  ReadIInv'
<1> USE DEF ReadIInv
<1>1. UNCHANGED <<begun, inFrame, buffer, chunks, gateway, onRos, ros, skipped, swallowed>>
  BY DEF InputLost, omitted
<1>2. wire' = <<>> /\ cut' = cut \cup FramesIn(wire)
  BY DEF InputLost
<1>3. ReadTypeOK'
  <2>1. \A i \in DOMAIN wire : wire[i].frame \in Frames
    BY LenProperties, ElementOfSeq, PieceIs DEF ReadTypeOK
  <2>2. cut' \subseteq Frames
    BY <1>2, <2>1 DEF ReadTypeOK, FramesIn
  <2>3. wire' \in Seq(Pieces)
    BY <1>2
  <2>4. QED
    BY <1>1, <2>2, <2>3 DEF ReadTypeOK
<1>4. /\ Len(Input) \in Nat /\ Len(buffer) \in Nat /\ Len(buffer) <= Len(Input)
      /\ Len(Input') = Len(buffer)
      /\ \A i \in 1..Len(buffer) : Input'[i] = Input[i]
      /\ \A i \in 1..Len(Input) : Input[i] \in Pieces /\ Key(Input[i]) \in Nat
  <2>1. Len(wire') = 0
    BY <1>2
  <2>2. /\ Len(Input) \in Nat /\ Len(buffer) \in Nat /\ Len(wire) \in Nat
        /\ Len(Input) = Len(buffer) + Len(wire)
        /\ \A i \in 1..Len(buffer) : Input[i] = buffer[i]
        /\ \A i \in 1..Len(Input) : Input[i] \in Pieces
    BY InputIs DEF InputFacts
  <2>3. /\ Len(Input') = Len(buffer) + Len(wire')
        /\ \A i \in 1..Len(buffer) : Input'[i] = buffer[i]
    BY <1>1, <1>3, InputIsNext DEF InputFacts
  <2>4. QED
    BY <2>1, <2>2, <2>3, PieceIs
<1>5. LastKey' = LastKey
  BY <1>1 DEF LastKey
<1>6. InputInOrder'
  <2>1. \A i \in 1..Len(Input') : Key(Input'[i]) <= LastKey'
    BY <1>4, <1>5 DEF InputInOrder
  <2>2. \A i, j \in 1..Len(Input') : i < j => Key(Input'[i]) < Key(Input'[j])
    BY <1>4 DEF InputInOrder
  <2>3. QED
    BY <1>1, <2>1, <2>2 DEF InputInOrder
<1>7. ASSUME NEW f \in Frames, Past(f)
      PROVE  /\ 2 * f + 1 <= LastKey'
             /\ \A i \in 1..Len(Input') : 2 * f + 1 < Key(Input'[i])
  BY <1>4, <1>5, <1>7 DEF Past
<1>8. HandledArePast'
  BY <1>1, <1>7, HandledAreFrames DEF HandledArePast, Past
<1>9. ASSUME NEW i \in 1..Len(Input), Input[i].frame \notin FramesIn(wire)
      PROVE  i \in 1..Len(Input')
  <2>1. CASE i - Len(buffer) \in 1..Len(wire)
    <3>1. Input[i] = wire[i - Len(buffer)]
      BY <2>1, InputIs DEF InputFacts
    <3>2. i - Len(buffer) \in DOMAIN wire
      BY <2>1, LenProperties DEF ReadTypeOK
    <3>3. QED
      BY <1>9, <3>1, <3>2 DEF FramesIn
  <2>2. CASE i <= Len(buffer)
    BY <1>4, <2>2
  <2>3. QED
    BY <2>1, <2>2, InputIs DEF InputFacts
<1>10. Paired'
  <2>1. \A f : HeadOf(f).frame = f /\ TailOf(f).frame = f
    BY DEF HeadOf, TailOf
  <2>2. ASSUME NEW f \in Frames \ cut', NEW i \in 1..Len(Input'), Input'[i] = HeadOf(f)
        PROVE  (\E j \in 1..Len(Input') : Input'[j] = TailOf(f)) \/ (inFrame' /\ f = begun')
    <3>1. Unread(HeadOf(f)) /\ f \notin cut /\ f \notin FramesIn(wire)
      BY <1>2, <1>4, <2>2 DEF Unread
    <3>2. CASE \E j \in 1..Len(Input) : Input[j] = TailOf(f)
      BY <1>4, <1>9, <2>1, <3>1, <3>2
    <3>3. QED
      BY <1>1, <3>1, <3>2 DEF Paired, Unread
  <2>3. ASSUME NEW f \in Frames \ cut', NEW i \in 1..Len(Input'), Input'[i] = TailOf(f)
        PROVE  \E j \in 1..Len(Input') : Input'[j] = HeadOf(f)
    <3>1. Unread(TailOf(f)) /\ f \notin cut /\ f \notin FramesIn(wire)
      BY <1>2, <1>4, <2>3 DEF Unread
    <3>2. PICK j \in 1..Len(Input) : Input[j] = HeadOf(f)
      BY <3>1 DEF Paired, Unread
    <3>3. QED
      BY <1>4, <1>9, <2>1, <3>1, <3>2
  <2>4. ASSUME inFrame', begun' \notin cut'
        PROVE  \E j \in 1..Len(Input') : Input'[j] = HeadOf(begun')
    <3>1. inFrame /\ begun \notin cut /\ begun \notin FramesIn(wire)
      BY <1>1, <1>2, <2>4
    <3>2. PICK j \in 1..Len(Input) : Input[j] = HeadOf(begun)
      BY <3>1 DEF Paired, Unread
    <3>3. QED
      BY <1>1, <1>4, <1>9, <2>1, <3>1, <3>2
  <2>5. QED
    BY <2>2, <2>3, <2>4 DEF Paired, Unread
<1>11. ChunksInOrder' /\ ChunkDamage' /\ FramesInOrder' /\ OnlyCutFramesMix'
      /\ SkippedNearCut' /\ SwallowedNearCut'
  BY <1>1, <1>2 DEF ChunksInOrder, ChunkDamage, FramesInOrder, OnlyCutFramesMix,
     SkippedNearCut, SwallowedNearCut
<1>12. NothingLost'
  <2> SUFFICES ASSUME NEW f \in 1..begun, f \notin cut', f \notin skipped \cup swallowed
               PROVE  \/ \E i \in 1..Len(gateway) : gateway[i] = [head |-> f, tail |-> f]
                      \/ \E i \in 1..Len(Input') : Input'[i].frame = f
                      \/ \E i \in DOMAIN chunks : chunks[i].head = f
    BY <1>1 DEF NothingLost
  <2>1. CASE \E i \in 1..Len(Input) : Input[i].frame = f
    BY <1>2, <1>4, <1>9, <2>1
  <2>2. QED
    BY <1>2, <2>1 DEF NothingLost
<1>13. QED
  BY <1>3, <1>6, <1>8, <1>10, <1>11, <1>12

LEMMA ReadSerialKeeps ==
  ASSUME ReadIInv, ReadSerial
  PROVE  ReadIInv'
<1> USE DEF ReadIInv
<1>1. UNCHANGED <<begun, inFrame, chunks, gateway, onRos, ros, cut, skipped, swallowed>>
  BY DEF ReadSerial, omitted
<1>2. buffer' = buffer \o wire /\ wire' = <<>>
  BY DEF ReadSerial
<1>3. Input' = Input /\ Input \in Seq(Pieces)
  <2>1. Input \in Seq(Pieces) /\ Input' = Input \o <<>>
    BY <1>2, InputIs DEF Input, InputFacts
  <2>2. QED
    BY <2>1, ConcatEmptySeq
<1>4. ReadTypeOK'
  <2>1. buffer' \in Seq(Pieces) /\ wire' \in Seq(Pieces)
    BY <1>2, <1>3 DEF Input
  <2>2. QED
    BY <1>1, <2>1 DEF ReadTypeOK
<1>5. InputInOrder' /\ HandledArePast' /\ Paired'
  BY <1>1, <1>3 DEF InputInOrder, HandledArePast, Past, Paired, Unread, LastKey
<1>6. ChunksInOrder' /\ ChunkDamage' /\ FramesInOrder' /\ OnlyCutFramesMix'
      /\ SkippedNearCut' /\ SwallowedNearCut'
  BY <1>1 DEF ChunksInOrder, ChunkDamage, FramesInOrder, OnlyCutFramesMix,
     SkippedNearCut, SwallowedNearCut
<1>7. NothingLost'
  BY <1>1, <1>3 DEF NothingLost
<1>8. QED
  BY <1>4, <1>5, <1>6, <1>7

\* What the properties say of a history, by positions.
InOrder(s) ==
  \A i, j \in 1..Len(s) : i < j =>
    \/ s[i].head < s[j].head
    \/ s[i] = s[j] /\ s[i].head \in Imu /\ j = i + 1

HistoriesAre ==
  /\ gateway \in Seq(Chunks) =>
       (OnlyCutFramesMix <=>
          \A i \in 1..Len(gateway) : Intact(gateway[i]) \/ gateway[i].head \in cut)
  /\ gateway \in Seq(Chunks) /\ onRos \in Seq(Chunks) =>
       (FramesInOrder <=>
          /\ InOrder(gateway)
          /\ \A i, j \in 1..Len(onRos) : i < j => onRos[i].head < onRos[j].head)

LEMMA HistoriesNow == HistoriesAre
<1>1. \A s \in Seq(Chunks) : DOMAIN s = 1..Len(s)
  BY LenProperties
<1>2. gateway \in Seq(Chunks) =>
        (OnlyCutFramesMix <=>
           \A i \in 1..Len(gateway) : Intact(gateway[i]) \/ gateway[i].head \in cut)
  BY <1>1 DEF OnlyCutFramesMix
<1>3. ASSUME gateway \in Seq(Chunks), onRos \in Seq(Chunks)
      PROVE  FramesInOrder <=>
               /\ InOrder(gateway)
               /\ \A i, j \in 1..Len(onRos) : i < j => onRos[i].head < onRos[j].head
  <2>1. DOMAIN gateway = 1..Len(gateway) /\ DOMAIN onRos = 1..Len(onRos)
    BY <1>1, <1>3
  <2>2. QED
    BY <2>1 DEF FramesInOrder, InOrder
<1>4. QED
  BY <1>2, <1>3 DEF HistoriesAre

LEMMA HistoriesNext == HistoriesAre'
BY HistoriesNow, PTL

\* The gateway's history grows by a chunk that is behind all of it, or by two of an
\* "imu" frame.
Sent(s, c, t) ==
  \/ t = s \o <<c>> \/ t = Append(s, c)
  \/ t = s \o <<c, c>> /\ c.head \in Imu

LEMMA GatewayGrows ==
  ASSUME NEW s \in Seq(Chunks), NEW c \in Chunks, InOrder(s),
         \A i \in 1..Len(s) : s[i].head < c.head,
         NEW t, Sent(s, c, t)
  PROVE  /\ t \in Seq(Chunks) /\ Len(s) \in Nat /\ Len(t) \in Nat /\ Len(s) < Len(t)
         /\ \A i \in 1..Len(s) : t[i] = s[i]
         /\ \A i \in 1..Len(t) : i \notin 1..Len(s) => t[i] = c
         /\ InOrder(t)
<1>1. Len(s) \in Nat
  OBVIOUS
<1>2. /\ t \in Seq(Chunks)
      /\ Len(t) = Len(s) + 1 \/ (Len(t) = Len(s) + 2 /\ c.head \in Imu)
      /\ \A i \in 1..Len(s) : t[i] = s[i]
      /\ \A i \in 1..Len(t) : i \notin 1..Len(s) => t[i] = c
  <2>1. CASE t = Append(s, c)
    <3>1. t \in Seq(Chunks) /\ Len(t) = Len(s) + 1 /\ t[Len(s) + 1] = c
      BY <2>1, AppendProperties
    <3>2. \A i \in 1..Len(s) : t[i] = s[i]
      BY <2>1, AppendProperties
    <3>3. \A i \in 1..Len(t) : i \notin 1..Len(s) => i = Len(s) + 1
      BY <1>1, <3>1
    <3>4. QED
      BY <3>1, <3>2, <3>3
  <2>2. CASE t = s \o <<c>>
    <3>1. <<c>> \in Seq(Chunks) /\ Len(<<c>>) = 1 /\ <<c>>[1] = c
      OBVIOUS
    <3>2. /\ t \in Seq(Chunks) /\ Len(t) = Len(s) + 1
          /\ \A i \in 1..(Len(s) + 1) :
               t[i] = IF i <= Len(s) THEN s[i] ELSE <<c>>[i - Len(s)]
      BY <2>2, <3>1, ConcatProperties
    <3>3. \A i \in 1..Len(s) : t[i] = s[i]
      BY <1>1, <3>2
    <3>4. \A i \in 1..Len(t) : i \notin 1..Len(s) =>
            i = Len(s) + 1 /\ i - Len(s) = 1 /\ ~(i <= Len(s))
      BY <1>1, <3>2
    <3>5. \A i \in 1..Len(t) : i \notin 1..Len(s) => t[i] = c
      BY <3>1, <3>2, <3>4
    <3>6. QED
      BY <3>2, <3>3, <3>5
  <2>3. CASE t = s \o <<c, c>> /\ c.head \in Imu
    <3>1. <<c, c>> \in Seq(Chunks) /\ Len(<<c, c>>) = 2 /\ <<c, c>>[1] = c /\ <<c, c>>[2] = c
      OBVIOUS
    <3>2. /\ t \in Seq(Chunks) /\ Len(t) = Len(s) + 2
          /\ \A i \in 1..(Len(s) + 2) :
               t[i] = IF i <= Len(s) THEN s[i] ELSE <<c, c>>[i - Len(s)]
      BY <2>3, <3>1, ConcatProperties
    <3>3. \A i \in 1..Len(s) : t[i] = s[i]
      BY <1>1, <3>2
    <3>4. \A i \in 1..Len(t) : i \notin 1..Len(s) =>
            (i - Len(s) = 1 \/ i - Len(s) = 2) /\ ~(i <= Len(s))
      BY <1>1, <3>2
    <3>5. \A i \in 1..Len(t) : i \notin 1..Len(s) => t[i] = c
      BY <3>1, <3>2, <3>4
    <3>6. QED
      BY <2>3, <3>2, <3>3, <3>5
  <2>4. QED
    BY <2>1, <2>2, <2>3 DEF Sent
<1>3. ASSUME NEW i \in 1..Len(t), NEW j \in 1..Len(t), i < j
      PROVE  \/ t[i].head < t[j].head
             \/ t[i] = t[j] /\ t[i].head \in Imu /\ j = i + 1
  <2>1. CASE j \in 1..Len(s)
    <3>1. i \in 1..Len(s)
      BY <1>1, <1>3, <2>1
    <3>2. QED
      BY <1>2, <1>3, <2>1, <3>1 DEF InOrder
  <2>2. CASE i \in 1..Len(s) /\ j \notin 1..Len(s)
    BY <1>2, <2>2
  <2>3. CASE i \notin 1..Len(s) /\ j \notin 1..Len(s)
    <3>1. j = i + 1 /\ c.head \in Imu
      BY <1>1, <1>2, <1>3, <2>3
    <3>2. QED
      BY <1>2, <2>3, <3>1
  <2>4. QED
    BY <1>1, <1>3, <2>1, <2>2, <2>3
<1>4. QED
  BY <1>1, <1>2, <1>3 DEF InOrder

LEMMA RosGrows ==
  ASSUME NEW s \in Seq(Chunks), NEW c \in Chunks,
         \A i, j \in 1..Len(s) : i < j => s[i].head < s[j].head,
         \A i \in 1..Len(s) : s[i].head < c.head,
         NEW t, t = s \/ t = Append(s, c)
  PROVE  /\ t \in Seq(Chunks)
         /\ \A i \in 1..Len(t) : t[i] = c \/ \E j \in 1..Len(s) : t[i] = s[j]
         /\ \A i, j \in 1..Len(t) : i < j => t[i].head < t[j].head
<1>1. CASE t = s
  BY <1>1
<1>2. CASE t = Append(s, c)
  <2>1. /\ t \in Seq(Chunks) /\ Len(s) \in Nat /\ Len(t) = Len(s) + 1 /\ t[Len(s) + 1] = c
        /\ \A i \in 1..Len(s) : t[i] = s[i]
    BY <1>2, AppendProperties
  <2>2. ASSUME NEW i \in 1..Len(t), NEW j \in 1..Len(t), i < j
        PROVE  t[i].head < t[j].head
    <3>1. i \in 1..Len(s)
      BY <2>1, <2>2
    <3>2. CASE j = Len(s) + 1
      BY <2>1, <3>1, <3>2
    <3>3. CASE j \in 1..Len(s)
      BY <2>1, <2>2, <3>1, <3>3
    <3>4. QED
      BY <2>1, <3>2, <3>3
  <2>3. QED
    BY <2>1, <2>2
<1>3. QED
  BY <1>1, <1>2

\* What the first chunk is, and what is left without it.
LEMMA FirstIs ==
  ASSUME ReadTypeOK, NEW i \in DOMAIN chunks, First(i), chunks' = Without({i})
  PROVE  /\ i \in Nat /\ chunks[i] \in Chunks
         /\ DOMAIN chunks' = DOMAIN chunks \ {i}
         /\ \A j \in DOMAIN chunks' :
              /\ j \in DOMAIN chunks /\ j \in Nat /\ i < j
              /\ chunks'[j] = chunks[j] /\ chunks'[j] \in Chunks
<1>1. i \in Nat /\ \A j \in DOMAIN chunks : j \in Nat /\ chunks[j] \in Chunks /\ i <= j
  BY DEF ReadTypeOK, First
<1>2. DOMAIN chunks' = DOMAIN chunks \ {i} /\ \A j \in DOMAIN chunks' : chunks'[j] = chunks[j]
  BY DEF Without
<1>3. QED
  BY <1>1, <1>2

\* send_queue of a chunk, whatever becomes of it on ROS.
LEMMA ChunkSentKeeps ==
  ASSUME ReadIInv, NEW i \in DOMAIN chunks, First(i), chunks' = Without({i}),
         Sent(gateway, chunks[i], gateway'),
         onRos' = onRos \/ onRos' = Append(onRos, chunks[i]),
         ros' \in {"none", "up", "shut"},
         UNCHANGED <<begun, inFrame, wire, buffer, cut, skipped, swallowed>>
  PROVE  ReadIInv'
<1> USE DEF ReadIInv
<1> DEFINE c == chunks[i]
<1>1. /\ i \in Nat /\ c \in Chunks
      /\ DOMAIN chunks' = DOMAIN chunks \ {i}
      /\ \A j \in DOMAIN chunks' :
           /\ j \in DOMAIN chunks /\ j \in Nat /\ i < j
           /\ chunks'[j] = chunks[j] /\ chunks'[j] \in Chunks
  BY FirstIs
<1>2. Input' = Input /\ LastKey' = LastKey
  BY DEF Input, LastKey
<1>3. /\ gateway \in Seq(Chunks) /\ onRos \in Seq(Chunks) /\ InOrder(gateway)
      /\ \A k, j \in 1..Len(onRos) : k < j => onRos[k].head < onRos[j].head
      /\ \A k \in 1..Len(gateway) : Intact(gateway[k]) \/ gateway[k].head \in cut
  BY HistoriesNow DEF ReadTypeOK, HistoriesAre
<1>4. /\ gateway' \in Seq(Chunks) /\ InOrder(gateway)'
      /\ Len(gateway) \in Nat /\ Len(gateway') \in Nat /\ Len(gateway) < Len(gateway')
      /\ \A k \in 1..Len(gateway) : gateway'[k] = gateway[k]
      /\ \A k \in 1..Len(gateway') : k \notin 1..Len(gateway) => gateway'[k] = c
  <2>1. \A k \in 1..Len(gateway) : gateway[k].head < c.head
    BY DEF ChunksInOrder
  <2>2. /\ gateway' \in Seq(Chunks) /\ InOrder(gateway')
        /\ Len(gateway) \in Nat /\ Len(gateway') \in Nat /\ Len(gateway) < Len(gateway')
        /\ \A k \in 1..Len(gateway) : gateway'[k] = gateway[k]
        /\ \A k \in 1..Len(gateway') : k \notin 1..Len(gateway) => gateway'[k] = c
    <3> HIDE DEF ReadIInv, c
    <3>1. Sent(gateway, c, gateway')
      BY DEF c
    <3>2. QED
      BY <1>1, <1>3, <2>1, <3>1, GatewayGrows
  <2>3. InOrder(gateway)' <=> InOrder(gateway')
    BY DEF InOrder
  <2>4. QED
    BY <2>2, <2>3
<1>5. \A k \in 1..Len(gateway') :
        gateway'[k] = c \/ \E j \in 1..Len(gateway) : gateway'[k] = gateway[j]
  BY <1>4
<1>6. /\ onRos' \in Seq(Chunks)
      /\ \A k \in 1..Len(onRos') :
           onRos'[k] = c \/ \E j \in 1..Len(onRos) : onRos'[k] = onRos[j]
      /\ \A k, j \in 1..Len(onRos') : k < j => onRos'[k].head < onRos'[j].head
  <2>1. \A k \in 1..Len(onRos) : onRos[k].head < c.head
    BY DEF ChunksInOrder
  <2>2. onRos' = onRos \/ onRos' = Append(onRos, c)
    OBVIOUS
  <2> HIDE DEF ReadIInv, c
  <2>3. CASE onRos' = onRos
    BY <1>1, <1>3, <2>1, <2>3, RosGrows
  <2>4. CASE onRos' = Append(onRos, c)
    BY <1>1, <1>3, <2>1, <2>4, RosGrows
  <2>5. QED
    BY <2>2, <2>3, <2>4
<1>7. ReadTypeOK'
  BY <1>1, <1>4, <1>6 DEF ReadTypeOK
<1>8. InputInOrder' /\ Paired' /\ SkippedNearCut' /\ SwallowedNearCut'
  BY <1>2 DEF InputInOrder, Paired, Unread, SkippedNearCut, SwallowedNearCut
<1>9. HandledArePast'
  <2>1. Past(c.head)
    BY DEF HandledArePast
  <2>2. \A j \in DOMAIN chunks' : Past(chunks'[j].head)
    BY <1>1 DEF HandledArePast
  <2>3. \A k \in 1..Len(gateway') : Past(gateway'[k].head)
    BY <1>5, <2>1 DEF HandledArePast
  <2>4. \A k \in 1..Len(onRos') : Past(onRos'[k].head)
    BY <1>6, <2>1 DEF HandledArePast
  <2>5. QED
    BY <1>2, <2>2, <2>3, <2>4 DEF HandledArePast, Past
<1>10. ChunksInOrder'
  <2>1. \A k, j \in DOMAIN chunks' : k < j => chunks'[k].head < chunks'[j].head
    BY <1>1 DEF ChunksInOrder
  <2>2. \A j \in DOMAIN chunks' : c.head < chunks'[j].head
    BY <1>1 DEF ChunksInOrder
  <2>3. ASSUME NEW k \in 1..Len(gateway'), NEW j \in DOMAIN chunks'
        PROVE  gateway'[k].head < chunks'[j].head
    BY <1>1, <1>5, <2>2 DEF ChunksInOrder
  <2>4. ASSUME NEW k \in 1..Len(onRos'), NEW j \in DOMAIN chunks'
        PROVE  onRos'[k].head < chunks'[j].head
    BY <1>1, <1>6, <2>2 DEF ChunksInOrder
  <2>5. QED
    BY <2>1, <2>3, <2>4 DEF ChunksInOrder
<1>11. Intact(c) \/ c.head \in cut
  BY DEF ChunkDamage
<1>12. ChunkDamage'
  BY <1>1 DEF ChunkDamage
<1>13. FramesInOrder' /\ OnlyCutFramesMix'
  <2>1. \A k \in 1..Len(gateway') : Intact(gateway'[k]) \/ gateway'[k].head \in cut
    BY <1>3, <1>5, <1>11
  <2>2. QED
    BY <1>4, <1>6, <2>1, HistoriesNext DEF HistoriesAre
<1>14. NothingLost'
  <2> SUFFICES ASSUME NEW f \in 1..begun, f \notin cut, f \notin skipped \cup swallowed
               PROVE  \/ \E k \in 1..Len(gateway') : gateway'[k] = [head |-> f, tail |-> f]
                      \/ \E k \in 1..Len(Input) : Input[k].frame = f
                      \/ \E j \in DOMAIN chunks' : chunks'[j].head = f
    BY <1>2 DEF NothingLost
  <2>1. CASE \E k \in 1..Len(gateway) : gateway[k] = [head |-> f, tail |-> f]
    <3>1. \A k \in 1..Len(gateway) : k \in 1..Len(gateway')
      BY <1>4
    <3>2. QED
      BY <1>4, <2>1, <3>1
  <2>2. ASSUME NEW j \in DOMAIN chunks, chunks[j].head = f
        PROVE  \/ \E k \in 1..Len(gateway') : gateway'[k] = [head |-> f, tail |-> f]
               \/ \E k \in DOMAIN chunks' : chunks'[k].head = f
    <3>1. CASE j = i
      <4>1. c = [head |-> f, tail |-> f]
        BY <1>1, <1>11, <2>2, <3>1, ChunkIs DEF Intact
      <4>2. Len(gateway') \in 1..Len(gateway') /\ Len(gateway') \notin 1..Len(gateway)
        BY <1>4
      <4>3. QED
        BY <1>4, <4>1, <4>2
    <3>2. CASE j # i
      BY <1>1, <2>2, <3>2
    <3>3. QED
      BY <3>1, <3>2
  <2>3. QED
    BY <2>1, <2>2 DEF NothingLost
<1>15. QED
  BY <1>7, <1>8, <1>9, <1>10, <1>12, <1>13, <1>14

LEMMA SendSampleKeeps ==
  ASSUME ReadIInv, SendSample
  PROVE  ReadIInv'
<1>1. PICK i \in DOMAIN chunks :
        /\ First(i) /\ chunks' = Without({i})
        /\ \E sent \in MessagesOf(chunks[i]) : gateway' = gateway \o sent
        /\ PublishSample(chunks[i])
  BY DEF SendSample
<1>2. /\ onRos' = onRos \/ onRos' = Append(onRos, chunks[i])
      /\ ros' \in {"none", "up", "shut"}
  BY <1>1 DEF PublishSample, ReadIInv, ReadTypeOK
<1>3. Sent(gateway, chunks[i], gateway')
  BY <1>1 DEF MessagesOf, Sent
<1>4. UNCHANGED <<begun, inFrame, wire, buffer, cut, skipped, swallowed>>
  BY DEF SendSample, omitted
<1>5. QED
  BY <1>1, <1>2, <1>3, <1>4, ChunkSentKeeps

LEMMA SendOtherKeeps ==
  ASSUME ReadIInv, SendOther
  PROVE  ReadIInv'
<1>1. PICK i \in DOMAIN chunks :
        /\ First(i) /\ chunks' = Without({i})
        /\ gateway' = Append(gateway, chunks[i])
  BY DEF SendOther
<1>2. /\ ros' \in {"none", "up", "shut"} /\ onRos' = onRos
      /\ Sent(gateway, chunks[i], gateway')
  BY <1>1 DEF SendOther, ReadIInv, ReadTypeOK, Sent
<1>3. UNCHANGED <<begun, inFrame, wire, buffer, cut, skipped, swallowed>>
  BY DEF SendOther, omitted
<1>4. QED
  BY <1>1, <1>2, <1>3, ChunkSentKeeps

LEMMA RejectChunkKeeps ==
  ASSUME ReadIInv, RejectChunk
  PROVE  ReadIInv'
<1> USE DEF ReadIInv
<1>1. PICK i \in DOMAIN chunks :
        /\ First(i) /\ ~Intact(chunks[i])
        /\ \/ chunks' = Without({i}) /\ UNCHANGED skipped
           \/ /\ chunks' = Without(DOMAIN chunks)
              /\ skipped' = skipped \cup {chunks[j].head : j \in DOMAIN chunks \ {i}}
  BY DEF RejectChunk
<1>2. UNCHANGED <<begun, inFrame, wire, buffer, gateway, onRos, ros, cut, swallowed>>
  BY DEF RejectChunk
<1>3. Input' = Input /\ LastKey' = LastKey
  BY <1>2 DEF Input, LastKey
<1>4. chunks[i].head \in cut
  BY <1>1 DEF ChunkDamage
<1>5. InputInOrder' /\ Paired' /\ FramesInOrder' /\ OnlyCutFramesMix' /\ SwallowedNearCut'
  BY <1>2, <1>3 DEF InputInOrder, Paired, Unread, FramesInOrder, OnlyCutFramesMix,
     SwallowedNearCut
<1>6. CASE chunks' = Without({i}) /\ UNCHANGED skipped
  <2>1. /\ DOMAIN chunks' = DOMAIN chunks \ {i}
        /\ \A j \in DOMAIN chunks' :
             /\ j \in DOMAIN chunks /\ j \in Nat /\ i < j
             /\ chunks'[j] = chunks[j] /\ chunks'[j] \in Chunks
    BY <1>1, <1>6, FirstIs
  <2>2. ReadTypeOK'
    BY <1>2, <1>6, <2>1 DEF ReadTypeOK
  <2>3. HandledArePast'
    BY <1>2, <1>3, <1>6, <2>1 DEF HandledArePast, Past
  <2>4. ChunksInOrder' /\ ChunkDamage' /\ SkippedNearCut'
    BY <1>2, <1>6, <2>1 DEF ChunksInOrder, ChunkDamage, SkippedNearCut
  <2>5. NothingLost'
    <3> SUFFICES ASSUME NEW f \in 1..begun, f \notin cut, f \notin skipped \cup swallowed
                 PROVE  \/ \E k \in 1..Len(gateway) : gateway[k] = [head |-> f, tail |-> f]
                        \/ \E k \in 1..Len(Input) : Input[k].frame = f
                        \/ \E j \in DOMAIN chunks' : chunks'[j].head = f
      BY <1>2, <1>3, <1>6 DEF NothingLost
    <3>1. ASSUME NEW j \in DOMAIN chunks, chunks[j].head = f
          PROVE  \E k \in DOMAIN chunks' : chunks'[k].head = f
      BY <1>4, <2>1, <3>1
    <3>2. QED
      BY <3>1 DEF NothingLost
  <2>6. QED
    BY <1>5, <2>2, <2>3, <2>4, <2>5
<1>7. CASE /\ chunks' = Without(DOMAIN chunks)
           /\ skipped' = skipped \cup {chunks[j].head : j \in DOMAIN chunks \ {i}}
  <2>1. DOMAIN chunks' = {}
    BY <1>7 DEF Without
  <2>2. ReadTypeOK'
    <3>1. skipped' \subseteq Frames
      BY <1>7, HandledAreFrames
    <3>2. QED
      BY <1>2, <2>1, <3>1 DEF ReadTypeOK
  <2>3. HandledArePast'
    <3>1. \A f \in skipped' \cup swallowed : Past(f)
      BY <1>7 DEF HandledArePast
    <3>2. QED
      BY <1>2, <1>3, <2>1, <3>1 DEF HandledArePast, Past
  <2>4. ChunksInOrder' /\ ChunkDamage'
    BY <2>1 DEF ChunksInOrder, ChunkDamage
  <2>5. SkippedNearCut'
    <3>1. \A j \in DOMAIN chunks \ {i} : i < j
      BY <1>1 DEF First, ReadTypeOK
    <3>2. \A f \in skipped' : f \in cut \/ f - 1 \in cut
      BY <1>7, <3>1 DEF SkippedNearCut, ChunkDamage
    <3>3. QED
      BY <1>2, <3>2 DEF SkippedNearCut
  <2>6. NothingLost'
    <3> SUFFICES ASSUME NEW f \in 1..begun, f \notin cut, f \notin skipped' \cup swallowed
                 PROVE  \/ \E k \in 1..Len(gateway) : gateway[k] = [head |-> f, tail |-> f]
                        \/ \E k \in 1..Len(Input) : Input[k].frame = f
      BY <1>2, <1>3 DEF NothingLost
    <3>1. ASSUME NEW j \in DOMAIN chunks, chunks[j].head = f
          PROVE  FALSE
      BY <1>4, <1>7, <3>1
    <3>2. QED
      BY <1>7, <3>1 DEF NothingLost
  <2>7. QED
    BY <1>5, <2>2, <2>3, <2>4, <2>5, <2>6
<1>8. QED
  BY <1>1, <1>6, <1>7

\* What a message is: the pieces up to the first tail that ends one, and the chunks
\* made of it.  A tail within it is the second ";" of a frame whose head is lost.
StartAt(i, end) ==
  /\ Input[i].part = "head"
  /\ Input[i].frame \in InName => i = end - 1 /\ Input[end].frame \in InName

MessageFacts(end) ==
  /\ end \in 1..Len(buffer) /\ end <= Len(Input)
  /\ Input[end].part = "tail"
  /\ \A i \in 1..(end - 1) :
       Input[i].part = "tail" =>
         Input[i].frame \in InEnd /\ (i > 1 => Input[i - 1].frame \notin InEnd)
  /\ DOMAIN chunks = {}

ChunksOf(end, cs) ==
  \E starts \in SUBSET (1..(end - 1)) :
    /\ \/ starts = {} /\ \A i \in 1..end : Input[i].part = "tail"
       \/ starts = {i \in 1..(end - 1) : StartAt(i, end)} /\ 1 \in starts
       \/ starts = {1} /\ ~StartAt(1, end)
    /\ cs = [i \in starts |->
               [head |-> Input[i].frame,
                tail |-> IF \E j \in starts : i < j THEN 0 ELSE Input[end].frame]]

LEMMA MessageIs ==
  ASSUME ReadTypeOK, InputInOrder, NextMessage
  PROVE  \E end \in 1..Len(buffer) :
           /\ MessageFacts(end)
           /\ ChunksOf(end, chunks')
           /\ swallowed' = swallowed \cup ({Input[i].frame : i \in 1..end}
                                             \ {chunks'[i].head : i \in DOMAIN chunks'})
           /\ buffer' \in Seq(Pieces)
           /\ Len(buffer') = Len(buffer) - end
           /\ \A i \in 1..Len(buffer') : buffer'[i] = buffer[i + end]
<1>1. PICK end \in Ends(buffer) :
        /\ \A i \in Ends(buffer) : end <= i
        /\ chunks' = SplitCompound(SubSeq(buffer, 1, end))
        /\ swallowed' = swallowed \cup
             (FramesIn(SubSeq(buffer, 1, end)) \ {chunks'[i].head : i \in DOMAIN chunks'})
        /\ buffer' = Rest(buffer, end)
  BY DEF NextMessage
<1> DEFINE msg == SubSeq(buffer, 1, end)
<1>2. /\ buffer \in Seq(Pieces) /\ Len(buffer) \in Nat /\ DOMAIN buffer = 1..Len(buffer)
      /\ \A i \in 1..Len(buffer) : buffer[i] \in Pieces
  BY LenProperties, ElementOfSeq DEF ReadTypeOK
<1>3. /\ end \in 1..Len(buffer) /\ end \in Nat /\ end >= 1 /\ buffer[end].part = "tail"
      /\ \A i \in 1..(end - 1) :
           buffer[i].part = "tail" =>
             buffer[i].frame \in InEnd /\ (i > 1 => buffer[i - 1].frame \notin InEnd)
  <2>1. end \in 1..Len(buffer) /\ end \in Nat /\ end >= 1 /\ buffer[end].part = "tail"
    BY <1>2 DEF Ends
  <2>2. ASSUME NEW i \in 1..(end - 1), buffer[i].part = "tail"
        PROVE  buffer[i].frame \in InEnd /\ (i > 1 => buffer[i - 1].frame \notin InEnd)
    <3>1. i \in 1..Len(buffer) /\ ~(end <= i)
      BY <1>2, <2>1
    <3>2. i \notin Ends(buffer)
      BY <1>1, <3>1
    <3>3. QED
      BY <1>2, <2>2, <3>1, <3>2 DEF Ends
  <2>3. QED
    BY <2>1, <2>2
<1>4. Len(msg) = end /\ DOMAIN msg = 1..end /\ \A i \in 1..end : msg[i] = buffer[i]
  <2>1. Len(msg) = end /\ (\A i \in 1..end : msg[i] = buffer[i]) /\ msg \in Seq(Pieces)
    BY <1>2, <1>3, SubSeqProperties
  <2>2. QED
    BY <2>1, LenProperties
<1>5. /\ end <= Len(Input) /\ \A i \in 1..end : Input[i] = buffer[i]
  <2>1. /\ Len(Input) = Len(buffer) + Len(wire) /\ Len(wire) \in Nat
        /\ \A i \in 1..Len(buffer) : Input[i] = buffer[i]
    BY InputIs DEF InputFacts
  <2>2. end <= Len(Input) /\ \A i \in 1..end : i \in 1..Len(buffer)
    BY <1>2, <1>3, <2>1
  <2>3. QED
    BY <2>1, <2>2
<1>6. \A i \in 1..end : msg[i] = Input[i]
  BY <1>4, <1>5
<1>7. DOMAIN chunks = {}
  BY DEF NextMessage
<1>8. MessageFacts(end)
  <2>1. Input[end].part = "tail"
    BY <1>3, <1>5
  <2>2. ASSUME NEW i \in 1..(end - 1), Input[i].part = "tail"
        PROVE  Input[i].frame \in InEnd /\ (i > 1 => Input[i - 1].frame \notin InEnd)
    <3>1. i \in 1..end /\ (i > 1 => i - 1 \in 1..end)
      BY <1>3
    <3>2. buffer[i] = Input[i] /\ (i > 1 => buffer[i - 1] = Input[i - 1])
      BY <1>5, <3>1
    <3>3. QED
      BY <1>3, <2>2, <3>2
  <2>3. QED
    BY <1>3, <1>5, <1>7, <2>1, <2>2 DEF MessageFacts
<1>9. Starts(msg) = {i \in 1..(end - 1) : StartAt(i, end)}
  <2>1. \A i \in 1..(end - 1) : i \in 1..end /\ i + 1 \in 1..end /\ (i = end - 1 => i + 1 = end)
    BY <1>3
  <2>2. ASSUME NEW i \in 1..(end - 1)
        PROVE  /\ msg[i] = Input[i]
               /\ i = end - 1 => msg[i + 1] = Input[end]
    BY <1>6, <2>1
  <2>3. QED
    BY <1>4, <2>2 DEF Starts, StartAt
<1>10. ChunksOf(end, chunks')
  <2> DEFINE starts == IF \A i \in DOMAIN msg : msg[i].part = "tail" THEN {}
                       ELSE IF 1 \in Starts(msg) THEN Starts(msg) ELSE {1}
  <2>1. chunks' = [i \in starts |->
                     [head |-> msg[i].frame,
                      tail |-> IF \E j \in starts : i < j THEN 0 ELSE msg[Len(msg)].frame]]
    BY <1>1 DEF SplitCompound
  <2>2. ASSUME ~ \A i \in DOMAIN msg : msg[i].part = "tail"
        PROVE  1 \in 1..(end - 1)
    <3>1. PICK i \in 1..end : msg[i].part # "tail"
      BY <1>4, <2>2
    <3>2. i # end
      BY <1>6, <1>8, <3>1 DEF MessageFacts
    <3>3. QED
      BY <1>3, <3>1, <3>2
  <2>3. starts \in SUBSET (1..(end - 1))
    BY <1>9, <2>2
  <2>4. \/ starts = {} /\ \A i \in 1..end : Input[i].part = "tail"
        \/ starts = {i \in 1..(end - 1) : StartAt(i, end)} /\ 1 \in starts
        \/ starts = {1} /\ ~StartAt(1, end)
    <3>1. CASE \A i \in DOMAIN msg : msg[i].part = "tail"
      BY <1>4, <1>6, <3>1
    <3>2. CASE ~(\A i \in DOMAIN msg : msg[i].part = "tail") /\ 1 \in Starts(msg)
      BY <1>9, <3>2
    <3>3. CASE ~(\A i \in DOMAIN msg : msg[i].part = "tail") /\ 1 \notin Starts(msg)
      BY <1>9, <2>2, <3>3
    <3>4. QED
      BY <3>1, <3>2, <3>3
  <2>5. \A i \in starts : i \in 1..end
    BY <1>3, <2>3
  <2> HIDE DEF starts
  <2>6. /\ \A i \in starts : msg[i] = Input[i]
        /\ msg[Len(msg)] = Input[end]
    BY <1>3, <1>4, <1>6, <2>5
  <2>7. chunks' = [i \in starts |->
                     [head |-> Input[i].frame,
                      tail |-> IF \E j \in starts : i < j THEN 0 ELSE Input[end].frame]]
    BY <2>1, <2>6
  <2>8. QED
    BY <2>3, <2>4, <2>7 DEF ChunksOf
<1>11. FramesIn(msg) = {Input[i].frame : i \in 1..end}
  BY <1>4, <1>6 DEF FramesIn
<1>12. /\ buffer' \in Seq(Pieces) /\ Len(buffer') = Len(buffer) - end
       /\ \A i \in 1..Len(buffer') : buffer'[i] = buffer[i + end]
  <2>1. \A i \in (end + 1)..Len(buffer) : buffer[i] \in Pieces
    BY <1>2, <1>3
  <2>2. /\ SubSeq(buffer, end + 1, Len(buffer)) \in Seq(Pieces)
        /\ Len(SubSeq(buffer, end + 1, Len(buffer))) = Len(buffer) - end
        /\ \A i \in 1..(Len(buffer) - end) :
             SubSeq(buffer, end + 1, Len(buffer))[i] = buffer[i + end]
    <3>1. end + 1 \in Int /\ Len(buffer) \in Int
      BY <1>2, <1>3
    <3>2. /\ SubSeq(buffer, end + 1, Len(buffer)) \in Seq(Pieces)
          /\ Len(SubSeq(buffer, end + 1, Len(buffer))) =
               IF end + 1 <= Len(buffer) THEN Len(buffer) - (end + 1) + 1 ELSE 0
          /\ \A i \in 1..(Len(buffer) - (end + 1) + 1) :
               SubSeq(buffer, end + 1, Len(buffer))[i] = buffer[end + 1 + i - 1]
      BY <2>1, <3>1, SubSeqProperties
    <3>3. Len(buffer) - (end + 1) + 1 = Len(buffer) - end
      BY <1>2, <1>3
    <3>4. \A i \in 1..(Len(buffer) - end) : end + 1 + i - 1 = i + end
      BY <1>2, <1>3
    <3>5. ASSUME NEW i \in 1..(Len(buffer) - end)
          PROVE  SubSeq(buffer, end + 1, Len(buffer))[i] = buffer[i + end]
      BY <3>2, <3>3, <3>4
    <3>6. Len(SubSeq(buffer, end + 1, Len(buffer))) = Len(buffer) - end
      <4>1. CASE end < Len(buffer)
        <5>1. end + 1 <= Len(buffer) /\ Len(buffer) - (end + 1) + 1 = Len(buffer) - end
          BY <1>2, <1>3, <4>1
        <5>2. QED
          BY <3>2, <5>1
      <4>2. CASE ~(end < Len(buffer))
        <5>1. Len(buffer) \in Nat /\ end \in 1..Len(buffer)
          BY <1>2, <1>3
        <5>2. end = Len(buffer)
          BY <4>2, <5>1
        <5>3. ~(end + 1 <= Len(buffer)) /\ Len(buffer) - end = 0
          BY <5>1, <5>2
        <5>4. QED
          BY <3>2, <5>3
      <4>3. QED
        BY <4>1, <4>2
    <3>7. QED
      BY <3>2, <3>5, <3>6
  <2>3. QED
    BY <1>1, <2>2 DEF Rest
<1>13. QED
  BY <1>1, <1>3, <1>8, <1>10, <1>11, <1>12

\* NextMessage takes the first pieces, up to a tail, from the input.
LEMMA NextMessageKeeps ==
  ASSUME ReadIInv, NextMessage
  PROVE  ReadIInv'
<1> USE DEF ReadIInv
<1>1. UNCHANGED <<begun, inFrame, wire, gateway, onRos, ros, cut, skipped>>
  BY DEF NextMessage
<1>2. PICK end \in 1..Len(buffer) :
        /\ MessageFacts(end)
        /\ ChunksOf(end, chunks')
        /\ swallowed' = swallowed \cup ({Input[i].frame : i \in 1..end}
                                          \ {chunks'[i].head : i \in DOMAIN chunks'})
        /\ buffer' \in Seq(Pieces)
        /\ Len(buffer') = Len(buffer) - end
        /\ \A i \in 1..Len(buffer') : buffer'[i] = buffer[i + end]
  BY MessageIs
<1>facts. /\ end <= Len(Input) /\ Input[end].part = "tail"
          /\ \A i \in 1..(end - 1) :
               Input[i].part = "tail" =>
                 Input[i].frame \in InEnd /\ (i > 1 => Input[i - 1].frame \notin InEnd)
          /\ DOMAIN chunks = {}
  BY <1>2 DEF MessageFacts
<1>starts. PICK starts \in SUBSET (1..(end - 1)) :
             /\ \/ starts = {} /\ \A i \in 1..end : Input[i].part = "tail"
                \/ starts = {i \in 1..(end - 1) : StartAt(i, end)} /\ 1 \in starts
                \/ starts = {1} /\ ~StartAt(1, end)
             /\ chunks' = [i \in starts |->
                  [head |-> Input[i].frame,
                   tail |-> IF \E j \in starts : i < j THEN 0 ELSE Input[end].frame]]
  BY <1>2 DEF ChunksOf
<1>heads. /\ DOMAIN chunks' = starts
          /\ \A i \in DOMAIN chunks' : i \in 1..(end - 1) /\ chunks'[i].head = Input[i].frame
  BY <1>starts
<1>4. /\ end \in Nat /\ end >= 1 /\ end <= Len(Input) /\ end \in 1..Len(Input)
      /\ Len(Input) \in Nat
      /\ \A i \in 1..(end - 1) : i \in 1..Len(Input)
      /\ \A i \in 1..Len(Input) :
           /\ Input[i] \in Pieces /\ Input[i].frame \in Nat /\ Input[i].frame >= 1
           /\ Key(Input[i]) \in Nat
           /\ Key(Input[i]) <= 2 * Input[i].frame + 1 /\ Key(Input[i]) >= 2 * Input[i].frame
  <2>1. Len(buffer) \in Nat
    BY InputIs DEF InputFacts
  <2>2. end \in Nat /\ end >= 1
    BY <1>2, <2>1
  <2>3. Len(Input) \in Nat /\ end \in 1..Len(Input) /\ \A i \in 1..(end - 1) : i \in 1..Len(Input)
    BY <1>facts, <2>2, InputIs DEF InputFacts
  <2>4. \A i \in 1..Len(Input) : Input[i] \in Pieces
    BY InputIs DEF InputFacts
  <2>5. QED
    BY <1>facts, <2>2, <2>3, <2>4, PieceIs
<1>3. ReadTypeOK'
  <2>1. \A i \in 1..end : i \in 1..Len(Input) /\ Input[i].frame \in Frames
    BY <1>4, PieceIs
  <2>2. swallowed' \subseteq Frames
    BY <1>2, <2>1 DEF ReadTypeOK
  <2>3. ASSUME NEW i \in DOMAIN chunks' PROVE i \in Nat /\ chunks'[i] \in Chunks
    <3>1. i \in 1..end /\ end \in 1..end /\ i \in Nat
      BY <1>4, <1>heads
    <3>2. chunks'[i] =
            [head |-> Input[i].frame,
             tail |-> IF \E j \in starts : i < j THEN 0 ELSE Input[end].frame]
      BY <1>starts, <1>heads
    <3>3. QED
      BY <2>1, <3>1, <3>2 DEF Chunks
  <2>4. QED
    BY <1>1, <1>2, <2>2, <2>3 DEF ReadTypeOK
<1>5. /\ Len(Input') = Len(Input) - end
      /\ \A i \in 1..Len(Input') : i + end \in 1..Len(Input) /\ Input'[i] = Input[i + end]
  <2>1. Len(wire') = Len(wire) /\ wire' = wire
    BY <1>1
  <2>2. /\ Len(buffer) \in Nat /\ Len(wire) \in Nat
        /\ Len(Input) = Len(buffer) + Len(wire)
        /\ \A i \in 1..Len(Input) :
             Input[i] = IF i <= Len(buffer) THEN buffer[i] ELSE wire[i - Len(buffer)]
    BY InputIs DEF InputFacts
  <2>3. /\ Len(Input') = Len(buffer') + Len(wire)
        /\ \A i \in 1..Len(Input') :
             Input'[i] = IF i <= Len(buffer') THEN buffer'[i] ELSE wire[i - Len(buffer')]
    BY <1>3, <2>1, InputIsNext DEF InputFacts
  <2>4. Len(Input') = Len(Input) - end
    BY <1>2, <1>4, <2>2, <2>3
  <2>5. ASSUME NEW i \in 1..Len(Input')
        PROVE  i + end \in 1..Len(Input) /\ Input'[i] = Input[i + end]
    <3>1. i + end \in 1..Len(Input) /\ i \in Nat
      BY <1>4, <2>4
    <3>2. CASE i <= Len(buffer')
      <4>1. i + end <= Len(buffer) /\ i \in 1..Len(buffer')
        BY <1>2, <1>4, <2>2, <3>1, <3>2
      <4>2. QED
        BY <1>2, <2>2, <2>3, <3>1, <3>2, <4>1
    <3>3. CASE ~(i <= Len(buffer'))
      <4>1. ~(i + end <= Len(buffer)) /\ i - Len(buffer') = i + end - Len(buffer)
        BY <1>2, <1>4, <2>2, <3>1, <3>3
      <4>2. QED
        BY <2>2, <2>3, <3>1, <3>3, <4>1
    <3>4. QED
      BY <3>2, <3>3
  <2>6. QED
    BY <2>4, <2>5
<1>6. LastKey' = LastKey /\ LastKey \in Nat
  BY <1>1, <1>3 DEF LastKey, ReadTypeOK
<1>7. \A i, j \in 1..Len(Input) : i < j => Key(Input[i]) < Key(Input[j])
  BY DEF InputInOrder
<1>8. \A i \in 1..Len(Input) : Key(Input[i]) <= LastKey
  BY DEF InputInOrder
\* The tail, and what is before it.
<1>9. /\ Key(Input[end]) = 2 * Input[end].frame + 1
      /\ Input[end] = TailOf(Input[end].frame)
      /\ \A i \in 1..end : i \in 1..Len(Input) /\ Input[i].frame <= Input[end].frame
  <2>1. /\ Key(Input[end]) = 2 * Input[end].frame + 1
        /\ Input[end] = TailOf(Input[end].frame)
    BY <1>facts, <1>4, PieceIs
  <2>2. ASSUME NEW i \in 1..(end - 1)
        PROVE  Input[i].frame <= Input[end].frame
    <3>1. i \in 1..Len(Input) /\ i < end
      BY <1>4
    <3>2. Key(Input[i]) < Key(Input[end])
      BY <1>4, <1>7, <3>1
    <3>3. QED
      BY <1>4, <2>1, <3>1, <3>2
  <2>3. QED
    BY <1>4, <2>1, <2>2
<1>10. \A f : /\ HeadOf(f).frame = f /\ HeadOf(f).part = "head"
              /\ TailOf(f).frame = f /\ TailOf(f).part = "tail"
              /\ Key(HeadOf(f)) = 2 * f + 0 /\ Key(TailOf(f)) = 2 * f + 1
  BY DEF HeadOf, TailOf, Key
<1>11. \A f \in Frames : f \in Nat
  BY SerialReadAssumption DEF Frames, SerialReadAssumption
\* A tail within the message is of a frame that was cut.
<1>stray. ASSUME NEW i \in 1..(end - 1), Input[i].part = "tail"
          PROVE  Input[i].frame \in cut
  <2> SUFFICES ASSUME Input[i].frame \notin cut PROVE FALSE
    OBVIOUS
  <2> DEFINE f == Input[i].frame
  <2>1. i \in 1..Len(Input) /\ f \in Frames /\ f \in Nat
    BY <1>4, PieceIs
  <2>2. Key(Input[i]) = 2 * f + 1 /\ Input[i] = TailOf(f)
    BY <1>4, <1>stray, <2>1, PieceIs
  <2>3. PICK k \in 1..Len(Input) : Input[k] = HeadOf(f)
    BY <2>1, <2>2 DEF Paired, Unread
  <2>4. Key(Input[k]) = 2 * f /\ Input[k].frame = f
    BY <1>10, <2>1, <2>3
  <2>5. k < i
    <3>1. k # i /\ ~(i < k)
      BY <1>7, <2>1, <2>2, <2>4
    <3>2. QED
      BY <1>4, <2>1, <3>1
  <2>6. k = i - 1
    <3>1. ASSUME k < i - 1 PROVE FALSE
      <4>1. i - 1 \in 1..Len(Input) /\ i - 1 < i
        BY <1>4, <2>1, <3>1
      <4>2. Key(Input[k]) < Key(Input[i - 1]) /\ Key(Input[i - 1]) < Key(Input[i])
        BY <1>7, <2>1, <3>1, <4>1
      <4>3. Key(Input[i - 1]) \in Nat
        BY <1>4, <4>1
      <4>4. QED
        BY <2>1, <2>2, <2>4, <4>2, <4>3
    <3>2. QED
      BY <1>4, <2>1, <2>5, <3>1
  <2>7. i > 1 /\ Input[i - 1].frame = f
    BY <1>4, <2>1, <2>4, <2>6
  <2>8. QED
    BY <1>facts, <1>stray, <2>7
\* A frame that was not cut and whose head is in the message is the last one in it.
<1>12. ASSUME NEW i \in 1..(end - 1), Input[i].part = "head", Input[i].frame \notin cut
       PROVE  i = end - 1 /\ Input[end].frame = Input[i].frame
  <2> DEFINE f == Input[i].frame
  <2>1. i \in 1..Len(Input) /\ f \in Frames /\ f \in Nat /\ f \notin cut
    BY <1>4, <1>12, PieceIs
  <2>2. Key(Input[i]) = 2 * f /\ Input[i] = HeadOf(f)
    BY <1>4, <1>12, <2>1, PieceIs
  <2>3. Unread(HeadOf(f))
    BY <2>1, <2>2 DEF Unread
  <2>4. Key(Input[i]) < Key(Input[end])
    BY <1>4, <1>7, <2>1
  <2>5. ~(inFrame /\ f = begun)
    <3>1. ASSUME inFrame, f = begun PROVE FALSE
      <4>1. LastKey = 2 * f
        BY <2>1, <3>1 DEF LastKey
      <4>2. Key(Input[end]) <= 2 * f
        BY <1>4, <1>8, <4>1
      <4>3. QED
        BY <1>4, <2>1, <2>2, <2>4, <4>2
    <3>2. QED
      BY <3>1
  <2>6. PICK k \in 1..Len(Input) : Input[k] = TailOf(f)
    BY <2>1, <2>3, <2>5 DEF Paired, Unread
  <2>7. Key(Input[k]) = 2 * f + 1 /\ Input[k].part = "tail"
    BY <1>10, <2>6
  <2>8. i < k
    <3>1. k < i \/ k = i \/ i < k
      BY <1>4, <2>1
    <3>2. ~(k < i)
      BY <1>4, <1>7, <2>1, <2>2, <2>7
    <3>3. k # i
      BY <2>1, <2>2, <2>7
    <3>4. QED
      BY <3>1, <3>2, <3>3
  <2>9. end <= k
    <3>1. ASSUME k < end PROVE FALSE
      <4>1. k \in 1..(end - 1)
        BY <1>4, <3>1
      <4>2. Input[k].frame \notin cut
        BY <1>10, <2>1, <2>6
      <4>3. QED
        BY <1>stray, <2>7, <4>1, <4>2
    <3>2. QED
      BY <1>4, <3>1
  <2>10. k <= end
    <3>1. ASSUME end < k PROVE FALSE
      <4>1. Key(Input[end]) < Key(Input[k])
        BY <1>4, <1>7, <3>1
      <4>2. QED
        <5>1. /\ 2 * f < Key(Input[end]) /\ Key(Input[end]) < 2 * f + 1
              /\ Key(Input[end]) \in Nat
          BY <1>4, <2>2, <2>4, <2>7, <4>1
        <5>2. QED
          BY <2>1, <5>1
    <3>2. QED
      BY <1>4, <3>1
  <2>11. k = end
    BY <1>4, <2>9, <2>10
  <2>12. i = end - 1
    <3>1. ASSUME i < end - 1 PROVE FALSE
      <4>1. i + 1 \in 1..Len(Input) /\ i < i + 1 /\ i + 1 < end
        BY <1>4, <3>1
      <4>2. Key(Input[i]) < Key(Input[i + 1]) /\ Key(Input[i + 1]) < Key(Input[end])
        BY <1>4, <1>7, <2>1, <4>1
      <4>3. Key(Input[i + 1]) \in Nat
        BY <1>4, <4>1
      <4>4. QED
        BY <2>1, <2>2, <2>7, <2>11, <4>2, <4>3
    <3>2. QED
      BY <1>4, <3>1
  <2>13. QED
    BY <1>10, <2>6, <2>11, <2>12
\* What was sent between two frames of the message, the later one with its head, is lost.
<1>gap. ASSUME NEW i \in 1..(end - 1), Input[i].part = "head",
               NEW j \in 1..(end - 1), NEW e \in 1..begun,
               Input[j].frame <= e, e < Input[i].frame
        PROVE  e \in cut
  <2>1. /\ i \in 1..Len(Input) /\ Input[i].frame \in Nat /\ Key(Input[i]) = 2 * Input[i].frame
        /\ j \in 1..Len(Input) /\ Input[j].frame \in Nat
        /\ Key(Input[j]) \in Nat /\ Key(Input[j]) <= 2 * Input[j].frame + 1
    BY <1>4, <1>gap, PieceIs
  <2>2. e \in Nat
    BY DEF ReadTypeOK
  <2>3. ~Past(e)
    <3>1. ASSUME Past(e) PROVE FALSE
      <4>1. 2 * e + 1 < Key(Input[j])
        BY <2>1, <3>1 DEF Past
      <4>2. QED
        BY <1>gap, <2>1, <2>2, <4>1
    <3>2. QED
      BY <3>1
  <2>4. e \notin skipped \cup swallowed
    BY <2>3 DEF HandledArePast
  <2>5. ~ \E k \in 1..Len(gateway) : gateway[k] = [head |-> e, tail |-> e]
    BY <2>3 DEF HandledArePast
  <2>6. ASSUME NEW k \in 1..Len(Input), Input[k].frame = e
        PROVE  e \in cut
    <3>1. Key(Input[k]) <= 2 * e + 1 /\ Key(Input[k]) \in Nat /\ k \in Nat
      BY <1>4, <2>6
    <3>2. Key(Input[k]) < Key(Input[i])
      BY <1>gap, <2>1, <2>2, <3>1
    <3>3. k < i
      <4>1. k # i /\ ~(i < k)
        BY <1>7, <2>1, <3>1, <3>2
      <4>2. QED
        BY <2>1, <3>1, <4>1
    <3>4. k \in 1..(end - 1) /\ k # end - 1
      BY <1>4, <3>3
    <3>5. CASE Input[k].part = "head"
      BY <1>12, <2>6, <3>4, <3>5
    <3>6. CASE Input[k].part = "tail"
      BY <1>stray, <2>6, <3>4, <3>6
    <3>7. QED
      BY <1>4, <3>5, <3>6, PieceIs
  <2>7. QED
    BY <1>facts, <2>4, <2>5, <2>6 DEF NothingLost
<1>13. InputInOrder'
  <2>1. \A i \in 1..Len(Input') : Key(Input'[i]) <= LastKey'
    BY <1>5, <1>6, <1>8
  <2>2. \A i, j \in 1..Len(Input') : i < j => Key(Input'[i]) < Key(Input'[j])
    <3> SUFFICES ASSUME NEW i \in 1..Len(Input'), NEW j \in 1..Len(Input'), i < j
                 PROVE  Key(Input'[i]) < Key(Input'[j])
      OBVIOUS
    <3>1. i + end < j + end
      BY <1>4, <1>5
    <3>2. QED
      BY <1>5, <1>7, <3>1
  <2>3. QED
    BY <1>1, <2>1, <2>2 DEF InputInOrder
<1>14. \A i \in 1..Len(Input') : Key(Input[end]) < Key(Input'[i])
  <2>1. ASSUME NEW i \in 1..Len(Input')
        PROVE  Key(Input[end]) < Key(Input'[i])
    <3>1. end < i + end
      BY <1>4, <1>5
    <3>2. QED
      BY <1>4, <1>5, <1>7, <3>1
  <2>2. QED
    BY <2>1
<1>15. HandledArePast'
  <2>1. ASSUME NEW f \in Frames, Past(f)
        PROVE  /\ 2 * f + 1 <= LastKey'
               /\ \A i \in 1..Len(Input') : 2 * f + 1 < Key(Input'[i])
    BY <1>5, <1>6, <2>1 DEF Past
  <2>2. ASSUME NEW i \in 1..end
        PROVE  /\ 2 * Input[i].frame + 1 <= LastKey'
               /\ \A j \in 1..Len(Input') : 2 * Input[i].frame + 1 < Key(Input'[j])
    <3>1. /\ 2 * Input[i].frame + 1 <= Key(Input[end])
          /\ Input[i].frame \in Nat
      <4>1. Input[i].frame \in Nat /\ Input[end].frame \in Nat
        BY <1>4, <1>9
      <4>2. Input[i].frame <= Input[end].frame /\ Key(Input[end]) = 2 * Input[end].frame + 1
        BY <1>9
      <4>3. QED
        BY <4>1, <4>2
    <3>2. Key(Input[end]) <= LastKey' /\ Key(Input[end]) \in Nat
      BY <1>4, <1>6, <1>8
    <3>3. \A j \in 1..Len(Input') : Key(Input'[j]) \in Nat
      BY <1>4, <1>5
    <3>4. 2 * Input[i].frame + 1 <= LastKey'
      BY <1>6, <3>1, <3>2
    <3>5. \A j \in 1..Len(Input') : 2 * Input[i].frame + 1 < Key(Input'[j])
      BY <1>14, <3>1, <3>2, <3>3
    <3>6. QED
      BY <3>4, <3>5
  <2>3. \A i \in DOMAIN chunks' :
          /\ 2 * chunks'[i].head + 1 <= LastKey'
          /\ \A j \in 1..Len(Input') : 2 * chunks'[i].head + 1 < Key(Input'[j])
    <3>1. \A i \in DOMAIN chunks' : i \in 1..end /\ chunks'[i].head = Input[i].frame
      BY <1>4, <1>heads
    <3>2. QED
      BY <2>2, <3>1
  <2>4. \A f \in swallowed' :
          /\ 2 * f + 1 <= LastKey'
          /\ \A j \in 1..Len(Input') : 2 * f + 1 < Key(Input'[j])
    <3>1. \A f \in swallowed' : f \in swallowed \/ \E i \in 1..end : f = Input[i].frame
      BY <1>2
    <3>2. \A f \in swallowed : f \in Frames /\ Past(f)
      BY HandledAreFrames DEF HandledArePast
    <3>3. QED
      BY <2>1, <2>2, <3>1, <3>2
  <2>5. /\ \A i \in 1..Len(gateway) : gateway[i].head \in Frames /\ Past(gateway[i].head)
        /\ \A i \in 1..Len(onRos) : onRos[i].head \in Frames /\ Past(onRos[i].head)
        /\ \A f \in skipped : f \in Frames /\ Past(f)
    BY HandledAreFrames DEF HandledArePast
  <2>6. QED
    BY <1>1, <2>1, <2>3, <2>4, <2>5 DEF HandledArePast, Past
<1>16. Paired'
  <2>1. ASSUME NEW f \in Frames \ cut, NEW i \in 1..Len(Input'), Input'[i] = HeadOf(f)
        PROVE  (\E j \in 1..Len(Input') : Input'[j] = TailOf(f)) \/ (inFrame /\ f = begun)
    <3>1. i + end \in 1..Len(Input) /\ Input[i + end] = HeadOf(f) /\ i \in Nat /\ i >= 1
      BY <1>4, <1>5, <2>1
    <3>2. CASE \E k \in 1..Len(Input) : Input[k] = TailOf(f)
      <4>1. PICK k \in 1..Len(Input) : Input[k] = TailOf(f)
        BY <3>2
      <4>2. f \in Nat /\ Key(Input[k]) = 2 * f + 1 /\ Key(Input[i + end]) = 2 * f
        BY <1>10, <1>11, <3>1, <4>1
      <4>3. i + end < k
        <5>1. k # i + end
          BY <4>2
        <5>2. ~(k < i + end)
          BY <1>7, <3>1, <4>2
        <5>3. QED
          BY <1>4, <3>1, <5>1, <5>2
      <4>4. k - end \in 1..Len(Input') /\ k - end + end = k
        BY <1>4, <1>5, <3>1, <4>3
      <4>5. QED
        BY <1>5, <4>1, <4>4
    <3>3. QED
      BY <2>1, <3>1, <3>2 DEF Paired, Unread
  <2>2. ASSUME NEW f \in Frames \ cut, NEW i \in 1..Len(Input'), Input'[i] = TailOf(f)
        PROVE  \E j \in 1..Len(Input') : Input'[j] = HeadOf(f)
    <3>1. i + end \in 1..Len(Input) /\ Input[i + end] = TailOf(f)
      BY <1>5, <2>2
    <3>2. PICK k \in 1..Len(Input) : Input[k] = HeadOf(f)
      BY <2>2, <3>1 DEF Paired, Unread
    <3>3. f \in Nat /\ Key(Input[k]) = 2 * f /\ Key(Input'[i]) = 2 * f + 1
      BY <1>10, <1>11, <2>2, <3>2
    <3>4. 2 * Input[end].frame + 1 < 2 * f + 1 /\ Input[end].frame \in Nat
      BY <1>4, <1>9, <1>14, <3>3
    <3>5. Key(Input[end]) < Key(Input[k])
      BY <1>9, <3>3, <3>4
    <3>6. end < k
      <4>1. ~(k < end) /\ k # end
        BY <1>4, <1>7, <3>5
      <4>2. QED
        BY <1>4, <4>1
    <3>7. k - end \in 1..Len(Input') /\ k - end + end = k
      BY <1>4, <1>5, <3>6
    <3>8. QED
      BY <1>5, <3>2, <3>7
  <2>3. ASSUME inFrame, begun \notin cut
        PROVE  \E j \in 1..Len(Input') : Input'[j] = HeadOf(begun)
    <3>1. PICK k \in 1..Len(Input) : Input[k] = HeadOf(begun)
      BY <2>3 DEF Paired, Unread
    <3>2. begun \in Nat /\ Key(Input[k]) = 2 * begun /\ LastKey = 2 * begun
      BY <1>3, <1>10, <2>3, <3>1 DEF LastKey, ReadTypeOK
    <3>3. end < k
      <4>1. k # end
        BY <1>facts, <1>10, <3>1
      <4>2. ASSUME k < end PROVE FALSE
        <5>1. Key(Input[k]) < Key(Input[end]) /\ Key(Input[end]) <= LastKey
          BY <1>4, <1>7, <1>8, <4>2
        <5>2. QED
          BY <1>4, <3>2, <5>1
      <4>3. QED
        BY <1>4, <4>1, <4>2
    <3>4. k - end \in 1..Len(Input') /\ k - end + end = k
      BY <1>4, <1>5, <3>3
    <3>5. QED
      BY <1>5, <3>1, <3>4
  <2>4. QED
    BY <1>1, <2>1, <2>2, <2>3 DEF Paired, Unread
\* Of two chunks the second begins with a head: the message was split.
<1>split. ASSUME NEW i \in DOMAIN chunks', NEW j \in DOMAIN chunks', i < j
          PROVE  /\ i \in 1..(end - 1) /\ j \in 1..(end - 1)
                 /\ i \in 1..Len(Input) /\ j \in 1..Len(Input)
                 /\ Input[j].part = "head"
                 /\ chunks'[i].head = Input[i].frame /\ chunks'[j].head = Input[j].frame
  <2>1. /\ i \in 1..(end - 1) /\ j \in 1..(end - 1)
        /\ i \in 1..Len(Input) /\ j \in 1..Len(Input)
        /\ chunks'[i].head = Input[i].frame /\ chunks'[j].head = Input[j].frame
    BY <1>4, <1>heads
  <2>2. starts # {} /\ starts # {1}
    BY <1>4, <1>heads, <1>split, <2>1
  <2>3. StartAt(j, end)
    BY <1>starts, <1>heads, <2>2
  <2>4. QED
    BY <2>1, <2>3 DEF StartAt
<1>17. ChunksInOrder'
  <2>1. ASSUME NEW i \in DOMAIN chunks', NEW j \in DOMAIN chunks', i < j
        PROVE  chunks'[i].head < chunks'[j].head
    <3>1. /\ i \in 1..Len(Input) /\ j \in 1..Len(Input) /\ Input[j].part = "head"
          /\ chunks'[i].head = Input[i].frame /\ chunks'[j].head = Input[j].frame
      BY <1>split, <2>1
    <3>2. /\ Input[i].frame \in Nat /\ 2 * Input[i].frame <= Key(Input[i])
          /\ Input[j].frame \in Nat /\ Key(Input[j]) = 2 * Input[j].frame
          /\ Key(Input[i]) \in Nat
      BY <1>4, <3>1, PieceIs
    <3>3. Key(Input[i]) < Key(Input[j])
      BY <1>7, <2>1, <3>1
    <3>4. QED
      BY <3>1, <3>2, <3>3
  <2>2. ASSUME NEW f \in Frames, Past(f), NEW j \in DOMAIN chunks'
        PROVE  f < chunks'[j].head
    <3>1. j \in 1..Len(Input) /\ chunks'[j].head = Input[j].frame
      BY <1>4, <1>heads
    <3>2. /\ 2 * f + 1 < Key(Input[j]) /\ Key(Input[j]) <= 2 * Input[j].frame + 1
          /\ Key(Input[j]) \in Nat /\ f \in Nat /\ Input[j].frame \in Nat
      BY <1>4, <1>11, <2>2, <3>1 DEF Past
    <3>3. QED
      BY <3>1, <3>2
  <2>3. /\ \A i \in 1..Len(gateway) : gateway[i].head \in Frames /\ Past(gateway[i].head)
        /\ \A i \in 1..Len(onRos) : onRos[i].head \in Frames /\ Past(onRos[i].head)
    BY HandledAreFrames DEF HandledArePast
  <2>4. QED
    BY <1>1, <2>1, <2>2, <2>3 DEF ChunksInOrder
<1>18. ChunkDamage'
  <2>1. ASSUME NEW i \in DOMAIN chunks', Input[i].frame \notin cut
        PROVE  Intact(chunks'[i])
    <3>1. /\ i \in 1..(end - 1) /\ i \in starts
          /\ chunks'[i] =
               [head |-> Input[i].frame,
                tail |-> IF \E j \in starts : i < j THEN 0 ELSE Input[end].frame]
      BY <1>starts, <1>heads
    <3>2. Input[i].part = "head"
      <4>1. Input[i].part # "tail"
        BY <1>stray, <2>1, <3>1
      <4>2. QED
        BY <1>4, <3>1, <4>1, PieceIs
    <3>3. i = end - 1 /\ Input[end].frame = Input[i].frame
      BY <1>12, <2>1, <3>1, <3>2
    <3>4. ~ \E j \in starts : i < j
      BY <1>4, <3>1, <3>3
    <3>5. QED
      BY <3>1, <3>3, <3>4 DEF Intact
  <2>2. ASSUME NEW i \in DOMAIN chunks', NEW j \in DOMAIN chunks', i < j
        PROVE  chunks'[j].head - 1 \in cut
    <3> DEFINE e == Input[j].frame - 1
    <3>1. /\ i \in 1..(end - 1) /\ j \in 1..(end - 1)
          /\ i \in 1..Len(Input) /\ j \in 1..Len(Input)
          /\ Input[j].part = "head"
          /\ chunks'[i].head = Input[i].frame /\ chunks'[j].head = Input[j].frame
      BY <1>split, <2>2
    <3>2. /\ Input[i].frame \in Nat /\ Input[i].frame >= 1 /\ Input[j].frame \in Nat
          /\ Key(Input[j]) = 2 * Input[j].frame
      BY <1>4, <3>1, PieceIs
    <3>3. Input[i].frame < Input[j].frame
      BY <1>17, <2>2, <3>1 DEF ChunksInOrder
    <3>4. Input[j].frame <= begun /\ begun \in Nat
      <4>1. 2 * Input[j].frame <= LastKey
        BY <1>8, <3>1, <3>2
      <4>2. begun \in Nat
        BY DEF ReadTypeOK
      <4>3. QED
        BY <3>2, <4>1, <4>2 DEF LastKey
    <3>5. e \in 1..begun /\ Input[i].frame <= e /\ e < Input[j].frame
      BY <3>2, <3>3, <3>4
    <3>6. e \in cut
      BY <1>gap, <3>1, <3>5
    <3>7. QED
      BY <3>1, <3>6
  <2>3. QED
    BY <1>1, <1>heads, <2>1, <2>2 DEF ChunkDamage
<1>19. FramesInOrder' /\ OnlyCutFramesMix' /\ SkippedNearCut'
  BY <1>1 DEF FramesInOrder, OnlyCutFramesMix, SkippedNearCut
\* The head of a frame whose tail ends the message is in it, if no piece was lost.
<1>own. ASSUME Input[end].frame \notin cut
        PROVE  /\ end - 1 \in 1..(end - 1) /\ Input[end - 1].part = "head"
               /\ Input[end - 1].frame = Input[end].frame
  <2> DEFINE f == Input[end].frame
  <2>1. f \in Frames \ cut /\ Input[end] = TailOf(f)
    BY <1>4, <1>9, <1>own, PieceIs
  <2>2. PICK j \in 1..Len(Input) : Input[j] = HeadOf(f)
    BY <1>4, <2>1 DEF Paired, Unread
  <2>3. f \in Nat /\ Key(Input[j]) = 2 * f /\ Key(Input[end]) = 2 * f + 1
    BY <1>10, <1>11, <2>1, <2>2
  <2>4. j < end
    <3>1. j # end /\ ~(end < j)
      BY <1>4, <1>7, <2>3
    <3>2. QED
      BY <1>4, <3>1
  <2>5. j \in 1..(end - 1) /\ Input[j].frame = f /\ Input[j].part = "head"
    BY <1>4, <1>10, <2>2, <2>4
  <2>6. j = end - 1
    BY <1>12, <2>1, <2>5
  <2>7. QED
    BY <2>5, <2>6
<1>20. SwallowedNearCut'
  <2>1. ASSUME NEW f \in swallowed', f \notin swallowed, f \notin cut
        PROVE  \E g \in InName \cup InEnd : g < f /\ g..(f - 1) \subseteq cut
    <3>1. PICK k \in 1..end : Input[k].frame = f
      BY <1>2, <2>1
    <3>2. /\ end - 1 \in 1..(end - 1) /\ Input[end - 1].part = "head"
          /\ Input[end - 1].frame = f /\ Input[end].frame = f
      <4>1. CASE k = end
        BY <1>own, <2>1, <3>1, <4>1
      <4>2. CASE k # end
        <5>1. k \in 1..(end - 1) /\ k \in 1..Len(Input)
          BY <1>4, <4>2
        <5>2. Input[k].part = "head"
          <6>1. Input[k].part # "tail"
            BY <1>stray, <2>1, <3>1, <5>1
          <6>2. QED
            BY <1>4, <5>1, <6>1, PieceIs
        <5>3. k = end - 1 /\ Input[end].frame = f
          BY <1>12, <2>1, <3>1, <5>1, <5>2
        <5>4. QED
          BY <3>1, <5>1, <5>2, <5>3
      <4>3. QED
        BY <4>1, <4>2
    <3>3. end - 1 \notin starts
      <4>1. \A i \in DOMAIN chunks' : chunks'[i].head # f
        BY <1>2, <2>1
      <4>2. QED
        BY <1>heads, <3>2, <4>1
    <3>4. starts = {1} /\ ~StartAt(1, end)
      <4>1. ~ \A i \in 1..end : Input[i].part = "tail"
        <5>1. end - 1 \in 1..end
          BY <1>4, <3>2
        <5>2. QED
          BY <3>2, <5>1
      <4>2. StartAt(end - 1, end)
        BY <3>2 DEF StartAt
      <4>3. QED
        BY <1>starts, <3>2, <3>3, <4>1, <4>2
    <3> DEFINE g == Input[1].frame
    <3>5. 1 \in 1..(end - 1) /\ 1 < end - 1 /\ 1 \in 1..Len(Input)
      BY <1>4, <3>2, <3>3, <3>4
    <3>6. g \in InName \cup InEnd
      <4>1. CASE Input[1].part = "head"
        BY <3>4, <4>1 DEF StartAt
      <4>2. CASE Input[1].part = "tail"
        BY <1>facts, <3>5, <4>2
      <4>3. QED
        BY <1>4, <3>5, <4>1, <4>2, PieceIs
    <3>7. /\ g \in Nat /\ g >= 1 /\ f \in Nat /\ g < f /\ f <= begun /\ begun \in Nat
      <4>1. end - 1 \in 1..Len(Input)
        BY <1>4, <3>2
      <4>2. /\ g \in Nat /\ g >= 1 /\ 2 * g <= Key(Input[1]) /\ Key(Input[1]) \in Nat
            /\ f \in Nat /\ Key(Input[end - 1]) = 2 * f
        BY <1>4, <3>2, <3>5, <4>1, PieceIs
      <4>3. Key(Input[1]) < Key(Input[end - 1]) /\ Key(Input[end - 1]) <= LastKey
        BY <1>7, <1>8, <3>5, <4>1
      <4>4. begun \in Nat
        BY DEF ReadTypeOK
      <4>5. QED
        BY <4>2, <4>3, <4>4 DEF LastKey
    <3>8. ASSUME NEW e \in g..(f - 1) PROVE e \in cut
      <4>1. e \in 1..begun /\ g <= e /\ e < f
        BY <3>7
      <4>2. QED
        BY <1>gap, <3>2, <3>5, <4>1
    <3>9. QED
      BY <3>6, <3>7, <3>8
  <2>2. QED
    BY <1>1, <2>1 DEF SwallowedNearCut
<1>21. NothingLost'
  <2> SUFFICES ASSUME NEW f \in 1..begun, f \notin cut, f \notin skipped \cup swallowed'
               PROVE  \/ \E i \in 1..Len(gateway) : gateway[i] = [head |-> f, tail |-> f]
                      \/ \E i \in 1..Len(Input') : Input'[i].frame = f
                      \/ \E i \in DOMAIN chunks' : chunks'[i].head = f
    BY <1>1 DEF NothingLost
  <2>1. ASSUME NEW k \in 1..Len(Input), Input[k].frame = f
        PROVE  \/ \E i \in 1..Len(Input') : Input'[i].frame = f
               \/ \E i \in DOMAIN chunks' : chunks'[i].head = f
    <3>1. CASE end < k
      <4>1. k - end \in 1..Len(Input') /\ k - end + end = k
        BY <1>4, <1>5, <3>1
      <4>2. QED
        BY <1>5, <2>1, <4>1
    <3>2. CASE k <= end
      <4>1. k \in 1..end
        BY <1>4, <3>2
      <4>2. f \in {Input[i].frame : i \in 1..end}
        BY <2>1, <4>1
      <4>3. f \in {chunks'[i].head : i \in DOMAIN chunks'}
        BY <1>2, <4>2
      <4>4. QED
        BY <4>3
    <3>3. QED
      BY <1>4, <3>1, <3>2
  <2>2. f \notin swallowed
    BY <1>2
  <2>3. QED
    BY <1>facts, <2>1, <2>2 DEF NothingLost
<1>22. QED
  BY <1>3, <1>13, <1>15, <1>16, <1>17, <1>18, <1>19, <1>20, <1>21
LEMMA StutterKeepsRead ==
  ASSUME ReadIInv, UNCHANGED readVars
  PROVE  ReadIInv'
<1>1. /\ UNCHANGED <<begun, inFrame, wire, buffer, chunks, gateway, onRos, ros, cut>>
      /\ UNCHANGED <<skipped, swallowed>>
  BY DEF readVars, omitted
<1>2. Input' = Input /\ LastKey' = LastKey
  BY <1>1 DEF Input, LastKey
<1>3. ReadTypeOK' /\ InputInOrder' /\ HandledArePast' /\ Paired'
  BY <1>1, <1>2 DEF ReadIInv, ReadTypeOK, InputInOrder, HandledArePast, Past, Paired, Unread
<1>4. ChunksInOrder' /\ ChunkDamage' /\ FramesInOrder' /\ OnlyCutFramesMix'
  BY <1>1 DEF ReadIInv, ChunksInOrder, ChunkDamage, FramesInOrder, OnlyCutFramesMix
<1>5. NothingLost' /\ SkippedNearCut' /\ SwallowedNearCut'
  BY <1>1, <1>2 DEF ReadIInv, NothingLost, SkippedNearCut, SwallowedNearCut
<1>6. QED
  BY <1>3, <1>4, <1>5 DEF ReadIInv

LEMMA InitRead == ReadInit => ReadIInv
<1> SUFFICES ASSUME ReadInit PROVE ReadIInv
  OBVIOUS
<1>0. DOMAIN chunks = {}
  <2>1. chunks = <<>>
    BY DEF ReadInit
  <2>2. <<>> \in Seq(Chunks) /\ Len(<<>>) = 0
    BY EmptySeq
  <2>3. DOMAIN chunks = 1..0
    BY <2>1, <2>2, LenProperties
  <2>4. QED
    BY <2>3
<1>1. ReadTypeOK
  <2>1. <<>> \in Seq(Pieces) /\ <<>> \in Seq(Chunks)
    BY EmptySeq
  <2>2. 0 \in 0..MaxFrames
    BY SerialReadAssumption DEF SerialReadAssumption
  <2>3. QED
    BY <1>0, <2>1, <2>2 DEF ReadInit, ReadTypeOK
<1>2. Len(Input) = 0 /\ Len(gateway) = 0 /\ Len(onRos) = 0
  <2>1. Len(buffer) = 0 /\ Len(wire) = 0
    BY DEF ReadInit
  <2>2. QED
    BY <1>1, <2>1, InputIs DEF ReadInit, InputFacts
<1>3. /\ begun = 0 /\ inFrame = FALSE /\ skipped = {} /\ swallowed = {}
      /\ gateway = <<>> /\ onRos = <<>>
  BY DEF ReadInit
<1>4. InputInOrder /\ HandledArePast /\ Paired
  BY <1>0, <1>2, <1>3 DEF InputInOrder, HandledArePast, Paired, Unread
<1>5. ChunksInOrder /\ ChunkDamage
  BY <1>0 DEF ChunksInOrder, ChunkDamage
<1>6. FramesInOrder /\ OnlyCutFramesMix /\ NothingLost
  BY <1>3 DEF FramesInOrder, OnlyCutFramesMix, NothingLost
<1>7. SkippedNearCut /\ SwallowedNearCut
  BY <1>3 DEF SkippedNearCut, SwallowedNearCut
<1>8. QED
  BY <1>1, <1>4, <1>5, <1>6, <1>7 DEF ReadIInv

\* The inductive invariant of SerialRead: one order of all pieces, and what is
\* between the input, the message at hand and the histories.
THEOREM ReadInvariant == ReadSpec => []ReadIInv
<1>1. ReadInit => ReadIInv
  BY InitRead
<1>2. ReadIInv /\ [ReadNext]_readVars => ReadIInv'
  <2> SUFFICES ASSUME ReadIInv, [ReadNext]_readVars PROVE ReadIInv'
    OBVIOUS
  <2>1. CASE BoardSends
    BY <2>1, BoardSendsKeeps
  <2>2. CASE BoardRestarts
    BY <2>2, BoardRestartsKeeps
  <2>3. CASE InputLost
    BY <2>3, InputLostKeeps
  <2>4. CASE ReadSerial
    BY <2>4, ReadSerialKeeps
  <2>5. CASE NextMessage
    BY <2>5, NextMessageKeeps
  <2>6. CASE SendSample
    BY <2>6, SendSampleKeeps
  <2>7. CASE SendOther
    BY <2>7, SendOtherKeeps
  <2>8. CASE RejectChunk
    BY <2>8, RejectChunkKeeps
  <2>9. CASE UNCHANGED readVars
    BY <2>9, StutterKeepsRead
  <2>10. QED
    BY <2>1, <2>2, <2>3, <2>4, <2>5, <2>6, <2>7, <2>8, <2>9 DEF ReadNext
<1>3. QED
  BY <1>1, <1>2, PTL DEF ReadSpec

\* Whatever reads fail and whenever the link or the board comes and goes: frames
\* reach the gateway and ROS in the order they were sent, and each once, but for the
\* "imu" frames, which may be two messages in a row for the gateway; and a value the
\* board never sent reaches them only if a piece of its frame was lost
\* (threadRead.thread_work and what it calls).
THEOREM ReadSafe == ReadSpec => []ReadInv
<1>1. ReadIInv => ReadInv
  BY DEF ReadIInv, ReadInv
<1>2. QED
  BY <1>1, ReadInvariant, PTL

\* A frame of which no piece was lost is published, unless it was in one message with
\* the cut frame before it and that one raised, or the message begins with a frame cut
\* in its name or its end and all between are cut too; and a failure of ROS keeps
\* nothing from the gateway (threadRead._split_compound_messages, send_queue).
THEOREM DamageLocal == ReadSpec => []DamageIsLocal
<1>1. ReadIInv => DamageIsLocal
  BY DamageIs DEF ReadIInv
<1>2. QED
  BY <1>1, ReadInvariant, PTL
=============================================================================
