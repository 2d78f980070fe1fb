----------------------------- MODULE SerialLink -----------------------------
(***************************************************************************)
(* The serial link of processSerialHandler: its loop (templates/           *)
(* workerprocess.py), the chain of reconnection timers, the thread that    *)
(* tells the dashboard once, and the read and write threads, which report  *)
(* errors and a silent board (the watchdog of threadRead) and are paused   *)
(* while there is no connection.                                           *)
(*                                                                         *)
(* The two threads are paused, resumed and stopped together and are one    *)
(* here.  What runs under serialLock is one action.  Of time only the      *)
(* watchdog's is kept: it does not expire in the moments between its reset *)
(* and the end of the attempt that reset it.                               *)
(***************************************************************************)
EXTENDS Naturals

VARIABLES
  \* the micro-controller
  device,          \* "ok"; "hung": the port opens, no data; "gone": no port
  \* processSerialHandler
  con,             \* serialCon: "none", "open", or "broken" since it was opened
  serialConnected,
  reconnecting,
  timers,          \* the timers that will call _try_reconnect
  attempt,         \* where a call of _try_reconnect is
  loop,            \* where run() is
  stateMsg,        \* the unread SerialConnectionState
  pauseEvent, resumeEvent,
  blocker,         \* stop(): "off", "resumes" before it is set, "set"
  notice,          \* _wait_for_dashboard_and_notify
  \* its threads
  threads,         \* "run", "paused", "ended"
  quit,            \* their _blocker
  watchdog         \* "idle": no data yet; "armed"; "fired"

linkFlags == <<serialConnected, reconnecting, timers, attempt>>
linkEvents == <<pauseEvent, resumeEvent>>
linkThreads == <<threads, quit>>
linkVars == <<device, con, linkFlags, loop, stateMsg, linkEvents, blocker, notice,
              linkThreads, watchdog>>

LinkTypeOK ==
  /\ device \in {"ok", "hung", "gone"}
  /\ con \in {"none", "open", "broken"}
  /\ serialConnected \in BOOLEAN /\ reconnecting \in BOOLEAN
  /\ timers \in {0, 1}
  /\ attempt \in {"idle", "trying", "failed", "opened", "told", "reset", "resumed"}
  /\ loop \in {"init", "state", "work", "handle", "pause", "resume", "stop", "done"}
  /\ stateMsg \in {"none", "up", "down"}
  /\ pauseEvent \in BOOLEAN /\ resumeEvent \in BOOLEAN
  /\ blocker \in {"off", "resumes", "set"}
  /\ notice \in {"waiting", "up", "down", "told"}
  /\ threads \in {"run", "paused", "ended"} /\ quit \in BOOLEAN
  /\ watchdog \in {"idle", "armed", "fired"}

\* run() before its loop: one attempt to connect, then a timer if it failed.
LinkInit ==
  /\ device \in {"ok", "gone"}
  /\ con = IF device = "ok" THEN "open" ELSE "none"
  /\ serialConnected = (device = "ok")
  /\ timers = IF device = "ok" THEN 0 ELSE 1
  /\ reconnecting = FALSE /\ attempt = "idle"
  /\ loop = "init" /\ stateMsg = "none"
  /\ pauseEvent = FALSE /\ resumeEvent = FALSE /\ blocker = "off"
  /\ notice = "waiting"
  /\ threads = "run" /\ quit = FALSE /\ watchdog = "idle"

SerialStateOf(up) == IF up THEN "up" ELSE "down"
----------------------------------------------------------------------------
(* The board and its cable. *)

BoardHangs ==
  /\ device' = CASE device = "ok" -> "hung" [] device = "hung" -> "ok"
                 [] OTHER -> device
  /\ UNCHANGED <<con, linkFlags, loop, stateMsg, linkEvents, blocker, notice,
                 linkThreads, watchdog>>

\* A port that was open does not come back to life with the device.
CableMoves ==
  /\ device' = IF device = "gone" THEN "ok" ELSE "gone"
  /\ con' = IF con = "open" THEN "broken" ELSE con
  /\ UNCHANGED <<linkFlags, loop, stateMsg, linkEvents, blocker, notice,
                 linkThreads, watchdog>>
----------------------------------------------------------------------------
(* _try_reconnect, called by the timer. *)

TimerFires ==
  /\ timers > 0 /\ attempt = "idle"
  /\ timers' = timers - 1
  /\ reconnecting' = TRUE /\ attempt' = "trying"
  /\ UNCHANGED <<device, con, serialConnected, loop, stateMsg, linkEvents, blocker,
                 notice, linkThreads, watchdog>>

TrySerialConnection ==
  /\ attempt = "trying"
  /\ serialConnected' = (device # "gone")
  /\ con' = IF device = "gone" THEN "none" ELSE "open"
  /\ attempt' = IF device = "gone" THEN "failed" ELSE "opened"
  /\ UNCHANGED <<device, reconnecting, timers, loop, stateMsg, linkEvents, blocker,
                 notice, linkThreads, watchdog>>

\* (Mutant: a failed attempt is not tried again.)
TryAgain_Never == 0
TryAgain == 1

AttemptFails ==
  /\ attempt = "failed"
  /\ reconnecting' = FALSE /\ attempt' = "idle"
  /\ timers' = timers + TryAgain
  /\ UNCHANGED <<device, con, serialConnected, loop, stateMsg, linkEvents, blocker,
                 notice, linkThreads, watchdog>>

TellConnected ==
  /\ attempt = "opened"
  /\ stateMsg' = "up" /\ attempt' = "told"
  /\ UNCHANGED <<device, con, serialConnected, reconnecting, timers, loop, linkEvents,
                 blocker, notice, linkThreads, watchdog>>

\* reset_watchdog_state, of threads that exist.  (Mutant: it leaves _watchdog_fired.)
RearmedWatchdog_Fired == watchdog
RearmedWatchdog == "armed"

ResetThreadErrors ==
  /\ attempt = "told"
  /\ watchdog' = IF loop = "init" THEN watchdog ELSE RearmedWatchdog
  /\ attempt' = "reset"
  /\ UNCHANGED <<device, con, serialConnected, reconnecting, timers, loop, stateMsg,
                 linkEvents, blocker, notice, linkThreads>>

ResumeAfterReconnect ==
  /\ attempt = "reset"
  /\ resumeEvent' = TRUE /\ attempt' = "resumed"
  /\ UNCHANGED <<device, con, serialConnected, reconnecting, timers, loop, stateMsg,
                 pauseEvent, blocker, notice, linkThreads, watchdog>>

AttemptSucceeds ==
  /\ attempt = "resumed"
  /\ reconnecting' = FALSE /\ attempt' = "idle"
  /\ UNCHANGED <<device, con, serialConnected, timers, loop, stateMsg, linkEvents,
                 blocker, notice, linkThreads, watchdog>>

LinkReconnect ==
  \/ TimerFires \/ TrySerialConnection \/ AttemptFails \/ TellConnected
  \/ ResetThreadErrors \/ ResumeAfterReconnect \/ AttemptSucceeds
----------------------------------------------------------------------------
(* The thread that waits for the dashboard: it reads serialConnected, then sends. *)

NoticeConnected ==
  /\ \/ /\ notice = "waiting"
        /\ notice' = SerialStateOf(serialConnected)
        /\ UNCHANGED stateMsg
     \/ /\ notice \in {"up", "down"}
        /\ stateMsg' = notice
        /\ notice' = "told"
  /\ UNCHANGED <<device, con, linkFlags, loop, linkEvents, blocker, linkThreads, watchdog>>
----------------------------------------------------------------------------
(* The loop of the process: init, state_change_handler, process_work, events. *)

InitSerialThreads ==
  /\ loop = "init"
  /\ pauseEvent' = (pauseEvent \/ ~serialConnected)
  /\ loop' = "state"
  /\ UNCHANGED <<device, con, linkFlags, stateMsg, resumeEvent, blocker, notice,
                 linkThreads, watchdog>>

\* With a StateChange or without; every mode has the serial handler enabled.
HandleStateChange ==
  /\ loop = "state"
  /\ \E received \in BOOLEAN :
       resumeEvent' = (resumeEvent \/ (received /\ serialConnected))
  /\ loop' = "work"
  /\ UNCHANGED <<device, con, linkFlags, stateMsg, pauseEvent, blocker, notice,
                 linkThreads, watchdog>>

ReceiveSerialState ==
  /\ loop = "work"
  /\ loop' = IF stateMsg = "down" THEN "handle" ELSE "pause"
  /\ stateMsg' = "none"
  /\ UNCHANGED <<device, con, linkFlags, linkEvents, blocker, notice, linkThreads,
                 watchdog>>

\* When a disconnection counts.  (Mutant: also during an attempt to reconnect.)
Disconnects_Reconnecting == serialConnected
Disconnects == ~reconnecting /\ serialConnected

HandleSerialDisconnection ==
  /\ loop = "handle"
  /\ loop' = "pause"
  /\ IF Disconnects
     THEN /\ serialConnected' = FALSE /\ con' = "none"
          /\ pauseEvent' = TRUE
          /\ timers' = timers + 1
     ELSE UNCHANGED <<serialConnected, con, pauseEvent, timers>>
  /\ UNCHANGED <<device, reconnecting, attempt, stateMsg, resumeEvent, blocker, notice,
                 linkThreads, watchdog>>

ApplyPause ==
  /\ loop = "pause" /\ loop' = "resume"
  /\ threads' = IF pauseEvent /\ threads = "run" THEN "paused" ELSE threads
  /\ pauseEvent' = FALSE
  /\ UNCHANGED <<device, con, linkFlags, stateMsg, resumeEvent, blocker, notice, quit,
                 watchdog>>

ApplyResume ==
  /\ loop = "resume"
  /\ loop' = IF blocker = "set" THEN "stop" ELSE "state"
  /\ threads' = IF resumeEvent /\ threads = "paused" THEN "run" ELSE threads
  /\ resumeEvent' = FALSE
  /\ UNCHANGED <<device, con, linkFlags, stateMsg, pauseEvent, blocker, notice, quit,
                 watchdog>>

\* stop_threads: a thread that is paused is resumed before it is told to end.
\* (Mutant: it is not.)
Unpaused_NotResumed == threads
Unpaused == "run"

StopThreads ==
  /\ loop = "stop" /\ loop' = "done"
  /\ quit' = TRUE
  /\ threads' = Unpaused
  /\ UNCHANGED <<device, con, linkFlags, stateMsg, linkEvents, blocker, notice, watchdog>>

LinkLoop ==
  \/ InitSerialThreads \/ HandleStateChange \/ ReceiveSerialState
  \/ HandleSerialDisconnection \/ ApplyPause \/ ApplyResume \/ StopThreads

\* stop(), called by the main process: it resumes the threads, then sets _blocker;
\* the loop may use up the one, and pause them again, before it sees the other.
StopSerialHandler ==
  /\ \/ /\ blocker = "off" /\ blocker' = "resumes"
        /\ resumeEvent' = TRUE
     \/ /\ blocker = "resumes" /\ blocker' = "set"
        /\ UNCHANGED resumeEvent
  /\ UNCHANGED <<device, con, linkFlags, loop, stateMsg, pauseEvent, notice, linkThreads,
                 watchdog>>
----------------------------------------------------------------------------
(* The read and write threads. *)

ThreadsRun == threads = "run" /\ ~quit /\ loop # "init"

ReadBoard ==
  /\ ThreadsRun /\ serialConnected /\ con = "open" /\ device = "ok"
  /\ watchdog' = "armed"
  /\ UNCHANGED <<device, con, linkFlags, loop, stateMsg, linkEvents, blocker, notice,
                 linkThreads>>

\* What is no ASCII is reported like a read that fails.
ReadGarbage ==
  /\ ThreadsRun /\ serialConnected /\ con = "open" /\ device = "ok"
  /\ stateMsg' = "down"
  /\ UNCHANGED <<device, con, linkFlags, loop, linkEvents, blocker, notice, linkThreads,
                 watchdog>>

\* Reported again and again (every 3 s) while it lasts.
ReportSerialError ==
  /\ ThreadsRun /\ serialConnected /\ con = "broken"
  /\ stateMsg' = "down"
  /\ UNCHANGED <<device, con, linkFlags, loop, linkEvents, blocker, notice, linkThreads,
                 watchdog>>

\* Reported once.
WatchdogFires ==
  /\ ThreadsRun /\ watchdog = "armed"
  /\ device # "ok" \/ con # "open"
  /\ attempt \notin {"reset", "resumed"}
  /\ watchdog' = "fired" /\ stateMsg' = "down"
  /\ UNCHANGED <<device, con, linkFlags, loop, linkEvents, blocker, notice, linkThreads>>

ThreadsEnd ==
  /\ quit /\ threads = "run"
  /\ threads' = "ended"
  /\ UNCHANGED <<device, con, linkFlags, loop, stateMsg, linkEvents, blocker, notice,
                 quit, watchdog>>
----------------------------------------------------------------------------
LinkBoard == BoardHangs \/ CableMoves
LinkReports == ReadBoard \/ ReadGarbage \/ ReportSerialError \/ WatchdogFires

LinkNext ==
  \/ LinkBoard \/ LinkReconnect \/ NoticeConnected \/ LinkLoop \/ StopSerialHandler
  \/ LinkReports \/ ThreadsEnd

LinkSpec == LinkInit /\ [][LinkNext]_linkVars
----------------------------------------------------------------------------
(* Safety. *)

\* One chain of attempts, never broken: without a connection a timer or an attempt
\* is there, with one there is no timer, and an attempt is what reconnecting says.
OneReconnection ==
  /\ serialConnected <=> con # "none"
  /\ reconnecting <=> attempt # "idle"
  /\ attempt \in {"trying", "failed"} => ~serialConnected
  /\ attempt \in {"opened", "told", "reset", "resumed"} => serialConnected
  /\ timers = IF serialConnected \/ attempt # "idle" THEN 0 ELSE 1

\* Threads are paused, or about to be, only if there is no connection or the
\* event that resumes them is set or will be set by the attempt that made it.
PausedOnlyWhileDown ==
  threads = "paused" \/ pauseEvent =>
    \/ ~serialConnected \/ resumeEvent
    \/ attempt \in {"opened", "told", "reset"}

\* stop() reaches threads that are paused: when the loop has ended none is.
StoppedNotPaused == loop = "done" => quit /\ threads # "paused"

\* The inductive invariant of the link.
LinkInv ==
  /\ LinkTypeOK /\ OneReconnection /\ PausedOnlyWhileDown /\ StoppedNotPaused
  /\ quit => loop = "done"
  /\ threads = "ended" => quit
  /\ loop = "init" => threads = "run"
  /\ loop = "resume" => ~pauseEvent
  /\ loop \in {"stop", "done"} => blocker = "set"
----------------------------------------------------------------------------
(* Liveness: the timers' thread, the loop and the two threads run, fairly. *)

\* A board that falls silent for good, with its port open, does not stay connected:
\* the watchdog, re-armed by every attempt, disconnects it again and again.  Not so
\* if the notice of the dashboard is still to come: it may overwrite the message.
HangIsHandled ==
  [](device = "hung" => notice = "told") /\ <>[](device = "hung") =>
    []<>(blocker # "off" \/ watchdog = "idle" \/ ~serialConnected)

\* As soon as the port is there to stay the handler is connected again and again
\* with its threads running: no order of disconnection, attempt, StateChange and
\* pause leaves it unconnected, or connected with its threads paused.
LinkComesBack ==
  <>[](device # "gone") => []<>(blocker # "off" \/ (serialConnected /\ threads = "run"))

\* stop() ends the threads, in the middle of whatever reconnection.
LinkStops == <>[](blocker = "set") => <>[](threads = "ended")
=============================================================================
