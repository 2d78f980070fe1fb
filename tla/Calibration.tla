---------------------------- MODULE Calibration ----------------------------
(***************************************************************************)
(* The calibration of steering and speed: the wizard of the dashboard's    *)
(* frontend, the server's Calibration object, and the board, which drives  *)
(* each run.  A direction is a list of commands; each is driven (which     *)
(* gives its PWM values), measured by the user and submitted.              *)
(*                                                                         *)
(* The server is one thread without a timeout: while a run lasts it reads  *)
(* no request, and if an answer of the board is lost it never does again.  *)
(* An answer of the server is short and reaches the wizard at once, unless *)
(* its page has been reloaded.  Of a steering angle its class matters: two *)
(* of one class differ by less than the tolerance.  Distances, splines and *)
(* the generated code are left out.                                        *)
(***************************************************************************)
EXTENDS Naturals, Sequences

CONSTANTS
  RunsOf,      \* RunsOf[d]: commands of direction d
  MaxAngle,    \* bound: classes of angles
  MaxRequests  \* bound: a user who finds more requests waits

Turns == {"left", "right"}
Directions == Turns \cup {"backward"}
WizardPages == {"away", "menu", "ready", "ran"}

ASSUME CalibrationAssumption ==
  /\ RunsOf \in [Directions -> Nat \ {0}]
  /\ MaxAngle \in Nat /\ MaxRequests \in Nat

VARIABLES
  \* the wizard
  page,      \* it is closed, between directions, before a run, or after its start
  dir,       \* the direction of the page, or "test" for the test run
  busy,      \* isCalibrationRunInProgress
  submitted, \* pendingMeasurementSubmission: its direction, or "none"
  known,     \* leftCompleted, rightCompleted, testRunCompleted, backwardCompleted
  requests,  \* what it sent and the server has not read
  hasty,     \* history: a button was pressed while a submission was unanswered
  stale,     \* history: Save was pressed though what was known no longer held
  \* the server
  serving,   \* the run it waits for
  step,      \* current_step, whatever the direction
  table,     \* commands: what is known of each
  validAngles, maxAngle, \* an angle and the directions it was measured in
  completed,
  saved,     \* history: what was saved: "none", "whole", "part"
  \* the board
  board,     \* "idle", "run" (told to), "driving"
  pwmBox, doneBox \* unread CalibPWMData, CalibRunDone

wizard == <<page, dir, busy, submitted, known, hasty, stale>>
results == <<table, validAngles, maxAngle, completed>>
answers == <<board, pwmBox, doneBox>>
calibVars == <<wizard, requests, serving, step, results, saved, answers>>

Command == [pwm : BOOLEAN, actual : BOOLEAN]
AngleInfo == [angle : 0..MaxAngle, of : SUBSET Turns]
NoAngle == [angle |-> 0, of |-> {}]
EmptyTable == [d \in Directions |->
                 [i \in 1..RunsOf[d] |-> [pwm |-> FALSE, actual |-> FALSE]]]
NoRun == [waits |-> "none", dir |-> "test", mine |-> TRUE]
Actions == {"start", "exit", "continue", "run", "re-run", "submit", "test_run_done", "save"}

CalibTypeOK ==
  /\ page \in WizardPages /\ dir \in Directions \cup {"test"}
  /\ busy \in BOOLEAN /\ submitted \in Directions \cup {"none"}
  /\ known \subseteq Directions \cup {"test"} /\ hasty \in BOOLEAN /\ stale \in BOOLEAN
  /\ requests \in Seq([action : Actions, dir : Directions \cup {"test"},
                       angle : 0..MaxAngle, mine : BOOLEAN])
  /\ serving \in [waits : {"none", "pwm", "done"}, dir : Directions \cup {"test"},
                  mine : BOOLEAN]
  /\ step \in Nat
  /\ \A d \in Directions : table[d] \in [1..RunsOf[d] -> Command]
  /\ validAngles \in AngleInfo /\ maxAngle \in [Turns -> AngleInfo]
  /\ completed \subseteq Directions \cup {"test"}
  /\ saved \in {"none", "whole", "part"}
  /\ board \in {"idle", "run", "driving"}
  /\ pwmBox \in BOOLEAN /\ doneBox \in BOOLEAN

CalibInit ==
  /\ page = "away" /\ dir = "test" /\ busy = FALSE /\ submitted = "none"
  /\ known = {} /\ hasty = FALSE /\ stale = FALSE
  /\ requests = <<>> /\ serving = NoRun /\ step = 0
  /\ table = EmptyTable /\ validAngles = NoAngle
  /\ maxAngle = [d \in Turns |-> NoAngle]
  /\ completed = {} /\ saved = "none"
  /\ board = "idle" /\ pwmBox = FALSE /\ doneBox = FALSE
----------------------------------------------------------------------------
(* The wizard. *)

Request(action, d, a) == [action |-> action, dir |-> d, angle |-> a, mine |-> TRUE]
Send(action, d, a) ==
  /\ Len(requests) < MaxRequests
  /\ requests' = Append(requests, Request(action, d, a))
  /\ hasty' = (hasty \/ submitted # "none")
Ask(action) == Send(action, dir, 0)

serverPart == <<serving, step, results, saved, answers>>

OpenWizard ==
  /\ page = "away" /\ page' = "menu"
  /\ known' = {}
  /\ Ask("start")
  /\ UNCHANGED <<dir, busy, submitted, stale, serverPart>>

\* Exit or Complete, also after Left/Right, which makes it busy; or the settings are
\* closed, and the component with them.  What it knew is not used before it is opened.
ExitWizard ==
  /\ page # "away" /\ page' = "away"
  /\ Ask("exit")
  /\ \/ /\ busy' \in {busy} \cup (IF page = "ran" /\ dir = "test" THEN {TRUE} ELSE {})
        /\ UNCHANGED submitted
     \/ busy' = FALSE /\ submitted' = "none"
  /\ known' = {}
  /\ UNCHANGED <<dir, stale, serverPart>>

\* Left/Right and then Recalibrate, which forgets nothing.  Its "exit" and "start",
\* sent one after the other, reset the same: they are one request here.
Recalibrate ==
  /\ page = "ran" /\ dir = "test" /\ ~busy
  /\ page' = "menu" /\ busy' = TRUE
  /\ Ask("start")
  /\ UNCHANGED <<dir, submitted, known, stale, serverPart>>

ReloadPage ==
  /\ page' = "away" /\ busy' = FALSE /\ submitted' = "none" /\ known' = {}
  /\ requests' = [i \in DOMAIN requests |-> [requests[i] EXCEPT !.mine = FALSE]]
  /\ serving' = [serving EXCEPT !.mine = FALSE]
  /\ UNCHANGED <<dir, hasty, stale, step, results, saved, answers>>

\* What a direction needs first.
Needs(d) == CASE d = "test" -> Turns [] d = "backward" -> Turns \cup {"test"}
              [] OTHER -> {}

ContinueDirection(d) ==
  /\ page = "menu" /\ Needs(d) \subseteq known
  /\ page' = "ready" /\ dir' = d
  /\ Send("continue", d, 0)
  /\ UNCHANGED <<busy, submitted, known, stale, serverPart>>

StartRun ==
  /\ page = "ready" /\ page' = "ran"
  /\ busy' = TRUE
  /\ Ask("run")
  /\ UNCHANGED <<dir, submitted, known, stale, serverPart>>

ReRun ==
  /\ page = "ran" /\ dir # "test" /\ ~busy
  /\ page' = "ready" /\ busy' = TRUE
  /\ Ask("re-run")
  /\ UNCHANGED <<dir, submitted, known, stale, serverPart>>

SubmitMeasurements ==
  /\ page = "ran" /\ dir # "test" /\ ~busy
  /\ submitted' = dir
  /\ \E a \in 1..MaxAngle : Send("submit", dir, a)
  /\ UNCHANGED <<page, dir, busy, known, stale, serverPart>>

TestRunStraight ==
  /\ page = "ran" /\ dir = "test" /\ ~busy
  /\ page' = "menu" /\ busy' = TRUE
  /\ Ask("test_run_done")
  /\ UNCHANGED <<dir, submitted, known, stale, serverPart>>

ResetUnread == \E i \in 1..Len(requests) : requests[i].action \in {"start", "exit"}

SaveCalibration ==
  /\ page = "menu" /\ known = Directions \cup {"test"}
  /\ stale' = (stale \/ known # completed \/ ResetUnread)
  /\ Ask("save")
  /\ UNCHANGED <<page, dir, busy, submitted, known, serverPart>>
----------------------------------------------------------------------------
(* The server: handle_calibration_signal. *)

Reads(action) ==
  /\ serving.waits = "none" /\ requests # <<>>
  /\ Head(requests).action = action
  /\ requests' = Tail(requests)

\* get_status, which the wizard sends at every turn of its menu and after a
\* calibration_done; it may be read, and answered, between any two requests.
SendCalibrationStatus ==
  /\ serving.waits = "none" /\ page # "away"
  /\ known' = completed
  /\ UNCHANGED <<page, dir, busy, submitted, hasty, stale, requests, serverPart>>

\* start_calibration_process and stop_calibration_process.
HandleStartOrExit ==
  /\ Reads("start") \/ Reads("exit")
  /\ step' = 0 /\ table' = EmptyTable /\ validAngles' = NoAngle
  /\ maxAngle' = [d \in Turns |-> NoAngle] /\ completed' = {}
  /\ UNCHANGED <<wizard, serving, saved, answers>>

\* (Mutant: the step of the direction before stays.)
FirstStep_Kept == step
FirstStep == 0

HandleContinue ==
  /\ Reads("continue")
  /\ step' = FirstStep /\ validAngles' = NoAngle
  /\ UNCHANGED <<wizard, serving, table, maxAngle, completed, saved, answers>>

\* (Mutant: the run that is repeated stays the one before.)
StepBack_Kept == step
StepBack == IF step > 0 THEN step - 1 ELSE step

HandleReRun ==
  /\ Reads("re-run")
  /\ step' = StepBack
  /\ UNCHANGED <<wizard, serving, results, saved, answers>>

\* run_procedure and run_test_run up to the first wait; a step too far is ignored.
HandleRun ==
  /\ Reads("run")
  /\ LET r == Head(requests) IN
       IF r.dir # "test" /\ step >= RunsOf[r.dir] THEN UNCHANGED <<serving, board>>
       ELSE /\ serving' = [waits |-> "pwm", dir |-> r.dir, mine |-> r.mine]
            /\ board' = "run"
  /\ UNCHANGED <<wizard, step, results, saved, pwmBox, doneBox>>

\* The run at hand.  (Mutant: the one before, of which submissions are.)
RunAtHand_Before == step
RunAtHand == step + 1

ReceivePwm ==
  /\ serving.waits = "pwm" /\ pwmBox
  /\ pwmBox' = FALSE
  /\ serving' = [serving EXCEPT !.waits = "done"]
  /\ table' = IF serving.dir = "test" THEN table
              ELSE [table EXCEPT ![serving.dir][RunAtHand].pwm = TRUE]
  /\ UNCHANGED <<wizard, requests, step, validAngles, maxAngle, completed, saved, board,
                 doneBox>>

ReceiveRunDone ==
  /\ serving.waits = "done" /\ doneBox
  /\ doneBox' = FALSE
  /\ serving' = NoRun
  /\ step' = IF serving.dir = "test" THEN step ELSE step + 1
  /\ busy' = (busy /\ ~serving.mine)
  /\ UNCHANGED <<page, dir, submitted, known, hasty, stale, requests, results, saved, board,
                 pwmBox>>

HandleTestRunDone ==
  /\ Reads("test_run_done")
  /\ completed' = completed \cup {"test"}
  /\ IF Head(requests).mine THEN known' = known \cup {"test"} /\ busy' = FALSE
                            ELSE UNCHANGED <<known, busy>>
  /\ UNCHANGED <<page, dir, submitted, hasty, stale, serving, step, table, validAngles,
                 maxAngle, saved, answers>>

\* Of the angles within the tolerance of each other the largest count; none is 0.
Measured(d, a) ==
  IF a = validAngles.angle THEN [angle |-> a, of |-> validAngles.of \cup {d}]
  ELSE IF a > validAngles.angle THEN [angle |-> a, of |-> {d}]
  ELSE validAngles

NewMax(d, a) ==
  IF validAngles.angle # 0 /\ a >= validAngles.angle THEN Measured(d, a)
  ELSE maxAngle[d]

\* A side completed without a maximum takes the last.  (Mutant: it takes none.)
FinalMax_None(d, a) == NewMax(d, a)
FinalMax(d, a) == IF NewMax(d, a).angle = 0 THEN Measured(d, a) ELSE NewMax(d, a)

\* Where an answer leaves the wizard: with calibration_done between directions, with
\* measurements_received at the substep of the direction submitted, which only that
\* direction's pages have; the menu may be at any direction.
Answered(done) ==
  \/ page = "away" /\ UNCHANGED <<page, dir>>
  \/ /\ page = "menu" \/ (page # "away" /\ (done \/ submitted # dir))
     /\ page' = "menu" /\ UNCHANGED dir
  \/ /\ ~done /\ (page = "menu" \/ (page # "away" /\ submitted = dir))
     /\ page' = "ready" /\ dir' = submitted

\* handle_measurement_submission, and the wizard's calibration_done or
\* measurements_received.
HandleSubmission ==
  /\ Reads("submit")
  /\ LET r == Head(requests)
         d == r.dir
         done == step >= RunsOf[d]
         turn == d \in Turns
     IN IF step \notin 1..RunsOf[d]
        THEN UNCHANGED <<table, validAngles, maxAngle, completed, page, dir, submitted>>
        ELSE
          /\ table' = [table EXCEPT ![d][step].actual = TRUE]
          /\ validAngles' = IF done THEN NoAngle
                            ELSE IF turn THEN Measured(d, r.angle) ELSE validAngles
          /\ maxAngle' =
               IF ~turn THEN maxAngle
               ELSE [maxAngle EXCEPT ![d] =
                       IF done THEN FinalMax(d, r.angle) ELSE NewMax(d, r.angle)]
          /\ completed' = IF done THEN completed \cup {d} ELSE completed
          /\ IF r.mine /\ submitted # "none"
             THEN Answered(done) /\ submitted' = "none"
             ELSE UNCHANGED <<page, dir, submitted>>
  /\ UNCHANGED <<busy, known, hasty, stale, serving, step, saved, answers>>

HandleSave ==
  /\ Reads("save")
  /\ saved' = IF \A d \in Directions : \A i \in 1..RunsOf[d] :
                   table[d][i].pwm /\ table[d][i].actual
              THEN "whole" ELSE "part"
  /\ UNCHANGED <<wizard, serving, step, results, answers>>
----------------------------------------------------------------------------
(* The board; an answer may be lost on the way. *)

BoardSendsPwm ==
  /\ board = "run" /\ board' = "driving"
  /\ pwmBox' \in {pwmBox, TRUE}
  /\ UNCHANGED <<wizard, requests, serving, step, results, saved, doneBox>>

BoardSendsDone ==
  /\ board = "driving" /\ board' = "idle"
  /\ doneBox' \in {doneBox, TRUE}
  /\ UNCHANGED <<wizard, requests, serving, step, results, saved, pwmBox>>
----------------------------------------------------------------------------
CalibUser ==
  \/ OpenWizard \/ ExitWizard \/ Recalibrate \/ ReloadPage
  \/ \E d \in Directions \cup {"test"} : ContinueDirection(d)
  \/ StartRun \/ ReRun \/ SubmitMeasurements \/ TestRunStraight \/ SaveCalibration

CalibServer ==
  \/ SendCalibrationStatus \/ HandleStartOrExit \/ HandleContinue \/ HandleReRun \/ HandleRun
  \/ ReceivePwm \/ ReceiveRunDone \/ HandleTestRunDone \/ HandleSubmission \/ HandleSave

CalibNext == CalibUser \/ CalibServer \/ BoardSendsPwm \/ BoardSendsDone

CalibSpec == CalibInit /\ [][CalibNext]_calibVars
----------------------------------------------------------------------------
(* Safety. *)

\* Every command of a completed direction was driven, and if the user waited for the
\* answer to each submission was measured too, though one step counter serves all
\* directions.  Nothing less is then saved, unless Save was pressed on flags that a
\* reset had overtaken, as Recalibrate leaves them.
CompletedMeasured ==
  /\ \A d \in Directions \cap completed : \A i \in 1..RunsOf[d] :
       table[d][i].pwm /\ (hasty \/ table[d][i].actual)
  /\ saved = "part" => hasty \/ stale

\* The same of every user: what calibration.py takes "completed" to mean.  It is
\* violated: leaving the wizard does not cancel the answer to a submission, which
\* later opens the start of a run again.
CompletedIsMeasured ==
  \A d \in Directions \cap completed : \A i \in 1..RunsOf[d] : table[d][i].actual

\* The steering limit of a side was measured on that side, and is there when the
\* side is completed.
MaxAngleOwn ==
  \A d \in Turns :
    /\ maxAngle[d].of \subseteq {d}
    /\ d \in completed => maxAngle[d].angle > 0

\* A submission the server reads, of whatever page and however late, is of a command
\* that was driven: "Invalid command index" is never reported.
SubmissionsFit ==
  serving.waits = "none" /\ requests # <<>> /\ Head(requests).action = "submit" =>
    LET d == Head(requests).dir IN step \in 1..RunsOf[d] /\ table[d][step].pwm

\* When the server has read everything it agrees with the page of a user who waited
\* for each answer: a run that can be started is not ignored, the wizard does not
\* wait for a run that is over, and what it asks to be measured is the run driven
\* last.
WizardAgrees ==
  serving.waits = "none" /\ requests = <<>> /\ ~hasty =>
    /\ page = "ready" /\ dir # "test" => step < RunsOf[dir]
    /\ page = "ran" =>
         /\ ~busy
         /\ dir # "test" => step \in 1..RunsOf[dir] /\ table[dir][step].pwm

CalibInv == CalibTypeOK /\ CompletedMeasured
=============================================================================
