---------------------------- MODULE SerialWrite ----------------------------
(***************************************************************************)
(* How the car is stopped: the cycle of hardware/serialhandler/threads/    *)
(* threadWrite.py, with force_stop() called on the same object by the      *)
(* thread of processSerialHandler, a serial link that may drop what is     *)
(* written, and the micro-controller behind it.                            *)
(*                                                                         *)
(* Every lastOnly subscriber is its cache, the newest message its drain    *)
(* thread has stored and nobody has read.  A Store action is that thread   *)
(* storing a message, some time after it was sent: what empty() leaves in  *)
(* the pipe or in the drain thread's hand is stored after it, and nothing  *)
(* here tells it from a message sent later (module Mailbox).               *)
(* What the properties do not tell apart is left out: values of            *)
(* speeds and angles, brake and steer commands (they do not set the car    *)
(* moving), isAlive, steerLimits, the slow poll and the sensor set-up.     *)
(* "speed" stands for SpeedMotor, "control" for the timed runs of Control  *)
(* and ControlCalib (vcd commands).                                        *)
(***************************************************************************)
EXTENDS Naturals

CONSTANTS
  Keys,      \* the Klem values that are sent
  LinkFails, \* may the serial link be down?
  Forks,     \* are processes forked?  Then processSerialHandler receives nothing
             \* (its subscribers are constructed before the fork)
  HardKl0    \* STOP_HARD_KL0: does a stop also switch KL off?

ASSUME SerialWriteAssumption ==
  /\ Keys \subseteq {"0", "15", "30"}
  /\ LinkFails \in BOOLEAN /\ Forks \in BOOLEAN /\ HardKl0 \in BOOLEAN

Motions == {"speed", "control"}
threads == {"writer", "process"}
Stages == {"idle", "cancel", "halt", "drainSpeed", "drainControl"}
Orders == {"none", "stop", "go"}

VARIABLES
  \* what the caches hold
  emergency,  \* an EmergencyStop waits
  state,      \* StateChange waiting for the write thread, by what it orders
  mode,       \* DrivingMode; "oldGo": stored before the last StateChange STOP
  kl,         \* Klem
  motion,     \* motion[m]: "none", "new", or "old" if cached before the last latch
  procStop,   \* a StateChange STOP waits for processSerialHandler
  \* the write thread
  pc,         \* the next thing its cycle does
  pending,    \* the motion command it has received and not yet written
  running, engineEnabled, stop_latched, stop_sent,
  stage,      \* stage[t]: where thread t is in _send_immediate_stop
  \* the serial link and the micro-controller
  link,       \* serialConnected and open
  moving,     \* the motion commands the micro-controller is executing
  \* history
  missed      \* the motions whose last stop command was not written

inputs == <<emergency, state, mode, kl, motion, procStop>>
flags == <<running, engineEnabled, stop_latched, stop_sent>>
cycle == <<pc, pending>>
car == <<moving, missed>>
vars == <<inputs, cycle, flags, stage, link, car>>

TypeOK ==
  /\ emergency \in BOOLEAN /\ procStop \in BOOLEAN
  /\ state \in Orders /\ mode \in Orders \cup {"oldGo"}
  /\ kl \in Keys \cup {"none"}
  /\ motion \in [Motions -> {"none", "new", "old"}]
  /\ pc \in {"emergency", "state", "mode", "kl", "check", "sent", "drain"} \cup Motions
  /\ pending \in Motions \cup {"none"}
  /\ running \in BOOLEAN /\ engineEnabled \in BOOLEAN
  /\ stop_latched \in BOOLEAN /\ stop_sent \in BOOLEAN
  /\ stage \in [threads -> Stages]
  /\ link \in BOOLEAN
  /\ moving \subseteq Motions /\ missed \subseteq Motions

Init ==
  /\ emergency = FALSE /\ procStop = FALSE
  /\ state = "none" /\ mode = "none" /\ kl = "none"
  /\ motion = [m \in Motions |-> "none"]
  /\ pc = "emergency" /\ pending = "none"
  /\ running = FALSE /\ engineEnabled = FALSE
  /\ stop_latched = FALSE /\ stop_sent = FALSE
  /\ stage = [t \in threads |-> "idle"]
  /\ link = TRUE /\ moving = {} /\ missed = {}
----------------------------------------------------------------------------
(* The drain threads store a message; it replaces an unread one. *)

StoreEmergency ==
  /\ emergency' = TRUE
  /\ UNCHANGED <<state, mode, kl, motion, procStop, cycle, flags, stage, link, car>>

StoreState(o) ==
  /\ state' = o
  /\ procStop' = (o = "stop" /\ ~Forks)
  /\ mode' = IF o = "stop" /\ mode = "go" THEN "oldGo" ELSE mode
  /\ UNCHANGED <<emergency, kl, motion, cycle, flags, stage, link, car>>

StoreMode(o) ==
  /\ mode' = o
  /\ UNCHANGED <<emergency, state, kl, motion, procStop, cycle, flags, stage, link, car>>

StoreKl(k) ==
  /\ kl' = k
  /\ UNCHANGED <<emergency, state, mode, motion, procStop, cycle, flags, stage, link, car>>

StoreMotion(m) ==
  /\ motion' = [motion EXCEPT ![m] = "new"]
  /\ UNCHANGED <<emergency, state, mode, kl, procStop, cycle, flags, stage, link, car>>

Store ==
  \/ StoreEmergency
  \/ \E o \in {"stop", "go"} : StoreState(o) \/ StoreMode(o)
  \/ \E k \in Keys : StoreKl(k)
  \/ \E m \in Motions : StoreMotion(m)
----------------------------------------------------------------------------
(* The link and the micro-controller. *)

LinkChanges ==
  /\ LinkFails
  /\ link' = ~link
  /\ UNCHANGED <<inputs, cycle, flags, stage, car>>

\* A timed run is over.
RunEnds ==
  /\ "control" \in moving
  /\ moving' = moving \ {"control"}
  /\ UNCHANGED <<inputs, cycle, flags, stage, link, missed>>

\* send_to_serial of a command that stops the motions M.
WriteStop(M) ==
  /\ moving' = IF link THEN moving \ M ELSE moving
  /\ missed' = IF link THEN missed \ M ELSE missed \cup M

AllOld == [m \in Motions |-> IF motion[m] = "none" THEN "none" ELSE "old"]
----------------------------------------------------------------------------
(* _send_immediate_stop and _drain_motion_pipes, by either thread. *)

\* What the vcd command with time 0 stops.  (Mutant: it is left out.)
Cancelled_Nothing == {}
Cancelled == {"control"}

\* empty() of the subscribers of m drops what is cached, and what it sees arrive;
\* what it leaves behind is stored later.  (Mutant: only SpeedMotor is emptied.)
Empty_SpeedOnly(m) == [motion EXCEPT !["speed"] = "none"]
Empty(m) == [motion EXCEPT ![m] = "none"]

\* The stop commands.  What cancels a timed run is written before what halts.
StopStep(t) ==
  /\ \/ /\ stage[t] = "cancel"
        /\ stage' = [stage EXCEPT ![t] = "halt"]
        /\ WriteStop(Cancelled)
     \/ /\ stage[t] = "halt"
        /\ stage' = [stage EXCEPT ![t] = "drainSpeed"]
        /\ WriteStop({"speed"})
  /\ UNCHANGED <<inputs, cycle, flags, link>>

\* Cached motion is dropped, that of one subscriber after the other.
DrainStep(t) ==
  /\ \/ /\ stage[t] = "drainSpeed"
        /\ stage' = [stage EXCEPT ![t] = "drainControl"]
        /\ motion' = Empty("speed")
     \/ /\ stage[t] = "drainControl"
        /\ stage' = [stage EXCEPT ![t] = "idle"]
        /\ motion' = Empty("control")
  /\ UNCHANGED <<emergency, state, mode, kl, procStop, cycle, flags, link, car>>

\* force_stop(), called by processSerialHandler.state_change_handler on STOP.
ForceStop ==
  /\ procStop /\ stage["process"] = "idle"
  /\ procStop' = FALSE
  /\ stop_latched' = TRUE
  /\ stop_sent' = FALSE
  /\ stage' = [stage EXCEPT !["process"] = "cancel"]
  /\ UNCHANGED <<emergency, state, mode, kl, motion, cycle, running, engineEnabled,
                 link, car>>
----------------------------------------------------------------------------
(* The write thread's cycle, thread_work: one action per receive or command. *)

\* The writer is at step p, and not in the middle of a stop.
At(p) == pc = p /\ stage["writer"] = "idle"

StartStop == stage' = [stage EXCEPT !["writer"] = "cancel"]

\* An EmergencyStop latches, stops, and keeps this cycle from reading modes.
ReceiveEmergency ==
  /\ At("emergency")
  /\ IF emergency
     THEN /\ emergency' = FALSE
          /\ stop_latched' = TRUE
          /\ motion' = AllOld
          /\ StartStop
          /\ pc' = "kl"
     ELSE /\ pc' = "state"
          /\ UNCHANGED <<emergency, stop_latched, motion, stage>>
  /\ UNCHANGED <<state, mode, kl, procStop, pending, running, engineEnabled,
                 stop_sent, link, car>>

\* What an order to stop or to go does.
Obey(order) ==
  /\ stop_latched' = (order = "stop")
  /\ motion' = IF order = "stop" THEN AllOld ELSE motion

\* A StateChange keeps this cycle from reading DrivingMode.
ReceiveState ==
  /\ At("state")
  /\ IF state = "none"
     THEN /\ pc' = "mode"
          /\ UNCHANGED <<stop_latched, motion>>
     ELSE /\ pc' = "kl"
          /\ Obey(state)
  /\ state' = "none"
  /\ UNCHANGED <<emergency, mode, kl, procStop, pending, running, engineEnabled,
                 stop_sent, stage, link, car>>

ReceiveMode ==
  /\ At("mode")
  /\ IF mode = "none" THEN UNCHANGED <<stop_latched, motion>> ELSE Obey(mode)
  /\ mode' = "none"
  /\ pc' = "kl"
  /\ UNCHANGED <<emergency, state, kl, procStop, pending, running, engineEnabled,
                 stop_sent, stage, link, car>>

\* KL 30 enables driving, 15 does not, 0 switches the micro-controller's motors off.
ReceiveKl ==
  /\ At("kl")
  /\ IF kl = "none"
     THEN UNCHANGED <<running, engineEnabled>>
     ELSE /\ running' = (kl # "0")
          /\ engineEnabled' = (kl = "30")
  /\ IF kl = "0" THEN WriteStop(Motions) ELSE UNCHANGED car
  /\ kl' = "none"
  /\ pc' = "check"
  /\ UNCHANGED <<emergency, state, mode, motion, procStop, pending, stop_latched,
                 stop_sent, stage, link>>

\* _stop_sent after a cycle that is not latched.  (Mutant: it is never reset.)
StillSent_Always == stop_sent
StillSent == stop_sent /\ ~running

\* While the stop is latched it is applied once and motion is dropped; otherwise
\* a running car forgets that it was stopped, and reads motion if engines are on.
Check ==
  /\ At("check")
  /\ IF stop_latched
     THEN /\ IF stop_sent THEN pc' = "drain" /\ UNCHANGED stage
                         ELSE pc' = "sent" /\ StartStop
          /\ UNCHANGED stop_sent
     ELSE /\ stop_sent' = StillSent
          /\ pc' = IF running /\ engineEnabled THEN "speed" ELSE "emergency"
          /\ UNCHANGED stage
  /\ UNCHANGED <<inputs, pending, running, engineEnabled, stop_latched, link, car>>

\* The end of _apply_stop_once.
StopSent ==
  /\ At("sent")
  /\ IF HardKl0
     THEN WriteStop(Motions) /\ running' = FALSE /\ engineEnabled' = FALSE
     ELSE UNCHANGED <<running, engineEnabled, car>>
  /\ stop_sent' = TRUE
  /\ pc' = "drain"
  /\ UNCHANGED <<inputs, pending, stop_latched, stage, link>>

DrainLatched ==
  /\ At("drain")
  /\ stage' = [stage EXCEPT !["writer"] = "drainSpeed"]
  /\ pc' = "emergency"
  /\ UNCHANGED <<inputs, pending, flags, link, car>>

NextMotion(m) == IF m = "speed" THEN "control" ELSE "emergency"

ReceiveMotion(m) ==
  /\ At(m) /\ pending = "none"
  /\ IF motion[m] = "none"
     THEN pc' = NextMotion(m) /\ UNCHANGED pending
     ELSE pending' = m /\ UNCHANGED pc
  /\ motion' = [motion EXCEPT ![m] = "none"]
  /\ UNCHANGED <<emergency, state, mode, kl, procStop, flags, stage, link, car>>

WriteMotion(m) ==
  /\ At(m) /\ pending = m
  /\ moving' = IF link THEN moving \cup {m} ELSE moving
  /\ pending' = "none"
  /\ pc' = NextMotion(m)
  /\ UNCHANGED <<inputs, flags, stage, link, missed>>

\* A value that is no number raises; the handler of thread_work ends the cycle.
RejectMotion(m) ==
  /\ At(m) /\ pending = m
  /\ pending' = "none"
  /\ pc' = "emergency"
  /\ UNCHANGED <<inputs, flags, stage, link, car>>

Writer ==
  \/ ReceiveEmergency \/ ReceiveState \/ ReceiveMode \/ ReceiveKl
  \/ Check \/ StopSent \/ DrainLatched
  \/ \E m \in Motions : ReceiveMotion(m) \/ WriteMotion(m) \/ RejectMotion(m)
  \/ StopStep("writer") \/ DrainStep("writer")

Process == ForceStop \/ StopStep("process") \/ DrainStep("process")

Next == Store \/ LinkChanges \/ RunEnds \/ Writer \/ Process

Spec == Init /\ [][Next]_vars

\* Both threads are loops that run until the process is stopped.
FairSpec == Spec /\ WF_vars(Writer) /\ WF_vars(Process)
----------------------------------------------------------------------------
(* Safety. *)

\* _stop_sent is what keeps a latched stop from being sent again: while it is
\* set, the car moves only if a stop command was not written (line 185).
SentMeansStopped == stop_sent => moving \subseteq missed

\* A stop sequence of the writer is not overtaken by its own motion commands.
StopTakesEffect ==
  /\ stage["writer"] \in {"halt", "drainSpeed", "drainControl"} =>
       "control" \notin moving \ missed
  /\ stage["writer"] \in {"drainSpeed", "drainControl"} =>
       "speed" \notin moving \ missed
  /\ pc \in {"sent", "drain"} /\ stage["writer"] = "idle" => moving \subseteq missed

\* Motion is taken up only between the reset of _stop_sent and the next stop.
MotionPhase ==
  /\ pc \in Motions => ~stop_sent /\ stage["writer"] = "idle"
  /\ pending # "none" => pc = pending

\* Motion cached before a latch is still cached only until that cycle's drain.
OldIsDrained ==
  \A m \in Motions : motion[m] = "old" =>
    \/ pc \in {"kl", "check"} /\ stop_latched
    \/ pc \in {"sent", "drain"}
    \/ pc = "emergency" /\ stage["writer"] = "drainSpeed"
    \/ pc = "emergency" /\ stage["writer"] = "drainControl" /\ m = "control"

\* The inductive invariant behind SentMeansStopped and CachedMotionIsDropped.
StopInv ==
  TypeOK /\ SentMeansStopped /\ StopTakesEffect /\ MotionPhase /\ OldIsDrained

\* A motion command that was in its cache when the writer latched a stop is never
\* taken up, whatever unlatches the stop later (lines 187-193, 294-297).  It says
\* nothing of one that had not reached the cache: empty() may leave that behind.
CachedMotionIsDropped ==
  [][\A m \in Motions : pending' = m /\ pending # m => motion[m] = "new"]_vars
----------------------------------------------------------------------------
(* Liveness. *)

\* A stop that stays latched ends with a car that stands, but for what a stop
\* command lost on the link would have stopped, however motion keeps coming.
LatchedStops == <>[]stop_latched => <>[](moving \subseteq missed)

\* ... and if EmergencyStop keeps coming, the car keeps being stopped and latched
\* at once, however often modes release the stop and motion is sent in between.
EmergencyStops == []<>emergency => []<>(stop_latched /\ moving \subseteq missed)

\* threadWrite.py:236: "Critical state-change (e.g., STOP) should preempt mode
\* updates": a DrivingMode older than a StateChange STOP that the writer has read
\* does not release the stop.
StopOutranksOlderMode ==
  [][mode = "oldGo" /\ mode' = "none" /\ state = "none" =>
       (stop_latched => stop_latched')]_vars
=============================================================================
