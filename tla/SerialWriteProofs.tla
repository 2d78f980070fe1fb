------------------------- MODULE SerialWriteProofs -------------------------
(***************************************************************************)
(* What is proved about SerialWrite, for every choice of the KL values     *)
(* sent, with or without link failures and STOP_HARD_KL0: StopInv is       *)
(* inductive, and no motion cached at a latched stop is taken up.          *)
(***************************************************************************)
EXTENDS SerialWrite, TLAPS

\* An update of one element of a motion or stage table.
LEMMA MotionUpdate ==
  ASSUME NEW f, f \in [Motions -> {"none", "new", "old"}],
         NEW m \in Motions, NEW v \in {"none", "new", "old"}
  PROVE  /\ [f EXCEPT ![m] = v] \in [Motions -> {"none", "new", "old"}]
         /\ \A n \in Motions : [f EXCEPT ![m] = v][n] = IF n = m THEN v ELSE f[n]
  OBVIOUS

LEMMA StageUpdate ==
  ASSUME NEW f, f \in [threads -> Stages], NEW t \in threads, NEW v \in Stages
  PROVE  /\ [f EXCEPT ![t] = v] \in [threads -> Stages]
         /\ \A n \in threads : [f EXCEPT ![t] = v][n] = IF n = t THEN v ELSE f[n]
  OBVIOUS

LEMMA InitStop == Init => StopInv
  BY DEF Init, StopInv, TypeOK, SentMeansStopped, StopTakesEffect, MotionPhase,
         OldIsDrained, Motions, threads, Stages, Orders

\* Messages that arrive, a link that changes, a run that ends.
LEMMA OutsideStep ==
  ASSUME StopInv, Store \/ LinkChanges \/ RunEnds
  PROVE  StopInv'
  <1> USE SerialWriteAssumption DEF SerialWriteAssumption
  <1>1. CASE StoreEmergency
    <2>1. TypeOK'
      BY <1>1 DEF StoreEmergency, StopInv, TypeOK, cycle, flags, car
    <2> QED
      BY <1>1, <2>1 DEF StoreEmergency, StopInv, SentMeansStopped, StopTakesEffect,
         MotionPhase, OldIsDrained, cycle, flags, car
  <1>2. ASSUME NEW o \in {"stop", "go"}, StoreState(o) \/ StoreMode(o)
        PROVE  StopInv'
    <2>1. TypeOK'
      <3>1. mode' \in Orders \cup {"oldGo"} /\ state' \in Orders /\ procStop' \in BOOLEAN
        BY <1>2 DEF StoreState, StoreMode, StopInv, TypeOK, Orders
      <3> QED
        BY <1>2, <3>1 DEF StoreState, StoreMode, StopInv, TypeOK, cycle, flags, car
    <2>2. UNCHANGED <<motion, pc, pending, stop_latched, stop_sent, stage, moving, missed>>
      BY <1>2 DEF StoreState, StoreMode, cycle, flags, car
    <2> QED
      BY <2>1, <2>2 DEF StopInv, SentMeansStopped, StopTakesEffect, MotionPhase,
         OldIsDrained
  <1>3. ASSUME NEW k \in Keys, StoreKl(k)
        PROVE  StopInv'
    BY <1>3 DEF StoreKl, StopInv, TypeOK, SentMeansStopped, StopTakesEffect,
       MotionPhase, OldIsDrained, cycle, flags, car
  <1>4. ASSUME NEW m \in Motions, StoreMotion(m)
        PROVE  StopInv'
    <2>1. /\ motion' \in [Motions -> {"none", "new", "old"}]
          /\ \A n \in Motions : motion'[n] = "old" => motion[n] = "old"
      BY <1>4, MotionUpdate DEF StoreMotion, StopInv, TypeOK
    <2> QED
      BY <1>4, <2>1 DEF StoreMotion, StopInv, TypeOK, SentMeansStopped, StopTakesEffect,
         MotionPhase, OldIsDrained, cycle, flags, car
  <1>5. CASE LinkChanges
    BY <1>5 DEF LinkChanges, StopInv, TypeOK, SentMeansStopped, StopTakesEffect,
       MotionPhase, OldIsDrained, inputs, cycle, flags, car
  <1>6. CASE RunEnds
    BY <1>6 DEF RunEnds, StopInv, TypeOK, SentMeansStopped, StopTakesEffect,
       MotionPhase, OldIsDrained, inputs, cycle, flags, car
  <1> QED BY <1>1, <1>2, <1>3, <1>4, <1>5, <1>6 DEF Store

\* A stop command never leaves a motion running that it did not miss.
LEMMA WriteStopEffect ==
  ASSUME NEW M \in SUBSET Motions, WriteStop(M),
         moving \subseteq Motions, missed \subseteq Motions, link \in BOOLEAN
  PROVE  /\ moving' \subseteq Motions /\ missed' \subseteq Motions
         /\ moving' \ missed' \subseteq moving \ missed
         /\ M \cap (moving' \ missed') = {}
  BY DEF WriteStop

\* The stop sequence, by either thread.
LEMMA StopSequence ==
  ASSUME StopInv, NEW t \in threads, StopStep(t) \/ DrainStep(t)
  PROVE  StopInv'
  <1> USE DEF Motions
  <1>1. CASE stage[t] = "cancel" /\ StopStep(t)
    <2>1. /\ stage' \in [threads -> Stages]
          /\ stage'[t] = "halt" /\ \A n \in threads : n # t => stage'[n] = stage[n]
      BY <1>1, StageUpdate DEF StopStep, StopInv, TypeOK, Stages
    <2>2. WriteStop({"control"})
      BY <1>1 DEF StopStep, Cancelled
    <2>3. /\ moving' \subseteq Motions /\ missed' \subseteq Motions
          /\ moving' \ missed' \subseteq moving \ missed
          /\ "control" \notin moving' \ missed'
      BY <2>2, WriteStopEffect DEF StopInv, TypeOK
    <2> QED
      BY <1>1, <2>1, <2>3 DEF StopStep, StopInv, TypeOK, SentMeansStopped, StopTakesEffect,
         MotionPhase, OldIsDrained, inputs, cycle, flags, threads
  <1>2. CASE stage[t] = "halt" /\ StopStep(t)
    <2>1. /\ stage' \in [threads -> Stages]
          /\ stage'[t] = "drainSpeed" /\ \A n \in threads : n # t => stage'[n] = stage[n]
      BY <1>2, StageUpdate DEF StopStep, StopInv, TypeOK, Stages
    <2>2. WriteStop({"speed"})
      BY <1>2 DEF StopStep
    <2>3. /\ moving' \subseteq Motions /\ missed' \subseteq Motions
          /\ moving' \ missed' \subseteq moving \ missed
          /\ "speed" \notin moving' \ missed'
      BY <2>2, WriteStopEffect DEF StopInv, TypeOK
    <2> QED
      BY <1>2, <2>1, <2>3 DEF StopStep, StopInv, TypeOK, SentMeansStopped, StopTakesEffect,
         MotionPhase, OldIsDrained, inputs, cycle, flags, threads
  <1>3. CASE stage[t] = "drainSpeed" /\ DrainStep(t)
    <2>1. /\ stage' \in [threads -> Stages]
          /\ stage'[t] = "drainControl" /\ \A n \in threads : n # t => stage'[n] = stage[n]
      BY <1>3, StageUpdate DEF DrainStep, StopInv, TypeOK, Stages
    <2>2. /\ motion' \in [Motions -> {"none", "new", "old"}]
          /\ motion'["speed"] = "none"
          /\ \A n \in Motions : motion'[n] = "old" => motion[n] = "old"
      BY <1>3, MotionUpdate DEF DrainStep, Empty, StopInv, TypeOK
    <2> QED
      BY <1>3, <2>1, <2>2 DEF DrainStep, StopInv, TypeOK, SentMeansStopped, StopTakesEffect,
         MotionPhase, OldIsDrained, cycle, flags, car, threads
  <1>4. CASE stage[t] = "drainControl" /\ DrainStep(t)
    <2>1. /\ stage' \in [threads -> Stages]
          /\ stage'[t] = "idle" /\ \A n \in threads : n # t => stage'[n] = stage[n]
      BY <1>4, StageUpdate DEF DrainStep, StopInv, TypeOK, Stages
    <2>2. /\ motion' \in [Motions -> {"none", "new", "old"}]
          /\ motion'["control"] = "none"
          /\ \A n \in Motions : motion'[n] = "old" => motion[n] = "old"
      BY <1>4, MotionUpdate DEF DrainStep, Empty, StopInv, TypeOK
    <2>3. OldIsDrained'
      BY <1>4, <2>1, <2>2 DEF DrainStep, StopInv, OldIsDrained, cycle, flags, threads
    <2> QED
      BY <1>4, <2>1, <2>2, <2>3 DEF DrainStep, StopInv, TypeOK, SentMeansStopped,
         StopTakesEffect, MotionPhase, cycle, flags, car, threads
  <1> QED BY <1>1, <1>2, <1>3, <1>4 DEF StopStep, DrainStep

LEMMA ForceStopStep ==
  ASSUME StopInv, ForceStop
  PROVE  StopInv'
  <1>1. /\ stage' \in [threads -> Stages] /\ stage'["writer"] = stage["writer"]
    BY StageUpdate DEF ForceStop, StopInv, TypeOK, Stages, threads
  <1>2. TypeOK'
    BY <1>1 DEF ForceStop, StopInv, TypeOK, cycle, car
  <1>3. /\ stop_latched' /\ ~stop_sent'
        /\ UNCHANGED <<motion, pc, pending, moving, missed>>
    BY DEF ForceStop, cycle, car
  <1> QED
    BY <1>1, <1>2, <1>3 DEF StopInv, SentMeansStopped, StopTakesEffect, MotionPhase,
       OldIsDrained

\* The orders of a critical message or of a mode.
LEMMA ReceiveStep ==
  ASSUME StopInv, ReceiveEmergency \/ ReceiveState \/ ReceiveMode
  PROVE  StopInv'
  <1>1. AllOld \in [Motions -> {"none", "new", "old"}]
    BY DEF AllOld
  <1>2. CASE ReceiveEmergency
    <2>1. /\ motion' \in [Motions -> {"none", "new", "old"}]
          /\ stage' \in [threads -> Stages]
          /\ stage'["writer"] \in {"cancel", "idle"}
      BY <1>1, <1>2, StageUpdate
         DEF ReceiveEmergency, At, StartStop, StopInv, TypeOK, Stages, threads
    <2>2. OldIsDrained'
      BY <1>2 DEF ReceiveEmergency, At, StartStop, StopInv, OldIsDrained
    <2> QED
      BY <1>2, <2>1, <2>2 DEF ReceiveEmergency, At, StopInv, TypeOK, SentMeansStopped,
         StopTakesEffect, MotionPhase, car, Motions
  <1>3. ASSUME NEW order \in Orders \cup {"oldGo"}, Obey(order)
        PROVE  /\ stop_latched' \in BOOLEAN
               /\ motion' \in [Motions -> {"none", "new", "old"}]
               /\ \A m \in Motions : motion'[m] = "old" => stop_latched' \/ motion[m] = "old"
    BY <1>1, <1>3 DEF Obey, StopInv, TypeOK
  <1>4. CASE ReceiveState
    BY <1>3, <1>4 DEF ReceiveState, At, StopInv, TypeOK, SentMeansStopped,
       StopTakesEffect, MotionPhase, OldIsDrained, car, Orders, Motions
  <1>5. CASE ReceiveMode
    BY <1>3, <1>5 DEF ReceiveMode, At, StopInv, TypeOK, SentMeansStopped,
       StopTakesEffect, MotionPhase, OldIsDrained, car, Orders, Motions
  <1> QED BY <1>2, <1>4, <1>5

LEMMA KlStep ==
  ASSUME StopInv, ReceiveKl
  PROVE  StopInv'
  <1>1. /\ moving' \subseteq Motions /\ missed' \subseteq Motions
        /\ moving' \ missed' \subseteq moving \ missed
    BY WriteStopEffect DEF ReceiveKl, StopInv, TypeOK, car
  <1>2. running' \in BOOLEAN /\ engineEnabled' \in BOOLEAN /\ kl' \in Keys \cup {"none"}
    BY DEF ReceiveKl, StopInv, TypeOK
  <1> QED
    BY <1>1, <1>2 DEF ReceiveKl, At, StopInv, TypeOK, SentMeansStopped,
       StopTakesEffect, MotionPhase, OldIsDrained, Motions

\* What a latched writer does, and the branch of a running car.
LEMMA LatchStep ==
  ASSUME StopInv, Check \/ StopSent \/ DrainLatched
  PROVE  StopInv'
  <1> USE DEF Motions
  <1>1. CASE Check
    <2>1. /\ stage' \in [threads -> Stages]
          /\ stage'["writer"] \in {"cancel", "idle"}
          /\ pc' = "sent" => stage'["writer"] = "cancel"
          /\ pc' \in Motions => stage'["writer"] = "idle"
      BY <1>1, StageUpdate DEF Check, At, StartStop, StopInv, TypeOK, Stages, threads
    <2>2. /\ stop_sent' \in BOOLEAN
          /\ stop_sent' => stop_sent
          /\ pc' \in Motions => ~stop_sent'
      BY <1>1 DEF Check, StillSent, StopInv, TypeOK
    <2>3. TypeOK'
      BY <1>1, <2>1, <2>2 DEF Check, inputs, car, StopInv, TypeOK
    <2>4. OldIsDrained'
      BY <1>1 DEF Check, At, inputs, StopInv, OldIsDrained
    <2>5. SentMeansStopped' /\ StopTakesEffect' /\ MotionPhase'
      BY <1>1, <2>1, <2>2 DEF Check, At, car, StopInv, TypeOK, SentMeansStopped,
         StopTakesEffect, MotionPhase
    <2> QED BY <2>3, <2>4, <2>5 DEF StopInv
  <1>2. CASE StopSent
    <2>1. /\ moving' \subseteq Motions /\ missed' \subseteq Motions
          /\ moving' \ missed' \subseteq moving \ missed
      BY <1>2, WriteStopEffect DEF StopSent, StopInv, TypeOK, car
    <2>2. running' \in BOOLEAN /\ engineEnabled' \in BOOLEAN
      BY <1>2 DEF StopSent, StopInv, TypeOK
    <2> QED
      BY <1>2, <2>1, <2>2 DEF StopSent, At, inputs, StopInv, TypeOK, SentMeansStopped,
         StopTakesEffect, MotionPhase, OldIsDrained
  <1>3. CASE DrainLatched
    <2>1. /\ stage' \in [threads -> Stages] /\ stage'["writer"] = "drainSpeed"
      BY <1>3, StageUpdate DEF DrainLatched, StopInv, TypeOK, Stages, threads
    <2>2. moving \subseteq missed
      BY <1>3 DEF DrainLatched, At, StopInv, StopTakesEffect
    <2> QED
      BY <1>3, <2>1, <2>2 DEF DrainLatched, At, inputs, flags, car, StopInv, TypeOK,
         SentMeansStopped, StopTakesEffect, MotionPhase, OldIsDrained
  <1> QED BY <1>1, <1>2, <1>3

LEMMA MotionStep ==
  ASSUME StopInv, NEW m \in Motions, ReceiveMotion(m) \/ WriteMotion(m) \/ RejectMotion(m)
  PROVE  StopInv'
  <1> USE DEF Motions
  <1>1. NextMotion(m) \in {"control", "emergency"}
    BY DEF NextMotion
  <1>2. CASE ReceiveMotion(m)
    <2>1. /\ motion' \in [Motions -> {"none", "new", "old"}]
          /\ \A n \in Motions : motion'[n] = "old" => motion[n] = "old"
      BY <1>2, MotionUpdate DEF ReceiveMotion, StopInv, TypeOK
    <2> QED
      BY <1>1, <1>2, <2>1 DEF ReceiveMotion, At, flags, car, StopInv, TypeOK,
         SentMeansStopped, StopTakesEffect, MotionPhase, OldIsDrained
  <1>3. CASE WriteMotion(m)
    BY <1>1, <1>3 DEF WriteMotion, At, inputs, flags, StopInv, TypeOK,
       SentMeansStopped, StopTakesEffect, MotionPhase, OldIsDrained
  <1>4. CASE RejectMotion(m)
    BY <1>4 DEF RejectMotion, At, inputs, flags, car, StopInv, TypeOK,
       SentMeansStopped, StopTakesEffect, MotionPhase, OldIsDrained
  <1> QED BY <1>2, <1>3, <1>4

LEMMA StepStop == StopInv /\ [Next]_vars => StopInv'
  <1> SUFFICES ASSUME StopInv, [Next]_vars PROVE StopInv'
    OBVIOUS
  <1>1. CASE Store \/ LinkChanges \/ RunEnds
    BY <1>1, OutsideStep
  <1>2. CASE Writer
    BY <1>2, ReceiveStep, KlStep, LatchStep, MotionStep, StopSequence DEF Writer, threads
  <1>3. CASE Process
    BY <1>3, ForceStopStep, StopSequence DEF Process, threads
  <1>4. CASE UNCHANGED vars
    BY <1>4 DEF vars, inputs, cycle, flags, car, StopInv, TypeOK, SentMeansStopped,
       StopTakesEffect, MotionPhase, OldIsDrained
  <1> QED BY <1>1, <1>2, <1>3, <1>4 DEF Next

\* The whole invariant of the stop protocol of threadWrite.py.
THEOREM StopCorrect == Spec => []StopInv
  BY InitStop, StepStop, PTL DEF Spec

\* While _stop_sent keeps a latched stop from being repeated, the car executes no
\* motion but what a stop command lost on the link would have ended.
THEOREM SentStopHolds == Spec => []SentMeansStopped
  <1>1. StopInv => SentMeansStopped
    BY DEF StopInv
  <1> QED BY <1>1, StopCorrect, PTL

\* Motion that was in its cache when a stop was latched is never taken up later.
THEOREM CachedMotionDropped == Spec => CachedMotionIsDropped
  <1> DEFINE Fresh == \A m \in Motions : pending' = m /\ pending # m => motion[m] = "new"
  <1>1. StopInv /\ [Next]_vars => [Fresh]_vars
    <2> SUFFICES ASSUME StopInv, Next, NEW m \in Motions, pending' = m, pending # m
                 PROVE  motion[m] = "new"
      OBVIOUS
    <2>1. m # "none"
      BY DEF Motions
    <2>2. ReceiveMotion(m)
      BY <2>1 DEF Next, Store, StoreEmergency, StoreState, StoreMode, StoreKl, StoreMotion,
         LinkChanges, RunEnds, Writer, Process, ForceStop, StopStep, DrainStep,
         ReceiveEmergency, ReceiveState, ReceiveMode, ReceiveKl, Check, StopSent,
         DrainLatched, ReceiveMotion, WriteMotion, RejectMotion, cycle
    <2>3. motion[m] # "none" /\ pc = m
      BY <2>1, <2>2 DEF ReceiveMotion, At
    <2>4. motion[m] # "old"
      BY <2>3 DEF StopInv, OldIsDrained, Motions
    <2> QED BY <2>3, <2>4 DEF StopInv, TypeOK
  <1> QED BY <1>1, StopCorrect, PTL DEF Spec, CachedMotionIsDropped
=============================================================================
