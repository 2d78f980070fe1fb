----------------------------- MODULE MCGateway -----------------------------
(* Small instances of Gateway for TLC. *)
EXTENDS Gateway

CONSTANTS stateChange, speedMotor, serialCamera, writer, dashboard

MCTopics == {stateChange, speedMotor, serialCamera}
MCReceivers == {writer, dashboard}
MCInterest == {<<stateChange, writer>>, <<stateChange, dashboard>>,
               <<serialCamera, dashboard>>}
MCCriticalInterest == {<<stateChange, writer>>, <<stateChange, dashboard>>}
\* The Queue fields of allMessages.py.
MCQueueOf ==
  [t \in MCTopics |-> CASE t = stateChange -> "Critical"
                        [] t = speedMotor -> "General"
                        [] t = serialCamera -> "Image"]
MCLimit == [q \in BatchQueues |-> IF q = "Critical" THEN 2 ELSE 1]
MCCapacity == [q \in MessageQueues |-> IF q = "Critical" THEN 2 ELSE 1]
MCRecovers == {<<stateChange, writer>>}
MCRestarts == {<<serialCamera, dashboard>>}
=============================================================================
