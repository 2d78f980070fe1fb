SPECIFICATION Spec
CONSTANTS
  stateChange = stateChange
  speedMotor = speedMotor
  serialCamera = serialCamera
  writer = writer
  dashboard = dashboard
  Topics <- MCTopics
  Receivers <- MCReceivers
  Interest <- MCInterest
  QueueOf <- MCQueueOf
  Limit <- MCLimit
  Capacity <- MCCapacity
  Idle = Idle
  PipeCap = 1
  MaxConfig = 2
  MaxGen = 2
  Recovers <- MCRecovers
  Restarts <- MCRestarts
INVARIANTS
  SubscribedIsRouted
  ApprovalsCoverRegistrations
