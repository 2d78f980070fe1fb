SPECIFICATION BusSpec
CONSTANTS
  stateChange = stateChange
  speedMotor = speedMotor
  serialCamera = serialCamera
  writer = writer
  dashboard = dashboard
  Topics <- MCTopics
  Receivers <- MCReceivers
  Interest <- MCCriticalInterest
  QueueOf <- MCQueueOf
  Limit <- MCLimit
  Capacity <- MCCapacity
  Idle = Idle
  PipeCap = 1
  MaxConfig = 3
  MaxGen = 1
  Recovers = {}
  Restarts = {}
  Threads = {write, process}
  MailPipeCap = 2
  MaxSent = 4
  MaxFailures = 1
  DrainInReader = TRUE
  Timeouts = TRUE
INVARIANTS
  TypeOK
  ApprovalsMatchRegistrations
  GatewaySurvives
  BoundedOvertaking
  RoutingInv
  OrderInv
PROPERTIES
  NoQueueStarves
  SubscriptionServed
  ImplementsLatestValue
  ReadsMoveForward
  EveryMessageCounts
