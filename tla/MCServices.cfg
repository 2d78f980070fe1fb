SPECIFICATION Spec
CONSTANTS
  MaxFrames = 4
  Samples = {1, 3}
  Imu = {3}
  InName = {1}
  InEnd = {2}
  MemSize = 2
  MaxEvents = 2
  MaxStates = 1
  MaxConns = 2
  MaxHeard = 2
  Period = 2
  MaxTime = 4
  MaxQueue = 2
  Lights = {"l1", "l2"}
  MaxLightStates = 1
  Lists = {1, 2}
  SendTicks = 1
  ResendTicks = 2
  MaxQueued = 2
INVARIANTS
  LinkInv
  
  DamageIsLocal
  UploadInv
  FeedInv
  DriveInv
PROPERTIES
  HangIsHandled
  LinkComesBack
  LinkStops
  ReportsAreQueued
  EventsArrive
  ReportsAreTaken
  ListArrives
  MapArrives
  ModesAgree
  PlannerLetsGo
CHECK_DEADLOCK FALSE
