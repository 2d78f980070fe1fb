SPECIFICATION FairSpec
CONSTANTS
  Keys = {"30"}
  LinkFails = FALSE
  Forks = FALSE
  HardKl0 = FALSE
CHECK_DEADLOCK FALSE
PROPERTIES
  CachedMotionIsDropped
  LatchedStops
  EmergencyStops
