SPECIFICATION Spec
CONSTANTS
  Keys = {}
  LinkFails = FALSE
  Forks = TRUE
  HardKl0 = FALSE
CHECK_DEADLOCK FALSE
PROPERTY
  StopOutranksOlderMode
