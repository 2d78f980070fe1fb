SPECIFICATION Spec
CONSTANTS
  Keys = {"0", "30"}
  LinkFails = TRUE
  Forks = FALSE
  HardKl0 = TRUE
CHECK_DEADLOCK FALSE
INVARIANT
  StopInv
