SPECIFICATION CalibSpec
CONSTANTS
  RunsOf <- MCRunsOf
  MaxAngle = 2
  MaxRequests = 5
INVARIANT
  CompletedIsMeasured
CHECK_DEADLOCK FALSE
