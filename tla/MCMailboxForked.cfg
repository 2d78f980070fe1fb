SPECIFICATION FairMailSpec
CONSTANTS
  Threads = {}
  MailPipeCap = 2
  MaxSent = 4
  MaxFailures = 0
  DrainInReader = FALSE
  Timeouts = TRUE
CHECK_DEADLOCK FALSE
PROPERTY
  EveryMessageCounts
