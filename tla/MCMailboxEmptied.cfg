SPECIFICATION MailSpec
CONSTANTS
  Threads = {writer}
  MailPipeCap = 2
  MaxSent = 4
  MaxFailures = 0
  DrainInReader = TRUE
  Timeouts = FALSE
CHECK_DEADLOCK FALSE
INVARIANT
  EmptiedStaysEmpty
