SPECIFICATION BrowserSpec
CONSTANTS
  Pages = {one, two}
  Buttons = {"AUTO"}
  MaxRetries = 2
  MaxSockets = 3
  RunsOf <- MCRunsOf
  MaxAngle = 2
  MaxRequests = 2
INVARIANTS
  SessionInv
  CalibInv
  MaxAngleOwn
  SubmissionsFit
  WizardAgrees
PROPERTIES
  LostSessionStops
  StaleSessionsEnd
