SPECIFICATION Spec
CONSTANTS
  Pages = {one, two}
  Buttons = {"AUTO", "STOP"}
  MaxRetries = 2
  MaxSockets = 3
PROPERTY
  LostLinkStops
