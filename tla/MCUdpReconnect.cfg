CONSTANTS
  Handles = {h1, h2, h3, h4}
  None = None
  MaxSessions = 2
  ReissuesHeld = FALSE
  FastReconnect = TRUE
  SetUpMayFail = TRUE
SPECIFICATION Spec
CHECK_DEADLOCK FALSE
PROPERTY SessionServed
