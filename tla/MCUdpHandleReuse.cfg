CONSTANTS
  Handles = {h1, h2, h3, h4}
  None = None
  MaxSessions = 2
  ReissuesHeld = TRUE
  FastReconnect = FALSE
  SetUpMayFail = FALSE
SPECIFICATION Spec
CHECK_DEADLOCK FALSE
INVARIANT UdpSocketUsable
