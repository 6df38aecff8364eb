CONSTANTS
  Handles = {h1, h2, h3, h4}
  None = None
  MaxSessions = 2
  ReissuesHeld = FALSE
  FastReconnect = FALSE
  SetUpMayFail = TRUE
SPECIFICATION Spec
CHECK_DEADLOCK FALSE
INVARIANT TypeOK
INVARIANT RingAlive
INVARIANT UdpSocketUsable
PROPERTY SessionServed
PROPERTY SessionEnds
PROPERTY ShutdownCompletes
PROPERTY ImplementsSessionOrder
