CONSTANTS
  MaxSessions = 3
  MaxPackets = 2
  OpusSessions <- FirstAndThird
SPECIFICATION Spec
CHECK_DEADLOCK FALSE
INVARIANT TypeOK
INVARIANT DecodedByItsSession
PROPERTY SessionEnds
PROPERTY ConfigSettles
PROPERTY ShutdownCompletes
PROPERTY ImplementsSessionOrder
