CONSTANTS
  Unit = 8
  Slow = 1
  FadeLimit = 3
  FadePart = 2
  SilenceFade = 3
  Capacity = 10
  Frames = 16
  Batches = {1, 4}
  Needs = {1, 4, 6}
  Climb = 2
  Protect = 3
  DefaultProtect = 5
  MaxSpeed = 6
  DefaultMaxSpeed = 3
SPECIFICATION Spec
INVARIANT TypeOK
INVARIANT OutputFilled
INVARIANT ReadAsPlanned
INVARIANT NoStepInSound
INVARIANT EdgesAreFaded
INVARIANT SkipsOnlySurplus
