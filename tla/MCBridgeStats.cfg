CONSTANTS
  SeqMod = 6
  Half = 4
  MissingLimit = 1
  DuplicateTime = 4
  Frames = 8
  MaxSkip = 2
  Delay = 2
  MaxDuplicates = 1
  CapturedAt <- EveryTick
  Latency = 2
  Offsets <- SmallOffsets
  Ages <- SomeAges
  BoundsLimit = 1
  LatencyLimit = 1
  None = None
SPECIFICATION Spec
INVARIANT TypeOK
INVARIANT FramesAccountedFor
INVARIANT LossReported
INVARIANT LatencyIntervalOrdered
PROPERTY RecoveredWasLost
PROPERTY InTurnForwarded
