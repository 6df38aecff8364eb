CONSTANTS
  SeqMod = 4
  Half = 2
  MissingLimit = 1
  DuplicateTime = 2
  Frames = 6
  MaxSkip = 0
  Delay = 0
  MaxDuplicates = 2
  CapturedAt <- EveryTick
  Latency = 3
  Offsets <- NoOffsets
  Ages <- OneAge
  BoundsLimit = 1
  LatencyLimit = 1
  None = None
SPECIFICATION Spec
PROPERTY InTurnForwarded
