CONSTANTS
  SeqMod = 16
  Window = 6
  SkipDistance = 3
  PlcLimit = 2
  Frames = 40
  Modes = {"quic", "discard", "reorder"}
  Delay = 10
  Reach = 15
  None = None
SPECIFICATION Spec
INVARIANT TypeOK
INVARIANT CachedAreCurrent
PROPERTY InOrder
PROPERTY NothingCachedIsDropped
