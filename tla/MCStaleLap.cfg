CONSTANTS
  SeqMod = 16
  Window = 6
  SkipDistance = 3
  PlcLimit = 2
  Frames = 40
  Modes = {"reorder"}
  Delay = 2
  Reach = 16
  None = None
SPECIFICATION Spec
PROPERTY InOrder
