CONSTANTS
  SeqMod = 4
  Window = 3
  SkipDistance = 2
  PlcLimit = 0
  Frames = 6
  Modes = {"discard", "reorder"}
  Delay = 1
  Reach = 3
  None = None
  Keep = 2
  Late = 1
  Clients = 2
  Codecs <- Pcm
  MaxTime = 7
  EarlyHeartbeats = FALSE
SPECIFICATION HbSpec
CHECK_DEADLOCK FALSE
INVARIANT HbTypeOK
INVARIANT AnswersMeet
PROPERTY OwnArrivalReported
PROPERTY CatchesUp
