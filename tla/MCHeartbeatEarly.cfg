CONSTANTS
  SeqMod = 4
  Window = 3
  SkipDistance = 2
  PlcLimit = 0
  Frames = 6
  Modes = {"discard"}
  Delay = 1
  Reach = 3
  None = None
  Keep = 2
  Late = 1
  Clients = 2
  Codecs <- Pcm
  MaxTime = 7
  EarlyHeartbeats = TRUE
SPECIFICATION HbSpec
CHECK_DEADLOCK FALSE
INVARIANT AnswersMeet
