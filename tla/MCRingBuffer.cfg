CONSTANTS
  Zero = zero
  Sample = {zero, one}
  Cap = 4
  Laps = 2
  MaxFrames = 3
  ChannelCounts = {1, 2}
SPECIFICATION Spec
INVARIANT TypeOK
INVARIANT NoSlotRace
INVARIANT AvailabilityOnlyGrows
INVARIANT WholeFrames
PROPERTY ImplementsFifo
