SPECIFICATION ViewSpec
CONSTANTS
  Configs <- MCShortConfigs
  Malformed = Malformed
  Capacity <- MCCapacity
  WindowSize <- MCWindowSize
  HopSize <- MCHopSize
  MaxSequenceGap <- MCMaxSequenceGap
  None = None
INVARIANTS FailsOnlyOnBadInput
