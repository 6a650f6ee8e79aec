SPECIFICATION MCSpec
CONSTANTS
  Configs <- MCBadConfigs
  Malformed = Malformed
  Capacity <- MCCapacity
  WindowSize <- MCWindowSize
  HopSize <- MCHopSize
  MaxSequenceGap <- MCMaxSequenceGap
  None = None
INVARIANTS CompletedIsClean
