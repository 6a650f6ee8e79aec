SPECIFICATION MCSpec
CONSTANTS
  Configs <- MCConfigs
  Malformed = Malformed
  Capacity <- MCCapacity
  WindowSize <- MCWindowSize
  HopSize <- MCHopSize
  MaxSequenceGap <- MCMaxSequenceGap
  None = None
INVARIANTS NothingLost EndsDrained SnapshotsAreCausal NothingShownRunning EndIsShown
PROPERTIES RejectionIsPermanent CompletedIsFinal Drains ShutdownStopsTasks
