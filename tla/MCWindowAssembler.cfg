SPECIFICATION MCSpec
CONSTANTS
  WindowSize = 3
  HopSize = 2
  QueueCapacity = 3
  MaxSequenceGap = 1
  MaxSequence = 7
  MaxCapture = 1
  MaxPushes = 6
  Frame <- MCFrame
  None = None
INVARIANTS WindowIdsGapless AcceptedInOrder
PROPERTIES ErrorLeavesBuffer SlidingSpec
