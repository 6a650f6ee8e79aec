SPECIFICATION MCSpec
CONSTANTS
  WindowSize = 2
  HopSize = 2
  QueueCapacity = 2
  MaxSequenceGap = 1
  MaxSequence = 4
  MaxCapture = 1
  MaxPushes = 5
  Frame <- MCFrame
  None = None
INVARIANTS AcceptedInOrder
