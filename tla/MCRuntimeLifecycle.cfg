SPECIFICATION Spec
CONSTANTS
  Configs <- MCConfigs
  BusCapacity = 1
INVARIANTS StoppedAnswersNothingRunning
PROPERTIES FailureReported FailureSticks FailedStartLeavesNothing FirstFrameClearsDegraded
