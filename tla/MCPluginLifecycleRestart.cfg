SPECIFICATION MCSpec
CONSTANTS
  Plugin = {"replay"}
  Replay = {"replay"}
  FactoryLists <- MCShortFactories
  MaxStarts = 2
  MaxInstances = 1
INVARIANT AcceptedFramesAreSent
