SPECIFICATION Spec
CONSTANTS
  Plugin = {"replay", "synthetic"}
  Replay = {"replay"}
  FactoryLists <- MCFactories
  MaxStarts = 2
  MaxInstances = 2
INVARIANTS
  LoadedIsCleanPrefix
  OneProducer
  HealthIsTruthful
PROPERTY StoppedEnds
