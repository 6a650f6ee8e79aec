SPECIFICATION Spec
CONSTANTS
  Configs <- MCShortConfigs
  BusCapacity = 1
INVARIANTS ShutdownStopsPlugin
