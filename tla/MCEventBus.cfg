SPECIFICATION Spec
CONSTANTS
  Nanos = 1
  Scripts <- MCScripts
  Capacity = 2
  RecentCapacity = 2
  Outbound = 1
  Socket = {s1}
INVARIANTS
  RecentIsTailOfReceived
  SocketAccounts
  SignalsAreCausal
PROPERTIES
  ReceiversCatchUp
  ForwarderEnds
