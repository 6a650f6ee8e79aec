SPECIFICATION Spec
CONSTANTS
  Nanos = 2
  Stream = {1, 2}
  Script <- MCScript
  MaxEvents = 2
  MaxRequests = 1
INVARIANTS ConnectedIsOpen SocketsAreOwned
PROPERTIES FramesNeverDecrease TimelineOnlyGrows Reconnects ViewsCatchUp
CHECK_DEADLOCK FALSE
