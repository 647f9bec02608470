SPECIFICATION FairSpec
CONSTANTS
  a = a
  b = b
  None = None
  Workspaces = {a, b}
  Home = a
  MaxEvents <- Events
  ReconnectLimit = 1
  MaxAttempts = 2
  MaxFaults = 2
  MaxSwitches = 1
CHECK_DEADLOCK FALSE
INVARIANTS
  TypeOK
  StoredIsOwn
  AcknowledgedIsCached
PROPERTIES
  EventuallyCaughtUp
