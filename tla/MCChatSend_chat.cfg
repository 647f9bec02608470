SPECIFICATION FairSpec
CONSTANTS
  m1 = m1
  Messages = {m1}
  MaxVersions = 3
  MaxFaults = 2
  MaxSwitches = 1
CHECK_DEADLOCK FALSE
INVARIANTS
  
  RowKeepsUp
PROPERTIES
  EventuallySettled
