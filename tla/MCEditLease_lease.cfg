SPECIFICATION FairSpec
CONSTANTS
  MaxLeases = 2
  MaxVisits = 2
  MaxFaults = 1
CHECK_DEADLOCK FALSE
INVARIANTS
  TypeOK
  LeaseKnown
  AcquiringIsAnswered
PROPERTIES
  RenewalEnds
