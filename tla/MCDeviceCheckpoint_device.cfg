SPECIFICATION FairSpec
CONSTANTS
  t1 = t1
  t2 = t2
  me = me
  you = you
  None = None
  Tabs = {t1, t2}
  Scopes = {me, you}
  Home = me
  PageSize = 1
  MaxHead = 2
  MaxClients = 5
  MaxFaults = 1
  MaxSwitches = 1
CHECK_DEADLOCK FALSE
INVARIANTS
  TypeOK
  ResumableCoversRows
  CheckpointCommitted
  SettledIsTowers
  RegistrationsKnown
PROPERTIES
  EventuallySettled
