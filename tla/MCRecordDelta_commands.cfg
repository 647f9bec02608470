SPECIFICATION FairSpec
CONSTANTS
  a = a
  b = b
  NumRecords = 2
  PageSize = 1
  SubSize = 1
  Tabs = {a}
  Existing = 1
  MaxJournal = 3
  MaxResets = 1
  MaxEdits = 1
  MaxFaults = 1
CHECK_DEADLOCK FALSE
INVARIANTS
  ConvergedIsTower
  EditRecoverable
PROPERTIES
  LiveRowsStay
  EventuallyConverged
  EventuallyShown
