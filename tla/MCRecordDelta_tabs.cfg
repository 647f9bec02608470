SPECIFICATION Spec
CONSTANTS
  a = a
  b = b
  NumRecords = 2
  PageSize = 2
  SubSize = 1
  Tabs = {a, b}
  Existing = 2
  MaxJournal = 3
  MaxResets = 1
  MaxEdits = 1
  MaxFaults = 0
CHECK_DEADLOCK FALSE
SYMMETRY TabSymmetry
INVARIANTS
  TypeOK
  CursorCoversRows
PROPERTIES
  CursorForward
  Replica
