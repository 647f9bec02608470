SPECIFICATION Spec
CONSTANTS
  Patient = TRUE
  MaxTexts = 3
  MaxVersions = 3
  MaxVisits = 2
CHECK_DEADLOCK FALSE
INVARIANTS
  TypeOK
  
  NoBlindOverwrite
  CleanIsSaved
