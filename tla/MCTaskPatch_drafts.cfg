CONSTANTS
  t1 = t1
  t2 = t2
  d1 = d1
  n1 = n1
  n2 = n2
  Shared = {t1}
  Drafts = {d1}
  Fresh = {n1, n2}
  Ways = {"background"}
  Patches <- Title
  BatchSize = 2
  MaxEdits = 2
  MaxReloads = 1
  MaxFails = 1
  MaxLost = 1
  MaxOther = 0
SPECIFICATION Spec
CHECK_DEADLOCK FALSE
INVARIANT OneCreatePerSession
PROPERTY SavedDrains
