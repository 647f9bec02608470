CONSTANTS
  t1 = t1
  t2 = t2
  d1 = d1
  n1 = n1
  n2 = n2
  Shared = {t1}
  Drafts = {}
  Fresh = {n1}
  Ways = {"background", "direct", "rollback"}
  Patches <- Both
  BatchSize = 2
  MaxEdits = 2
  MaxReloads = 1
  MaxFails = 0
  MaxLost = 0
  MaxOther = 1
SPECIFICATION Spec
CHECK_DEADLOCK FALSE
INVARIANTS TypeOK AppliedOnce PendingIsOwed
