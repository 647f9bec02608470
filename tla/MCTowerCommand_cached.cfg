CONSTANTS
  f = f
  c = c
  w1 = w1
  w2 = w2
  Files = {f}
  Channels = {c}
  Workspaces = {w1, w2}
  Home <- HomeOne
  MaxCalls = 3
  MaxSwitches = 1
SPECIFICATION Spec
CHECK_DEADLOCK FALSE
INVARIANT AnswerIsOwn
