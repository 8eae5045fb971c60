SPECIFICATION Spec
CONSTANTS
  o1 = o1
  None = None
  Mounts = {1, 2}
  Callers = {o1}
  MaxRestarts = 2
  MaxWindows = 1
  EarlyExits = FALSE
  Overlap = FALSE
INVARIANTS OneServes NothingComesBack
CHECK_DEADLOCK FALSE
