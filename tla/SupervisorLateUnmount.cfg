SPECIFICATION Spec
CONSTANTS
  o1 = o1
  None = None
  Mounts = {1}
  Callers = {o1}
  MaxRestarts = 1
  MaxWindows = 0
  EarlyExits = FALSE
  Overlap = TRUE
INVARIANTS CapabilityGone
CHECK_DEADLOCK FALSE
