SPECIFICATION FairSpec
CONSTANTS
  o1 = o1
  None = None
  Mounts = {1, 2}
  Callers = {o1}
  MaxRestarts = 1
  MaxWindows = 0
  EarlyExits = TRUE
  Overlap = TRUE
INVARIANTS TypeOK NoRequestToTheDead 
PROPERTIES CrashResolved
CHECK_DEADLOCK FALSE
