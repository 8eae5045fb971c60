SPECIFICATION Spec
CONSTANTS
  t1 = t1
  c1 = c1
  t2 = t2
  c2 = c2
  scan = scan
  rename = rename
  library = library
  None = None
  Ticks = {t1}
  Callers = {c1}
  Jobs <- Alone
  Resources <- AloneResources
  ResourceOf <- AloneResourceOf
  Schedules = {1}
  ManualOnly = {}
  Protected = {}
  DisabledByDefault = {}
  Removable = {}
  JobResults = {"succeeded"}
  Faults = {}
  MaxClock = 1
  MaxCrashes = 0
INVARIANT NextRunMatchesEnabled
