SPECIFICATION FairSpec
CONSTANTS
  t1 = t1
  c1 = c1
  t2 = t2
  c2 = c2
  scan = scan
  rename = rename
  library = library
  None = None
  Ticks = {t1, t2}
  Callers = {c1}
  Jobs <- Alone
  Resources <- AloneResources
  ResourceOf <- AloneResourceOf
  Schedules = {1}
  ManualOnly = {}
  Protected = {}
  DisabledByDefault = {}
  Removable = {scan}
  JobResults = {"succeeded"}
  Faults = {"insert", "publish", "handler"}
  MaxClock = 1
  MaxCrashes = 1
INVARIANTS
  NothingLeaks
  OncePerLife
PROPERTIES
  WorkEnds
  DueJobRuns
