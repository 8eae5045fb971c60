SPECIFICATION Spec
CONSTANTS
  t1 = t1
  c1 = c1
  t2 = t2
  c2 = c2
  scan = scan
  rename = rename
  library = library
  None = None
  Ticks = {t1}
  Callers = {c1}
  Jobs <- Shared
  Resources <- SharedResources
  ResourceOf <- SharedResourceOf
  Schedules = {1}
  ManualOnly = {rename}
  Protected = {}
  DisabledByDefault = {rename}
  Removable = {scan}
  JobResults = {"succeeded"}
  Faults = {"claim", "insert", "publish", "handler", "record", "release"}
  MaxClock = 1
  MaxCrashes = 1
INVARIANT TypeOK
PROPERTY PromiseSpec
