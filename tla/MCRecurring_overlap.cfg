CONSTANTS
  Parts = {"declared"}
  Crons = {c1}
  Keys = {k1, k2}
  Scheduler = Scheduler
  Worker = Worker
  MaxTargets = 3
  MaxFailures = 2
  Day = 8
  Zones <- MCZones
  Intervals = {1, 3, 5}
  Horizon = 20
  Declared = {s1}
  DeclaredKeys = {k1}
  MaxDeclaredTargets = 2
  MaxDeclaredFailures = 4
  MaxItems = 2
  MaxOthers = 1
  MaxFaults = 2
SPECIFICATION MCSpec
INVARIANT OutstandingPreventsOverlap
CHECK_DEADLOCK FALSE
