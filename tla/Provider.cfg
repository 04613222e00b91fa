SPECIFICATION Spec
CONSTANTS
  Executables = {v1, v2}
  Services = {s1}
  Callers = {t1, t2}
  MaxSpawns = 3
  MaxExits = 1
  MaxCrashes = 1
INVARIANTS
  TypeOK
  CrashLeavesNothingRunning
  OnlyTheHeldProcess
  StopStops
CHECK_DEADLOCK FALSE
