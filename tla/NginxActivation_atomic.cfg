SPECIFICATION Spec
CONSTANTS
  MaxGen = 3
  MaxFaults = 1
  MaxCrashes = 0
PROPERTY AtomicSpec
