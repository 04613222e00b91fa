SPECIFICATION Spec
CONSTANTS
  MaxGen = 2
  MaxFaults = 0
  MaxCrashes = 0
INVARIANT NginxServesAWholeTree
