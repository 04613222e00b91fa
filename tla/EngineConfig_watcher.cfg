SPECIFICATION Spec
CONSTANTS
  Setters = {s1}
  Roots = {r1}
  MaxFailures = 2
  MaxChanges = 2
  MaxCrashes = 1
INVARIANT ConfigSetIsAtomic
PROPERTY EveryRequestIsAnswered
CHECK_DEADLOCK FALSE
