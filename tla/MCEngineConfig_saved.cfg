SPECIFICATION Spec
CONSTANTS
  Setters = {s1, s2}
  Roots = {r1}
  MaxFailures = 1
  MaxChanges = 0
  MaxCrashes = 0
INVARIANT SettledFileAgrees
CHECK_DEADLOCK FALSE
SYMMETRY SettersAreAlike
