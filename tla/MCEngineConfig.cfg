SPECIFICATION Spec
CONSTANTS
  Setters = {s1, s2}
  Roots = {r1}
  MaxFailures = 1
  MaxChanges = 0
  MaxCrashes = 0
INVARIANTS
  TypeOK
  SettledTreeAgrees
CHECK_DEADLOCK FALSE
SYMMETRY SettersAreAlike
CONSTRAINT FailuresAfterTheStart
