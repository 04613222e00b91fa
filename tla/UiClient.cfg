SPECIFICATION Spec
CONSTANT MaxEvents = 2
INVARIANTS
  TypeOK
  WindowFollowsEngine
  RestsOnlyWhenDone
PROPERTY AnnouncementsAlternate
CHECK_DEADLOCK FALSE
