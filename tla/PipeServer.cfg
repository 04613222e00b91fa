SPECIFICATION Spec
CONSTANTS
  Clients = {c1}
  Broadcasters = {b1}
  MaxEvents = 2
INVARIANTS
  TypeOK
  InOrder
  StopLeavesNothing
  StopReturnsUnlessMissed
  NoEventIsLeft
PROPERTY EventsReachSubscribers
CHECK_DEADLOCK FALSE
