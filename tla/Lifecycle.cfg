SPECIFICATION Spec
CONSTANT MaxEvents = 2
INVARIANTS
  TypeOK
  StoppedMeansQuiet
  
  DnsIsOnOrOff
  StopCompletes
  ChangesAreRefreshed
PROPERTY EveryWaitEnds
CHECK_DEADLOCK FALSE
