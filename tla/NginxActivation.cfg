SPECIFICATION Spec
CONSTANTS
  MaxGen = 3
  MaxFaults = 2
  MaxCrashes = 1
INVARIANTS
  TypeOK
  SingleFaultRestores
  ValidatedTreeOnDisk
  NginxServesTheRefresh
