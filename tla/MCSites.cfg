SPECIFICATION Spec
CONSTANTS
  Names <- MCNames
  LabelLimit = 2
  UserLines <- MCUserLines
  MaxChanges = 1
  MaxFaults = 1
  MaxStarts = 1
INVARIANTS
  TypeOK
  FailedRescanKeepsRows
  HostnamesAreUnique
  HostsFollowNginx
  UserLinesSurvive
  UninstallLeavesNoEntries
CHECK_DEADLOCK FALSE
