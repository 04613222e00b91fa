SPECIFICATION Spec
CONSTANTS
  Processes = {p1}
  Hosts = {h1}
  MaxCas = 3
  MaxKeys = 3
  MaxExpiries = 2
  MaxFailures = 2
INVARIANTS
  TypeOK
  TrustIsRecorded
  RemoveIsComplete
  SiteCertificateMatches
CHECK_DEADLOCK FALSE
