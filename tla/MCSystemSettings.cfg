SPECIFICATION Spec
CONSTANTS
  Interfaces <- MCInterfaces
  LockedSets <- MCLockedSets
  Contended <- MCContended
  HighRam = TRUE
INVARIANTS
  TypeOK
  StatusNeverOverclaims
  RestoreCovers
  NetworkSuccessIsReal
  PoliciesNeedTos
PROPERTY BackupPrecedesTuning
CHECK_DEADLOCK FALSE
