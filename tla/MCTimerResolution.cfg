SPECIFICATION Spec
CONSTANT MaxPeriods = 6
INVARIANTS
  TypeOK
  NoFlagRace
  RequestIsOwned
PROPERTIES
  DaemonGivesBack
  DaemonStops
CHECK_DEADLOCK FALSE
