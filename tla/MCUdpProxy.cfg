SPECIFICATION Spec
CONSTANTS
  MaxArrivals = 3
  QueueCap = 2
INVARIANTS
  TypeOK
  NoStatsRace
  IdleInMenu
  ReportIsExact
  SessionNotCutShort
PROPERTIES
  StopReturns
  ImplementsRelay
CHECK_DEADLOCK FALSE
