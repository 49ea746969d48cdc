SPECIFICATION Spec
CONSTANT MaxPeriods = 6
INVARIANT RestoreReleasesTimer
CHECK_DEADLOCK FALSE
