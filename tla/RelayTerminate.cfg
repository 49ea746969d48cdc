SPECIFICATION Spec
CONSTANTS
  MaxArrivals = 1
  QueueCap = 1
INVARIANT NeverTerminated
CHECK_DEADLOCK FALSE
