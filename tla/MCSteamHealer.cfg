SPECIFICATION Spec
CONSTANTS
  Pid = {p1, p2}
  NoPid = NoPid
  Healer = {h1, h2}
  MaxLogins = 3
SYMMETRY MCSymmetry
INVARIANTS
  TypeOK
  RepairIsRight
  LoginsKept
PROPERTY LivePidKept
CHECK_DEADLOCK FALSE
