SPECIFICATION Spec
CONSTANTS
  Byte = 2
  Words <- MCWords
  Lengths <- MCLengths
INVARIANTS
  TypeOK
  ResultIsRfc1071
CHECK_DEADLOCK FALSE
