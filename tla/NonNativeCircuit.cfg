SPECIFICATION Spec
CONSTANTS
  P = 193
  W = 3
  M = 29
  Width = 5
  Elements = {1, 28}
  Rows <- MCRows
  Lengths = {0, 7, 9}
  Numbers = {193}
  MaxHintBits = 6
  MaxAllocated = 2
  MaxKept = 4
CHECK_DEADLOCK FALSE
INVARIANTS
  ValueKept
  EqualExactly
  LessExactly
  CongruentExactly
  OneRemainder
