\* the test of OPENREAD
SPECIFICATION Spec
CONSTANTS
  SizeMod = 32
  LongMax = 15
  DwordMod = 8
  Page = 4
  MaxLen = 9
  MaxWrites = 2
CHECK_DEADLOCK FALSE
INVARIANT FailsWithoutFile
