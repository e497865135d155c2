\* block_grab on files of up to nine bytes, a page of four, a DWORD of three bits
SPECIFICATION Spec
CONSTANTS
  SizeMod = 32
  LongMax = 15
  DwordMod = 8
  Page = 4
  MaxLen = 9
  MaxWrites = 2
INVARIANTS
  UndefinedHasCause
  WholeFile
  ShortHasCause
  Released
CHECK_DEADLOCK FALSE
