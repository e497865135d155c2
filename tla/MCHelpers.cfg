\* the helpers on small inputs
SPECIFICATION MCSpec
CONSTANTS
  W = 8
  Byte = {0, 65, 97, 200}
  Room = 4
  SizeMax = 255
  NULL = NULL
  Names <- MCNames
  Known <- MCKnown
  Last = {15, 16, 31, 255}
  MaxLen = 40
  LabelMod = 32
  Docs <- MCDocs
  Key = {1, 2}
  PairValue = {0, 1, 2}
  MaxPairs = 3
  JsonKey = {a, b, c}
  MaxNodes = 5
INVARIANTS
  MacrosDecide
  StringsExact
  AsLinked
  DumpExact
  CompleteUnlessMisled
  FindHolds
CHECK_DEADLOCK FALSE
