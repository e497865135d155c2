\* look-ups on lists of up to three elements, and kernels of up to three
\* symbols with two modules; two changes by others
SPECIFICATION MCSpec
CONSTANTS
  Id = {a, b, c}
  Name = {n1, n2}
  Null = Null
  ARRAY_SIZE = 3
  Slop = 1
  MaxLen = 3
  MaxChanges = 2
  Kernels <- MCKernels
  Module = {"m1", "m2"}
  LinesOf <- MCLinesOf
  Symbol = {"a", "b", "c", "d"}
  Buffer = 4
INVARIANTS
  AnswerWasThere
  StableFound
  Released
  KernelComplete
  ModulesStay
CHECK_DEADLOCK FALSE
