\* gnu_lookup on every small table a link editor can write
SPECIFICATION FairSpec
CONSTANTS
  Name = {"f", "g", "h"}
  HashValues = {0, 1, 6}
  MaxSyms = 3
  ELFCLASS_BITS = 4
  Tables <- MCTables
  Pending = Pending
  NoSym = NoSym
INVARIANTS
  ChainInv
PROPERTIES
  LookupSpec
  Termination
CHECK_DEADLOCK FALSE
