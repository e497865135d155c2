\* elf_lookup on every small table a link editor can write
SPECIFICATION FairSpec
CONSTANTS
  Name = {"f", "g", "h"}
  HashValues = {0, 1}
  MaxSyms = 3
  Tables <- MCTables
  Pending = Pending
  NoSym = NoSym
INVARIANTS
  ListInv
PROPERTIES
  LookupSpec
  Termination
CHECK_DEADLOCK FALSE
