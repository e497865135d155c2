\* symtabsearch: the bound its loop states
SPECIFICATION FairSpec
CONSTANTS
  Name = {"f", "g"}
  MaxSyms = 2
  EntSize = 24
  MaxPast = 2
  NoSym = NoSym
INVARIANTS
  ReadsInsideSymtab
CHECK_DEADLOCK FALSE
