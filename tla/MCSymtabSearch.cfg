\* symtabsearch: what holds for the names a .symtab has
SPECIFICATION FairSpec
CONSTANTS
  Name = {"f", "g", "h"}
  MaxSyms = 4
  EntSize = 24
  MaxPast = 2
  NoSym = NoSym
PROPERTIES
  PresentFound
CHECK_DEADLOCK FALSE
