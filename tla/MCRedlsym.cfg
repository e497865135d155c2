\* redlsym on small images, loaded and read from a file
SPECIFICATION FairSpec
CONSTANTS
  Name = {"f", "g"}
  LinkBases = {0, 8}
  Slides = {0, 8}
  Images <- MCImages
  Null = Null
  Pending = Pending
  NoSym = NoSym
INVARIANTS
  UndefinedHasCause
PROPERTIES
  ResolveSpec
  Termination
CHECK_DEADLOCK FALSE
