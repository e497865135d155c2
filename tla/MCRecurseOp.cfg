\* recurse_op while other processes change the tree
SPECIFICATION FairSpec
CONSTANTS
  Path <- MCPath
  Root = "r"
  Parent <- MCParent
  Anc <- MCAnc
  Denied = {"b"}
  MaxOpen = 2
  MaxChanges = 2
  PathMax = 10
  NameMax = 2
  Lengths = {4, 7, 10}
  Suffix <- MCSuffix
INVARIANTS
  OpenDirsInv
  SkipsHaveCause
  AtMostOnce
  VisitsAreFiles
  PathsFit
PROPERTIES
  VisitSpec
  Termination
CHECK_DEADLOCK FALSE
