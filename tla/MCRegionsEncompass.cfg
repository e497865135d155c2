\* what the comments of localUtil.h say of OVERLAP_REGIONS
SPECIFICATION Spec
CONSTANT W = 8
INVARIANTS
  EncompassingOverlaps
CHECK_DEADLOCK FALSE
