----------------------------- MODULE OverlapMacros -----------------------------
(***************************************************************************)
(* The region macros of localUtil.h: OVERLAP_REGIONS, the three cases it   *)
(* is built from, and REGION_CONTAINS, which the address translations of   *)
(* the ELF, PE and Mach-O helpers use.  A region is a start address and a  *)
(* size; addresses are unsigned machine words, so "reg + regsz" wraps.     *)
(***************************************************************************)
EXTENDS Naturals

CONSTANT W  \* the number of values of the words added, 2^64 for size_t

ASSUME WAssumption == W \in Nat \ {0}

Word == 0 .. (W - 1)

End(reg, regsz) == (reg + regsz) % W

\* Mutant: the end of a region counts as part of it.
InR2OrItsEnd(r1, r1sz, r2, r2sz) == r1 >= r2 /\ r1 <= End(r2, r2sz)

CASE_OVERLAP_R1_IN_R2(r1, r1sz, r2, r2sz) ==
  r1 >= r2 /\ r1 < End(r2, r2sz)

\* Mutant: adjacent regions overlap.
EndsAtR2(r1, r1sz, r2, r2sz) ==
  End(r1, r1sz) >= r2 /\ End(r1, r1sz) < End(r2, r2sz)

CASE_OVERLAP_R1_ENDS_R2(r1, r1sz, r2, r2sz) ==
  End(r1, r1sz) > r2 /\ End(r1, r1sz) < End(r2, r2sz)

CASE_OVERLAP_R1_EATS_R2(r1, r1sz, r2, r2sz) ==
  r1 < r2 /\ End(r1, r1sz) > End(r2, r2sz)

OVERLAP_REGIONS(r1, r1sz, r2, r2sz) ==
  \/ CASE_OVERLAP_R1_IN_R2(r1, r1sz, r2, r2sz)
  \/ CASE_OVERLAP_R1_ENDS_R2(r1, r1sz, r2, r2sz)
  \/ CASE_OVERLAP_R1_EATS_R2(r1, r1sz, r2, r2sz)

REGION_CONTAINS(reg, regsz, targ_addr) ==
  CASE_OVERLAP_R1_IN_R2(targ_addr, 0, reg, regsz)
================================================================================
