-------------------------------- MODULE Regions --------------------------------
(***************************************************************************)
(* The region macros of localUtil.h at work.  They are pure: a behaviour   *)
(* chooses two regions and an address and evaluates the macros on them     *)
(* once.                                                                   *)
(***************************************************************************)
EXTENDS OverlapMacros

VARIABLES reg1, reg1sz, reg2, reg2sz, addr, overlap, contained

vars == <<reg1, reg1sz, reg2, reg2sz, addr, overlap, contained>>

-------------------------------------------------------------------------------
Init ==
  /\ reg1 \in Word /\ reg1sz \in Word
  /\ reg2 \in Word /\ reg2sz \in Word
  /\ addr \in Word
  /\ overlap = "unknown" /\ contained = "unknown"

Verdict(b) == IF b THEN "yes" ELSE "no"

Evaluate ==
  /\ overlap = "unknown"
  /\ overlap' = Verdict(OVERLAP_REGIONS(reg1, reg1sz, reg2, reg2sz))
  /\ contained' = Verdict(REGION_CONTAINS(reg1, reg1sz, addr))
  /\ UNCHANGED <<reg1, reg1sz, reg2, reg2sz, addr>>

Next == Evaluate

Spec == Init /\ [][Next]_vars

-------------------------------------------------------------------------------
TypeOK ==
  /\ reg1 \in Word /\ reg1sz \in Word /\ reg2 \in Word /\ reg2sz \in Word
  /\ addr \in Word
  /\ overlap \in {"unknown", "yes", "no"} /\ contained \in {"unknown", "yes", "no"}

\* A region that holds an address and whose end is an address too.
Proper(reg, regsz) == regsz > 0 /\ reg + regsz < W

\* Some address is in both regions.
Share == \E x \in Word : x \in reg1 .. (reg1 + reg1sz - 1) /\ x \in reg2 .. (reg2 + reg2sz - 1)

\* reg1 starts before reg2 and both end at the same address.
SameEnd == reg1 < reg2 /\ reg1 + reg1sz = reg2 + reg2sz

(***************************************************************************)
(* What OVERLAP_REGIONS decides for proper regions: they share an address, *)
(* except that it says "no" for two that share their end, the first of     *)
(* which starts before the second.  So a "yes" is always right, and the    *)
(* "no" that is wrong is exactly that one.                                 *)
(***************************************************************************)
OverlapDecides ==
  Proper(reg1, reg1sz) /\ Proper(reg2, reg2sz) =>
    /\ overlap = "yes" => Share /\ ~ SameEnd
    /\ overlap = "no" => ~ Share \/ SameEnd

(***************************************************************************)
(* REGION_CONTAINS is exact for every region that does not reach the top   *)
(* of the address space, and never claims an address outside a region.  A  *)
(* region that reaches the top has end 0 after the addition wraps.         *)
(***************************************************************************)
ContainsExact ==
  /\ contained = "yes" => addr \in reg1 .. (reg1 + reg1sz - 1)
  /\ contained = "no" => addr \notin reg1 .. (reg1 + reg1sz - 1) \/ reg1 + reg1sz >= W

(***************************************************************************)
(* What code that asks the macros of localUtil.h relies on: each says what *)
(* it is for, with the exceptions above and no others.                     *)
(***************************************************************************)
MacrosDecide == OverlapDecides /\ ContainsExact

(***************************************************************************)
(* What localUtil.h says of the last case of OVERLAP_REGIONS, "reg1        *)
(* encompasses reg2" and "gets to or passed it": a region around another   *)
(* overlaps it.  The code does not keep it, see PROJECT.json findings.     *)
(***************************************************************************)
EncompassingOverlaps ==
  /\ Proper(reg1, reg1sz) /\ Proper(reg2, reg2sz)
  /\ reg1 <= reg2 /\ reg2 + reg2sz <= reg1 + reg1sz
  => overlap # "no"
================================================================================
