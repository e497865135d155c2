------------------------------ MODULE MCBlockGrab ------------------------------
(***************************************************************************)
(* block_grab for TLC: five-bit sizes, so that a failed ftell and the      *)
(* directory's LongMax are at the two ends of the range.                   *)
(***************************************************************************)
EXTENDS BlockGrab
================================================================================
