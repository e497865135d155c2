---------------------------- MODULE MCSymtabSearch ----------------------------
(***************************************************************************)
(* symtabsearch on every table of up to MaxSyms entries.                   *)
(***************************************************************************)
EXTENDS SymtabSearch
================================================================================
