------------------------------ MODULE NameLookup ------------------------------
(***************************************************************************)
(* What a symbol lookup by name promises, whichever table it walks.        *)
(*                                                                         *)
(* A caller of gnu_lookup, elf_lookup or symtabsearch asks for a name.     *)
(* "wanted" is the set of indices at which the table holds that name.  The *)
(* lookup answers once: with one of those indices, and with NoSym exactly  *)
(* when there is none.  The table does not change under the lookup.        *)
(***************************************************************************)
EXTENDS Naturals

CONSTANTS
  Pending,  \* the lookup has not answered yet
  NoSym     \* the C code's NULL (or -1) answer

VARIABLES wanted, answer

vars == <<wanted, answer>>

Init ==
  /\ wanted \in SUBSET Nat
  /\ answer = Pending

Found == answer' \in wanted

Missing ==
  /\ wanted = {}
  /\ answer' = NoSym

Next ==
  /\ answer = Pending
  /\ Found \/ Missing
  /\ UNCHANGED wanted

Spec == Init /\ [][Next]_vars
===============================================================================
