------------------------------ MODULE SymtabSearch ------------------------------
(***************************************************************************)
(* symtabsearch (localUtil_linux.c): the linear search of .symtab that     *)
(* redlsym falls back on, one action per iteration of its loop.            *)
(*                                                                         *)
(* The loop tests net_iter against symtab_sz, the size of the section in   *)
(* bytes, but advances i alone: the third clause of the for statement is   *)
(* the expression "net_iter", without an increment.  Entries past the      *)
(* table are whatever the process has there: reading one is undefined, and *)
(* modelled by every outcome (a mismatch, an accidental match, a fault).   *)
(***************************************************************************)
EXTENDS Naturals, Sequences

CONSTANTS
  Name,      \* symbol names
  MaxSyms,   \* entries of the largest .symtab considered
  EntSize,   \* sizeof(Elf64_Sym)
  MaxPast,   \* bound: entries past the table the walk is followed to
  NoSym      \* the answer -1

VARIABLES
  symtab,    \* the names of the entries, entry i at symtab[i + 1]
  symtab_sz, \* the size redlsym passes: sh_size of the section
  symname,
  net_iter, i,
  pc,        \* "loop", "done", or "fault" once the process is lost
  targ       \* the entry whose value is stored in *targsym, NoSym for -1

vars == <<symtab, symtab_sz, symname, net_iter, i, pc, targ>>

input == <<symtab, symtab_sz, symname>>

Sizes ==
  /\ EntSize \in Nat \ {0}
  /\ MaxSyms \in Nat /\ MaxPast \in Nat
  /\ NoSym \notin Nat

ASSUME SizesAssumption == Sizes

Init ==
  /\ symtab \in UNION {[1..n -> Name] : n \in 0..MaxSyms}
  /\ symtab_sz = EntSize * Len(symtab)
  /\ symname \in Name
  /\ net_iter = 0 /\ i = 0
  /\ pc = "loop"
  /\ targ = NoSym

InTable == i < Len(symtab)

\* The loop test fails.
LoopEnds ==
  /\ pc = "loop" /\ ~ (net_iter < symtab_sz)
  /\ pc' = "done"
  /\ UNCHANGED <<input, net_iter, i, targ>>

\* strcmp says the names are equal: result = 0 and break.
Hit ==
  /\ pc = "loop" /\ net_iter < symtab_sz
  /\ InTable => symtab[i + 1] = symname
  /\ targ' = i
  /\ pc' = "done"
  /\ UNCHANGED <<input, net_iter, i>>

\* Mutant: i is advanced by the body and by the third clause.
MissSkips ==
  /\ pc = "loop" /\ net_iter < symtab_sz
  /\ InTable => symtab[i + 1] # symname
  /\ i < Len(symtab) + MaxPast - 1
  /\ i' = i + 2
  /\ UNCHANGED <<input, net_iter, pc, targ>>

\* Mutant: i is not advanced either.
MissStays ==
  /\ pc = "loop" /\ net_iter < symtab_sz
  /\ InTable => symtab[i + 1] # symname
  /\ UNCHANGED vars

\* The names differ: i++ and the third clause of the for, which does nothing.
Miss ==
  /\ pc = "loop" /\ net_iter < symtab_sz
  /\ InTable => symtab[i + 1] # symname
  /\ i < Len(symtab) + MaxPast
  /\ i' = i + 1
  /\ UNCHANGED <<input, net_iter, pc, targ>>

\* The read of an entry past the table, or of its name, hits no memory.
Fault ==
  /\ pc = "loop" /\ net_iter < symtab_sz /\ ~ InTable
  /\ pc' = "fault"
  /\ UNCHANGED <<input, net_iter, i, targ>>

Next == LoopEnds \/ Hit \/ Miss \/ Fault

Spec == Init /\ [][Next]_vars

\* The call keeps executing.
FairSpec == Spec /\ WF_vars(Next)

-------------------------------------------------------------------------------
TypeOK ==
  /\ symtab \in Seq(Name) /\ symname \in Name
  /\ symtab_sz \in Nat /\ net_iter \in Nat
  /\ i \in 0..(Len(symtab) + MaxPast)
  /\ pc \in {"loop", "done", "fault"}
  /\ targ \in Nat \cup {NoSym}

\* The entries of .symtab that hold the name.
Wanted == {k \in 0..(Len(symtab) - 1) : symtab[k + 1] = symname}

(***************************************************************************)
(* A name that .symtab holds is found, at its first entry, and the search  *)
(* never reads past that entry: what follows the table cannot matter.      *)
(***************************************************************************)
FirstMatch ==
  Wanted # {} =>
    /\ \A k \in Wanted : i <= k
    /\ pc # "fault"
    /\ pc = "done" => targ \in Wanted

\* A search for a name that .symtab holds returns.
PresentFound == (Wanted # {}) ~> (pc = "done" /\ targ \in Wanted)

(***************************************************************************)
(* The bound the for statement states, "net_iter < symtab_sz": no entry    *)
(* is compared that starts at or after the end of the table.  The code     *)
(* does not keep it, see PROJECT.json findings.                            *)
(***************************************************************************)
ReadsInsideSymtab == pc = "loop" /\ net_iter < symtab_sz => EntSize * i < symtab_sz
================================================================================
