------------------------------- MODULE Kallsyms --------------------------------
(***************************************************************************)
(* gen_kallsymmap (localUtil_linux.cpp): reads /proc/kallsyms line by line *)
(* into a map from names to addresses, while modules come and go.          *)
(*                                                                         *)
(* A line has a name, an address and a width, the characters before its    *)
(* end.  The kernel's own symbols come first and stay; each module's come  *)
(* and go together.  The file is read by position: when lines before the   *)
(* position go, others take their place.  getline refuses a line that does *)
(* not fit the buffer, and everything after it.                            *)
(***************************************************************************)
EXTENDS Integers, Sequences

CONSTANTS
  Name,
  Kernels,    \* the lines of kernels considered
  Module,     \* modules that have symbols
  LinesOf,    \* their lines
  Buffer,     \* sizeof(linebuffer)
  MaxChanges  \* bound: times a module comes or goes during the call

VARIABLES
  kernel,
  rest,      \* the lines after the kernel's, each with the module it is of
  modules,   \* the modules loaded
  changes,   \* history: how often that changed
  stayed,    \* history: the modules loaded all the time since the open
  moved,     \* history: the modules before which one was unloaded
  root,      \* getuid() = 0
  opened,    \* proc_kallsyms is open
  pc, pos,
  symname,   \* kept from one line to the next
  out_mapgen,
  result

system == <<kernel, rest, modules, changes, stayed, moved, root>>
vars == <<system, opened, pc, pos, symname, out_mapgen, result>>

SymbolLine == [name : Name, addr : Nat, width : Nat]

LinesAssumption ==
  /\ Kernels \subseteq Seq(SymbolLine) /\ Buffer \in Nat
  /\ LinesOf \in [Module -> Seq(SymbolLine) \ {<<>>}]

\* The lines of a module, as they are in rest.
Block(m) == [n \in 1..Len(LinesOf[m]) |-> [of |-> m, line |-> LinesOf[m][n]]]

\* The file.
Length == Len(kernel) + Len(rest)

LineAt(p) == IF p <= Len(kernel) THEN kernel[p] ELSE rest[p - Len(kernel)].line

-------------------------------------------------------------------------------
Init ==
  /\ kernel \in Kernels /\ changes = 0 /\ root \in BOOLEAN
  /\ modules = {} /\ rest = <<>> /\ stayed = {} /\ moved = {}
  /\ opened = FALSE /\ pc = "getuid" /\ pos = 1 /\ symname = "" /\ out_mapgen = <<>>
  /\ result = -1

NotRoot ==
  /\ pc = "getuid" /\ ~ root
  /\ pc' = "done"
  /\ UNCHANGED <<system, opened, pos, symname, out_mapgen, result>>

\* open is not asked whether it failed: then there is no line to read.
Open ==
  /\ pc = "getuid" /\ root
  /\ opened' \in BOOLEAN /\ pc' = "getline"
  /\ UNCHANGED <<system, pos, symname, out_mapgen, result>>

\* Mutant: one character less.
Narrow(l) == l.width < Buffer - 1

Fits(l) == l.width < Buffer

\* Mutant: the map is written before the name is read.
OldName(l) == symname

Key(l) == l.name

Line ==
  /\ pc = "getline" /\ opened /\ pos <= Length /\ Fits(LineAt(pos))
  /\ symname' = LineAt(pos).name
  /\ out_mapgen' = [n \in DOMAIN out_mapgen \cup {Key(LineAt(pos))} |->
                      IF n = Key(LineAt(pos)) THEN LineAt(pos).addr ELSE out_mapgen[n]]
  /\ pos' = pos + 1
  /\ UNCHANGED <<system, opened, pc, result>>

\* The end of the file, a line too long, or no file: the loop ends.
NoLine ==
  /\ pc = "getline" /\ (opened /\ pos <= Length => ~ Fits(LineAt(pos)))
  /\ result' = 0 /\ pc' = "done"
  /\ UNCHANGED <<system, opened, pos, symname, out_mapgen>>

Step == NotRoot \/ Open \/ Line \/ NoLine

\* A module's lines come before all others or after.
Load(m) ==
  /\ m \notin modules /\ modules' = modules \cup {m}
  /\ rest' \in {Block(m) \o rest, rest \o Block(m)}
  /\ UNCHANGED moved

\* They go, and what is after them moves up.
Unload(m) ==
  /\ m \in modules /\ modules' = modules \ {m}
  /\ \E a, b \in DOMAIN rest :
       /\ {k \in DOMAIN rest : rest[k].of = m} = a..b
       /\ rest' = SubSeq(rest, 1, a - 1) \o SubSeq(rest, b + 1, Len(rest))
       /\ moved' = moved \cup {rest[k].of : k \in (b + 1)..Len(rest)}

\* What was loaded, in any order, before the file is opened.
Boot ==
  /\ pc = "getuid"
  /\ \E m \in Module : Load(m)
  /\ stayed' = modules'
  /\ UNCHANGED <<kernel, changes, root, opened, pc, pos, symname, out_mapgen, result>>

Change ==
  /\ pc = "getline" /\ changes < MaxChanges /\ changes' = changes + 1
  /\ \E m \in Module : Load(m) \/ Unload(m)
  /\ stayed' = stayed \cap modules'
  /\ UNCHANGED <<kernel, root, opened, pc, pos, symname, out_mapgen, result>>

Next == Step \/ Boot \/ Change

Spec == Init /\ [][Next]_vars

-------------------------------------------------------------------------------
Whole == pc = "done" /\ result = 0 /\ opened

(***************************************************************************)
(* The kernel's own symbols are all in the map when the call returns 0 and *)
(* could open the file, but for those at or after a line too long for the  *)
(* buffer, which ends the map without a word.                              *)
(***************************************************************************)
KernelComplete ==
  Whole =>
    \A n \in 1..Len(kernel) :
      (\A m \in 1..n : kernel[m].width < Buffer) => kernel[n].name \in DOMAIN out_mapgen

(***************************************************************************)
(* A module that is loaded all the time is in the map whatever is loaded   *)
(* meanwhile, before it or after: lines that move down are read twice,     *)
(* none is passed over.  Only one unloaded before it makes the reader skip *)
(* it.  Nothing of the file may be too long for the buffer.                *)
(***************************************************************************)
ModulesStay ==
  Whole /\ (\A p \in 1..Length : LineAt(p).width < Buffer) =>
    \A m \in stayed \ moved : \A n \in 1..Len(LinesOf[m]) : LinesOf[m][n].name \in DOMAIN out_mapgen
================================================================================
