------------------------------- MODULE Snapshots -------------------------------
(***************************************************************************)
(* The functions that read a list the system keeps while others change it: *)
(* of processes, modules and drivers (ListSnapshot), and of the lines of   *)
(* /proc/kallsyms (Kallsyms, here under the name Symbols).                 *)
(***************************************************************************)
EXTENDS ListSnapshot, Integers

CONSTANTS Kernels, Module, LinesOf, Symbol, Buffer

VARIABLES kernel, rest, modules, kallsymsChanges, stayed, moved, root, opened, kallsymsPc, pos, symname, out_mapgen, result

Symbols == INSTANCE Kallsyms WITH changes <- kallsymsChanges, pc <- kallsymsPc, Name <- Symbol

ASSUME SymbolsAssumption == Symbols!LinesAssumption

(***************************************************************************)
(* Kallsyms: the kernel's symbols are all in the map, up to a line that    *)
(* does not fit the buffer.                                                *)
(***************************************************************************)
KernelComplete == Symbols!KernelComplete

(***************************************************************************)
(* Kallsyms: a module that is loaded all the time is in the map, unless    *)
(* one before it is unloaded meanwhile.                                    *)
(***************************************************************************)
ModulesStay == Symbols!ModulesStay
================================================================================
