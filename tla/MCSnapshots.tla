------------------------------ MODULE MCSnapshots ------------------------------
(***************************************************************************)
(* One call of a function of Snapshots.  The part that is not called stays *)
(* as it is.                                                               *)
(***************************************************************************)
EXTENDS Snapshots

VARIABLE called

kallsymsVars ==
  <<kernel, rest, modules, kallsymsChanges, stayed, moved, root, opened, kallsymsPc, pos, symname, out_mapgen, result>>

\* Kernels of up to three lines, each as wide as the buffer or just fitting,
\* and two modules, one of which shares a name with the kernel.
MCKernels == UNION {[1..n -> [name : {"a", "b"}, addr : {1, 2}, width : {3, 4}]] : n \in 1..3}

MCLinesOf ==
  [m \in Module |->
     IF m = "m1" THEN <<[name |-> "a", addr |-> 7, width |-> 1], [name |-> "c", addr |-> 8, width |-> 1]>>
     ELSE <<[name |-> "d", addr |-> 9, width |-> 1]>>]

ListIdle ==
  /\ fn = "isDriverLoaded" /\ target = Null /\ system = <<>> /\ changes = 0
  /\ pc = "idle" /\ list = <<>> /\ names = <<>> /\ count = 0 /\ i = 1 /\ curName = Null
  /\ held = {} /\ answer = Null /\ failed = FALSE /\ stable = {} /\ ever = {}

KallsymsIdle ==
  /\ kernel = <<>> /\ rest = <<>> /\ modules = {} /\ kallsymsChanges = 0 /\ stayed = {} /\ moved = {}
  /\ root = FALSE /\ opened = FALSE /\ kallsymsPc = "idle" /\ pos = 1 /\ symname = "" /\ out_mapgen = <<>>
  /\ result = -1

MCInit ==
  \/ called = "list" /\ Init /\ KallsymsIdle
  \/ called = "kallsyms" /\ ListIdle /\ Symbols!Init

MCNext ==
  \/ called = "list" /\ Next /\ UNCHANGED <<called, kallsymsVars>>
  \/ called = "kallsyms" /\ Symbols!Next /\ UNCHANGED <<called, vars>>

MCSpec == MCInit /\ [][MCNext]_<<called, vars, kallsymsVars>>
================================================================================
