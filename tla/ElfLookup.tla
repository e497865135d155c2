------------------------------- MODULE ElfLookup -------------------------------
(***************************************************************************)
(* elf_lookup (localUtil_linux.c): the lookup of a name in a DT_HASH       *)
(* table, one action per iteration of the walk along the bucket's list.    *)
(*                                                                         *)
(* A table t is what a link editor wrote into the image:                   *)
(*   t.sym      the name of each symbol table entry; entry 0 is STN_UNDEF  *)
(*   t.hash     elf_hash of each name                                      *)
(*   t.nbucket, t.bucket, t.chain   hashtab[0] and the two arrays          *)
(*   t.pos      where an entry stands in the list of its bucket; it is not *)
(*              in the file, it says that the lists are lists              *)
(***************************************************************************)
EXTENDS Naturals

CONSTANTS
  Name,           \* symbol names
  Tables,         \* the hash tables considered
  Pending, NoSym  \* see NameLookup

VARIABLES
  tab,   \* the table searched
  name,  \* symname
  pc,    \* "start", "loop" or "done"
  i,     \* the C local of that name
  ret    \* the index of the symbol returned, NoSym for NULL

vars == <<tab, name, pc, i, ret>>

\* The entries a table covers: all but STN_UNDEF.
Hashed(t) == 1 .. (t.nsyms - 1)

BucketOf(t, k) == t.hash[t.sym[k]] % t.nbucket

\* The DT_HASH format: one list per bucket, of all the entries it selects.
ElfTable(t) ==
  /\ t.nsyms \in Nat \ {0} /\ t.nbucket \in Nat \ {0}
  /\ t.sym \in [0..(t.nsyms - 1) -> Name]
  /\ t.hash \in [Name -> Nat]
  /\ t.pos \in [Hashed(t) -> Nat]
  /\ t.bucket \in [0..(t.nbucket - 1) -> 0..(t.nsyms - 1)]
  /\ \A k \in Hashed(t) :
       /\ t.bucket[BucketOf(t, k)] # 0
       /\ t.chain[k] \in 0..(t.nsyms - 1)
       /\ t.chain[k] # 0 => /\ BucketOf(t, t.chain[k]) = BucketOf(t, k)
                            /\ t.pos[t.chain[k]] = t.pos[k] + 1
       /\ \A j \in Hashed(t) : BucketOf(t, j) = BucketOf(t, k) =>
            /\ t.pos[j] = t.pos[k] => j = k
            /\ t.chain[k] = 0 => t.pos[j] <= t.pos[k]
  /\ \A b \in 0..(t.nbucket - 1) : t.bucket[b] # 0 =>
       BucketOf(t, t.bucket[b]) = b /\ t.pos[t.bucket[b]] = 0

ASSUME TablesAssumption == \A t \in Tables : ElfTable(t)
ASSUME SentinelAssumption == Pending # NoSym /\ Pending \notin Nat /\ NoSym \notin Nat

-------------------------------------------------------------------------------
hash == tab.hash[name]

Init ==
  /\ tab \in Tables
  /\ name \in Name
  /\ pc = "start"
  /\ i = 0
  /\ ret = NoSym

\* i = bucket[hash % nbucket]
Start ==
  /\ pc = "start"
  /\ i' = tab.bucket[hash % tab.nbucket]
  /\ pc' = "loop"
  /\ UNCHANGED <<tab, name, ret>>

\* Mutant: equal hashes are taken for equal names.
MatchHashes == hash = tab.hash[tab.sym[i]]

Match == name = tab.sym[i]

Found ==
  /\ pc = "loop" /\ i # 0 /\ Match
  /\ ret' = i
  /\ pc' = "done"
  /\ UNCHANGED <<tab, name, i>>

\* Mutant: the body of the loop follows the list, and its third clause again.
FollowTwice ==
  /\ pc = "loop" /\ i # 0 /\ ~ Match
  /\ i' = tab.chain[tab.chain[i]]
  /\ UNCHANGED <<tab, name, pc, ret>>

\* Mutant: the loop reads the head of the bucket again.
FollowRestarts ==
  /\ pc = "loop" /\ i # 0 /\ ~ Match
  /\ i' = tab.bucket[hash % tab.nbucket]
  /\ UNCHANGED <<tab, name, pc, ret>>

Follow ==
  /\ pc = "loop" /\ i # 0 /\ ~ Match
  /\ i' = tab.chain[i]
  /\ UNCHANGED <<tab, name, pc, ret>>

\* i is 0: the list ends and the function returns NULL.
EndOfList ==
  /\ pc = "loop" /\ i = 0
  /\ pc' = "done"
  /\ UNCHANGED <<tab, name, i, ret>>

Next == Start \/ Found \/ Follow \/ EndOfList

Spec == Init /\ [][Next]_vars

\* The function runs to its return once it is called.
FairSpec == Spec /\ WF_vars(Next)

-------------------------------------------------------------------------------
TypeOK ==
  /\ ElfTable(tab)
  /\ name \in Name
  /\ pc \in {"start", "loop", "done"}
  /\ i \in 0..(tab.nsyms - 1)
  /\ ret \in Nat \cup {NoSym}

\* The entries of the table that hold the name.
Wanted == {k \in Hashed(tab) : tab.sym[k] = name}

(***************************************************************************)
(* The walk is in the list of the name's own bucket and has passed no      *)
(* entry that holds the name; at the end of the list there is none.        *)
(***************************************************************************)
ListInv ==
  pc = "loop" =>
    IF i = 0 THEN Wanted = {}
             ELSE /\ BucketOf(tab, i) = hash % tab.nbucket
                  /\ \A k \in Wanted : tab.pos[i] <= tab.pos[k]

(***************************************************************************)
(* elf_lookup does what a lookup promises: it answers with an entry that   *)
(* holds the name, and with NULL only when no entry of the table does.     *)
(***************************************************************************)
Lookup == INSTANCE NameLookup WITH
            wanted <- Wanted,
            answer <- IF pc = "done" THEN ret ELSE Pending

LookupSpec == Lookup!Spec

\* Every list ends: the loop "for (...; i; i = chain[i])" is left.
Termination == <>(pc = "done")
================================================================================
