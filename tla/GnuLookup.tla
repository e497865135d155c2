------------------------------- MODULE GnuLookup -------------------------------
(***************************************************************************)
(* gnu_lookup (localUtil_linux.c): the lookup of a name in a DT_GNU_HASH   *)
(* table, one action per test or loop iteration of the C function.         *)
(*                                                                         *)
(* A table t is what a link editor wrote into the image:                   *)
(*   t.sym          the name of each symbol table entry, from index 0      *)
(*   t.hash         gnu_hash of each name                                  *)
(*   t.symoffset    the first entry the hash table covers                  *)
(*   t.nbuckets, t.bloom_size, t.bloom_shift   the header                  *)
(*   t.bloom        the filter: each word is the set of its bits that are 1*)
(*   t.buckets      first entry of each bucket, 0 when it is empty         *)
(*   t.chain        hashes, the lowest bit replaced by an end mark         *)
(* A word of the filter is modelled by its set of one bits, so the test    *)
(* (word & mask) != mask is a test of set inclusion.                       *)
(***************************************************************************)
EXTENDS Naturals

CONSTANTS
  Name,           \* symbol names
  Tables,         \* the hash tables considered
  ELFCLASS_BITS,  \* bits of one word of the bloom filter
  Pending, NoSym  \* see NameLookup

VARIABLES
  tab,    \* the table searched
  name,   \* the name searched for
  pc,     \* the test of the function that comes next
  symix,  \* the C local of that name
  ret     \* the index of the symbol returned, NoSym for NULL

vars == <<tab, name, pc, symix, ret>>

Mask(t, h) == {h % ELFCLASS_BITS, (h \div 2^t.bloom_shift) % ELFCLASS_BITS}

Word(t, h) == t.bloom[(h \div ELFCLASS_BITS) % t.bloom_size]

Bucket(t, h) == h % t.nbuckets

\* The entries a table covers.
Hashed(t) == t.symoffset .. (t.nsyms - 1)

BucketOf(t, i) == Bucket(t, t.hash[t.sym[i]])

\* The DT_GNU_HASH format, as link editors write it.
GnuTable(t) ==
  /\ t.nsyms \in Nat \ {0} /\ t.symoffset \in Nat \ {0}
  /\ t.nbuckets \in Nat \ {0} /\ t.bloom_size \in Nat \ {0}
  /\ t.bloom_shift \in Nat
  /\ t.sym \in [0..(t.nsyms - 1) -> Name]
  /\ t.hash \in [Name -> Nat]
  /\ t.buckets \in [0..(t.nbuckets - 1) -> Nat]
  /\ \A b \in 0..(t.nbuckets - 1) :
       t.buckets[b] = 0 \/ (t.buckets[b] \in Hashed(t) /\ BucketOf(t, t.buckets[b]) = b)
  /\ \A i \in Hashed(t) :
       /\ Mask(t, t.hash[t.sym[i]]) \subseteq Word(t, t.hash[t.sym[i]])
       /\ t.buckets[BucketOf(t, i)] \in t.symoffset .. i
       /\ \A j \in t.buckets[BucketOf(t, i)] .. i : BucketOf(t, j) = BucketOf(t, i)
       /\ t.chain[i - t.symoffset] \in Nat
       /\ t.chain[i - t.symoffset] \div 2 = t.hash[t.sym[i]] \div 2
       /\ t.chain[i - t.symoffset] % 2 = 1
            <=> (i + 1 \notin Hashed(t) \/ BucketOf(t, i + 1) # BucketOf(t, i))

ASSUME BitsAssumption == ELFCLASS_BITS \in Nat \ {0}
ASSUME TablesAssumption == \A t \in Tables : GnuTable(t)
ASSUME SentinelAssumption == Pending # NoSym /\ Pending \notin Nat /\ NoSym \notin Nat

-------------------------------------------------------------------------------
namehash == tab.hash[name]

Init ==
  /\ tab \in Tables
  /\ name \in Name
  /\ pc = "bloom"
  /\ symix = 0
  /\ ret = NoSym

Return(r) ==
  /\ ret' = r
  /\ pc' = "done"
  /\ UNCHANGED symix

\* The bloom filter: one missing bit and the function returns NULL.
BloomTest ==
  /\ pc = "bloom"
  /\ \/ /\ ~ Mask(tab, namehash) \subseteq Word(tab, namehash)
        /\ Return(NoSym)
     \/ /\ Mask(tab, namehash) \subseteq Word(tab, namehash)
        /\ pc' = "bucket"
        /\ UNCHANGED <<symix, ret>>
  /\ UNCHANGED <<tab, name>>

\* Mutant: the empty bucket is not recognised.
BucketUnchecked ==
  /\ pc = "bucket"
  /\ symix' = tab.buckets[Bucket(tab, namehash)]
  /\ pc' = "chain"
  /\ UNCHANGED <<tab, name, ret>>

\* The first entry of the bucket; 0, below symoffset, when it is empty.
BucketTest ==
  LET first == tab.buckets[Bucket(tab, namehash)]
  IN  /\ pc = "bucket"
      /\ symix' = first
      /\ pc' = IF first < tab.symoffset THEN "done" ELSE "chain"
      /\ UNCHANGED <<tab, name, ret>>

\* Mutant: equal hashes are taken for equal names, there is no strcmp.
MatchHashes(hash) == namehash \div 2 = hash \div 2

\* (namehash | 1) == (hash | 1) and the names are equal.
Match(hash) ==
  /\ namehash \div 2 = hash \div 2
  /\ name = tab.sym[symix]

\* Mutant: the loop forgets symix++.
ChainStays ==
  LET hash == tab.chain[symix - tab.symoffset]
  IN  /\ pc = "chain"
      /\ \/ Match(hash) /\ Return(symix)
         \/ ~ Match(hash) /\ hash % 2 = 1 /\ Return(NoSym)
         \/ ~ Match(hash) /\ hash % 2 # 1 /\ UNCHANGED <<symix, pc, ret>>
      /\ UNCHANGED <<tab, name>>

\* One iteration of the loop through the chain.
ChainStep ==
  LET hash == tab.chain[symix - tab.symoffset]
  IN  /\ pc = "chain"
      /\ \/ Match(hash) /\ Return(symix)
         \/ ~ Match(hash) /\ hash % 2 = 1 /\ Return(NoSym)
         \/ /\ ~ Match(hash)
            /\ hash % 2 # 1
            /\ symix' = symix + 1
            /\ UNCHANGED <<pc, ret>>
      /\ UNCHANGED <<tab, name>>

Next == BloomTest \/ BucketTest \/ ChainStep

Spec == Init /\ [][Next]_vars

\* The function runs to its return once it is called.
FairSpec == Spec /\ WF_vars(Next)

-------------------------------------------------------------------------------
TypeOK ==
  /\ GnuTable(tab)
  /\ name \in Name
  /\ pc \in {"bloom", "bucket", "chain", "done"}
  /\ symix \in Nat
  /\ ret \in Nat \cup {NoSym}

\* The entries of the table that hold the name.
Wanted == {i \in Hashed(tab) : tab.sym[i] = name}

(***************************************************************************)
(* While the chain is walked, symix is an entry of the table in the name's *)
(* own bucket (so neither chain[symix - symoffset] nor symtab[symix] is    *)
(* read outside its array, and the walk never strays into the next         *)
(* bucket), and no entry passed on the way held the name.                  *)
(***************************************************************************)
ChainInv ==
  pc = "chain" =>
    /\ symix \in Hashed(tab)
    /\ BucketOf(tab, symix) = Bucket(tab, namehash)
    /\ \A i \in Wanted : symix <= i

(***************************************************************************)
(* gnu_lookup does what a lookup promises: the filter, the bucket and the  *)
(* end mark never hide a symbol that is there.                             *)
(***************************************************************************)
Lookup == INSTANCE NameLookup WITH
            wanted <- Wanted,
            answer <- IF pc = "done" THEN ret ELSE Pending

LookupSpec == Lookup!Spec

\* The loop "while (1)" ends: the call returns.
Termination == <>(pc = "done")
================================================================================
