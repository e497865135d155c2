---------------------------- MODULE GnuLookupProofs ----------------------------
(***************************************************************************)
(* Proofs about gnu_lookup for every table of the DT_GNU_HASH format,      *)
(* whatever its size, its hash function and the width of a filter word.    *)
(*                                                                         *)
(* The argument: ChainInv says the walk is inside the name's own bucket    *)
(* and has passed no entry that holds the name.  It is inductive with      *)
(* TypeOK and RetInv, which says what a returned answer means.             *)
(***************************************************************************)
EXTENDS GnuLookup, TLAPS

USE BitsAssumption, SentinelAssumption

(***************************************************************************)
(* What the function has established when it returns: the entry it answers *)
(* holds the name, and NoSym is answered only when no entry does.          *)
(***************************************************************************)
RetInv ==
  /\ pc = "done" /\ ret # NoSym => ret \in Wanted
  /\ pc = "done" /\ ret = NoSym => Wanted = {}
  /\ pc # "done" => ret = NoSym

IInv == TypeOK /\ ChainInv /\ RetInv

-------------------------------------------------------------------------------
(***************************************************************************)
(* The filter of a table has no false negative: a name some entry holds    *)
(* passes the test "(word & mask) != mask".                                *)
(***************************************************************************)
LEMMA FilterComplete ==
  ASSUME NEW t, GnuTable(t), NEW i \in Hashed(t)
  PROVE  Mask(t, t.hash[t.sym[i]]) \subseteq Word(t, t.hash[t.sym[i]])
BY DEF GnuTable

(***************************************************************************)
(* A bucket holds every entry whose hash selects it: the bucket of a       *)
(* hashed entry starts at or before the entry, and is not empty.           *)
(***************************************************************************)
LEMMA BucketComplete ==
  ASSUME NEW t, GnuTable(t), NEW i \in Hashed(t)
  PROVE  /\ BucketOf(t, i) \in 0..(t.nbuckets - 1)
         /\ t.buckets[BucketOf(t, i)] \in t.symoffset .. i
         /\ \A j \in t.buckets[BucketOf(t, i)] .. i : BucketOf(t, j) = BucketOf(t, i)
<1>1. t.sym[i] \in Name
  BY DEF GnuTable, Hashed
<1>2. t.hash[t.sym[i]] \in Nat
  BY <1>1 DEF GnuTable
<1>3. BucketOf(t, i) \in 0..(t.nbuckets - 1)
  BY <1>2 DEF GnuTable, BucketOf, Bucket
<1>4. QED
  BY <1>3 DEF GnuTable

(***************************************************************************)
(* The end mark is sound: an entry without it has a successor in the same  *)
(* bucket, and no later entry of the table is in the bucket of an entry    *)
(* that has it.                                                            *)
(***************************************************************************)
LEMMA EndMark ==
  ASSUME NEW t, GnuTable(t), NEW i \in Hashed(t)
  PROVE  /\ t.chain[i - t.symoffset] % 2 # 1
              => i + 1 \in Hashed(t) /\ BucketOf(t, i + 1) = BucketOf(t, i)
         /\ t.chain[i - t.symoffset] % 2 = 1
              => \A j \in Hashed(t) : BucketOf(t, j) = BucketOf(t, i) => j <= i
<1>1. t.chain[i - t.symoffset] % 2 # 1
        => i + 1 \in Hashed(t) /\ BucketOf(t, i + 1) = BucketOf(t, i)
  BY DEF GnuTable
<1>2. ASSUME t.chain[i - t.symoffset] % 2 = 1,
             NEW j \in Hashed(t), BucketOf(t, j) = BucketOf(t, i), ~ (j <= i)
      PROVE  FALSE
  <2>1. i + 1 \notin Hashed(t) \/ BucketOf(t, i + 1) # BucketOf(t, i)
    BY <1>2 DEF GnuTable
  <2>2. t.symoffset \in Nat /\ t.nsyms \in Nat /\ i \in Nat /\ j \in Nat /\ i + 1 <= j
    BY <1>2 DEF GnuTable, Hashed
  <2>3. i + 1 \in Hashed(t)
    BY <2>2, j \in Hashed(t) DEF Hashed
  <2>4. t.buckets[BucketOf(t, j)] \in t.symoffset .. i
    BY <1>2, BucketComplete
  <2>5. i + 1 \in t.buckets[BucketOf(t, j)] .. j
    BY <2>2, <2>4
  <2>6. BucketOf(t, i + 1) = BucketOf(t, j)
    BY <1>2, <2>5, BucketComplete
  <2>7. QED
    BY <1>2, <2>1, <2>3, <2>6
<1>3. QED
  BY <1>1, <1>2

-------------------------------------------------------------------------------
LEMMA InitOK == Init => IInv
BY TablesAssumption DEF Init, IInv, TypeOK, ChainInv, RetInv

(***************************************************************************)
(* The three actions keep the inductive invariant.                         *)
(***************************************************************************)
LEMMA BloomTestOK == IInv /\ BloomTest => IInv'
<1> SUFFICES ASSUME IInv, BloomTest
             PROVE  IInv'
  OBVIOUS
<1>1. TypeOK' /\ ChainInv' /\ tab' = tab /\ name' = name
  BY DEF IInv, TypeOK, ChainInv, BloomTest, Return
<1>2. CASE pc' = "bucket"
  BY <1>1, <1>2 DEF IInv, RetInv, BloomTest, Return
<1>3. CASE ~ Mask(tab, namehash) \subseteq Word(tab, namehash) /\ Return(NoSym)
  <2>1. Wanted = {}
    BY <1>3, FilterComplete DEF Wanted, IInv, TypeOK, namehash
  <2>2. QED
    BY <1>1, <1>3, <2>1 DEF IInv, RetInv, Return, Wanted
<1>4. QED
  BY <1>2, <1>3 DEF BloomTest

LEMMA BucketTestOK == IInv /\ BucketTest => IInv'
<1> SUFFICES ASSUME IInv, BucketTest
             PROVE  IInv'
  OBVIOUS
<1> DEFINE first == tab.buckets[Bucket(tab, namehash)]
<1>1. /\ GnuTable(tab) /\ name \in Name /\ ret = NoSym
      /\ UNCHANGED <<tab, name, ret>> /\ symix' = first
      /\ pc' = IF first < tab.symoffset THEN "done" ELSE "chain"
  BY DEF IInv, TypeOK, RetInv, BucketTest
<1>2. Bucket(tab, namehash) \in 0..(tab.nbuckets - 1) /\ first \in Nat
  BY <1>1 DEF GnuTable, Bucket, namehash
<1>3. \A i \in Wanted : i \in Hashed(tab) /\ BucketOf(tab, i) = Bucket(tab, namehash)
  BY DEF Wanted, BucketOf, namehash
<1>4. \A i \in Wanted : first \in tab.symoffset .. i
  BY <1>1, <1>3, BucketComplete
<1>5. TypeOK'
  BY <1>1, <1>2 DEF TypeOK
<1>6. CASE first < tab.symoffset
  <2>1. Wanted = {}
    BY <1>1, <1>2, <1>4, <1>6 DEF GnuTable
  <2>2. QED
    BY <1>1, <1>5, <1>6, <2>1 DEF IInv, ChainInv, RetInv, Wanted
<1>7. CASE ~ (first < tab.symoffset)
  <2>1. first # 0
    BY <1>1, <1>2, <1>7 DEF GnuTable
  <2>2. first \in Hashed(tab) /\ BucketOf(tab, first) = Bucket(tab, namehash)
    BY <1>1, <1>2, <2>1 DEF GnuTable
  <2>3. \A i \in Wanted : first <= i
    BY <1>1, <1>2, <1>4 DEF GnuTable
  <2>4. ChainInv'
    BY <1>1, <2>2, <2>3 DEF ChainInv, Wanted, namehash
  <2>5. QED
    BY <1>1, <1>5, <1>7, <2>4 DEF IInv, RetInv
<1>8. QED
  BY <1>6, <1>7

LEMMA ChainStepOK == IInv /\ ChainStep => IInv'
<1> SUFFICES ASSUME IInv, ChainStep
             PROVE  IInv'
  OBVIOUS
<1> DEFINE hash == tab.chain[symix - tab.symoffset]
<1>1. /\ GnuTable(tab) /\ name \in Name /\ symix \in Nat /\ ret = NoSym
      /\ UNCHANGED <<tab, name>>
      /\ symix \in Hashed(tab) /\ BucketOf(tab, symix) = Bucket(tab, namehash)
      /\ \A i \in Wanted : symix <= i
  BY DEF IInv, TypeOK, ChainInv, RetInv, ChainStep
<1>2. \A i \in Wanted : i \in Hashed(tab) /\ i \in Nat /\ BucketOf(tab, i) = BucketOf(tab, symix)
  BY <1>1 DEF Wanted, BucketOf, namehash, Hashed, GnuTable
<1>3. ~ Match(hash) => symix \notin Wanted
  BY <1>1 DEF GnuTable, Match, Wanted, namehash
<1>4. CASE Match(hash) /\ Return(symix)
  BY <1>1, <1>4 DEF IInv, TypeOK, ChainInv, RetInv, Return, Match, Wanted
<1>5. CASE ~ Match(hash) /\ hash % 2 = 1 /\ Return(NoSym)
  <2>1. \A i \in Wanted : i <= symix
    BY <1>1, <1>2, <1>5, EndMark
  <2>2. Wanted = {}
    BY <1>1, <1>2, <1>3, <1>5, <2>1
  <2>3. QED
    BY <1>1, <1>5, <2>2 DEF IInv, TypeOK, ChainInv, RetInv, Return, Wanted
<1>6. CASE ~ Match(hash) /\ hash % 2 # 1 /\ symix' = symix + 1 /\ UNCHANGED <<pc, ret>>
  <2>1. symix + 1 \in Hashed(tab) /\ BucketOf(tab, symix + 1) = BucketOf(tab, symix)
    BY <1>1, <1>6, EndMark
  <2>2. \A i \in Wanted : symix + 1 <= i
    BY <1>1, <1>2, <1>3, <1>6
  <2>3. ChainInv'
    BY <1>1, <1>6, <2>1, <2>2 DEF ChainInv, Wanted, namehash
  <2>4. QED
    BY <1>1, <1>6, <2>3 DEF IInv, TypeOK, RetInv, ChainStep
<1>7. QED
  BY <1>4, <1>5, <1>6 DEF ChainStep

LEMMA StepOK == IInv /\ [Next]_vars => IInv'
<1> SUFFICES ASSUME IInv, [Next]_vars
             PROVE  IInv'
  OBVIOUS
<1>1. CASE UNCHANGED vars
  BY <1>1 DEF vars, IInv, TypeOK, ChainInv, RetInv, Wanted, namehash
<1>2. QED
  BY <1>1, BloomTestOK, BucketTestOK, ChainStepOK DEF Next

LEMMA Invariance == Spec => []IInv
BY InitOK, StepOK, PTL DEF Spec

(***************************************************************************)
(* The chain walk of gnu_lookup stays in the bucket of the name and inside *)
(* the tables, for every table of the format.                              *)
(***************************************************************************)
THEOREM ChainWalkSafe == Spec => [](TypeOK /\ ChainInv)
BY Invariance, PTL DEF IInv

(***************************************************************************)
(* gnu_lookup implements the lookup specification: it answers once, with   *)
(* an entry that holds the name, and with NoSym only when none does.       *)
(***************************************************************************)
THEOREM GnuLookupImplements == Spec => LookupSpec
<1>1. Init => Lookup!Init
  BY TablesAssumption DEF Init, Lookup!Init, Wanted, Hashed, GnuTable
<1>2. IInv /\ IInv' /\ [Next]_vars => [Lookup!Next]_(Lookup!vars)
  <2> SUFFICES ASSUME IInv, IInv', [Next]_vars
               PROVE  [Lookup!Next]_(Lookup!vars)
    OBVIOUS
  <2>1. CASE UNCHANGED vars
    BY <2>1 DEF vars, Lookup!vars, Wanted
  <2>2. CASE Next
    <3>1. pc # "done" /\ UNCHANGED <<tab, name>>
      BY <2>2 DEF Next, BloomTest, BucketTest, ChainStep
    <3>2. Wanted' = Wanted
      BY <3>1 DEF Wanted
    <3>3. CASE pc' # "done"
      BY <3>1, <3>2, <3>3 DEF Lookup!vars
    <3>4. CASE pc' = "done"
      <4>1. ret' \in Wanted \/ (Wanted = {} /\ ret' = NoSym)
        BY <3>2, <3>4 DEF IInv, RetInv
      <4>2. QED
        BY <3>1, <3>2, <3>4, <4>1 DEF Lookup!Next, Lookup!Found, Lookup!Missing
    <3>5. QED
      BY <3>3, <3>4
  <2>3. QED
    BY <2>1, <2>2
<1>3. QED
  BY <1>1, <1>2, Invariance, PTL DEF Spec, LookupSpec, Lookup!Spec
================================================================================
