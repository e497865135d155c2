---------------------------- MODULE ElfLookupProofs ----------------------------
(***************************************************************************)
(* Proofs about elf_lookup for every table of the DT_HASH format: an entry *)
(* is never passed that holds the name, since the list visits the entries  *)
(* of the bucket in the order of their positions, which are distinct; the  *)
(* last one has the greatest position.                                     *)
(***************************************************************************)
EXTENDS ElfLookup, TLAPS

USE SentinelAssumption

(***************************************************************************)
(* What the function has established when it returns.                      *)
(***************************************************************************)
RetInv ==
  /\ pc = "done" /\ ret # NoSym => ret \in Wanted
  /\ pc = "done" /\ ret = NoSym => Wanted = {}
  /\ pc # "done" => ret = NoSym

IInv == TypeOK /\ ListInv /\ RetInv

-------------------------------------------------------------------------------
LEMMA BucketInRange ==
  ASSUME NEW t, ElfTable(t), NEW n \in Name
  PROVE  t.hash[n] % t.nbucket \in 0..(t.nbucket - 1)
BY DEF ElfTable

(***************************************************************************)
(* Every entry that holds the name is in the list of the name's bucket.    *)
(***************************************************************************)
LEMMA WantedInBucket ==
  ASSUME ElfTable(tab), NEW k \in Wanted
  PROVE  k \in Hashed(tab) /\ BucketOf(tab, k) = hash % tab.nbucket /\ tab.pos[k] \in Nat
BY DEF Wanted, BucketOf, hash, ElfTable

LEMMA InitOK == Init => IInv
BY TablesAssumption DEF Init, IInv, TypeOK, ListInv, RetInv, ElfTable

LEMMA StartOK == IInv /\ Start => IInv'
<1> SUFFICES ASSUME IInv, Start
             PROVE  IInv'
  OBVIOUS
<1> DEFINE b == hash % tab.nbucket
<1>1. /\ ElfTable(tab) /\ name \in Name /\ ret = NoSym
      /\ UNCHANGED <<tab, name, ret>> /\ i' = tab.bucket[b] /\ pc' = "loop"
  BY DEF IInv, TypeOK, RetInv, Start
<1>2. b \in 0..(tab.nbucket - 1)
  BY <1>1, BucketInRange DEF hash
<1>3. TypeOK'
  BY <1>1, <1>2 DEF TypeOK, ElfTable
<1>4. CASE i' = 0
  <2>1. Wanted = {}
    BY <1>1, <1>4, WantedInBucket DEF ElfTable
  <2>2. QED
    BY <1>1, <1>3, <1>4, <2>1 DEF IInv, ListInv, RetInv, Wanted
<1>5. CASE i' # 0
  <2>1. BucketOf(tab, i') = b /\ tab.pos[i'] = 0
    BY <1>1, <1>2, <1>5 DEF ElfTable
  <2>2. \A k \in Wanted : tab.pos[i'] <= tab.pos[k]
    BY <1>1, <2>1, WantedInBucket
  <2>3. QED
    BY <1>1, <1>3, <1>5, <2>1, <2>2 DEF IInv, ListInv, RetInv, Wanted, hash
<1>6. QED
  BY <1>4, <1>5

LEMMA FoundOK == IInv /\ Found => IInv'
<1> SUFFICES ASSUME IInv, Found
             PROVE  IInv'
  OBVIOUS
<1>1. i \in Wanted
  BY DEF IInv, TypeOK, Found, Match, Wanted, Hashed, ElfTable
<1>2. i \in Nat
  BY DEF IInv, TypeOK, ElfTable
<1>3. QED
  BY <1>1, <1>2 DEF IInv, TypeOK, ListInv, RetInv, Found, Wanted

LEMMA FollowOK == IInv /\ Follow => IInv'
<1> SUFFICES ASSUME IInv, Follow
             PROVE  IInv'
  OBVIOUS
<1>1. /\ ElfTable(tab) /\ i \in Hashed(tab) /\ pc = "loop" /\ i # 0
      /\ BucketOf(tab, i) = hash % tab.nbucket
      /\ \A k \in Wanted : tab.pos[i] <= tab.pos[k]
      /\ i \notin Wanted /\ i' = tab.chain[i] /\ UNCHANGED <<tab, name, pc, ret>>
  BY DEF IInv, TypeOK, ListInv, Follow, Match, Wanted, Hashed, ElfTable
<1>2. i' \in 0..(tab.nsyms - 1)
  BY <1>1 DEF ElfTable
<1>3. TypeOK'
  BY <1>1, <1>2 DEF IInv, TypeOK
<1>4. \A k \in Wanted : tab.pos[k] # tab.pos[i]
  BY <1>1, WantedInBucket DEF ElfTable
<1>5. tab.pos[i] \in Nat
  BY <1>1 DEF ElfTable
<1>6. \A k \in Wanted : tab.pos[i] + 1 <= tab.pos[k]
  BY <1>1, <1>4, <1>5, WantedInBucket
<1>7. CASE i' = 0
  <2>1. \A k \in Wanted : tab.pos[k] <= tab.pos[i]
    BY <1>1, <1>7, WantedInBucket DEF ElfTable
  <2>2. Wanted = {}
    BY <1>1, <1>5, <1>6, <2>1, WantedInBucket
  <2>3. QED
    BY <1>1, <1>3, <1>7, <2>2 DEF IInv, ListInv, RetInv, Wanted
<1>8. CASE i' # 0
  <2>1. BucketOf(tab, i') = BucketOf(tab, i) /\ tab.pos[i'] = tab.pos[i] + 1
    BY <1>1, <1>8 DEF ElfTable
  <2>2. QED
    BY <1>1, <1>3, <1>6, <1>8, <2>1 DEF IInv, ListInv, RetInv, Wanted, hash
<1>9. QED
  BY <1>7, <1>8

LEMMA EndOfListOK == IInv /\ EndOfList => IInv'
BY DEF IInv, TypeOK, ListInv, RetInv, EndOfList, Wanted

LEMMA StepOK == IInv /\ [Next]_vars => IInv'
<1>1. IInv /\ UNCHANGED vars => IInv'
  BY DEF vars, IInv, TypeOK, ListInv, RetInv, Wanted, hash
<1>2. QED
  BY <1>1, StartOK, FoundOK, FollowOK, EndOfListOK DEF Next

LEMMA Invariance == Spec => []IInv
BY InitOK, StepOK, PTL DEF Spec

(***************************************************************************)
(* The walk of elf_lookup stays in its bucket and passes no match.         *)
(***************************************************************************)
THEOREM ListWalkSafe == Spec => [](TypeOK /\ ListInv)
BY Invariance, PTL DEF IInv

(***************************************************************************)
(* elf_lookup implements the lookup specification: it answers once, with   *)
(* an entry that holds the name, and with NoSym only when none does.       *)
(***************************************************************************)
THEOREM ElfLookupImplements == Spec => LookupSpec
<1>1. Init => Lookup!Init
  BY TablesAssumption DEF Init, Lookup!Init, Wanted, Hashed, ElfTable
<1>2. IInv' /\ [Next]_vars => [Lookup!Next]_(Lookup!vars)
  <2> SUFFICES ASSUME IInv', [Next]_vars
               PROVE  [Lookup!Next]_(Lookup!vars)
    OBVIOUS
  <2>1. CASE UNCHANGED vars
    BY <2>1 DEF vars, Lookup!vars, Wanted
  <2>2. CASE Next
    <3>1. pc # "done" /\ Wanted' = Wanted
      BY <2>2 DEF Next, Start, Found, Follow, EndOfList, Wanted
    <3>2. CASE pc' # "done"
      BY <3>1, <3>2 DEF Lookup!vars
    <3>3. CASE pc' = "done"
      <4>1. ret' \in Wanted \/ (Wanted = {} /\ ret' = NoSym)
        BY <3>1, <3>3 DEF IInv, RetInv
      <4>2. QED
        BY <3>1, <3>3, <4>1 DEF Lookup!Next, Lookup!Found, Lookup!Missing
    <3>4. QED
      BY <3>2, <3>3
  <2>3. QED
    BY <2>1, <2>2
<1>3. QED
  BY <1>1, <1>2, Invariance, PTL DEF Spec, LookupSpec, Lookup!Spec
================================================================================
