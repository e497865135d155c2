---------------------------- MODULE SnapshotsProofs ----------------------------
(***************************************************************************)
(* Proofs about the functions of Snapshots, for lists of every length and  *)
(* every number of changes by others.                                      *)
(***************************************************************************)
EXTENDS Snapshots, SequenceTheorems, TLAPS

-------------------------------------------------------------------------------
(***************************************************************************)
(* The elements of two sequences, one after the other, and of a sequence   *)
(* from which a range is removed.                                          *)
(***************************************************************************)
LEMMA Joined ==
  ASSUME NEW S, NEW l \in Seq(S), NEW r \in Seq(S)
  PROVE  /\ l \o r \in Seq(S) /\ Len(l \o r) = Len(l) + Len(r)
         /\ \A k \in 1..Len(l) : (l \o r)[k] = l[k]
         /\ \A k \in 1..Len(r) : (l \o r)[Len(l) + k] = r[k]
OBVIOUS

LEMMA CutIndex ==
  ASSUME NEW n \in Nat, NEW a \in 1..n, NEW b \in 1..n, a <= b + 1
  PROVE  /\ (a - 1) + (n - b) = n - (b + 1 - a)
         /\ \A k \in 1..(n - (b + 1 - a)) :
              \/ k < a /\ k \in 1..(a - 1)
              \/ ~ (k < a) /\ k - (a - 1) \in 1..(n - b) /\ (a - 1) + (k - (a - 1)) = k
                   /\ b + (k - (a - 1)) = k + (b + 1 - a)
OBVIOUS

LEMMA Parts ==
  ASSUME NEW S, NEW s \in Seq(S), NEW a \in 1..Len(s), NEW b \in 1..Len(s)
  PROVE  /\ SubSeq(s, 1, a - 1) \in Seq(S) /\ Len(SubSeq(s, 1, a - 1)) = a - 1
         /\ \A k \in 1..(a - 1) : SubSeq(s, 1, a - 1)[k] = s[k]
         /\ SubSeq(s, b + 1, Len(s)) \in Seq(S) /\ Len(SubSeq(s, b + 1, Len(s))) = Len(s) - b
         /\ \A k \in 1..(Len(s) - b) : SubSeq(s, b + 1, Len(s))[k] = s[b + k]
OBVIOUS

Without(s, a, b) == SubSeq(s, 1, a - 1) \o SubSeq(s, b + 1, Len(s))

LEMMA Cut ==
  ASSUME NEW S, NEW s \in Seq(S), NEW a \in 1..Len(s), NEW b \in 1..Len(s), a <= b + 1
  PROVE  /\ Without(s, a, b) \in Seq(S)
         /\ Len(Without(s, a, b)) = Len(s) - (b + 1 - a)
         /\ \A k \in 1..Len(Without(s, a, b)) :
              Without(s, a, b)[k] = IF k < a THEN s[k] ELSE s[k + (b + 1 - a)]
<1> DEFINE P(t) ==
             /\ t \in Seq(S)
             /\ Len(t) = Len(s) - (b + 1 - a)
             /\ \A k \in 1..Len(t) : t[k] = IF k < a THEN s[k] ELSE s[k + (b + 1 - a)]
           Q(l, r) ==
             /\ Len(l) = a - 1 /\ \A k \in 1..(a - 1) : l[k] = s[k]
             /\ Len(r) = Len(s) - b /\ \A k \in 1..(Len(s) - b) : r[k] = s[b + k]
<1>1. ASSUME NEW l \in Seq(S), NEW r \in Seq(S) PROVE Q(l, r) => P(l \o r)
  <2> DEFINE t == l \o r
             n == Len(s)
             d == b + 1 - a
  <2>1. n \in Nat /\ a \in 1..n /\ b \in 1..n /\ a <= b + 1
    OBVIOUS
  <2>2. /\ t \in Seq(S) /\ Len(t) = Len(l) + Len(r)
        /\ \A k \in 1..Len(l) : t[k] = l[k]
        /\ \A k \in 1..Len(r) : t[Len(l) + k] = r[k]
    BY SMT
  <2> HIDE DEF t
  <2> HAVE Q(l, r)
  <2>3. /\ \A k \in 1..(a - 1) : t[k] = l[k]
        /\ \A k \in 1..(n - b) : t[(a - 1) + k] = r[k]
        /\ Len(t) = (a - 1) + (n - b) /\ (a - 1) + (n - b) = n - d
    BY <2>1, <2>2, CutIndex
  <2>4. ASSUME NEW k \in 1..(n - d) PROVE t[k] = IF k < a THEN s[k] ELSE s[k + d]
    <3> DEFINE j == k - (a - 1)
    <3>1. \/ k < a /\ k \in 1..(a - 1)
          \/ ~ (k < a) /\ j \in 1..(n - b) /\ (a - 1) + j = k /\ b + j = k + d
      BY <2>1, CutIndex
    <3>2. CASE k < a /\ k \in 1..(a - 1)
      BY <2>3, <3>2, Zenon
    <3>3. CASE ~ (k < a) /\ j \in 1..(n - b) /\ (a - 1) + j = k /\ b + j = k + d
      <4> HIDE DEF j, n, d
      <4>1. t[(a - 1) + j] = s[b + j]
        BY <2>3, <3>3, Zenon DEF n
      <4>2. QED
        BY <3>3, <4>1, Zenon
    <3>4. QED
      BY <3>1, <3>2, <3>3, Zenon
  <2>5. QED
    BY <2>2, <2>3, <2>4 DEF t
<1>2. LET l == SubSeq(s, 1, a - 1)
          r == SubSeq(s, b + 1, Len(s))
      IN  l \in Seq(S) /\ r \in Seq(S) /\ Q(l, r)
  BY Parts
<1> HIDE DEF P, Q
<1>3. P(SubSeq(s, 1, a - 1) \o SubSeq(s, b + 1, Len(s)))
  BY <1>1, <1>2, Zenon
<1>4. QED
  BY <1>3, Zenon DEF P, Without

(***************************************************************************)
(* ListSnapshot: what is known of the list the system keeps.               *)
(***************************************************************************)
ListOK(s) ==
  /\ s \in Seq(Element)
  /\ \A j, k \in 1..Len(s) : s[j].id = s[k].id => j = k
  /\ fn = "GetModuleBaseAddress" => s # <<>>

SystemInv ==
  /\ ListOK(system)
  /\ stable \subseteq Holders(system) /\ Holders(system) \subseteq ever

(***************************************************************************)
(* What is known of the call at each place.                                *)
(***************************************************************************)
PlaceInv ==
  /\ fn \in {"getpidbyname", "GetModuleBaseAddress", "isDriverLoaded"}
  /\ count \in Nat /\ i \in Nat \ {0} /\ failed \in BOOLEAN
  /\ pc \in {"size", "fetch", "alloc", "open", "modsize", "enum", "look", "info", "fail", "done", "undefined"}
  /\ pc \in {"size", "fetch", "alloc", "open", "modsize", "enum"} => i = 1
  /\ pc \in {"size", "fetch", "alloc", "open", "modsize", "enum", "look", "info"} => answer = Null
  /\ pc \in {"open", "modsize", "info"} => fn = "GetModuleBaseAddress"
  /\ pc \in {"enum", "undefined"} => fn = "isDriverLoaded"
  /\ pc = "done" => held = {}
  /\ pc = "undefined" => failed

(***************************************************************************)
(* The list fetched: what was in the system's list all the time is at or   *)
(* after the place looked at.                                              *)
(***************************************************************************)
PidInv ==
  fn = "getpidbyname" /\ pc = "look" =>
    /\ list \in [1..count -> Id]
    /\ \A k \in 1..count : names[k] = target => list[k] \in ever
    /\ \A id \in stable : \E k \in i..count : list[k] = id /\ names[k] = target

DrvInv ==
  fn = "isDriverLoaded" /\ pc = "look" =>
    failed \/ (count < ARRAY_SIZE /\ \A id \in stable : \E k \in i..count : list[k] = id)

(***************************************************************************)
(* Before the modules are fetched: those that stay are among the first     *)
(* count, since others come last.  After: the program itself comes first,  *)
(* and a name was read of every module passed.                             *)
(***************************************************************************)
ModInv ==
  fn = "GetModuleBaseAddress" =>
    /\ pc \in {"alloc", "fetch"} => count >= 1 /\ \A k \in 1..Len(system) : system[k].id \in stable => k <= count
    /\ pc \in {"look", "info"} => list \in [1..count -> Id \cup {Null}] /\ count >= 1 /\ list[1] = system[1].id
    /\ pc = "look" => /\ i > 1 => curName # target
                      /\ failed \/ \A id \in stable : \E k \in i..count : list[k] = id
    /\ pc = "info" => i <= count /\ (Handle(list[i]) \in ever \/ (failed /\ i = 1))

FoundInv == pc \in {"fail", "done"} /\ answer = Null => failed \/ stable = {}

IInv == SystemInv /\ PlaceInv /\ PidInv /\ DrvInv /\ ModInv /\ FoundInv /\ AnswerWasThere

-------------------------------------------------------------------------------
LEMMA HoldersOf ==
  ASSUME ListOK(system), NEW id
  PROVE  /\ id \in Holders(system) <=> id \in Ids(system) /\ NameOf(id) = target
         /\ id \in Ids(system) => id \in Id
<1>1. /\ system \in Seq(Element) /\ DOMAIN system = 1..Len(system)
      /\ \A j, k \in 1..Len(system) : system[j].id = system[k].id => j = k
  BY DEF ListOK
<1>2. id \in Ids(system) => id \in Id
  <2>1. \A k \in 1..Len(system) : system[k] \in Element
    BY <1>1
  <2>2. QED
    BY <1>1, <2>1 DEF Ids, Element
<1>3. ASSUME NEW k \in 1..Len(system), system[k].id = id PROVE NameOf(id) = system[k].name
  <2> DEFINE E == {system[j] : j \in DOMAIN system}
             e == CHOOSE x \in E : x.id = id
  <2>1. system[k] \in E /\ system[k].id = id
    BY <1>1, <1>3
  <2>2. e \in E /\ e.id = id
    BY <2>1, Zenon
  <2>3. PICK j \in 1..Len(system) : e = system[j]
    BY <1>1, <2>2
  <2>4. j = k
    BY <1>1, <1>3, <2>2, <2>3
  <2>5. QED
    BY <2>3, <2>4 DEF NameOf
<1>4. QED
  BY <1>1, <1>2, <1>3 DEF Holders, Ids

(***************************************************************************)
(* What others do to the list keeps it a list.  An element of it only      *)
(* moves up, others come in with an id of their own, and the first module  *)
(* stays where it is.                                                      *)
(***************************************************************************)
LEMMA GoneList ==
  ASSUME ListOK(system), NEW k \in DOMAIN system, fn = "GetModuleBaseAddress" => k # 1
  PROVE  /\ ListOK(Gone(k)) /\ Len(Gone(k)) = Len(system) - 1
         /\ \A n \in 1..Len(Gone(k)) : Gone(k)[n] = IF n < k THEN system[n] ELSE system[n + 1]
<1>1. /\ system \in Seq(Element) /\ DOMAIN system = 1..Len(system) /\ Len(system) \in Nat
      /\ \A j, n \in 1..Len(system) : system[j].id = system[n].id => j = n
  BY DEF ListOK
<1>2. k \in 1..Len(system) /\ k <= k + 1 /\ k + 1 - k = 1
  BY <1>1
<1> DEFINE t == Without(system, k, k)
<1>3. /\ t \in Seq(Element)
      /\ Len(t) = Len(system) - (k + 1 - k)
      /\ \A n \in 1..Len(t) : t[n] = IF n < k THEN system[n] ELSE system[n + (k + 1 - k)]
  BY <1>1, <1>2, Cut
<1> HIDE DEF t
<1>4. /\ t \in Seq(Element) /\ Len(t) = Len(system) - 1
      /\ \A n \in 1..Len(t) : t[n] = IF n < k THEN system[n] ELSE system[n + 1]
  BY <1>2, <1>3
<1>5. ASSUME NEW j \in 1..Len(t), NEW n \in 1..Len(t), t[j].id = t[n].id PROVE j = n
  BY <1>1, <1>2, <1>4, <1>5
<1>6. fn = "GetModuleBaseAddress" => t # <<>>
  BY <1>2, <1>4
<1>7. QED
  BY <1>4, <1>5, <1>6 DEF ListOK, Gone, t, Without

LEMMA ChangeKeepsList ==
  ASSUME ListOK(system), Leave \/ Enter
  PROVE  /\ ListOK(system')
         /\ \A n \in 1..Len(system') :
              \/ \E j \in 1..Len(system) : n <= j /\ system'[n] = system[j]
              \/ system'[n].id \notin Ids(system)
         /\ fn = "GetModuleBaseAddress" => system'[1] = system[1]
<1>1. /\ system \in Seq(Element) /\ DOMAIN system = 1..Len(system) /\ Len(system) \in Nat
      /\ \A j, n \in 1..Len(system) : system[j].id = system[n].id => j = n
      /\ fn = "GetModuleBaseAddress" => system # <<>>
  BY DEF ListOK
<1>2. CASE Leave
  <2>1. PICK k \in DOMAIN system : (fn = "GetModuleBaseAddress" => k # 1) /\ system' = Gone(k)
    BY <1>2 DEF Leave
  <2>2. /\ ListOK(system') /\ Len(system') = Len(system) - 1
        /\ \A n \in 1..Len(system') : system'[n] = IF n < k THEN system[n] ELSE system[n + 1]
    BY <2>1, GoneList
  <2>3. ASSUME NEW n \in 1..Len(system')
        PROVE  \E j \in 1..Len(system) : n <= j /\ system'[n] = system[j]
    <3>1. n \in 1..Len(system) /\ n + 1 \in 1..Len(system) /\ n <= n /\ n <= n + 1
      BY <1>1, <2>2
    <3>2. QED
      BY <2>2, <3>1, Zenon
  <2>4. ASSUME fn = "GetModuleBaseAddress" PROVE system'[1] = system[1]
    <3>1. system' # <<>> /\ system' \in Seq(Element)
      BY <2>2, <2>4 DEF ListOK
    <3>2. 1 \in 1..Len(system') /\ 1 < k
      BY <1>1, <2>1, <2>4, <3>1
    <3>3. QED
      BY <2>2, <3>2
  <2>5. QED
    BY <2>2, <2>3, <2>4
<1>3. CASE Enter
  <2>1. PICK e \in Element : e.id \notin Ids(system) /\ system' = Append(system, e)
    BY <1>3 DEF Enter
  <2>2. /\ system' \in Seq(Element) /\ Len(system') = Len(system) + 1
        /\ \A n \in 1..Len(system) : system'[n] = system[n]
        /\ system'[Len(system) + 1] = e
    BY <1>1, <2>1
  <2>3. \A n \in 1..Len(system') : n \in 1..Len(system) \/ n = Len(system) + 1
    BY <1>1, <2>2
  <2>4. \A n \in 1..Len(system) : system[n].id \in Ids(system)
    BY <1>1 DEF Ids
  <2>5. \A j, n \in 1..Len(system') : system'[j].id = system'[n].id => j = n
    BY <1>1, <2>1, <2>2, <2>3, <2>4
  <2>6. system' # <<>> /\ (fn = "GetModuleBaseAddress" => system'[1] = system[1])
    BY <1>1, <2>2
  <2>7. \A n \in 1..Len(system) : n <= n
    BY <1>1
  <2>8. QED
    BY <2>1, <2>2, <2>3, <2>5, <2>6, <2>7 DEF ListOK
<1>4. QED
  BY <1>2, <1>3

-------------------------------------------------------------------------------
LEMMA InitIInv ==
  ASSUME Init
  PROVE  IInv
<1>1. /\ system \in Seq(Element)
      /\ \A j, k \in 1..Len(system) : system[j].id = system[k].id => j = k
      /\ fn = "GetModuleBaseAddress" => system # <<>>
  <2>1. PICK n \in 0..MaxLen : system \in [1..n -> Element]
    BY DEF Init, Lists
  <2>2. n \in Nat /\ system \in Seq(Element) /\ DOMAIN system = 1..Len(system)
    BY <2>1, SizesAssumption
  <2>3. \A j, k \in DOMAIN system : system[j].id = system[k].id => j = k
    BY DEF Init, Lists
  <2>4. QED
    BY <2>2, <2>3 DEF Init
<1>2. SystemInv
  BY <1>1 DEF Init, SystemInv, ListOK
<1>3. PlaceInv
  <2>1. /\ fn \in {"getpidbyname", "GetModuleBaseAddress", "isDriverLoaded"}
        /\ count = 0 /\ i = 1 /\ failed = FALSE /\ answer = Null
        /\ \/ fn = "getpidbyname" /\ pc = "size"
           \/ fn = "GetModuleBaseAddress" /\ pc = "open"
           \/ fn = "isDriverLoaded" /\ pc = "enum"
    BY DEF Init
  <2>2. count \in Nat /\ i \in Nat \ {0}
    BY <2>1
  <2>3. failed \in BOOLEAN
    BY <2>1
  <2>4. QED
    BY <2>1, <2>2, <2>3, Zenon DEF PlaceInv
<1>4. PidInv /\ DrvInv /\ ModInv /\ FoundInv /\ AnswerWasThere
  BY DEF Init, PidInv, DrvInv, ModInv, FoundInv, AnswerWasThere
<1>5. QED
  BY <1>2, <1>3, <1>4 DEF IInv

(***************************************************************************)
(* A step of the call leaves the system as it is.                          *)
(***************************************************************************)
LEMMA SystemStays ==
  ASSUME SystemInv, UNCHANGED <<fn, target, systemVars>>
  PROVE  SystemInv'
BY DEF SystemInv, systemVars, ListOK, Holders

LEMMA ListElements ==
  ASSUME ListOK(system)
  PROVE  /\ system \in Seq(Element) /\ DOMAIN system = 1..Len(system) /\ Len(system) \in Nat
         /\ \A k \in 1..Len(system) : system[k].id \in Id
<1>1. /\ system \in Seq(Element) /\ DOMAIN system = 1..Len(system) /\ Len(system) \in Nat
      /\ \A k \in 1..Len(system) : system[k] \in Element
  BY DEF ListOK
<1>2. QED
  BY <1>1 DEF Element

LEMMA StableThere ==
  ASSUME SystemInv, NEW id \in stable
  PROVE  /\ id \in Id /\ id # Null /\ id \in ever /\ id \in Ids(system) /\ NameOf(id) = target
         /\ \E k \in 1..Len(system) : system[k].id = id /\ system[k].name = target
<1>1. id \in Holders(system) /\ id \in ever
  BY DEF SystemInv
<1>2. id \in Id /\ id \in Ids(system) /\ NameOf(id) = target
  BY <1>1, HoldersOf DEF SystemInv
<1>3. \E k \in 1..Len(system) : system[k].id = id /\ system[k].name = target
  BY <1>1 DEF Holders, SystemInv, ListOK
<1>4. QED
  BY <1>1, <1>2, <1>3, SizesAssumption

LEMMA ChangeKeeps ==
  ASSUME IInv, Change
  PROVE  IInv'
<1> USE DEF Change, callVars
<1>1. /\ SystemInv /\ ListOK(system) /\ UNCHANGED <<fn, target, pc, list, names, count, i, curName, held, answer, failed>>
      /\ stable' = stable \cap Holders(system') /\ ever' = ever \cup Holders(system')
  BY DEF IInv, SystemInv
<1>2. /\ ListOK(system')
      /\ \A n \in 1..Len(system') :
           \/ \E j \in 1..Len(system) : n <= j /\ system'[n] = system[j]
           \/ system'[n].id \notin Ids(system)
      /\ fn = "GetModuleBaseAddress" => system'[1] = system[1]
  BY <1>1, ChangeKeepsList
<1>3. SystemInv'
  BY <1>1, <1>2 DEF SystemInv, ListOK, Holders
<1>4. stable' \subseteq stable /\ ever \subseteq ever'
  BY <1>1
<1>5. PlaceInv'
  BY <1>1 DEF IInv, PlaceInv
<1>6. PidInv' /\ DrvInv' /\ FoundInv' /\ AnswerWasThere'
  BY <1>1, <1>4 DEF IInv, PidInv, DrvInv, FoundInv, AnswerWasThere
<1>7. ModInv'
  <2> SUFFICES ASSUME fn = "GetModuleBaseAddress" PROVE ModInv'
    BY <1>1 DEF ModInv
  <2>1. ASSUME pc \in {"alloc", "fetch"}, NEW n \in 1..Len(system'), system'[n].id \in stable' PROVE n <= count
    <3>1. system'[n].id \in stable /\ system'[n].id \in Ids(system)
      BY <1>1, <1>4, <2>1, StableThere
    <3>2. PICK j \in 1..Len(system) : n <= j /\ system'[n] = system[j]
      BY <1>2, <3>1
    <3>3. j <= count /\ count \in Nat
      BY <2>1, <3>1, <3>2 DEF IInv, ModInv, PlaceInv
    <3>4. QED
      BY <3>2, <3>3, <1>2 DEF ListOK
  <2>2. Handle(list[i])' = Handle(list[i])
    BY <1>1, <1>2 DEF Handle
  <2>3. QED
    BY <1>1, <1>2, <1>4, <2>1, <2>2 DEF IInv, ModInv
<1>8. QED
  BY <1>3, <1>5, <1>6, <1>7 DEF IInv

-------------------------------------------------------------------------------
(***************************************************************************)
(* getpidbyname.                                                           *)
(***************************************************************************)
LEMMA PidSizeKeeps ==
  ASSUME IInv, PidSize, UNCHANGED <<fn, target, systemVars>>
  PROVE  IInv'
<1> USE DEF IInv, PidSize, Fails, systemVars
<1>1. SystemInv'
  BY SystemStays
<1>2. PlaceInv'
  <2>1. Len(system) \in Nat /\ \A slop \in 0..Slop : Len(system) + slop \in Nat
    BY SizesAssumption DEF SystemInv, ListOK
  <2>2. QED
    BY <2>1 DEF PlaceInv
<1>3. PidInv' /\ DrvInv' /\ ModInv' /\ FoundInv' /\ AnswerWasThere'
  BY DEF PlaceInv, PidInv, DrvInv, ModInv, FoundInv, AnswerWasThere
<1>4. QED
  BY <1>1, <1>2, <1>3

LEMMA PidFetchKeeps ==
  ASSUME IInv, PidFetch, UNCHANGED <<fn, target, systemVars>>
  PROVE  IInv'
<1> USE DEF IInv, PidFetch, Fails, systemVars
<1>1. SystemInv'
  BY SystemStays
<1>2. /\ system \in Seq(Element) /\ DOMAIN system = 1..Len(system) /\ Len(system) \in Nat
      /\ \A k \in 1..Len(system) : system[k].id \in Id
  BY ListElements DEF SystemInv
<1>3. PlaceInv'
  BY <1>2 DEF PlaceInv
<1>4. ASSUME pc' = "look" PROVE PidInv'
  <2>1. /\ list' = [k \in 1..Len(system) |-> system[k].id]
        /\ names' = [k \in 1..Len(system) |-> system[k].name]
        /\ count' = Len(system) /\ i' = 1
    BY <1>2, <1>4 DEF PlaceInv
  <2>2. \A k \in 1..count' : names'[k] = target' => list'[k] \in ever'
    <3> SUFFICES ASSUME NEW k \in 1..Len(system), system[k].name = target PROVE system[k].id \in ever
      BY <2>1
    <3> QED
      BY <1>2 DEF SystemInv, Holders
  <2>3. \A id \in stable : \E k \in 1..Len(system) : list'[k] = id /\ names'[k] = target
    BY <2>1, StableThere
  <2>4. QED
    BY <1>2, <2>1, <2>2, <2>3 DEF PidInv
<1>5. PidInv' /\ DrvInv' /\ ModInv' /\ FoundInv' /\ AnswerWasThere'
  BY <1>4 DEF PlaceInv, PidInv, DrvInv, ModInv, FoundInv, AnswerWasThere
<1>6. QED
  BY <1>1, <1>3, <1>5

LEMMA PidLookKeeps ==
  ASSUME IInv, PidLook, UNCHANGED <<fn, target, systemVars>>
  PROVE  IInv'
<1> USE DEF IInv, PidLook, Fails, systemVars
<1>1. SystemInv'
  BY SystemStays
<1>2. count \in Nat /\ i \in Nat \ {0} /\ i \in 1..count /\ answer = Null
  BY DEF PlaceInv
<1>3. PlaceInv'
  BY <1>2 DEF PlaceInv
<1>4. CASE names[i] = target
  <2>1. answer' = list[i] /\ list[i] \in ever /\ list[i] \in Id /\ pc' = "fail"
    BY <1>2, <1>4 DEF PidInv
  <2>2. QED
    BY <1>1, <1>3, <2>1, SizesAssumption DEF PidInv, DrvInv, ModInv, FoundInv, AnswerWasThere
<1>5. CASE names[i] # target
  <2>1. \A id \in stable : \E k \in (i + 1)..count : list[k] = id /\ names[k] = target
    BY <1>2, <1>5 DEF PidInv
  <2>2. PidInv'
    BY <1>2, <1>5, <2>1 DEF PidInv
  <2>3. QED
    BY <1>1, <1>2, <1>3, <1>5, <2>2 DEF PidInv, DrvInv, ModInv, FoundInv, AnswerWasThere
<1>6. QED
  BY <1>4, <1>5

LEMMA AllocKeeps ==
  ASSUME IInv, Alloc, UNCHANGED <<fn, target, systemVars>>
  PROVE  IInv'
<1> USE DEF IInv, Alloc, Fails, systemVars
<1>1. SystemInv'
  BY SystemStays
<1>2. PlaceInv'
  BY DEF PlaceInv
<1>3. PidInv' /\ DrvInv' /\ ModInv' /\ FoundInv' /\ AnswerWasThere'
  BY DEF PlaceInv, PidInv, DrvInv, ModInv, FoundInv, AnswerWasThere
<1>4. QED
  BY <1>1, <1>2, <1>3

-------------------------------------------------------------------------------
(***************************************************************************)
(* GetModuleBaseAddress.                                                   *)
(***************************************************************************)
LEMMA ModOpenKeeps ==
  ASSUME IInv, ModOpen, UNCHANGED <<fn, target, systemVars>>
  PROVE  IInv'
<1> USE DEF IInv, ModOpen, Fails, systemVars
<1>1. SystemInv'
  BY SystemStays
<1>2. PlaceInv'
  BY DEF PlaceInv
<1>3. PidInv' /\ DrvInv' /\ ModInv' /\ FoundInv' /\ AnswerWasThere'
  BY DEF PlaceInv, PidInv, DrvInv, ModInv, FoundInv, AnswerWasThere
<1>4. QED
  BY <1>1, <1>2, <1>3

LEMMA ModSizeKeeps ==
  ASSUME IInv, ModSize, UNCHANGED <<fn, target, systemVars>>
  PROVE  IInv'
<1> USE DEF IInv, ModSize, Fails, systemVars
<1>1. SystemInv'
  BY SystemStays
<1>2. system \in Seq(Element) /\ Len(system) \in Nat
  BY ListElements DEF SystemInv
<1>3. PlaceInv'
  BY <1>2 DEF PlaceInv
<1>4. fn = "GetModuleBaseAddress" /\ system # <<>>
  BY DEF PlaceInv, SystemInv, ListOK
<1>5. Len(system) >= 1 /\ \A k \in 1..Len(system) : k <= Len(system)
  BY <1>2, <1>4
<1>6. PidInv' /\ DrvInv' /\ ModInv' /\ FoundInv' /\ AnswerWasThere'
  BY <1>4, <1>5 DEF PlaceInv, PidInv, DrvInv, ModInv, FoundInv, AnswerWasThere
<1>7. QED
  BY <1>1, <1>3, <1>6

LEMMA ModFetchKeeps ==
  ASSUME IInv, ModFetch, UNCHANGED <<fn, target, systemVars>>
  PROVE  IInv'
<1> USE DEF IInv, ModFetch, Fails, systemVars
<1>1. SystemInv'
  BY SystemStays
<1>2. /\ system \in Seq(Element) /\ Len(system) \in Nat /\ count \in Nat /\ count >= 1 /\ i = 1 /\ answer = Null
      /\ \A k \in 1..Len(system) : system[k].id \in Id
      /\ 1 \in 1..count /\ 1 \in 1..Len(system) /\ 1 <= Len(system)
  <2>1. /\ system \in Seq(Element) /\ Len(system) \in Nat
        /\ \A k \in 1..Len(system) : system[k].id \in Id
    BY ListElements DEF SystemInv
  <2>2. system # <<>> /\ count \in Nat /\ count >= 1 /\ i = 1 /\ answer = Null
    BY DEF SystemInv, ListOK, PlaceInv, ModInv
  <2>3. QED
    BY <2>1, <2>2
<1>3. PlaceInv'
  BY DEF PlaceInv
<1>4. ASSUME pc' = "look" PROVE ModInv'
  <2>1. /\ list' = [k \in 1..count |-> IF k <= Len(system) THEN system[k].id ELSE Null]
        /\ count' = count /\ i' = i
    BY <1>2, <1>4
  <2>2. list' \in [1..count -> Id \cup {Null}] /\ list'[1] = system[1].id
    BY <1>2, <2>1
  <2>3. \A id \in stable : \E k \in 1..count : list'[k] = id
    <3> TAKE id \in stable
    <3>1. PICK k \in 1..Len(system) : system[k].id = id
      BY StableThere
    <3>2. k <= count
      BY <3>1 DEF ModInv
    <3>3. k \in 1..count /\ k <= Len(system)
      BY <1>2, <3>2
    <3>4. QED
      BY <2>1, <3>1, <3>3
  <2>4. QED
    BY <1>2, <1>4, <2>1, <2>2, <2>3 DEF ModInv
<1>5. PidInv' /\ DrvInv' /\ ModInv' /\ FoundInv' /\ AnswerWasThere'
  BY <1>2, <1>4 DEF PlaceInv, PidInv, DrvInv, ModInv, FoundInv, AnswerWasThere
<1>6. QED
  BY <1>1, <1>3, <1>5

LEMMA ModLookKeeps ==
  ASSUME IInv, ModLook, UNCHANGED <<fn, target, systemVars>>
  PROVE  IInv'
<1> USE DEF IInv, ModLook, Fails, systemVars
<1>1. SystemInv'
  BY SystemStays
<1> DEFINE id == Handle(list[i])
<1>2. /\ count \in Nat /\ i \in Nat \ {0} /\ i \in 1..count /\ answer = Null /\ failed \in BOOLEAN
      /\ list \in [1..count -> Id \cup {Null}] /\ count >= 1 /\ list[1] = system[1].id
      /\ i > 1 => curName # target
      /\ failed \/ \A e \in stable : \E k \in i..count : list[k] = e
  BY DEF PlaceInv, ModInv
<1>3. /\ system \in Seq(Element) /\ 1 \in 1..Len(system) /\ DOMAIN system = 1..Len(system)
  BY ListElements DEF SystemInv, ListOK
<1>4. i = 1 => id \in Ids(system)
  BY <1>2, <1>3 DEF Handle, Ids
<1>5. PlaceInv'
  <2>1. i + 1 \in Nat \ {0}
    BY <1>2
  <2>2. failed' = failed \/ failed' = TRUE
    OBVIOUS
  <2>3. failed' \in BOOLEAN
    BY <1>2, <2>2, Zenon
  <2>4. QED
    BY <1>2, <2>1, <2>3 DEF PlaceInv
<1>6. CASE curName' = target /\ pc' = "info" /\ UNCHANGED i
  <2>1. id \in ever \/ (failed' /\ i = 1)
    <3>1. CASE id \in Ids(system) /\ curName' = NameOf(id)
      BY <1>6, <3>1, HoldersOf DEF SystemInv
    <3>2. CASE id \notin Ids(system) /\ curName' = curName
      BY <1>2, <1>4, <1>6, <3>2
    <3>3. CASE failed' = TRUE /\ UNCHANGED curName
      BY <1>2, <1>6, <3>3
    <3>4. QED
      BY <3>1, <3>2, <3>3
  <2>2. id' = id
    BY <1>6 DEF Handle
  <2>3. ModInv'
    BY <1>2, <1>6, <2>1, <2>2 DEF ModInv
  <2>4. QED
    BY <1>1, <1>2, <1>5, <1>6, <2>3 DEF PidInv, DrvInv, FoundInv, AnswerWasThere
<1>7. CASE curName' # target /\ i' = i + 1 /\ UNCHANGED pc
  <2>1. failed' \/ \A e \in stable : \E k \in (i + 1)..count : list[k] = e
    <3> SUFFICES ASSUME ~ failed', NEW e \in stable PROVE \E k \in (i + 1)..count : list[k] = e
      OBVIOUS
    <3>1. ~ failed /\ curName' = (IF id \in Ids(system) THEN NameOf(id) ELSE curName)
      BY <1>2
    <3>2. PICK k \in i..count : list[k] = e
      BY <1>2, <3>1
    <3>3. k # i
      <4> SUFFICES ASSUME k = i PROVE FALSE
        OBVIOUS
      <4>1. e # Null /\ e \in Ids(system) /\ NameOf(e) = target
        BY StableThere
      <4>2. id = e
        BY <3>2, <4>1 DEF Handle
      <4>3. QED
        BY <1>7, <3>1, <4>1, <4>2
    <3>4. k \in (i + 1)..count
      BY <1>2, <3>3
    <3>5. QED
      BY <3>2, <3>4
  <2>2. ModInv'
    BY <1>2, <1>7, <2>1 DEF ModInv
  <2>3. QED
    BY <1>1, <1>2, <1>5, <1>7, <2>2 DEF PidInv, DrvInv, FoundInv, AnswerWasThere
<1>8. QED
  BY <1>6, <1>7

LEMMA ModInfoKeeps ==
  ASSUME IInv, ModInfo, UNCHANGED <<fn, target, systemVars>>
  PROVE  IInv'
<1> USE DEF IInv, ModInfo, Fails, systemVars
<1>1. SystemInv'
  BY SystemStays
<1> DEFINE id == Handle(list[i])
<1>2. /\ fn = "GetModuleBaseAddress" /\ failed \in BOOLEAN /\ answer = Null
      /\ id \in ever \/ (failed /\ i = 1)
  BY DEF PlaceInv, ModInv
<1>3. PlaceInv'
  BY DEF PlaceInv
<1>4. CASE id \in Ids(system) /\ answer' = id /\ pc' = "fail" /\ UNCHANGED <<i, failed>>
  <2>1. id # Null
    BY <1>4, HoldersOf, SizesAssumption DEF SystemInv
  <2>2. QED
    BY <1>1, <1>2, <1>3, <1>4, <2>1 DEF PidInv, DrvInv, ModInv, FoundInv, AnswerWasThere
<1>5. CASE Fails("fail")
  BY <1>1, <1>2, <1>3, <1>5 DEF PidInv, DrvInv, ModInv, FoundInv, AnswerWasThere
<1>6. QED
  BY <1>4, <1>5

-------------------------------------------------------------------------------
(***************************************************************************)
(* isDriverLoaded, and the end of each call.                               *)
(***************************************************************************)
LEMMA DrvEnumKeeps ==
  ASSUME IInv, DrvEnum, UNCHANGED <<fn, target, systemVars>>
  PROVE  IInv'
<1> USE DEF IInv, DrvEnum, Fails, systemVars
<1>1. SystemInv'
  BY SystemStays
<1>2. /\ system \in Seq(Element) /\ DOMAIN system = 1..Len(system) /\ Len(system) \in Nat
  BY ListElements DEF SystemInv
<1>3. PlaceInv'
  <2>1. \A n \in 0..(ARRAY_SIZE + 1) : n \in Nat
    BY SizesAssumption
  <2>2. count' \in Nat
    BY <1>2, <2>1 DEF PlaceInv
  <2>3. failed' = TRUE \/ failed' = failed
    OBVIOUS
  <2>4. failed' \in BOOLEAN
    BY <2>3, Zenon DEF PlaceInv
  <2>5. QED
    BY <2>2, <2>4 DEF PlaceInv
<1>4. ASSUME pc' = "look" PROVE DrvInv'
  <2> SUFFICES ASSUME ~ failed'
               PROVE  count' < ARRAY_SIZE /\ \A id \in stable : \E k \in 1..count' : list'[k] = id
    BY DEF DrvInv, PlaceInv
  <2>1. /\ list' = [k \in 1..Len(system) |-> system[k].id] /\ count' = Len(system)
        /\ Len(system) < ARRAY_SIZE
    BY <1>4
  <2>2. \A id \in stable : \E k \in 1..Len(system) : list'[k] = id
    BY <2>1, StableThere
  <2>3. QED
    BY <2>1, <2>2
<1>5. PidInv' /\ DrvInv' /\ ModInv' /\ FoundInv' /\ AnswerWasThere'
  BY <1>4 DEF PlaceInv, PidInv, DrvInv, ModInv, FoundInv, AnswerWasThere
<1>6. QED
  BY <1>1, <1>3, <1>5

LEMMA DrvLookKeeps ==
  ASSUME IInv, DrvLook, UNCHANGED <<fn, target, systemVars>>
  PROVE  IInv'
<1> USE DEF IInv, DrvLook, Fails, systemVars
<1>1. SystemInv'
  BY SystemStays
<1>2. /\ count \in Nat /\ i \in Nat \ {0} /\ i \in 1..count /\ answer = Null /\ failed \in BOOLEAN
      /\ failed \/ (count < ARRAY_SIZE /\ \A id \in stable : \E k \in i..count : list[k] = id)
  BY DEF PlaceInv, DrvInv
<1>3. CASE list[i] \in Holders(system) /\ answer' = list[i] /\ pc' = "fail" /\ UNCHANGED <<i, failed>>
  <2>1. list[i] \in Id /\ list[i] \in ever
    BY <1>3, HoldersOf DEF SystemInv
  <2>2. list[i] # Null
    BY <2>1, SizesAssumption
  <2>3. PlaceInv'
    BY <1>3 DEF PlaceInv
  <2>4. QED
    BY <1>1, <1>3, <2>1, <2>2, <2>3 DEF PidInv, DrvInv, ModInv, FoundInv, AnswerWasThere
<1>4. CASE /\ i' = i + 1 /\ UNCHANGED <<answer, pc>>
           /\ (list[i] \notin Holders(system) /\ UNCHANGED failed) \/ failed' = TRUE
  <2>1. failed' \in BOOLEAN
    BY <1>2, <1>4, Zenon
  <2>2. PlaceInv'
    BY <1>2, <1>4, <2>1 DEF PlaceInv
  <2>3. failed' \/ \A id \in stable : \E k \in (i + 1)..count : list[k] = id
    <3> SUFFICES ASSUME ~ failed', NEW id \in stable PROVE \E k \in (i + 1)..count : list[k] = id
      OBVIOUS
    <3>1. PICK k \in i..count : list[k] = id
      BY <1>2, <1>4
    <3>2. k # i
      BY <1>4, <3>1 DEF SystemInv
    <3>3. k \in (i + 1)..count
      BY <1>2, <3>2
    <3>4. QED
      BY <3>1, <3>3
  <2>4. DrvInv'
    BY <1>2, <1>4, <2>3 DEF DrvInv
  <2>5. QED
    BY <1>1, <1>2, <1>4, <2>2, <2>4 DEF PidInv, ModInv, FoundInv, AnswerWasThere
<1>5. QED
  BY <1>3, <1>4

LEMMA DrvPastEndKeeps ==
  ASSUME IInv, DrvPastEnd, UNCHANGED <<fn, target, systemVars>>
  PROVE  IInv'
<1> USE DEF IInv, DrvPastEnd, callVars, systemVars
<1>1. SystemInv'
  BY SystemStays
<1>2. failed
  <2>1. count \in Nat /\ i \in Nat /\ ARRAY_SIZE \in Nat /\ (failed \/ count < ARRAY_SIZE)
    BY SizesAssumption DEF PlaceInv, DrvInv
  <2>2. QED
    BY <2>1
<1>3. PlaceInv'
  BY <1>2 DEF PlaceInv
<1>4. QED
  BY <1>1, <1>2, <1>3 DEF PidInv, DrvInv, ModInv, FoundInv, AnswerWasThere

LEMMA NotThereKeeps ==
  ASSUME IInv, NotThere, UNCHANGED <<fn, target, systemVars>>
  PROVE  IInv'
<1> USE DEF IInv, NotThere, callVars, Fails, systemVars
<1>1. SystemInv'
  BY SystemStays
<1>2. /\ count \in Nat /\ i \in Nat \ {0} /\ answer = Null /\ i..count = {}
      /\ fn \in {"getpidbyname", "GetModuleBaseAddress", "isDriverLoaded"}
  BY DEF PlaceInv
<1>3. failed \/ stable = {}
  BY <1>2 DEF PidInv, DrvInv, ModInv
<1>4. PlaceInv'
  BY DEF PlaceInv
<1>5. QED
  BY <1>1, <1>2, <1>3, <1>4 DEF PidInv, DrvInv, ModInv, FoundInv, AnswerWasThere

LEMMA ReleaseKeeps ==
  ASSUME IInv, Release, UNCHANGED <<fn, target, systemVars>>
  PROVE  IInv'
<1> USE DEF IInv, Release, Fails, systemVars
<1>1. SystemInv'
  BY SystemStays
<1>2. PlaceInv'
  BY DEF PlaceInv
<1>3. QED
  BY <1>1, <1>2 DEF PidInv, DrvInv, ModInv, FoundInv, AnswerWasThere

-------------------------------------------------------------------------------
LEMMA StepKeeps ==
  ASSUME IInv, [Next]_vars
  PROVE  IInv'
<1>1. CASE UNCHANGED vars
  BY <1>1 DEF vars, callVars, systemVars, IInv, SystemInv, ListOK, Holders, PlaceInv, PidInv, DrvInv, ModInv,
     Handle, FoundInv, AnswerWasThere
<1>2. CASE Change
  BY <1>2, ChangeKeeps
<1>3. CASE Step
  BY <1>3, PidSizeKeeps, PidFetchKeeps, PidLookKeeps, ModOpenKeeps, ModSizeKeeps, ModFetchKeeps, ModLookKeeps,
     ModInfoKeeps, DrvEnumKeeps, DrvLookKeeps, DrvPastEndKeeps, AllocKeeps, NotThereKeeps, ReleaseKeeps DEF Step
<1>4. QED
  BY <1>1, <1>2, <1>3 DEF Next

(***************************************************************************)
(* Whatever the others do, and however often: the answer of getpidbyname,  *)
(* GetModuleBaseAddress and isDriverLoaded had the name while the call     *)
(* ran, an element that stays is found, what was acquired is released, and *)
(* only after a failed call is an array read past its end.                 *)
(***************************************************************************)
THEOREM LookupsHold ==
  Spec => [](AnswerWasThere /\ StableFound /\ Released)
<1>1. Init => IInv
  BY InitIInv
<1>2. IInv /\ [Next]_vars => IInv'
  BY StepKeeps
<1>3. IInv => AnswerWasThere /\ StableFound /\ Released
  BY DEF IInv, FoundInv, PlaceInv, StableFound, Released
<1>4. QED
  BY <1>1, <1>2, <1>3, PTL DEF Spec

-------------------------------------------------------------------------------
(***************************************************************************)
(* Kallsyms.  Every line of a module that is loaded is in the file; what   *)
(* is before the position is in the map, but for the lines of modules that *)
(* come and go, or have moved up.                                          *)
(***************************************************************************)
RestLine == [of : Module, line : Symbols!SymbolLine]

FileInv ==
  /\ kernel \in Seq(Symbols!SymbolLine) /\ rest \in Seq(RestLine)
  /\ modules \subseteq Module /\ stayed \subseteq modules
  /\ \A m \in modules : \A n \in 1..Len(LinesOf[m]) :
       \E k \in 1..Len(rest) : rest[k].of = m /\ rest[k].line = LinesOf[m][n]

ReadInv ==
  /\ pos \in Nat \ {0}
  /\ kallsymsPc = "getuid" => pos = 1 /\ opened = FALSE
  /\ \A p \in 1..Len(kernel) : p < pos => kernel[p].name \in DOMAIN out_mapgen
  /\ \A k \in 1..Len(rest) :
       Len(kernel) + k < pos /\ rest[k].of \in stayed \ moved => rest[k].line.name \in DOMAIN out_mapgen

EndInv == Symbols!Whole => pos > Symbols!Length \/ ~ (Symbols!LineAt(pos).width < Buffer)

SymbolsInv == FileInv /\ ReadInv /\ EndInv

LEMMA SymbolsInit ==
  ASSUME Symbols!Init
  PROVE  SymbolsInv
<1>1. /\ kernel \in Seq(Symbols!SymbolLine) /\ rest = <<>> /\ modules = {} /\ stayed = {}
      /\ pos = 1 /\ opened = FALSE /\ kallsymsPc = "getuid"
  BY SymbolsAssumption DEF Symbols!Init, Symbols!LinesAssumption
<1>2. FileInv
  BY <1>1 DEF FileInv
<1>3. Len(kernel) \in Nat /\ Len(rest) = 0
  BY <1>1
<1>4. ReadInv
  BY <1>1, <1>3 DEF ReadInv
<1>5. EndInv
  BY <1>1 DEF EndInv, Symbols!Whole
<1>6. QED
  BY <1>2, <1>4, <1>5 DEF SymbolsInv

(***************************************************************************)
(* The steps of the reader.                                                *)
(***************************************************************************)
LEMMA LineKeeps ==
  ASSUME SymbolsInv, Symbols!Line
  PROVE  SymbolsInv'
<1> USE DEF SymbolsInv
<1>1. /\ pos' = pos + 1 /\ kallsymsPc = "getline" /\ kallsymsPc' = "getline"
      /\ UNCHANGED <<kernel, rest, modules, stayed, moved>>
      /\ DOMAIN out_mapgen' = DOMAIN out_mapgen \cup {Symbols!LineAt(pos).name}
  BY DEF Symbols!Line, Symbols!system, Symbols!Key
<1>2. FileInv'
  BY <1>1 DEF FileInv
<1>3. ReadInv'
  <2>1. pos \in Nat \ {0} /\ Len(kernel) \in Nat /\ Len(rest) \in Nat
    BY DEF ReadInv, FileInv
  <2>2. ASSUME NEW p \in 1..Len(kernel), p < pos' PROVE kernel[p].name \in DOMAIN out_mapgen'
    <3>1. CASE p = pos
      BY <1>1, <3>1 DEF Symbols!LineAt
    <3>2. CASE p < pos
      BY <1>1, <3>2 DEF ReadInv
    <3>3. QED
      BY <1>1, <2>1, <2>2, <3>1, <3>2
  <2>3. ASSUME NEW k \in 1..Len(rest), Len(kernel) + k < pos', rest[k].of \in stayed \ moved
        PROVE  rest[k].line.name \in DOMAIN out_mapgen'
    <3>1. CASE Len(kernel) + k = pos
      <4>1. ~ (pos <= Len(kernel)) /\ pos - Len(kernel) = k
        BY <2>1, <3>1
      <4>2. QED
        BY <1>1, <4>1 DEF Symbols!LineAt
    <3>2. CASE Len(kernel) + k < pos
      BY <1>1, <2>3, <3>2 DEF ReadInv
    <3>3. QED
      BY <1>1, <2>1, <2>3, <3>1, <3>2
  <2>4. pos' \in Nat \ {0}
    BY <1>1, <2>1
  <2>5. QED
    BY <1>1, <2>2, <2>3, <2>4 DEF ReadInv
<1>4. EndInv'
  BY <1>1 DEF EndInv, Symbols!Whole
<1>5. QED
  BY <1>2, <1>3, <1>4

LEMMA ReaderKeeps ==
  ASSUME SymbolsInv, Symbols!NotRoot \/ Symbols!Open \/ Symbols!NoLine
  PROVE  SymbolsInv'
<1> USE DEF SymbolsInv
<1>1. UNCHANGED <<kernel, rest, modules, stayed, moved, pos, out_mapgen>>
  BY DEF Symbols!NotRoot, Symbols!Open, Symbols!NoLine, Symbols!system
<1>2. kallsymsPc' \in {"getline", "done"}
  BY DEF Symbols!NotRoot, Symbols!Open, Symbols!NoLine
<1>3. FileInv' /\ ReadInv'
  BY <1>1, <1>2 DEF FileInv, ReadInv
<1>4. EndInv'
  <2>1. CASE Symbols!NotRoot
    BY <2>1 DEF Symbols!NotRoot, ReadInv, EndInv, Symbols!Whole
  <2>2. CASE Symbols!Open
    BY <2>2 DEF Symbols!Open, EndInv, Symbols!Whole
  <2>3. CASE Symbols!NoLine
    <3>1. opened /\ pos <= Symbols!Length => ~ (Symbols!LineAt(pos).width < Buffer)
      BY <2>3 DEF Symbols!NoLine, Symbols!Fits
    <3>2. UNCHANGED <<opened, Symbols!Length, Symbols!LineAt(pos)>>
      BY <1>1, <2>3 DEF Symbols!NoLine, Symbols!Length, Symbols!LineAt
    <3>3. pos \in Nat /\ Symbols!Length \in Nat
      BY DEF ReadInv, FileInv, Symbols!Length
    <3>4. QED
      BY <1>1, <3>1, <3>2, <3>3 DEF EndInv, Symbols!Whole
  <2>4. QED
    BY <2>1, <2>2, <2>3
<1>5. QED
  BY <1>3, <1>4

(***************************************************************************)
(* Where the lines of a file come from when a module comes or goes: each   *)
(* was at the same place or before, or is of a module that was not loaded, *)
(* or of one that has moved up.                                            *)
(***************************************************************************)
LinesStay ==
  /\ rest' \in Seq(RestLine) /\ modules' \subseteq Module /\ moved \subseteq moved'
  /\ \A m \in modules' : \A n \in 1..Len(LinesOf[m]) :
       \E k \in 1..Len(rest') : rest'[k].of = m /\ rest'[k].line = LinesOf[m][n]
  /\ \A k \in 1..Len(rest') :
       \/ \E j \in 1..Len(rest) : j <= k /\ rest'[k] = rest[j]
       \/ rest'[k].of \notin modules
       \/ rest'[k].of \in moved'

LEMMA BlockLines ==
  ASSUME NEW m \in Module
  PROVE  /\ Symbols!Block(m) \in Seq(RestLine) /\ Len(Symbols!Block(m)) = Len(LinesOf[m])
         /\ Len(LinesOf[m]) \in Nat \ {0}
         /\ \A n \in 1..Len(LinesOf[m]) :
              Symbols!Block(m)[n].of = m /\ Symbols!Block(m)[n].line = LinesOf[m][n]
<1> DEFINE b == Symbols!Block(m)
<1>1. LinesOf[m] \in Seq(Symbols!SymbolLine) /\ LinesOf[m] # <<>>
  BY SymbolsAssumption DEF Symbols!LinesAssumption
<1>2. Len(LinesOf[m]) \in Nat \ {0} /\ \A n \in 1..Len(LinesOf[m]) : LinesOf[m][n] \in Symbols!SymbolLine
  BY <1>1
<1>3. b = [n \in 1..Len(LinesOf[m]) |-> [of |-> m, line |-> LinesOf[m][n]]]
  BY DEF Symbols!Block
<1> HIDE DEF b
<1>4. b \in Seq(RestLine) /\ Len(b) = Len(LinesOf[m])
  <2>1. b \in [1..Len(LinesOf[m]) -> RestLine]
    BY <1>2, <1>3 DEF RestLine
  <2>2. QED
    BY <1>2, <2>1
<1>5. \A n \in 1..Len(LinesOf[m]) : b[n].of = m /\ b[n].line = LinesOf[m][n]
  BY <1>3
<1>6. QED
  BY <1>2, <1>4, <1>5 DEF b

LEMMA LoadStays ==
  ASSUME FileInv, NEW m \in Module, Symbols!Load(m)
  PROVE  LinesStay
<1> DEFINE b == Symbols!Block(m)
<1>1. /\ m \notin modules /\ modules' = modules \cup {m} /\ moved' = moved
      /\ rest' = b \o rest \/ rest' = rest \o b
  BY DEF Symbols!Load
<1>2. /\ rest \in Seq(RestLine) /\ Len(rest) \in Nat
      /\ \A k \in modules : \A n \in 1..Len(LinesOf[k]) :
           \E j \in 1..Len(rest) : rest[j].of = k /\ rest[j].line = LinesOf[k][n]
  BY DEF FileInv
<1>3. /\ b \in Seq(RestLine) /\ Len(b) \in Nat
      /\ \A n \in 1..Len(LinesOf[m]) : n \in 1..Len(b) /\ b[n].of = m /\ b[n].line = LinesOf[m][n]
      /\ \A n \in 1..Len(b) : b[n].of = m
  BY BlockLines
<1> HIDE DEF b
<1>4. \E P, Q \in Nat :
        /\ rest' \in Seq(RestLine) /\ Len(rest') = Len(rest) + Len(b)
        /\ \A k \in 1..Len(rest) : rest'[P + k] = rest[k]
        /\ \A k \in 1..Len(b) : rest'[Q + k] = b[k]
        /\ (P = Len(b) /\ Q = 0) \/ (P = 0 /\ Q = Len(rest))
  <2>1. rest \in Seq(RestLine) /\ b \in Seq(RestLine)
    BY <1>2, <1>3
  <2>2. CASE rest' = b \o rest
    <3>1. /\ b \o rest \in Seq(RestLine) /\ Len(b \o rest) = Len(b) + Len(rest)
          /\ \A k \in 1..Len(b) : (b \o rest)[k] = b[k]
          /\ \A k \in 1..Len(rest) : (b \o rest)[Len(b) + k] = rest[k]
      BY <2>1, Joined
    <3>2. WITNESS Len(b) \in Nat, 0 \in Nat
    <3>3. QED
      BY <1>2, <1>3, <2>2, <3>1
  <2>3. CASE rest' = rest \o b
    <3>1. /\ rest \o b \in Seq(RestLine) /\ Len(rest \o b) = Len(rest) + Len(b)
          /\ \A k \in 1..Len(rest) : (rest \o b)[k] = rest[k]
          /\ \A k \in 1..Len(b) : (rest \o b)[Len(rest) + k] = b[k]
      BY <2>1, Joined
    <3>2. WITNESS 0 \in Nat, Len(rest) \in Nat
    <3>3. QED
      BY <1>2, <1>3, <2>3, <3>1
  <2>4. QED
    BY <1>1, <2>2, <2>3
<1>5. PICK P, Q \in Nat :
        /\ rest' \in Seq(RestLine) /\ Len(rest') = Len(rest) + Len(b)
        /\ \A k \in 1..Len(rest) : rest'[P + k] = rest[k]
        /\ \A k \in 1..Len(b) : rest'[Q + k] = b[k]
        /\ (P = Len(b) /\ Q = 0) \/ (P = 0 /\ Q = Len(rest))
  BY <1>4
<1>6. /\ \A k \in 1..Len(rest) : P + k \in 1..Len(rest')
      /\ \A k \in 1..Len(b) : Q + k \in 1..Len(rest')
      /\ \A k \in 1..Len(rest') :
           \/ k - P \in 1..Len(rest) /\ P + (k - P) = k /\ k - P <= k
           \/ k - Q \in 1..Len(b) /\ Q + (k - Q) = k
  BY <1>2, <1>3, <1>5
<1>7. ASSUME NEW o \in modules', NEW n \in 1..Len(LinesOf[o])
      PROVE  \E k \in 1..Len(rest') : rest'[k].of = o /\ rest'[k].line = LinesOf[o][n]
  <2>1. CASE o = m
    <3>1. n \in 1..Len(b) /\ b[n].of = o /\ b[n].line = LinesOf[o][n]
      BY <1>3, <2>1
    <3>2. Q + n \in 1..Len(rest') /\ rest'[Q + n] = b[n]
      BY <1>5, <1>6, <3>1
    <3>3. QED
      BY <3>1, <3>2
  <2>2. CASE o \in modules
    <3>1. PICK j \in 1..Len(rest) : rest[j].of = o /\ rest[j].line = LinesOf[o][n]
      BY <1>2, <2>2
    <3>2. P + j \in 1..Len(rest') /\ rest'[P + j] = rest[j]
      BY <1>5, <1>6
    <3>3. QED
      BY <3>1, <3>2
  <2>3. QED
    BY <1>1, <2>1, <2>2
<1>8. ASSUME NEW k \in 1..Len(rest')
      PROVE  (\E j \in 1..Len(rest) : j <= k /\ rest'[k] = rest[j]) \/ rest'[k].of \notin modules
  <2>1. CASE k - P \in 1..Len(rest) /\ P + (k - P) = k /\ k - P <= k
    <3>1. rest'[P + (k - P)] = rest[k - P]
      BY <1>5, <2>1, Zenon
    <3>2. QED
      BY <2>1, <3>1, Zenon
  <2>2. CASE k - Q \in 1..Len(b) /\ Q + (k - Q) = k
    <3>1. rest'[Q + (k - Q)] = b[k - Q]
      BY <1>5, <2>2, Zenon
    <3>2. b[k - Q].of = m
      BY <1>3, <2>2
    <3>3. QED
      BY <1>1, <2>2, <3>1, <3>2, Zenon
  <2>3. QED
    BY <1>6, <2>1, <2>2, Zenon
<1>9. QED
  BY <1>1, <1>5, <1>7, <1>8 DEF LinesStay, FileInv

LEMMA UnloadStays ==
  ASSUME FileInv, NEW m \in Module, Symbols!Unload(m)
  PROVE  LinesStay
<1>1. /\ rest \in Seq(RestLine) /\ Len(rest) \in Nat /\ DOMAIN rest = 1..Len(rest)
      /\ \A o \in modules : \A n \in 1..Len(LinesOf[o]) :
           \E j \in 1..Len(rest) : rest[j].of = o /\ rest[j].line = LinesOf[o][n]
  BY DEF FileInv
<1>2. m \in modules /\ modules' = modules \ {m}
  BY DEF Symbols!Unload
<1>3. PICK a, b \in 1..Len(rest) :
        /\ {k \in 1..Len(rest) : rest[k].of = m} = a..b
        /\ rest' = Without(rest, a, b)
        /\ moved' = moved \cup {rest[k].of : k \in (b + 1)..Len(rest)}
  BY <1>1 DEF Symbols!Unload, Without
<1>4. a <= b + 1
  <2>1. 1 \in 1..Len(LinesOf[m])
    BY BlockLines
  <2>2. PICK k \in 1..Len(rest) : rest[k].of = m
    BY <1>1, <1>2, <2>1
  <2>3. k \in a..b
    BY <1>3, <2>2
  <2>4. QED
    BY <2>3
<1> DEFINE d == b + 1 - a
<1>5. /\ rest' \in Seq(RestLine) /\ Len(rest') = Len(rest) - d
      /\ \A k \in 1..Len(rest') : rest'[k] = IF k < a THEN rest[k] ELSE rest[k + d]
  <2>1. rest \in Seq(RestLine)
    BY <1>1
  <2>2. /\ Without(rest, a, b) \in Seq(RestLine)
        /\ Len(Without(rest, a, b)) = Len(rest) - (b + 1 - a)
        /\ \A k \in 1..Len(Without(rest, a, b)) :
             Without(rest, a, b)[k] = IF k < a THEN rest[k] ELSE rest[k + (b + 1 - a)]
    BY <1>4, <2>1, Cut
  <2>3. QED
    BY <1>3, <2>2
<1>6. d \in Nat /\ b + 1 = a + d
  BY <1>1, <1>4
<1> HIDE DEF d
<1>7. ASSUME NEW o \in modules', NEW n \in 1..Len(LinesOf[o])
      PROVE  \E k \in 1..Len(rest') : rest'[k].of = o /\ rest'[k].line = LinesOf[o][n]
  <2>1. PICK j \in 1..Len(rest) : rest[j].of = o /\ rest[j].line = LinesOf[o][n]
    BY <1>1, <1>2
  <2>2. j \notin a..b
    BY <1>2, <1>3, <2>1
  <2>3. CASE j < a
    <3>1. j \in 1..Len(rest')
      BY <1>1, <1>3, <1>4, <1>5, <1>6, <2>3
    <3>2. rest'[j] = rest[j]
      BY <1>5, <2>3, <3>1
    <3>3. QED
      BY <2>1, <3>1, <3>2
  <2>4. CASE j > b
    <3>1. j - d \in 1..Len(rest') /\ ~ (j - d < a) /\ (j - d) + d = j
      BY <1>1, <1>3, <1>5, <1>6, <2>4
    <3>2. rest'[j - d] = rest[j]
      BY <1>5, <3>1
    <3>3. QED
      BY <2>1, <3>1, <3>2
  <2>5. QED
    BY <1>1, <1>3, <2>2, <2>3, <2>4
<1>8. ASSUME NEW k \in 1..Len(rest')
      PROVE  (\E j \in 1..Len(rest) : j <= k /\ rest'[k] = rest[j]) \/ rest'[k].of \in moved'
  <2>1. CASE k < a
    <3>1. k \in 1..Len(rest) /\ k <= k
      BY <1>1, <1>5, <1>6
    <3>2. QED
      BY <1>5, <2>1, <3>1
  <2>2. CASE ~ (k < a)
    <3>1. k + d \in (b + 1)..Len(rest)
      BY <1>1, <1>3, <1>5, <1>6, <2>2
    <3>2. rest'[k] = rest[k + d]
      BY <1>5, <2>2
    <3>3. QED
      BY <1>3, <3>1, <3>2
  <2>3. QED
    BY <2>1, <2>2
<1>9. QED
  BY <1>2, <1>3, <1>5, <1>7, <1>8 DEF LinesStay, FileInv

LEMMA SystemKeeps ==
  ASSUME SymbolsInv, Symbols!Boot \/ Symbols!Change
  PROVE  SymbolsInv'
<1> USE DEF SymbolsInv
<1>1. /\ UNCHANGED <<kernel, opened, kallsymsPc, pos, out_mapgen, result>>
      /\ kallsymsPc = "getuid" \/ (kallsymsPc = "getline" /\ stayed' \subseteq stayed)
      /\ stayed' \subseteq modules'
  BY DEF Symbols!Boot, Symbols!Change
<1>2. LinesStay
  BY LoadStays, UnloadStays DEF Symbols!Boot, Symbols!Change
<1>3. FileInv'
  BY <1>1, <1>2 DEF FileInv, LinesStay
<1>4. ReadInv'
  <2>1. Len(kernel) \in Nat /\ Len(rest) \in Nat /\ Len(rest') \in Nat /\ pos \in Nat
    BY <1>2 DEF FileInv, LinesStay, ReadInv
  <2>2. ASSUME NEW k \in 1..Len(rest'), Len(kernel) + k < pos, rest'[k].of \in stayed' \ moved'
        PROVE  rest'[k].line.name \in DOMAIN out_mapgen
    <3>1. kallsymsPc # "getuid"
      BY <2>1, <2>2 DEF ReadInv
    <3>2. stayed' \subseteq stayed /\ stayed \subseteq modules
      BY <1>1, <3>1 DEF FileInv
    <3>3. PICK j \in 1..Len(rest) : j <= k /\ rest'[k] = rest[j]
      BY <1>2, <2>2, <3>2 DEF LinesStay
    <3>4. Len(kernel) + j < pos /\ rest[j].of \in stayed \ moved
      BY <1>2, <2>1, <2>2, <3>2, <3>3 DEF LinesStay
    <3>5. QED
      BY <3>3, <3>4 DEF ReadInv
  <2>3. QED
    BY <1>1, <2>2 DEF ReadInv
<1>5. EndInv'
  BY <1>1 DEF EndInv, Symbols!Whole
<1>6. QED
  BY <1>3, <1>4, <1>5

-------------------------------------------------------------------------------
LEMMA SymbolsStep ==
  ASSUME SymbolsInv, [Symbols!Next]_Symbols!vars
  PROVE  SymbolsInv'
<1>1. CASE UNCHANGED Symbols!vars
  BY <1>1 DEF Symbols!vars, Symbols!system, SymbolsInv, FileInv, ReadInv, EndInv, Symbols!Whole, Symbols!Length,
     Symbols!LineAt
<1>2. CASE Symbols!Next
  BY <1>2, LineKeeps, ReaderKeeps, SystemKeeps DEF Symbols!Next, Symbols!Step
<1>3. QED
  BY <1>1, <1>2

LEMMA SymbolsEnd ==
  ASSUME SymbolsInv
  PROVE  KernelComplete /\ ModulesStay
<1> SUFFICES ASSUME Symbols!Whole
             PROVE  KernelComplete /\ ModulesStay
  BY DEF KernelComplete, ModulesStay, Symbols!KernelComplete, Symbols!ModulesStay
<1>1. /\ Len(kernel) \in Nat /\ Len(rest) \in Nat /\ pos \in Nat \ {0}
      /\ Symbols!Length = Len(kernel) + Len(rest)
      /\ pos > Symbols!Length \/ ~ (Symbols!LineAt(pos).width < Buffer)
  BY DEF SymbolsInv, FileInv, ReadInv, EndInv, Symbols!Length
<1>2. ASSUME NEW n \in 1..Len(kernel), \A m \in 1..n : kernel[m].width < Buffer
      PROVE  kernel[n].name \in DOMAIN out_mapgen
  <2>1. n < pos
    <3> SUFFICES ASSUME pos <= n PROVE FALSE
      BY <1>1
    <3>1. pos \in 1..n /\ pos <= Len(kernel) /\ ~ (pos > Symbols!Length)
      BY <1>1
    <3>2. QED
      BY <1>1, <1>2, <3>1 DEF Symbols!LineAt
  <2>2. QED
    BY <2>1 DEF SymbolsInv, ReadInv
<1>3. ASSUME \A p \in 1..Symbols!Length : Symbols!LineAt(p).width < Buffer,
             NEW m \in stayed \ moved, NEW n \in 1..Len(LinesOf[m])
      PROVE  LinesOf[m][n].name \in DOMAIN out_mapgen
  <2>1. pos > Symbols!Length
    BY <1>1, <1>3
  <2>2. PICK k \in 1..Len(rest) : rest[k].of = m /\ rest[k].line = LinesOf[m][n]
    BY DEF SymbolsInv, FileInv
  <2>3. Len(kernel) + k < pos
    BY <1>1, <2>1
  <2>4. QED
    BY <2>2, <2>3 DEF SymbolsInv, ReadInv
<1>4. QED
  BY <1>2, <1>3 DEF KernelComplete, ModulesStay, Symbols!KernelComplete, Symbols!ModulesStay

(***************************************************************************)
(* Kallsyms, for every kernel, any modules, any buffer and any number of   *)
(* changes: the kernel's symbols are in the map up to a line that does not *)
(* fit the buffer, and those of a module that is loaded all the time,      *)
(* unless one before it is unloaded meanwhile.                             *)
(***************************************************************************)
THEOREM SymbolsComplete ==
  Symbols!Spec => [](KernelComplete /\ ModulesStay)
<1>1. Symbols!Init => SymbolsInv
  BY SymbolsInit
<1>2. SymbolsInv /\ [Symbols!Next]_Symbols!vars => SymbolsInv'
  BY SymbolsStep
<1>3. SymbolsInv => KernelComplete /\ ModulesStay
  BY SymbolsEnd
<1>4. QED
  BY <1>1, <1>2, <1>3, PTL DEF Symbols!Spec
================================================================================
