-------------------------- MODULE ImageReadersProofs ---------------------------
(***************************************************************************)
(* Proofs about the functions of ImageReaders, for words of every width    *)
(* and all images.                                                         *)
(*                                                                         *)
(* Translate.  The loop has passed only entries that do not contain the    *)
(* address, so the entry it stops at is the first one that does.           *)
(***************************************************************************)
EXTENDS ImageReaders, TLAPS

ScanInv ==
  /\ pc # "done" => result = -1 /\ out = Unset
  /\ pc = "headers" => i = 1
  /\ pc = "scan" => fn # "macho_vatoraw" /\ \A k \in 1..(i - 1) : ~ Contains(k)

IInv == TypeOK /\ ScanInv /\ Exact /\ ZeroMeansStored

-------------------------------------------------------------------------------
(***************************************************************************)
(* Arithmetic of words.                                                    *)
(***************************************************************************)
LEMMA NoWrap ==
  ASSUME NEW w \in Nat, NEW n \in Nat, n < w
  PROVE  n % w = n /\ (n + w) % w = n
OBVIOUS

LEMMA SameDelta ==
  ASSUME NEW v \in Int, NEW a \in Int, NEW b \in Int, NEW c \in Int, NEW d \in Int, a - b = c - d
  PROVE  v - a + b = v - c + d
OBVIOUS

(***************************************************************************)
(* The fields of an entry, and what the macro says of it when its end does *)
(* not wrap.                                                               *)
(***************************************************************************)
LEMMA EntryTypes ==
  ASSUME TypeOK, NEW k \in 1..Len(tab)
  PROVE  /\ tab[k].loads \in BOOLEAN
         /\ tab[k].addr \in 0..(Width - 1) /\ tab[k].size \in 0..(Width - 1) /\ tab[k].off \in 0..(Width - 1)
         /\ Width \in Nat /\ Width <= W /\ W \in Nat
<1>1. tab \in Seq(Entry(Width))
  BY DEF TypeOK
<1>2. tab[k] \in Entry(Width)
  BY <1>1
<1>3. W \in Nat /\ Width \in Nat /\ Width <= W
  BY WidthAssumption DEF Width
<1>4. QED
  BY <1>2, <1>3 DEF Entry

LEMMA ContainsMeaning ==
  ASSUME TypeOK, fn # "macho_vatoraw", NEW k \in 1..Len(tab), tab[k].addr + tab[k].size < Width
  PROVE  Contains(k) <=> Covers(k, va)
<1>1. tab[k].addr \in Nat /\ tab[k].size \in Nat /\ Width \in Nat
  BY EntryTypes
<1>2. (tab[k].addr + tab[k].size) % Width = tab[k].addr + tab[k].size
  <2> DEFINE e == tab[k].addr + tab[k].size
  <2>1. e \in Nat /\ e < Width
    BY <1>1
  <2> HIDE DEF e
  <2>2. e % Width = e
    BY <1>1, <2>1, NoWrap
  <2>3. QED
    BY <2>2 DEF e
<1>3. CASE fn = "elf_vatoraw"
  BY <1>2, <1>3 DEF Width, Contains, Covers, Elf!REGION_CONTAINS, Elf!CASE_OVERLAP_R1_IN_R2, Elf!End
<1>4. CASE fn # "elf_vatoraw"
  BY <1>2, <1>4 DEF Width, Contains, Covers, Pe!REGION_CONTAINS, Pe!CASE_OVERLAP_R1_IN_R2, Pe!End
<1>5. QED
  BY <1>3, <1>4

(***************************************************************************)
(* The offset that is computed is the one meant.                           *)
(***************************************************************************)
LEMMA MovedMeaning ==
  ASSUME TypeOK, NEW k \in 1..Len(tab), Covers(k, va), tab[k].off + tab[k].size <= Width
  PROVE  Moved(tab[k]) = va - tab[k].addr + tab[k].off
<1> DEFINE d == va - tab[k].addr + tab[k].off
<1>1. /\ tab[k].addr \in Nat /\ tab[k].size \in Nat /\ tab[k].off \in Nat
      /\ Width \in Nat /\ W \in Nat /\ Width <= W /\ va \in Nat
  BY EntryTypes DEF TypeOK
<1>2. tab[k].addr <= va /\ va < tab[k].addr + tab[k].size
  BY DEF Covers
<1>3. d \in 0..(W - 1)
  BY <1>1, <1>2
<1>4. va + (W - tab[k].addr) + tab[k].off = d + W
  BY <1>1
<1>5. (d + W) % W = d
  <2> HIDE DEF d
  <2>1. d \in Nat /\ d < W
    BY <1>1, <1>3
  <2>2. QED
    BY <1>1, <2>1, NoWrap
<1>6. QED
  BY <1>4, <1>5 DEF Moved

-------------------------------------------------------------------------------
LEMMA InitHolds == Init => IInv
<1> SUFFICES ASSUME Init PROVE IInv
  OBVIOUS
<1>1. tab \in Seq(Entry(Width))
  <2>1. CASE fn = "elf_vatoraw" /\ tab \in ElfTables
    BY <2>1, TablesAssumption DEF Width
  <2>2. CASE fn = "pe_vatoraw" /\ tab \in PeTables
    BY <2>2, TablesAssumption DEF Width
  <2>3. CASE tab = <<>>
    BY <2>3
  <2>4. QED
    BY <2>1, <2>2, <2>3 DEF Init
<1>2. Len(tab) \in Nat
  BY <1>1
<1>3. TypeOK
  BY <1>1, <1>2, WidthAssumption DEF Init, TypeOK
<1>4. ScanInv /\ Exact /\ ZeroMeansStored
  BY DEF Init, ScanInv, Exact, ZeroMeansStored
<1>5. QED
  BY <1>3, <1>4 DEF IInv

LEMMA HitKeeps == ASSUME IInv, Hit PROVE IInv'
<1>1. /\ UNCHANGED <<fn, tab, valid, va, wantsOut, i>>
      /\ pc = "scan" /\ pc' = "done" /\ result' = 0 /\ Contains(i) /\ fn # "macho_vatoraw"
      /\ out' = IF wantsOut THEN Moved(tab[i]) ELSE out
      /\ out = Unset /\ TypeOK
  BY DEF Hit, IInv, ScanInv, args
<1>2. i \in 1..Len(tab)
  BY <1>1 DEF Hit, TypeOK
<1>3. Moved(tab[i]) \in 0..(W - 1)
  <2> DEFINE n == va + (W - tab[i].addr) + tab[i].off
  <2>1. n \in Nat /\ W \in Nat /\ W > 0
    BY <1>1, <1>2, EntryTypes DEF TypeOK
  <2> HIDE DEF n
  <2>2. n % W \in 0..(W - 1)
    BY <2>1
  <2>3. QED
    BY <2>2 DEF Moved, n
<1>4. TypeOK'
  BY <1>1, <1>3 DEF TypeOK, Width
<1>5. ScanInv' /\ ZeroMeansStored'
  <2>1. Moved(tab[i]) # Unset
    BY <1>1, <1>2, <1>3, EntryTypes, UnsetAssumption
  <2>2. QED
    BY <1>1, <2>1 DEF ScanInv, ZeroMeansStored
<1>6. Exact'
  <2>1. WellFormed' <=> WellFormed
    BY <1>1 DEF WellFormed, Covers, Width
  <2>2. SUFFICES ASSUME WellFormed
                 PROVE  /\ \A k \in 1..Len(tab) : Covers(k, va) /\ tab[k].loads =>
                             (wantsOut => Moved(tab[i]) = va - tab[k].addr + tab[k].off)
                        /\ \E k \in 1..Len(tab) : Covers(k, va)
    BY <1>1, <2>1 DEF Exact, Covers
  <2>3. \A k \in 1..Len(tab) : Contains(k) <=> Covers(k, va)
    BY <1>1, <2>2, ContainsMeaning DEF WellFormed
  <2>4. Covers(i, va)
    BY <1>1, <1>2, <2>3
  <2>5. Moved(tab[i]) = va - tab[i].addr + tab[i].off
    BY <1>1, <1>2, <2>2, <2>4, MovedMeaning DEF WellFormed
  <2>6. ASSUME NEW k \in 1..Len(tab), Covers(k, va), tab[k].loads
        PROVE  tab[i].addr - tab[i].off = tab[k].addr - tab[k].off
    <3>1. k >= i
      <4>1. \A j \in 1..(i - 1) : j \in 1..Len(tab) /\ ~ Covers(j, va)
        BY <1>1, <1>2, <2>3 DEF IInv, ScanInv
      <4>2. QED
        BY <1>2, <2>6, <4>1
    <3>2. CASE k > i
      <4>1. i \in 1..(k - 1) /\ va \in 0..(W - 1)
        BY <1>1, <1>2, <3>2 DEF TypeOK
      <4>2. QED
        BY <2>2, <2>4, <2>6, <4>1, Zenon DEF WellFormed
    <3>3. QED
      BY <1>2, <3>1, <3>2
  <2>7. ASSUME NEW k \in 1..Len(tab), Covers(k, va), tab[k].loads
        PROVE  Moved(tab[i]) = va - tab[k].addr + tab[k].off
    <3>1. tab[i].addr - tab[i].off = tab[k].addr - tab[k].off
      BY <2>6, <2>7
    <3>2. /\ tab[i].addr \in Int /\ tab[i].off \in Int /\ tab[k].addr \in Int /\ tab[k].off \in Int
          /\ va \in Int
      BY <1>1, <1>2, EntryTypes DEF TypeOK
    <3>3. va - tab[i].addr + tab[i].off = va - tab[k].addr + tab[k].off
      <4> DEFINE a == tab[i].addr
                 b == tab[i].off
                 c == tab[k].addr
                 d == tab[k].off
      <4>1. a \in Int /\ b \in Int /\ c \in Int /\ d \in Int /\ va \in Int /\ a - b = c - d
        BY <3>1, <3>2
      <4> HIDE DEF a, b, c, d
      <4>2. va - a + b = va - c + d
        BY <4>1, SameDelta
      <4>3. QED
        BY <4>2 DEF a, b, c, d
    <3>4. QED
      BY <2>5, <3>3, Zenon
  <2>8. QED
    BY <1>2, <2>4, <2>7
<1>7. QED
  BY <1>4, <1>5, <1>6 DEF IInv

LEMMA NoEntryKeeps == ASSUME IInv, NoEntry PROVE IInv'
<1>1. /\ UNCHANGED <<fn, tab, valid, va, wantsOut, i, result, out>>
      /\ pc = "scan" /\ pc' = "done" /\ result = -1 /\ out = Unset /\ fn # "macho_vatoraw"
      /\ TypeOK /\ i > Len(tab)
  BY DEF NoEntry, IInv, ScanInv, args
<1>2. TypeOK' /\ ScanInv' /\ ZeroMeansStored'
  BY <1>1 DEF TypeOK, ScanInv, ZeroMeansStored, Width
<1>3. Exact'
  <2>1. WellFormed' <=> WellFormed
    BY <1>1 DEF WellFormed, Covers, Width
  <2>2. SUFFICES ASSUME WellFormed, NEW k \in 1..Len(tab), Covers(k, va) PROVE FALSE
    BY <1>1, <2>1 DEF Exact, Covers
  <2>3. Contains(k)
    BY <1>1, <2>2, ContainsMeaning DEF WellFormed
  <2>4. k \in 1..(i - 1)
    BY <1>1, <2>2 DEF TypeOK
  <2>5. QED
    BY <1>1, <2>3, <2>4 DEF IInv, ScanInv
<1>4. QED
  BY <1>2, <1>3 DEF IInv

LEMMA PassKeeps == ASSUME IInv, Pass PROVE IInv'
<1>1. /\ UNCHANGED <<fn, tab, valid, va, wantsOut, pc, result, out>>
      /\ pc = "scan" /\ i' = i + 1 /\ TypeOK /\ i <= Len(tab) /\ ~ Contains(i)
      /\ fn # "macho_vatoraw" /\ result = -1 /\ out = Unset
  BY DEF Pass, IInv, ScanInv, args
<1>2. Len(tab) \in Nat /\ i \in Nat
  BY <1>1 DEF TypeOK
<1>3. i' \in 1..(Len(tab) + 1)
  BY <1>1, <1>2 DEF TypeOK
<1>4. TypeOK'
  BY <1>1, <1>3 DEF TypeOK, Width
<1>5. \A k \in 1..(i' - 1) : ~ Contains(k)
  BY <1>1, <1>2 DEF IInv, ScanInv, TypeOK
<1>6. ScanInv'
  BY <1>1, <1>5 DEF ScanInv, Contains, Elf!REGION_CONTAINS, Elf!CASE_OVERLAP_R1_IN_R2, Elf!End,
                    Pe!REGION_CONTAINS, Pe!CASE_OVERLAP_R1_IN_R2, Pe!End
<1>7. Exact' /\ ZeroMeansStored'
  BY <1>1 DEF Exact, ZeroMeansStored
<1>8. QED
  BY <1>4, <1>6, <1>7 DEF IInv

LEMMA StartKeeps == ASSUME IInv, BadSignature \/ Headers PROVE IInv'
<1>1. /\ UNCHANGED <<fn, tab, valid, va, wantsOut, i, result, out>>
      /\ pc = "headers" /\ TypeOK /\ i = 1 /\ result = -1 /\ out = Unset
      /\ fn # "macho_vatoraw" /\ pc' = IF valid THEN "scan" ELSE "done"
  BY DEF BadSignature, Headers, IInv, ScanInv, TypeOK, args
<1>2. TypeOK'
  BY <1>1 DEF TypeOK, Width
<1>3. ScanInv'
  BY <1>1 DEF ScanInv
<1>4. Exact' /\ ZeroMeansStored'
  BY <1>1 DEF Exact, ZeroMeansStored
<1>5. QED
  BY <1>2, <1>3, <1>4 DEF IInv

LEMMA MachOKeeps == ASSUME IInv, MachO PROVE IInv'
<1>1. /\ UNCHANGED <<fn, tab, valid, va, wantsOut, i, out>>
      /\ pc' = "done" /\ fn = "macho_vatoraw" /\ TypeOK /\ out = Unset /\ result' = AsInt(va)
  BY DEF MachO, IInv, ScanInv, args
<1>2. va \in Nat /\ DW \in Nat \ {0} /\ va % DW \in 0..(DW - 1)
  BY <1>1, WidthAssumption DEF TypeOK
<1>3. AsInt(va) \in -DW..(DW - 1) /\ (AsInt(va) = 0 => va % DW = 0)
  BY <1>2 DEF AsInt
<1>4. TypeOK'
  BY <1>1, <1>3 DEF TypeOK, Width
<1>5. ScanInv' /\ Exact' /\ ZeroMeansStored'
  BY <1>1, <1>3 DEF ScanInv, Exact, ZeroMeansStored
<1>6. QED
  BY <1>4, <1>5 DEF IInv

LEMMA NextKeeps == IInv /\ [Next]_vars => IInv'
<1> SUFFICES ASSUME IInv, [Next]_vars PROVE IInv'
  OBVIOUS
<1>1. CASE UNCHANGED vars
  <2>1. UNCHANGED <<fn, tab, valid, va, wantsOut, pc, i, result, out>>
    BY <1>1 DEF vars, args
  <2>2. TypeOK' /\ ZeroMeansStored'
    BY <2>1 DEF IInv, TypeOK, Width, ZeroMeansStored
  <2>3. ScanInv'
    BY <2>1 DEF IInv, ScanInv, Contains, Elf!REGION_CONTAINS, Elf!CASE_OVERLAP_R1_IN_R2, Elf!End,
                Pe!REGION_CONTAINS, Pe!CASE_OVERLAP_R1_IN_R2, Pe!End
  <2>4. Exact'
    BY <2>1 DEF IInv, Exact, WellFormed, Covers, Width
  <2>5. QED
    BY <2>2, <2>3, <2>4 DEF IInv
<1>2. QED
  BY <1>1, HitKeeps, NoEntryKeeps, PassKeeps, StartKeeps, MachOKeeps DEF Next

(***************************************************************************)
(* For every table a link editor may write, elf_vatoraw and pe_vatoraw     *)
(* translate every mapped address, and as the loader maps it; and a call   *)
(* that fails stores nothing.                                              *)
(***************************************************************************)
THEOREM TranslationExact == Spec => [](TypeOK /\ Exact /\ ZeroMeansStored)
<1>1. Spec => []IInv
  BY InitHolds, NextKeeps, PTL DEF Spec
<1>2. QED
  BY <1>1, PTL DEF IInv

-------------------------------------------------------------------------------
(***************************************************************************)
(* PeExports.                                                              *)
(***************************************************************************)
ExportsInv ==
  /\ Exports!Image(exporter) /\ nameOrd \in Nat \ {0}
  /\ loaded \in BOOLEAN /\ virtual_address \in BOOLEAN
  /\ exportPc = "section" => nameOrd = 1
  /\ exportPc # "done" => exportResult = Unset
  /\ exportPc = "names" => /\ exporter.edata # "none" /\ Exports!VIRTUAL_ADJUST = Exports!Place(".edata")
                          /\ \A k \in 1..(nameOrd - 1) : exporter.names[k] # exportName
  /\ ExportsReadable /\ ExportFound

(***************************************************************************)
(* Told the truth, the call reads what is in .edata, and in a loaded image *)
(* everything.                                                             *)
(***************************************************************************)
LEMMA ReadsWhatItShould ==
  ASSUME NEW section, virtual_address = loaded, loaded \in BOOLEAN, loaded \/ section = ".edata"
  PROVE  Exports!VIRTUAL_ADJUST = Exports!Place(section)
BY DEF Exports!VIRTUAL_ADJUST, Exports!Place

LEMMA ExportsInit ==
  ASSUME Exports!Init
  PROVE  ExportsInv
<1>1. /\ Exports!Image(exporter) /\ nameOrd = 1 /\ exportPc = "section" /\ exportResult = Unset
      /\ loaded \in BOOLEAN /\ virtual_address \in BOOLEAN
  BY ExportsAssumption DEF Exports!Init, Exports!ImagesAssumption
<1>2. QED
  BY <1>1 DEF ExportsInv, ExportsReadable, ExportFound, Exports!UndefinedHasCause, Exports!ExportFound

LEMMA ExportsUndefined ==
  ASSUME ExportsInv, NEW t \in Exports!Tables, ~ Exports!Reads(t)
  PROVE  virtual_address # loaded \/ (~ loaded /\ exporter.at[t] # ".edata")
BY ReadsWhatItShould, Zenon DEF ExportsInv, Exports!Reads

LEMMA ExportsStep ==
  ASSUME ExportsInv, [Exports!Next]_Exports!vars
  PROVE  ExportsInv'
<1> USE DEF Exports!args, Exports!Names
<1> DEFINE Same == UNCHANGED <<exporter, loaded, exportName, virtual_address>>
<1>1. /\ nameOrd \in Nat \ {0} /\ exporter.names \in Seq(Name) /\ DOMAIN exporter.names = 1..Len(exporter.names)
      /\ Len(exporter.names) \in Nat
  BY DEF ExportsInv, Exports!Image
<1>2. Same
  BY DEF Exports!Next, Exports!NoSection, Exports!Directory, Exports!Misread, Exports!Pass, Exports!Hit,
     Exports!Missing, Exports!vars
<1>3. /\ UNCHANGED <<Exports!VIRTUAL_ADJUST, Exports!Place(".edata"), Exports!Holding, Exports!Exported>>
      /\ UNCHANGED Exports!Image(exporter)
  BY <1>2 DEF Exports!VIRTUAL_ADJUST, Exports!Place, Exports!Holding, Exports!Exported, Exports!Image
<1>4. CASE UNCHANGED Exports!vars
  BY <1>2, <1>3, <1>4 DEF Exports!vars, ExportsInv, ExportsReadable, ExportFound, Exports!UndefinedHasCause,
     Exports!ExportFound
<1>5. CASE Exports!NoSection
  BY <1>2, <1>3, <1>5 DEF Exports!NoSection, ExportsInv, ExportsReadable, ExportFound, Exports!UndefinedHasCause,
     Exports!ExportFound
<1>6. CASE Exports!Directory
  <2>1. /\ nameOrd' = 1 /\ exporter.edata # "none" /\ exportResult' = Unset
        /\ \/ exportPc' = "names" /\ Exports!VIRTUAL_ADJUST = Exports!Place(".edata")
           \/ /\ exportPc' = "undefined"
              /\ exporter.edata # "directory" \/ Exports!VIRTUAL_ADJUST # Exports!Place(".edata")
        /\ exporter.edata \in {"none", "directory", "other"}
    BY <1>6 DEF Exports!Directory, ExportsInv, Exports!Image
  <2>2. exportPc' = "undefined" => virtual_address # loaded \/ exporter.edata = "other"
    BY <2>1, ReadsWhatItShould, Zenon DEF ExportsInv
  <2>3. QED
    BY <1>2, <1>3, <2>1, <2>2 DEF ExportsInv, ExportsReadable, ExportFound, Exports!UndefinedHasCause,
       Exports!ExportFound
<1>7. CASE Exports!Misread
  <2>1. PICK t \in Exports!Tables : ~ Exports!Reads(t)
    BY <1>7 DEF Exports!Misread, Exports!Tables
  <2>2. virtual_address # loaded \/ (~ loaded /\ \E u \in Exports!Tables : exporter.at[u] # ".edata")
    BY <2>1, ExportsUndefined
  <2>3. QED
    BY <1>2, <1>3, <1>7, <2>2 DEF Exports!Misread, ExportsInv, ExportsReadable, ExportFound,
       Exports!UndefinedHasCause, Exports!ExportFound
<1>8. CASE Exports!Pass
  <2>1. \A k \in 1..(nameOrd' - 1) : exporter.names[k] # exportName
    BY <1>1, <1>8 DEF Exports!Pass, ExportsInv
  <2>2. nameOrd' \in Nat \ {0}
    BY <1>1, <1>8 DEF Exports!Pass
  <2>3. QED
    BY <1>2, <1>3, <1>8, <2>1, <2>2 DEF Exports!Pass, ExportsInv, ExportsReadable, ExportFound,
       Exports!UndefinedHasCause, Exports!ExportFound
<1>9. CASE Exports!Hit
  <2>1. nameOrd \in DOMAIN exporter.names /\ exporter.names[nameOrd] = exportName
    BY <1>1, <1>9 DEF Exports!Hit
  <2>2. CASE exportPc' = "done" /\ exportResult' = Exports!Function /\ Exports!Within
    <3>1. exportResult' \in Exports!Exported
      BY <2>1, <2>2 DEF Exports!Exported, Exports!Holding, Exports!Function, Exports!Within
    <3>2. QED
      BY <1>2, <1>3, <1>9, <2>2, <3>1 DEF Exports!Hit, ExportsInv, ExportsReadable, ExportFound,
         Exports!UndefinedHasCause, Exports!ExportFound
  <2>3. CASE /\ exportPc' = "undefined" /\ UNCHANGED exportResult
             /\ ~ (Exports!Reads("addrOrd") /\ Exports!Reads("addrFunc"))
    <3>1. virtual_address # loaded \/ (~ loaded /\ \E u \in Exports!Tables : exporter.at[u] # ".edata")
      <4>1. PICK t \in Exports!Tables : ~ Exports!Reads(t)
        BY <2>3 DEF Exports!Tables
      <4>2. QED
        BY <4>1, ExportsUndefined
    <3>2. QED
      BY <1>2, <1>3, <1>9, <2>3, <3>1 DEF Exports!Hit, ExportsInv, ExportsReadable, ExportFound,
         Exports!UndefinedHasCause, Exports!ExportFound
  <2>4. CASE exportPc' = "undefined" /\ UNCHANGED exportResult /\ ~ Exports!Within
    <3>1. \E n \in Exports!Holding : exporter.ordinals[n] \notin DOMAIN exporter.functions
      BY <2>1, <2>4 DEF Exports!Holding, Exports!Within
    <3>2. QED
      BY <1>2, <1>3, <1>9, <2>4, <3>1 DEF Exports!Hit, ExportsInv, ExportsReadable, ExportFound,
         Exports!UndefinedHasCause, Exports!ExportFound
  <2>5. QED
    BY <1>9, <2>2, <2>3, <2>4 DEF Exports!Hit
<1>10. CASE Exports!Missing
  <2>1. Exports!Holding = {}
    BY <1>1, <1>10 DEF Exports!Missing, Exports!Holding, ExportsInv
  <2>2. QED
    BY <1>2, <1>3, <1>10, <2>1 DEF Exports!Missing, ExportsInv, ExportsReadable, ExportFound,
       Exports!UndefinedHasCause, Exports!ExportFound
<1>11. QED
  BY <1>4, <1>5, <1>6, <1>7, <1>8, <1>9, <1>10 DEF Exports!Next

(***************************************************************************)
(* redlsym, for all images: it reads other bytes than it should only when  *)
(* it is not told the truth, the tables are not all in .edata, .edata does *)
(* not start with the directory or the name's ordinal is that of no        *)
(* function, and what it answers is exported under the name.               *)
(***************************************************************************)
THEOREM ExportsHold ==
  Exports!Spec => [](ExportsReadable /\ ExportFound)
<1>1. Exports!Init => ExportsInv
  BY ExportsInit
<1>2. ExportsInv /\ [Exports!Next]_Exports!vars => ExportsInv'
  BY ExportsStep
<1>3. ExportsInv => ExportsReadable /\ ExportFound
  BY DEF ExportsInv
<1>4. QED
  BY <1>1, <1>2, <1>3, PTL DEF Exports!Spec

-------------------------------------------------------------------------------
(***************************************************************************)
(* PeImports.  What has been passed is not what is sought.                 *)
(***************************************************************************)
ImportArgs ==
  /\ importer.size \in Nat /\ importer.imports \in Seq(Imports!Descriptor)
  /\ importName \in Name \cup Ordinal

ImportsInv ==
  /\ ImportArgs /\ descriptor \in Nat \ {0} /\ ogT \in Nat \ {0}
  /\ importPc = "headers" => descriptor = 1
  /\ importPc # "done" => importResult = Imports!NotFound
  /\ importPc \in {"descriptor", "thunk"} =>
       \A w \in Imports!Wanted : w[1] >= descriptor
  /\ importPc = "thunk" =>
       /\ descriptor \in 1..Len(importer.imports) /\ descriptor <= Imports!num_of_imports
       /\ importer.imports[descriptor].lib = libName
       /\ \A n \in 1..(ogT - 1) : importer.imports[descriptor].thunks[n] # importName
  /\ ImportsReadable /\ FirstImport

LEMMA WantedMeaning ==
  ASSUME ImportArgs
  PROVE  /\ importer.imports \in Seq(Imports!Descriptor) /\ Len(importer.imports) \in Nat
         /\ \A d \in 1..Len(importer.imports) : /\ importer.imports[d].thunks \in Seq(Name \cup Ordinal)
                                               /\ Len(importer.imports[d].thunks) \in Nat
         /\ \A w \in Imports!Wanted :
              \E d \in 1..Len(importer.imports) : \E k \in 1..Len(importer.imports[d].thunks) :
                /\ w = <<d, k>> /\ w[1] = d /\ w[2] = k
                /\ importer.imports[d].lib = libName /\ importer.imports[d].thunks[k] = importName
         /\ \A d \in 1..Len(importer.imports) : \A k \in 1..Len(importer.imports[d].thunks) :
              importer.imports[d].lib = libName /\ importer.imports[d].thunks[k] = importName =>
                <<d, k>> \in Imports!Wanted
<1>1. importer.imports \in Seq(Imports!Descriptor) /\ Len(importer.imports) \in Nat
  BY DEF ImportArgs
<1>2. \A d \in 1..Len(importer.imports) : importer.imports[d] \in Imports!Descriptor
  BY <1>1
<1>3. \A d \in 1..Len(importer.imports) : /\ importer.imports[d].thunks \in Seq(Name \cup Ordinal)
                                          /\ Len(importer.imports[d].thunks) \in Nat
  BY <1>2 DEF Imports!Descriptor
<1>4. \A w \in Imports!Wanted :
        \E d \in 1..Len(importer.imports) : \E k \in 1..Len(importer.imports[d].thunks) :
          /\ w = <<d, k>> /\ w[1] = d /\ w[2] = k
          /\ importer.imports[d].lib = libName /\ importer.imports[d].thunks[k] = importName
  BY DEF Imports!Wanted
<1>5. \A d \in 1..Len(importer.imports) : \A k \in 1..Len(importer.imports[d].thunks) :
        importer.imports[d].lib = libName /\ importer.imports[d].thunks[k] = importName => <<d, k>> \in Imports!Wanted
  BY DEF Imports!Wanted
<1>6. QED
  BY <1>1, <1>3, <1>4, <1>5

LEMMA ImportsInit ==
  ASSUME Imports!Init
  PROVE  ImportsInv
<1>1. /\ ImportArgs /\ descriptor = 1 /\ ogT = 1 /\ importPc = "headers" /\ importResult = Imports!NotFound
  BY ImportsAssumption DEF Imports!Init, Imports!ImagesAssumption, Imports!Image, ImportArgs
<1>2. QED
  BY <1>1 DEF ImportsInv, ImportsReadable, FirstImport, Imports!UndefinedHasCause, Imports!FirstImport

LEMMA ImportsStep ==
  ASSUME ImportsInv, [Imports!Next]_Imports!vars
  PROVE  ImportsInv'
<1> USE DEF Imports!args, Imports!At, Imports!num_of_imports
<1> DEFINE n == Len(importer.imports)
           Thunks == importer.imports[descriptor].thunks
<1>1. /\ ImportArgs /\ descriptor \in Nat \ {0} /\ ogT \in Nat \ {0} /\ importer.size \in Nat /\ n \in Nat
  BY WantedMeaning DEF ImportsInv, ImportArgs
<1>2. UNCHANGED <<importer, libName, importName>>
  BY DEF Imports!Next, Imports!Headers, Imports!OtherLibrary, Imports!Enter, Imports!PastTheEnd, Imports!Look,
     Imports!Deref, Imports!LastThunk, Imports!LastDescriptor, Imports!Skip, Imports!vars
<1>3. UNCHANGED <<Imports!Wanted, ImportArgs>>
  BY <1>2 DEF Imports!Wanted, ImportArgs
<1>4. CASE UNCHANGED Imports!vars
  BY <1>2, <1>3, <1>4 DEF Imports!vars, ImportsInv, ImportsReadable, FirstImport, Imports!UndefinedHasCause,
     Imports!FirstImport
<1>5. CASE Imports!Headers
  <2>1. \A w \in Imports!Wanted : w[1] >= 1
    BY <1>1, WantedMeaning
  <2>2. descriptor = 1
    BY <1>5 DEF Imports!Headers, ImportsInv
  <2>3. QED
    BY <1>1, <1>2, <1>3, <1>5, <2>1, <2>2 DEF Imports!Headers, ImportsInv, ImportsReadable, FirstImport,
       Imports!UndefinedHasCause, Imports!FirstImport
<1>6. CASE Imports!OtherLibrary
  <2>1. \A w \in Imports!Wanted : w[1] >= descriptor + 1
    <3> TAKE w \in Imports!Wanted
    <3>1. PICK d \in 1..n : w[1] = d /\ importer.imports[d].lib = libName
      BY <1>1, WantedMeaning
    <3>2. d >= descriptor /\ d # descriptor
      BY <1>6, <3>1 DEF Imports!OtherLibrary, Imports!Matches, ImportsInv
    <3>3. QED
      BY <1>1, <3>1, <3>2
  <2>2. descriptor + 1 \in Nat \ {0}
    BY <1>1
  <2>3. QED
    BY <1>1, <1>2, <1>3, <1>6, <2>1, <2>2 DEF Imports!OtherLibrary, Imports!Skip, ImportsInv, ImportsReadable,
       FirstImport, Imports!UndefinedHasCause, Imports!FirstImport
<1>7. CASE Imports!Enter
  <2>1. descriptor \in 1..n /\ importer.imports[descriptor].lib = libName
    BY <1>1, <1>7 DEF Imports!Enter, Imports!Matches
  <2>2. ImportsReadable'
    BY <1>2, <1>7, <2>1 DEF Imports!Enter, ImportsReadable, Imports!UndefinedHasCause
  <2>3. QED
    BY <1>1, <1>2, <1>3, <1>7, <2>1, <2>2 DEF Imports!Enter, ImportsInv, FirstImport, Imports!FirstImport
<1>8. CASE Imports!PastTheEnd
  <2>1. importer.size > n + 2
    BY <1>1, <1>8 DEF Imports!PastTheEnd
  <2>2. QED
    BY <1>1, <1>2, <1>3, <1>8, <2>1 DEF Imports!PastTheEnd, ImportsInv, ImportsReadable, FirstImport,
       Imports!UndefinedHasCause, Imports!FirstImport
<1>9. CASE Imports!Look
  <2>1. /\ importPc = "thunk" /\ descriptor \in 1..n /\ descriptor <= Imports!num_of_imports
        /\ importer.imports[descriptor].lib = libName
        /\ \A k \in 1..(ogT - 1) : Thunks[k] # importName
        /\ ogT \in 1..Len(Thunks) /\ Len(Thunks) \in Nat
    BY <1>1, <1>9, WantedMeaning DEF Imports!Look, Imports!AtThunk, Imports!Thunks, ImportsInv
  <2>2. CASE Thunks[ogT] = importName /\ importResult' = <<descriptor, ogT, "OriginalFirstThunk">> /\ importPc' = "done"
             /\ UNCHANGED <<descriptor, ogT>>
    <3> DEFINE w == <<descriptor, ogT>>
    <3>1. w \in Imports!Wanted /\ w[1] <= Imports!num_of_imports
      BY <1>1, <2>1, <2>2, WantedMeaning
    <3>2. importResult' = Append(w, "OriginalFirstThunk")
      BY <2>2
    <3>3. \A v \in Imports!Wanted : ~ Imports!Before(v, w)
      <4> TAKE v \in Imports!Wanted
      <4>1. PICK d \in 1..n : \E k \in 1..Len(importer.imports[d].thunks) :
              v[1] = d /\ v[2] = k /\ importer.imports[d].thunks[k] = importName
        BY <1>1, WantedMeaning
      <4>2. PICK k \in 1..Len(importer.imports[d].thunks) :
              v[1] = d /\ v[2] = k /\ importer.imports[d].thunks[k] = importName
        BY <4>1
      <4>3. d >= descriptor
        BY <2>1, <4>2 DEF ImportsInv
      <4>4. d = descriptor => k \notin 1..(ogT - 1)
        BY <2>1, <4>2
      <4>5. w[1] = descriptor /\ w[2] = ogT
        OBVIOUS
      <4>6. QED
        BY <1>1, <2>1, <4>2, <4>3, <4>4, <4>5 DEF Imports!Before
    <3> HIDE DEF w
    <3>4. FirstImport'
      BY <1>2, <1>3, <3>1, <3>2, <3>3 DEF FirstImport, Imports!FirstImport, Imports!Before
    <3>5. QED
      BY <1>1, <1>2, <1>3, <2>2, <3>4 DEF ImportsInv, ImportsReadable, Imports!UndefinedHasCause
  <2>3. CASE Thunks[ogT] # importName /\ ogT' = ogT + 1 /\ UNCHANGED <<importPc, descriptor, importResult>>
    <3>1. \A k \in 1..(ogT' - 1) : Thunks[k] # importName
      BY <1>1, <2>1, <2>3
    <3>2. ogT' \in Nat \ {0}
      BY <1>1, <2>3
    <3>3. QED
      BY <1>1, <1>2, <1>3, <2>1, <2>3, <3>1, <3>2 DEF ImportsInv, ImportsReadable, FirstImport,
         Imports!UndefinedHasCause, Imports!FirstImport
  <2>4. QED
    BY <1>9, <2>2, <2>3 DEF Imports!Look, Imports!Thunks
<1>10. CASE Imports!Deref
  <2>1. /\ descriptor \in 1..n /\ importer.imports[descriptor].lib = libName
        /\ ogT \in 1..Len(Thunks) /\ Thunks[ogT] \in Name /\ importName \in Ordinal
    BY <1>1, <1>10, WantedMeaning DEF Imports!Deref, Imports!AtThunk, Imports!Thunks, ImportsInv
  <2>2. ImportsReadable'
    BY <1>2, <2>1 DEF ImportsReadable, Imports!UndefinedHasCause
  <2>3. QED
    BY <1>1, <1>2, <1>3, <1>10, <2>2 DEF Imports!Deref, Imports!AtThunk, ImportsInv, FirstImport, Imports!FirstImport
<1>11. CASE Imports!LastThunk
  <2>1. /\ descriptor \in 1..n /\ Len(Thunks) \in Nat /\ ogT > Len(Thunks)
        /\ \A k \in 1..(ogT - 1) : Thunks[k] # importName
    BY <1>1, <1>11, WantedMeaning DEF Imports!LastThunk, Imports!Thunks, ImportsInv
  <2>2. \A k \in 1..Len(Thunks) : Thunks[k] # importName
    BY <1>1, <2>1
  <2>3. \A w \in Imports!Wanted : w[1] >= descriptor + 1
    <3> TAKE w \in Imports!Wanted
    <3>1. PICK d \in 1..n : w[1] = d /\ \E k \in 1..Len(importer.imports[d].thunks) : importer.imports[d].thunks[k] = importName
      BY <1>1, WantedMeaning
    <3>2. d >= descriptor /\ d # descriptor
      BY <1>11, <2>2, <3>1 DEF Imports!LastThunk, ImportsInv
    <3>3. QED
      BY <1>1, <3>1, <3>2
  <2>4. descriptor + 1 \in Nat \ {0}
    BY <1>1
  <2>5. QED
    BY <1>1, <1>2, <1>3, <1>11, <2>3, <2>4 DEF Imports!LastThunk, Imports!Skip, ImportsInv, ImportsReadable,
       FirstImport, Imports!UndefinedHasCause, Imports!FirstImport
<1>12. CASE Imports!LastDescriptor
  <2>1. descriptor > importer.size - 1
    BY <1>1, <1>12 DEF Imports!LastDescriptor
  <2>2. \A w \in Imports!Wanted : ~ (w[1] <= importer.size - 1) /\ importer.size <= n
    <3> TAKE w \in Imports!Wanted
    <3>1. PICK d \in 1..n : w[1] = d
      BY <1>1, WantedMeaning
    <3>2. d >= descriptor
      BY <1>12, <3>1 DEF Imports!LastDescriptor, ImportsInv
    <3>3. QED
      BY <1>1, <2>1, <3>1, <3>2
  <2>3. importResult' = Imports!NotFound
    BY <1>12 DEF Imports!LastDescriptor, ImportsInv
  <2>4. FirstImport'
    BY <1>2, <1>3, <2>2, <2>3 DEF FirstImport, Imports!FirstImport, Imports!NotFound
  <2>5. QED
    BY <1>1, <1>2, <1>3, <1>12, <2>4 DEF Imports!LastDescriptor, ImportsInv, ImportsReadable, Imports!UndefinedHasCause
<1>13. QED
  BY <1>4, <1>5, <1>6, <1>7, <1>8, <1>9, <1>10, <1>11, <1>12 DEF Imports!Next

(***************************************************************************)
(* ridlsym, for all images and every Size: it leaves the tables only for   *)
(* the three causes named, and answers with the first import sought, which *)
(* it misses only where Size leaves it out.                                *)
(***************************************************************************)
THEOREM ImportsHold ==
  Imports!Spec => [](ImportsReadable /\ FirstImport)
<1>1. Imports!Init => ImportsInv
  BY ImportsInit
<1>2. ImportsInv /\ [Imports!Next]_Imports!vars => ImportsInv'
  BY ImportsStep
<1>3. ImportsInv => ImportsReadable /\ FirstImport
  BY DEF ImportsInv
<1>4. QED
  BY <1>1, <1>2, <1>3, PTL DEF Imports!Spec

-------------------------------------------------------------------------------
(***************************************************************************)
(* HeaderScan.                                                             *)
(***************************************************************************)
Found == {p \in Scan!Places : ~ Scan!Hidden(p)}

Scanning == scanFn \notin {"retEntryPoint", "nt_headsize"}

ScanArgs ==
  /\ img.table \in Seq(Scan!Entry)
  /\ scanFn \in {"retEntryPoint", "nt_headsize", "get_pesection", "getloadcommandfrommach",
                 "getsegbynamefromheader_64", "section_with_sym"}
  /\ scanFn = "section_with_sym" => sought \in 0..(W - 1)

\* The place p is the entry k, or a section of it, and the scan would stop there.
IsHit(p, k) ==
  \/ p = <<k>> /\ Len(p) = 1 /\ Scan!Matches(img.table[k])
  \/ \E s \in 1..Len(img.table[k].sections) :
       /\ p = <<k, s>> /\ Len(p) = 2 /\ p[2] = s
       /\ Scan!LooksInto(img.table[k]) /\ Scan!InSection(img.table[k].sections[s])

ScanIInv ==
  /\ ScanArgs /\ cmd_index \in Nat \ {0} /\ sec_index \in Nat \ {0}
  /\ scanPc = "headers" => cmd_index = 1
  /\ scanPc # "done" => scanResult = -1
  /\ scanPc \in {"scan", "sections"} => Scanning /\ \A p \in Found : p[1] >= cmd_index
  /\ scanPc = "sections" =>
       /\ cmd_index \in 1..Len(img.table) /\ Scan!LooksInto(img.table[cmd_index])
       /\ \A s \in 1..(sec_index - 1) : ~ Scan!InSection(img.table[cmd_index].sections[s])
  /\ FirstFound

(***************************************************************************)
(* The macro finds an address in a section unless the section ends with    *)
(* the address space.                                                      *)
(***************************************************************************)
LEMMA SectionMeaning ==
  ASSUME NEW s \in Scan!Section, sought \in 0..(W - 1)
  PROVE  Scan!InSection(s) <=> sought \in Scan!Bytes(s) /\ ~ (s.addr + s.size >= W)
<1>1. /\ s.addr \in 0..(W - 1) /\ s.size \in 0..(W - 1) /\ W \in Nat \ {0}
  BY ScanAssumption DEF Scan!Section, Scan!WidthAssumption
<1> DEFINE a == s.addr
           z == s.size
<1>2. Scan!InSection(s) <=> sought >= a /\ sought < (a + z) % W
  BY DEF Scan!InSection, Scan!Macros!REGION_CONTAINS, Scan!Macros!CASE_OVERLAP_R1_IN_R2, Scan!Macros!End
<1>3. sought \in Scan!Bytes(s) <=> sought \in a..(a + z - 1)
  BY DEF Scan!Bytes
<1> HIDE DEF a, z
<1>4. /\ a + z < W => (a + z) % W = a + z
      /\ a + z >= W => (a + z) % W = a + z - W
  <2>1. a \in Nat /\ z \in Nat /\ a < W /\ z < W /\ W \in Nat
    BY <1>1 DEF a, z
  <2>2. QED
    BY <2>1
<1>5. QED
  BY <1>1, <1>2, <1>3, <1>4 DEF a, z

LEMMA EntriesTyped ==
  ASSUME ScanArgs
  PROVE  /\ img.table \in Seq(Scan!Entry) /\ Len(img.table) \in Nat
         /\ \A k \in 1..Len(img.table) :
              /\ Len(img.table[k].sections) \in Nat
              /\ \A s \in 1..Len(img.table[k].sections) : img.table[k].sections[s] \in Scan!Section
              /\ img.table[k].fills \in BOOLEAN /\ img.table[k].ends \in BOOLEAN
<1>1. img.table \in Seq(Scan!Entry) /\ Len(img.table) \in Nat
  BY DEF ScanArgs
<1>2. \A k \in 1..Len(img.table) : img.table[k] \in Scan!Entry
  BY <1>1
<1>3. \A k \in 1..Len(img.table) :
        /\ img.table[k].sections \in Seq(Scan!Section)
        /\ img.table[k].fills \in BOOLEAN /\ img.table[k].ends \in BOOLEAN
  BY <1>2 DEF Scan!Entry
<1>4. QED
  BY <1>1, <1>3

(***************************************************************************)
(* What can be found is what the scan stops at.                            *)
(***************************************************************************)
LEMMA FoundMeaning ==
  ASSUME ScanArgs, Scanning
  PROVE  /\ \A p \in Found : \E k \in 1..Len(img.table) : p[1] = k /\ IsHit(p, k)
         /\ \A k \in 1..Len(img.table) :
              /\ Scan!Matches(img.table[k]) => <<k>> \in Found
              /\ Scan!LooksInto(img.table[k]) =>
                   \A s \in 1..Len(img.table[k].sections) :
                     Scan!InSection(img.table[k].sections[s]) => <<k, s>> \in Found
<1> DEFINE n == Len(img.table)
           e(k) == img.table[k]
<1>1. CASE scanFn = "section_with_sym"
  <2>1. /\ \A k \in 1..n : ~ Scan!Matches(e(k)) /\ (Scan!LooksInto(e(k)) <=> e(k).cmd = "LC_SEGMENT_64")
    BY <1>1 DEF Scan!Matches, Scan!LooksInto, Scan!LC_SEGMENT_64
  <2>2. \A k \in 1..n : \A s \in 1..Len(e(k).sections) :
          Scan!InSection(e(k).sections[s]) <=>
            sought \in Scan!Bytes(e(k).sections[s]) /\ ~ (e(k).sections[s].addr + e(k).sections[s].size >= W)
    BY <1>1, EntriesTyped, SectionMeaning DEF ScanArgs
  <2>3. \A k \in 1..n : \A s \in 1..Len(e(k).sections) :
          Scan!Hidden(<<k, s>>) <=> e(k).sections[s].addr + e(k).sections[s].size >= W
    BY <1>1 DEF Scan!Hidden
  <2>4. \A p \in Scan!Places :
          \E k \in 1..n : \E s \in 1..Len(e(k).sections) :
            /\ p = <<k, s>> /\ p[1] = k /\ p[2] = s /\ Len(p) = 2
            /\ e(k).cmd = "LC_SEGMENT_64" /\ sought \in Scan!Bytes(e(k).sections[s])
    BY <1>1 DEF Scan!Places, Scan!LC_SEGMENT_64
  <2>5. \A k \in 1..n : \A s \in 1..Len(e(k).sections) :
          e(k).cmd = "LC_SEGMENT_64" /\ sought \in Scan!Bytes(e(k).sections[s]) => <<k, s>> \in Scan!Places
    BY <1>1 DEF Scan!Places, Scan!LC_SEGMENT_64
  <2>6. ASSUME NEW p \in Found PROVE \E k \in 1..n : p[1] = k /\ IsHit(p, k)
    <3>1. PICK k \in 1..n : \E s \in 1..Len(e(k).sections) :
            /\ p = <<k, s>> /\ p[1] = k /\ p[2] = s /\ Len(p) = 2
            /\ e(k).cmd = "LC_SEGMENT_64" /\ sought \in Scan!Bytes(e(k).sections[s])
      BY <2>4 DEF Found
    <3>2. QED
      BY <2>1, <2>2, <2>3, <3>1 DEF Found, IsHit
  <2>7. QED
    BY <2>1, <2>2, <2>3, <2>5, <2>6 DEF Found
<1>2. CASE scanFn \in {"get_pesection", "getloadcommandfrommach", "getsegbynamefromheader_64"}
  <2>1. /\ \A p \in Scan!Places : \E k \in 1..n : p = <<k>> /\ p[1] = k /\ Len(p) = 1
        /\ \A k \in 1..n : <<k>> \in Scan!Places <=>
             CASE scanFn = "getloadcommandfrommach" -> e(k).cmd = sought
               [] scanFn = "getsegbynamefromheader_64" -> e(k).cmd = "LC_SEGMENT_64" /\ e(k).name = sought
               [] OTHER -> e(k).name = sought
    BY <1>2 DEF Scan!Places, Scan!LC_SEGMENT_64
  <2>2. \A k \in 1..n : /\ ~ Scan!LooksInto(e(k))
                        /\ <<k>> \in Scan!Places /\ ~ Scan!Hidden(<<k>>) <=> Scan!Matches(e(k))
    BY <1>2, <2>1, EntriesTyped DEF Scan!LooksInto, Scan!Hidden, Scan!Matches, Scan!NameIs, Scan!LC_SEGMENT_64
  <2>3. QED
    BY <2>1, <2>2 DEF Found, IsHit
<1>3. QED
  BY <1>1, <1>2 DEF ScanArgs, Scanning

LEMMA ScanInit ==
  ASSUME Scan!Init
  PROVE  ScanIInv
<1>1. scanFn \in Scan!PeFunctions \cup Scan!MachOFunctions /\ Scan!Image(img)
  BY ScanAssumption DEF Scan!Init, Scan!ImagesAssumption
<1>2. scanFn = "section_with_sym" => sought \in 0..(W - 1)
  BY DEF Scan!Init
<1>3. ScanArgs
  BY <1>1, <1>2 DEF ScanArgs, Scan!Image, Scan!PeFunctions, Scan!MachOFunctions
<1>4. QED
  BY <1>3 DEF Scan!Init, ScanIInv, FirstFound, Scan!FirstFound

(***************************************************************************)
(* An answer: the place is found, and no other comes before it.            *)
(***************************************************************************)
LEMMA FirstAnswer ==
  ASSUME ScanArgs, Scanning, NEW found \in Found, \A p \in Found : ~ Scan!Before(p, found),
         Scan!Finish(found)
  PROVE  FirstFound'
<1>1. UNCHANGED <<Scan!Places, Found>> /\ UNCHANGED scanWantsOut
  BY DEF Scan!Finish, Scan!args, Scan!Places, Found, Scan!Hidden, Scan!Bytes, Scan!LC_SEGMENT_64
<1>2. scanResult' = 0 /\ (scanWantsOut => scanOut' = found)
  BY DEF Scan!Finish
<1>3. FirstFound <=> (scanPc = "done" /\ Scan!Signed /\ scanFn \notin {"retEntryPoint", "nt_headsize"} =>
                       /\ scanResult = 0 <=> Found # {}
                       /\ scanResult = 0 /\ scanWantsOut =>
                            scanOut \in Found /\ \A p \in Found : ~ Scan!Before(p, scanOut))
  BY DEF FirstFound, Scan!FirstFound, Found
<1>4. QED
  BY <1>1, <1>2 DEF FirstFound, Scan!FirstFound, Found, Scan!Before

LEMMA ScanStep ==
  ASSUME ScanIInv, [Scan!Next]_Scan!vars
  PROVE  ScanIInv'
<1> USE DEF Scan!args, Scan!Current
<1> DEFINE n == Len(img.table)
           e == img.table[cmd_index]
<1>1. /\ ScanArgs /\ n \in Nat /\ cmd_index \in Nat \ {0} /\ sec_index \in Nat \ {0}
      /\ \A k \in 1..n : Len(img.table[k].sections) \in Nat
  BY EntriesTyped DEF ScanIInv
<1>2. UNCHANGED <<scanFn, img, sought, scanWantsOut>>
  BY DEF Scan!Next, Scan!BadSignature, Scan!Field, Scan!Headers, Scan!Pass, Scan!Hit, Scan!NotFound, Scan!EnterSegment,
     Scan!SectionPass, Scan!SectionHit, Scan!LeaveSegment, Scan!Finish, Scan!vars
<1>3. /\ UNCHANGED <<ScanArgs, Found, Scanning, Scan!Signed, Scan!Places>>
      /\ \A x : UNCHANGED <<Scan!LooksInto(x), Scan!InSection(x)>>
  BY <1>2 DEF ScanArgs, Found, Scanning, Scan!Signed, Scan!PeFunctions, Scan!Places, Scan!Hidden, Scan!Bytes,
     Scan!LC_SEGMENT_64, Scan!LooksInto, Scan!InSection
<1>4. CASE UNCHANGED Scan!vars
  BY <1>2, <1>3, <1>4 DEF Scan!vars, ScanIInv, FirstFound, Scan!FirstFound, Found, Scan!Before
<1>5. CASE Scan!BadSignature
  BY <1>1, <1>2, <1>3, <1>5 DEF Scan!BadSignature, ScanIInv, FirstFound, Scan!FirstFound
<1>6. CASE Scan!Field
  BY <1>1, <1>2, <1>3, <1>6 DEF Scan!Field, Scan!Finish, ScanIInv, FirstFound, Scan!FirstFound
<1>7. CASE Scan!Headers
  <2>1. Scanning /\ cmd_index = 1 /\ cmd_index' = 1 /\ sec_index' = sec_index /\ scanPc' = "scan" /\ scanResult' = -1
    BY <1>7 DEF Scan!Headers, Scanning, ScanIInv
  <2>2. \A p \in Found : p[1] >= 1
    BY <1>1, <2>1, FoundMeaning
  <2>3. QED
    BY <1>1, <1>2, <1>3, <2>1, <2>2 DEF ScanIInv, FirstFound, Scan!FirstFound
<1>8. CASE Scan!Pass
  <2>1. /\ scanPc = "scan" /\ Scanning /\ cmd_index' = cmd_index + 1 /\ sec_index' = sec_index /\ scanPc' = scanPc
        /\ scanResult' = -1 /\ ~ Scan!Matches(e) /\ ~ Scan!LooksInto(e)
    BY <1>8 DEF Scan!Pass, ScanIInv
  <2>2. \A p \in Found : p[1] >= cmd_index + 1
    <3> TAKE p \in Found
    <3>1. PICK k \in 1..n : p[1] = k /\ IsHit(p, k)
      BY <1>1, <2>1, FoundMeaning
    <3>2. k # cmd_index
      BY <2>1, <3>1 DEF IsHit
    <3>3. k >= cmd_index
      BY <2>1, <3>1 DEF ScanIInv
    <3>4. QED
      BY <1>1, <3>1, <3>2, <3>3
  <2>3. cmd_index + 1 \in Nat \ {0}
    BY <1>1
  <2>4. QED
    BY <1>1, <1>2, <1>3, <2>1, <2>2, <2>3 DEF ScanIInv, FirstFound, Scan!FirstFound
<1>9. CASE Scan!Hit
  <2>1. /\ scanPc = "scan" /\ Scanning /\ cmd_index \in 1..n /\ Scan!Matches(e) /\ Scan!Finish(<<cmd_index>>)
    BY <1>1, <1>9 DEF Scan!Hit, ScanIInv
  <2>2. <<cmd_index>> \in Found
    BY <1>1, <2>1, FoundMeaning
  <2>3. \A p \in Found : ~ Scan!Before(p, <<cmd_index>>)
    <3> TAKE p \in Found
    <3>1. PICK k \in 1..n : p[1] = k /\ IsHit(p, k)
      BY <1>1, <2>1, FoundMeaning
    <3>2. k >= cmd_index
      BY <2>1, <3>1 DEF ScanIInv
    <3>3. k = cmd_index => Len(p) = 1
      BY <2>1, <3>1 DEF IsHit, Scan!Matches, Scan!LooksInto
    <3>4. QED
      BY <1>1, <3>1, <3>2, <3>3 DEF Scan!Before
  <2>4. FirstFound'
    BY <1>1, <2>1, <2>2, <2>3, FirstAnswer
  <2>5. QED
    BY <1>1, <1>3, <2>1, <2>4 DEF Scan!Finish, ScanIInv
<1>10. CASE Scan!NotFound
  <2>1. scanPc = "scan" /\ Scanning /\ cmd_index > n /\ scanResult' = -1 /\ scanPc' = "done"
        /\ UNCHANGED <<cmd_index, sec_index>>
    BY <1>10 DEF Scan!NotFound, ScanIInv
  <2>2. Found = {}
    <3> SUFFICES ASSUME NEW p \in Found PROVE FALSE
      OBVIOUS
    <3>1. PICK k \in 1..n : p[1] = k
      BY <1>1, <2>1, FoundMeaning
    <3>2. k >= cmd_index
      BY <2>1, <3>1 DEF ScanIInv
    <3>3. QED
      BY <1>1, <2>1, <3>2
  <2>3. FirstFound'
    BY <1>2, <1>3, <2>1, <2>2 DEF FirstFound, Scan!FirstFound, Found
  <2>4. QED
    BY <1>1, <1>3, <2>1, <2>3 DEF ScanIInv
<1>11. CASE Scan!EnterSegment
  <2>1. /\ scanPc = "scan" /\ Scanning /\ cmd_index \in 1..n /\ Scan!LooksInto(e)
        /\ cmd_index' = cmd_index /\ sec_index' = 1 /\ scanPc' = "sections" /\ scanResult' = -1
        /\ \A p \in Found : p[1] >= cmd_index
    BY <1>1, <1>11 DEF Scan!EnterSegment, ScanIInv
  <2>2. 1..(1 - 1) = {}
    OBVIOUS
  <2>3. QED
    BY <1>1, <1>2, <1>3, <2>1, <2>2 DEF ScanIInv, FirstFound, Scan!FirstFound
<1>12. CASE Scan!SectionPass
  <2>1. /\ scanPc = "sections" /\ Scanning /\ cmd_index' = cmd_index /\ scanPc' = scanPc
        /\ sec_index' = sec_index + 1 /\ scanResult' = -1 /\ ~ Scan!InSection(e.sections[sec_index])
        /\ cmd_index \in 1..n /\ Scan!LooksInto(e) /\ \A p \in Found : p[1] >= cmd_index
        /\ \A s \in 1..(sec_index - 1) : ~ Scan!InSection(e.sections[s])
    BY <1>12 DEF Scan!SectionPass, ScanIInv
  <2>2. sec_index + 1 \in Nat \ {0} /\ \A s \in 1..(sec_index + 1 - 1) : ~ Scan!InSection(e.sections[s])
    BY <1>1, <2>1
  <2>3. QED
    BY <1>1, <1>2, <1>3, <2>1, <2>2 DEF ScanIInv, FirstFound, Scan!FirstFound
<1>13. CASE Scan!SectionHit
  <2>1. /\ scanPc = "sections" /\ Scanning /\ cmd_index \in 1..n /\ Scan!LooksInto(e)
        /\ sec_index \in 1..Len(e.sections) /\ Scan!InSection(e.sections[sec_index])
        /\ Scan!Finish(<<cmd_index, sec_index>>) /\ \A p \in Found : p[1] >= cmd_index
        /\ \A s \in 1..(sec_index - 1) : ~ Scan!InSection(e.sections[s])
    BY <1>1, <1>13 DEF Scan!SectionHit, ScanIInv
  <2>2. <<cmd_index, sec_index>> \in Found
    BY <1>1, <2>1, FoundMeaning
  <2>3. \A p \in Found : ~ Scan!Before(p, <<cmd_index, sec_index>>)
    <3> TAKE p \in Found
    <3>1. PICK k \in 1..n : p[1] = k /\ IsHit(p, k)
      BY <1>1, <2>1, FoundMeaning
    <3>2. k >= cmd_index
      BY <2>1, <3>1
    <3>3. k = cmd_index => Len(p) = 1 \/ (p[2] \in Nat /\ ~ (p[2] < sec_index))
      BY <1>1, <2>1, <3>1 DEF IsHit
    <3>4. QED
      BY <1>1, <3>1, <3>2, <3>3 DEF Scan!Before
  <2>4. FirstFound'
    BY <1>1, <2>1, <2>2, <2>3, FirstAnswer
  <2>5. QED
    BY <1>1, <1>3, <2>1, <2>4 DEF Scan!Finish, ScanIInv
<1>14. CASE Scan!LeaveSegment
  <2>1. /\ scanPc = "sections" /\ Scanning /\ cmd_index' = cmd_index + 1 /\ scanPc' = "scan"
        /\ sec_index' = sec_index /\ scanResult' = -1 /\ sec_index > Len(e.sections)
        /\ cmd_index \in 1..n /\ Scan!LooksInto(e) /\ \A p \in Found : p[1] >= cmd_index
        /\ \A s \in 1..(sec_index - 1) : ~ Scan!InSection(e.sections[s])
    BY <1>14 DEF Scan!LeaveSegment, ScanIInv
  <2>2. \A s \in 1..Len(e.sections) : ~ Scan!InSection(e.sections[s])
    BY <1>1, <2>1
  <2>3. \A p \in Found : p[1] >= cmd_index + 1
    <3> TAKE p \in Found
    <3>1. PICK k \in 1..n : p[1] = k /\ IsHit(p, k)
      BY <1>1, <2>1, FoundMeaning
    <3>2. k # cmd_index
      BY <2>1, <2>2, <3>1 DEF IsHit, Scan!Matches, Scan!LooksInto
    <3>3. QED
      BY <1>1, <2>1, <3>1, <3>2
  <2>4. cmd_index + 1 \in Nat \ {0}
    BY <1>1
  <2>5. QED
    BY <1>1, <1>2, <1>3, <2>1, <2>3, <2>4 DEF ScanIInv, FirstFound, Scan!FirstFound
<1>15. QED
  BY <1>4, <1>5, <1>6, <1>7, <1>8, <1>9, <1>10, <1>11, <1>12, <1>13, <1>14 DEF Scan!Next

(***************************************************************************)
(* The scans of PE and Mach-O headers, for all images: the answer is the   *)
(* first place of what is sought, and a scan fails only if there is none   *)
(* but hidden ones.                                                        *)
(***************************************************************************)
THEOREM ScansHold ==
  Scan!Spec => []FirstFound
<1>1. Scan!Init => ScanIInv
  BY ScanInit
<1>2. ScanIInv /\ [Scan!Next]_Scan!vars => ScanIInv'
  BY ScanStep
<1>3. ScanIInv => FirstFound
  BY DEF ScanIInv
<1>4. QED
  BY <1>1, <1>2, <1>3, PTL DEF Scan!Spec

-------------------------------------------------------------------------------
(***************************************************************************)
(* The linear search.  net_iter stays 0, so the loop test says only        *)
(* whether the table has entries; entries are passed one by one, and none  *)
(* that holds the name is passed, so while there is one ahead the walk is  *)
(* inside.                                                                 *)
(***************************************************************************)
BoundInv ==
  /\ net_iter = 0 /\ symtab_sz = EntSize * Len(symtab)
  /\ symtab # <<>> => 0 < symtab_sz

PassedInv == \A k \in Linear!Wanted : entry <= k

SearchInv == Linear!TypeOK /\ BoundInv /\ PassedInv /\ FirstMatch

(***************************************************************************)
(* A table with entries has bytes.                                         *)
(***************************************************************************)
LEMMA Product == ASSUME NEW a \in Nat \ {0}, NEW b \in Nat \ {0} PROVE a * b \in Nat /\ 0 < a * b
OBVIOUS

LEMMA SearchInit ==
  ASSUME Linear!Init
  PROVE  SearchInv
<1>1. PICK n \in 0..MaxSyms : symtab \in [1..n -> Name]
  BY DEF Linear!Init
<1>2. symtab \in Seq(Name) /\ Len(symtab) \in Nat /\ (symtab # <<>> => Len(symtab) # 0)
  BY <1>1, LinearAssumption DEF Linear!Sizes
<1>3. symtab_sz \in Nat /\ (symtab # <<>> => 0 < symtab_sz)
  <2>1. CASE Len(symtab) = 0
    BY <1>2, <2>1, LinearAssumption DEF Linear!Init, Linear!Sizes
  <2>2. CASE Len(symtab) # 0
    BY <1>2, <2>2, Product, LinearAssumption DEF Linear!Init, Linear!Sizes
  <2>3. QED
    BY <2>1, <2>2
<1>4. Linear!TypeOK
  BY <1>2, <1>3, LinearAssumption DEF Linear!Init, Linear!TypeOK, Linear!Sizes
<1>5. BoundInv /\ PassedInv
  BY <1>2, <1>3 DEF Linear!Init, BoundInv, PassedInv, Linear!Wanted
<1>6. FirstMatch
  BY <1>5 DEF Linear!Init, FirstMatch, Linear!FirstMatch, PassedInv
<1>7. QED
  BY <1>4, <1>5, <1>6 DEF SearchInv

LEMMA SearchKeeps ==
  ASSUME SearchInv, [Linear!Next]_(Linear!vars)
  PROVE  SearchInv'
<1> USE DEF SearchInv
<1> USE DEF Linear!input
<1>0. Len(symtab) \in Nat /\ entry \in Nat /\ (Linear!Wanted # {} => symtab # <<>>)
  BY LinearAssumption DEF Linear!TypeOK, Linear!Wanted, Linear!Sizes
<1>1. CASE Linear!LoopEnds
  <2>1. symtab = <<>> /\ Linear!Wanted = {} /\ Linear!Wanted' = {}
    BY <1>1, <1>0 DEF Linear!LoopEnds, BoundInv, Linear!Wanted
  <2>2. QED
    BY <1>1, <2>1 DEF Linear!LoopEnds, SearchInv, Linear!TypeOK, BoundInv, PassedInv, FirstMatch, Linear!FirstMatch
<1>2. CASE Linear!Hit
  <2>1. Linear!Wanted' = Linear!Wanted
    BY <1>2 DEF Linear!Hit, Linear!Wanted
  <2>2. Linear!Wanted # {} => entry \in Linear!Wanted
    BY <1>2, <1>0 DEF Linear!Hit, Linear!InTable, PassedInv, Linear!Wanted
  <2>3. QED
    BY <1>2, <1>0, <2>1, <2>2 DEF Linear!Hit, SearchInv, Linear!TypeOK, BoundInv, PassedInv, FirstMatch, Linear!FirstMatch
<1>3. CASE Linear!Miss
  <2>1. Linear!Wanted' = Linear!Wanted
    BY <1>3 DEF Linear!Miss, Linear!Wanted
  <2>2. entry \notin Linear!Wanted
    BY <1>3, <1>0 DEF Linear!Miss, Linear!InTable, Linear!Wanted
  <2>3. \A k \in Linear!Wanted : entry + 1 <= k
    BY <1>0, <2>2 DEF PassedInv, Linear!Wanted
  <2>4. Linear!TypeOK'
    BY <1>3, <1>0, LinearAssumption DEF Linear!Miss, Linear!TypeOK, Linear!Sizes
  <2>5. PassedInv'
    BY <1>3, <2>1, <2>3 DEF Linear!Miss, PassedInv
  <2>6. FirstMatch'
    BY <1>3, <2>1, <2>5 DEF Linear!Miss, FirstMatch, Linear!FirstMatch, PassedInv
  <2>7. QED
    BY <1>3, <2>4, <2>5, <2>6 DEF Linear!Miss, SearchInv, BoundInv
<1>4. CASE Linear!Fault
  <2>1. Linear!Wanted' = Linear!Wanted
    BY <1>4 DEF Linear!Fault, Linear!Wanted
  <2>2. Linear!Wanted = {}
    BY <1>4, <1>0 DEF Linear!Fault, Linear!InTable, PassedInv, Linear!Wanted
  <2>3. QED
    BY <1>4, <2>1, <2>2 DEF Linear!Fault, SearchInv, Linear!TypeOK, BoundInv, PassedInv, FirstMatch, Linear!FirstMatch
<1>5. CASE UNCHANGED Linear!vars
  BY <1>5 DEF Linear!vars, SearchInv, Linear!TypeOK, BoundInv, PassedInv, FirstMatch, Linear!FirstMatch, Linear!Wanted
<1>6. QED
  BY <1>1, <1>2, <1>3, <1>4, <1>5 DEF Linear!Next

(***************************************************************************)
(* symtabsearch finds a name the table holds, at its first entry, and      *)
(* reads nothing past it, whatever its loop bound does.                    *)
(***************************************************************************)
THEOREM SearchInside ==
  Linear!Spec => [](Linear!TypeOK /\ FirstMatch)
<1>1. Linear!Init => SearchInv
  BY SearchInit
<1>2. SearchInv /\ [Linear!Next]_(Linear!vars) => SearchInv'
  BY SearchKeeps
<1>3. SearchInv => Linear!TypeOK /\ FirstMatch
  BY DEF SearchInv
<1>4. QED
  BY <1>1, <1>2, <1>3, PTL DEF Linear!Spec
================================================================================
