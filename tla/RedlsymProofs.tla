----------------------------- MODULE RedlsymProofs -----------------------------
(***************************************************************************)
(* Theorems about Redlsym, for every set of images.                        *)
(*                                                                         *)
(* The invariant says what each local of the function holds at each loop:  *)
(* the value of one of the table entries passed, and the null pointer only *)
(* if none of them was of its kind.                                        *)
(***************************************************************************)
EXTENDS Redlsym, TLAPS

\* v was taken from S, if there was anything to take.
Took(v, S) == IF S = {} THEN v = Null ELSE v \in S

PhVals(n) ==
  {m.phdr[k].off : k \in {j \in 1..Len(m.phdr) : j <= n /\ m.phdr[j].type = "PT_DYNAMIC"}}

DynVals(tag, n) ==
  {m.dyn[k].val : k \in {j \in 1..Len(m.dyn) : j <= n /\ m.dyn[j].tag = tag}}

Named(name, n) == {j \in 1..Len(m.shdr) : j <= n /\ m.shdr[j].name = name}
SecVals(name, n) == {m.shdr[k].off : k \in Named(name, n)}

\* The locals after n dynamic entries, and after n section headers.
Dyns(n) ==
  /\ Took(hashTab, DynVals("DT_HASH", n))
  /\ Took(gnu_hashTab, DynVals("DT_GNU_HASH", n))
  /\ Took(strTab, DynVals("DT_STRTAB", n))
  /\ Took(symTab, DynVals("DT_SYMTAB", n))

SizeTaken(n) ==
  IF Named(".symtab", n) = {} THEN ssymTab_sz = 0
                              ELSE \E k \in Named(".symtab", n) : ssymTab_sz = m.shdr[k].size

Secs(n) ==
  /\ Took(ssymTab, SecVals(".symtab", n))
  /\ Took(sstrTab, SecVals(".strtab", n))
  /\ SizeTaken(n)

PhdrInv ==
  /\ pc = "headers" => dynTab = Null /\ i = 1
  /\ pc = "phdr" => Took(dynTab, PhVals(i - 1))
  /\ pc = "dyn" => Took(dynTab, PhVals(Len(m.phdr)))

DynInv ==
  /\ pc \in {"headers", "phdr"} => Dyns(0)
  /\ pc = "dyn" => Dyns(i - 1)
  /\ pc \in {"shdr", "call"} => Dyns(Len(m.dyn))

SecInv ==
  /\ pc \in {"headers", "phdr", "dyn"} => Secs(0)
  /\ pc = "shdr" => Secs(i - 1)
  /\ pc \in {"call", "lookup", "answer", "symtab"} /\ SectionsThere => Secs(Len(m.shdr))

LookInv ==
  /\ pc = "lookup" => wanted = Holding(Covered) /\ targetSym = Pending
  /\ pc = "answer" => /\ wanted = Holding(Covered)
                      /\ IF targetSym = NoSym THEN wanted = {} ELSE targetSym \in wanted
  /\ pc = "symtab" => ~ m.mapped /\ Holding(Covered) = {}
  /\ pc # "done" => result = 0

IInv == TypeOK /\ PhdrInv /\ DynInv /\ SecInv /\ LookInv /\ UndefinedHasCause

-------------------------------------------------------------------------------
(***************************************************************************)
(* What the tables of an image hold.                                       *)
(***************************************************************************)
LEMMA TableTypes ==
  ASSUME Image(m)
  PROVE  /\ Len(m.phdr) \in Nat /\ Len(m.dyn) \in Nat /\ Len(m.shdr) \in Nat
         /\ \A k \in 1..Len(m.phdr) : m.phdr[k].off \in Nat
         /\ \A k \in 1..Len(m.dyn) : m.dyn[k].val \in Nat
         /\ \A k \in 1..Len(m.shdr) : m.shdr[k].off \in Nat /\ m.shdr[k].size \in Nat
         /\ \A k \in 1..(m.nsyms - 1) : m.dynsym[k].value \in Nat
         /\ \A k \in DOMAIN m.symtab : m.symtab[k].value \in Nat
         /\ \A covered : covered \subseteq 1..(m.nsyms - 1) => Holding(covered) \subseteq 1..(m.nsyms - 1)
         /\ GnuCovered \subseteq 1..(m.nsyms - 1) /\ ElfCovered \subseteq 1..(m.nsyms - 1)
<1>1. /\ Len(m.phdr) \in Nat /\ \A k \in 1..Len(m.phdr) : m.phdr[k].off \in Nat
  <2>1. m.phdr \in Seq(ProgramHeader)
    BY DEF Image
  <2>2. Len(m.phdr) \in Nat /\ \A k \in 1..Len(m.phdr) : m.phdr[k] \in ProgramHeader
    BY <2>1
  <2>3. QED
    BY <2>2 DEF ProgramHeader
<1>2. Len(m.dyn) \in Nat /\ \A k \in 1..Len(m.dyn) : m.dyn[k].val \in Nat
  <2>1. m.dyn \in Seq(DynamicEntry)
    BY DEF Image
  <2>2. Len(m.dyn) \in Nat /\ \A k \in 1..Len(m.dyn) : m.dyn[k] \in DynamicEntry
    BY <2>1
  <2>3. QED
    BY <2>2 DEF DynamicEntry
<1>3. /\ Len(m.shdr) \in Nat
      /\ \A k \in 1..Len(m.shdr) : m.shdr[k].off \in Nat /\ m.shdr[k].size \in Nat
  <2>1. m.shdr \in Seq(SectionHeader)
    BY DEF Image
  <2>2. Len(m.shdr) \in Nat /\ \A k \in 1..Len(m.shdr) : m.shdr[k] \in SectionHeader
    BY <2>1
  <2>3. QED
    BY <2>2 DEF SectionHeader
<1>4. m.nsyms \in Nat \ {0} /\ m.symoffset \in Nat \ {0}
  BY DEF Image
<1>5. \A k \in 1..(m.nsyms - 1) : m.dynsym[k].value \in Nat
  <2>1. \A k \in 1..(m.nsyms - 1) : k \in 0..(m.nsyms - 1)
    BY <1>4
  <2>2. m.dynsym \in [0..(m.nsyms - 1) -> Symbol]
    BY DEF Image
  <2>3. \A k \in 0..(m.nsyms - 1) : m.dynsym[k].value \in Nat
    BY <2>2 DEF Symbol
  <2>4. QED
    BY <2>1, <2>3
<1>6. \A k \in DOMAIN m.symtab : m.symtab[k].value \in Nat
  <2>1. m.symtab \in Seq(Symbol)
    BY DEF Image
  <2>2. \A k \in DOMAIN m.symtab : m.symtab[k] \in Symbol
    BY <2>1
  <2>3. QED
    BY <2>2 DEF Symbol
<1>7. GnuCovered \subseteq 1..(m.nsyms - 1) /\ ElfCovered \subseteq 1..(m.nsyms - 1)
  BY <1>4 DEF GnuCovered, ElfCovered
<1>8. \A covered : covered \subseteq 1..(m.nsyms - 1) => Holding(covered) \subseteq 1..(m.nsyms - 1)
  BY DEF Holding
<1>9. QED
  BY <1>1, <1>2, <1>3, <1>5, <1>6, <1>7, <1>8

(***************************************************************************)
(* Taking an entry of the kind sought, and passing one of another kind.    *)
(***************************************************************************)
LEMMA PhValsStep ==
  ASSUME Image(m), NEW n \in 1..Len(m.phdr)
  PROVE  PhVals(n) = IF m.phdr[n].type = "PT_DYNAMIC" THEN PhVals(n - 1) \cup {m.phdr[n].off}
                                                      ELSE PhVals(n - 1)
<1>1. Len(m.phdr) \in Nat
  BY TableTypes
<1>2. {j \in 1..Len(m.phdr) : j <= n /\ m.phdr[j].type = "PT_DYNAMIC"} =
        {j \in 1..Len(m.phdr) : j <= n - 1 /\ m.phdr[j].type = "PT_DYNAMIC"}
          \cup (IF m.phdr[n].type = "PT_DYNAMIC" THEN {n} ELSE {})
  BY <1>1
<1>3. QED
  BY <1>2 DEF PhVals

LEMMA DynValsStep ==
  ASSUME Image(m), NEW n \in 1..Len(m.dyn), NEW tag
  PROVE  DynVals(tag, n) = IF m.dyn[n].tag = tag THEN DynVals(tag, n - 1) \cup {m.dyn[n].val}
                                                 ELSE DynVals(tag, n - 1)
<1>1. Len(m.dyn) \in Nat
  BY TableTypes
<1>2. {j \in 1..Len(m.dyn) : j <= n /\ m.dyn[j].tag = tag} =
        {j \in 1..Len(m.dyn) : j <= n - 1 /\ m.dyn[j].tag = tag}
          \cup (IF m.dyn[n].tag = tag THEN {n} ELSE {})
  BY <1>1
<1>3. QED
  BY <1>2 DEF DynVals

LEMMA SecValsStep ==
  ASSUME Image(m), NEW n \in 1..Len(m.shdr), NEW name
  PROVE  /\ Named(name, n) = Named(name, n - 1) \cup (IF m.shdr[n].name = name THEN {n} ELSE {})
         /\ SecVals(name, n) = IF m.shdr[n].name = name THEN SecVals(name, n - 1) \cup {m.shdr[n].off}
                                                        ELSE SecVals(name, n - 1)
<1>1. Len(m.shdr) \in Nat
  BY TableTypes
<1>2. Named(name, n) = Named(name, n - 1) \cup (IF m.shdr[n].name = name THEN {n} ELSE {})
  BY <1>1 DEF Named
<1>3. QED
  BY <1>2 DEF SecVals

(***************************************************************************)
(* Before the first entry nothing was taken; a count beyond the last entry *)
(* is the whole table.                                                     *)
(***************************************************************************)
LEMMA NoneYet ==
  ASSUME Image(m)
  PROVE  /\ PhVals(0) = {}
         /\ \A tag : DynVals(tag, 0) = {}
         /\ \A name : Named(name, 0) = {} /\ SecVals(name, 0) = {}
<1>1. Len(m.phdr) \in Nat /\ Len(m.dyn) \in Nat /\ Len(m.shdr) \in Nat
  BY TableTypes
<1>2. QED
  BY <1>1 DEF PhVals, DynVals, Named, SecVals

LEMMA AllPassed ==
  ASSUME Image(m), NEW n \in Nat
  PROVE  /\ n >= Len(m.phdr) => PhVals(n) = PhVals(Len(m.phdr))
         /\ n >= Len(m.dyn) => \A tag : DynVals(tag, n) = DynVals(tag, Len(m.dyn))
         /\ n >= Len(m.shdr) => \A name : /\ Named(name, n) = Named(name, Len(m.shdr))
                                          /\ SecVals(name, n) = SecVals(name, Len(m.shdr))
<1>1. Len(m.phdr) \in Nat /\ Len(m.dyn) \in Nat /\ Len(m.shdr) \in Nat
  BY TableTypes
<1>2. ASSUME n >= Len(m.phdr) PROVE PhVals(n) = PhVals(Len(m.phdr))
  <2>1. \A j \in 1..Len(m.phdr) : j <= n /\ j <= Len(m.phdr)
    BY <1>1, <1>2
  <2>2. QED
    BY <2>1 DEF PhVals
<1>3. ASSUME n >= Len(m.dyn), NEW tag PROVE DynVals(tag, n) = DynVals(tag, Len(m.dyn))
  <2>1. \A j \in 1..Len(m.dyn) : j <= n /\ j <= Len(m.dyn)
    BY <1>1, <1>3
  <2>2. QED
    BY <2>1 DEF DynVals
<1>4. ASSUME n >= Len(m.shdr), NEW name PROVE Named(name, n) = Named(name, Len(m.shdr))
  <2>1. \A j \in 1..Len(m.shdr) : j <= n /\ j <= Len(m.shdr)
    BY <1>1, <1>4
  <2>2. QED
    BY <2>1 DEF Named
<1>5. QED
  BY <1>2, <1>3, <1>4 DEF SecVals

(***************************************************************************)
(* A step that keeps the image keeps what its tables hold.                 *)
(***************************************************************************)
LEMMA SameImage ==
  ASSUME m' = m
  PROVE  /\ \A tag : DynVals(tag, Len(m.dyn))' = DynVals(tag, Len(m.dyn))
         /\ \A name : SecVals(name, Len(m.shdr))' = SecVals(name, Len(m.shdr))
         /\ \A name : Named(name, Len(m.shdr))' = Named(name, Len(m.shdr))
         /\ SectionsThere' = SectionsThere
BY DEF DynVals, SecVals, Named, SectionsThere

-------------------------------------------------------------------------------
(***************************************************************************)
(* What the values taken from whole tables say about the image.            *)
(***************************************************************************)
LEMMA WholeDyn ==
  ASSUME Image(m), NEW tag, NEW v, Took(v, DynVals(tag, Len(m.dyn)))
  PROVE  /\ HasTag(tag) <=> v # Null
         /\ \A thing : HasTag(tag) /\ TagPlaced(tag, thing) => PointsTo(v, thing)
<1>1. Len(m.dyn) \in Nat /\ \A k \in 1..Len(m.dyn) : k <= Len(m.dyn) /\ m.dyn[k].val # Null
  <2>1. Len(m.dyn) \in Nat /\ \A k \in 1..Len(m.dyn) : m.dyn[k].val \in Nat
    BY TableTypes
  <2>2. QED
    BY <2>1, SentinelAssumption
<1>2. CASE HasTag(tag)
  <2>1. PICK k \in 1..Len(m.dyn) : m.dyn[k].tag = tag
    BY <1>2 DEF HasTag
  <2>2. DynVals(tag, Len(m.dyn)) # {}
    BY <1>1, <2>1 DEF DynVals
  <2>3. PICK j \in 1..Len(m.dyn) : m.dyn[j].tag = tag /\ v = m.dyn[j].val
    BY <2>2 DEF Took, DynVals
  <2>4. v # Null
    BY <1>1, <2>3
  <2>5. \A thing : TagPlaced(tag, thing) => PointsTo(v, thing)
    BY <2>3 DEF TagPlaced
  <2>6. QED
    BY <1>2, <2>4, <2>5
<1>3. CASE ~ HasTag(tag)
  <2>1. DynVals(tag, Len(m.dyn)) = {}
    BY <1>3 DEF HasTag, DynVals
  <2>2. QED
    BY <1>3, <2>1 DEF Took
<1>4. QED
  BY <1>2, <1>3

LEMMA WholeSec ==
  ASSUME Image(m), NEW name, NEW v, Took(v, SecVals(name, Len(m.shdr))),
         HasSection(name)
  PROVE  \A thing : SectionPlaced(name, thing) => PointsTo(v, thing)
<1>1. Len(m.shdr) \in Nat /\ \A k \in 1..Len(m.shdr) : k <= Len(m.shdr)
  BY TableTypes
<1>2. PICK k \in 1..Len(m.shdr) : m.shdr[k].name = name
  BY DEF HasSection
<1>3. SecVals(name, Len(m.shdr)) # {}
  BY <1>1, <1>2 DEF SecVals, Named
<1>4. PICK j \in 1..Len(m.shdr) : m.shdr[j].name = name /\ v = m.shdr[j].off
  BY <1>3 DEF Took, SecVals, Named
<1>5. QED
  BY <1>4 DEF SectionPlaced

LEMMA WholeSize ==
  ASSUME Image(m), SizeTaken(Len(m.shdr))
  PROVE  ssymTab_sz = 0 <=> (HasSection(".symtab") => m.symtab = <<>>)
<1>1. Len(m.shdr) \in Nat /\ \A k \in 1..Len(m.shdr) : k <= Len(m.shdr)
  BY TableTypes
<1>2. CASE HasSection(".symtab")
  <2>1. Named(".symtab", Len(m.shdr)) # {}
    BY <1>1, <1>2 DEF HasSection, Named
  <2>2. PICK k \in 1..Len(m.shdr) : m.shdr[k].name = ".symtab" /\ ssymTab_sz = m.shdr[k].size
    BY <2>1 DEF SizeTaken, Named
  <2>3. m.shdr[k].size = 0 <=> m.symtab = <<>>
    BY <2>2 DEF Image
  <2>4. QED
    BY <1>2, <2>2, <2>3
<1>3. CASE ~ HasSection(".symtab")
  <2>1. Named(".symtab", Len(m.shdr)) = {}
    BY <1>3 DEF HasSection, Named
  <2>2. QED
    BY <1>3, <2>1 DEF SizeTaken
<1>4. QED
  BY <1>2, <1>3

-------------------------------------------------------------------------------
(***************************************************************************)
(* The initial states, and one lemma per action.                           *)
(***************************************************************************)
LEMMA InitHolds == Init => IInv
<1> SUFFICES ASSUME Init PROVE IInv
  OBVIOUS
<1>1. Image(m)
  BY ImagesAssumption DEF Init
<1>2. TypeOK
  BY <1>1 DEF Init, TypeOK, Pointers
<1>3. PhdrInv /\ LookInv /\ UndefinedHasCause
  BY DEF Init, PhdrInv, LookInv, UndefinedHasCause
<1>4. Dyns(0)
  BY <1>1, NoneYet DEF Dyns, Took, Init
<1>5. Secs(0)
  BY <1>1, NoneYet DEF Secs, Took, SizeTaken, Init
<1>6. QED
  BY <1>2, <1>3, <1>4, <1>5 DEF IInv, DynInv, SecInv, Init

LEMMA LostKeeps ==
  ASSUME IInv, Undefined, pc # "done",
         Readable => ~ m.mapped /\ m.symtab # <<>> /\ Holding(Covered) = {} /\ Static = {}
  PROVE  IInv'
<1>1. /\ UNCHANGED <<m, funcName, i, dynVars, staticVars, lookupVars, result>> /\ pc' = "undefined"
  BY DEF Undefined, args
<1>2. TypeOK'
  BY <1>1 DEF IInv, TypeOK, Pointers, dynVars, staticVars, lookupVars
<1>3. UndefinedHasCause'
  BY <1>1 DEF UndefinedHasCause, Readable, HasTag, TagPlaced, PointsTo, SectionsThere, SectionPlaced,
              HasSection, Holding, Covered, GnuCovered, ElfCovered, Static, FirstStatic
<1>4. PhdrInv' /\ DynInv' /\ SecInv' /\ LookInv'
  BY <1>1 DEF PhdrInv, DynInv, SecInv, LookInv, IInv
<1>5. QED
  BY <1>2, <1>3, <1>4 DEF IInv

LEMMA HeadersKeep == ASSUME IInv, Headers PROVE IInv'
<1>1. CASE ~ SectionsThere /\ Undefined
  BY <1>1, LostKeeps DEF Headers, Readable
<1>2. CASE pc' = "phdr" /\ UNCHANGED <<args, i, dynVars, staticVars, lookupVars, result>>
  <2>1. UNCHANGED <<m, funcName, i, dynTab, hashTab, gnu_hashTab, strTab, symTab, sstrTab, ssymTab,
                    ssymTab_sz, wanted, targetSym, result>> /\ pc = "headers" /\ pc' = "phdr"
    BY <1>2 DEF Headers, args, dynVars, staticVars, lookupVars
  <2>2. Took(dynTab, PhVals(i - 1))
    BY <2>1, NoneYet DEF IInv, TypeOK, PhdrInv, Took
  <2>3. PhdrInv'
    BY <2>1, <2>2 DEF PhdrInv, Took, PhVals
  <2>4. TypeOK'
    BY <2>1 DEF IInv, TypeOK
  <2>5. DynInv'
    BY <2>1 DEF IInv, DynInv, Dyns, Took, DynVals
  <2>6. SecInv'
    BY <2>1 DEF IInv, SecInv, Secs, Took, SecVals, Named, SizeTaken
  <2>7. LookInv' /\ UndefinedHasCause'
    BY <2>1 DEF IInv, LookInv, UndefinedHasCause
  <2>8. QED
    BY <2>3, <2>4, <2>5, <2>6, <2>7 DEF IInv
<1>3. QED
  BY <1>1, <1>2 DEF Headers

LEMMA PhdrStepKeeps == ASSUME IInv, PhdrStep PROVE IInv'
<1>1. /\ UNCHANGED <<m, funcName, hashTab, gnu_hashTab, strTab, symTab, sstrTab, ssymTab,
                    ssymTab_sz, wanted, targetSym, result>>
      /\ pc = "phdr" /\ pc' = "phdr" /\ i' = i + 1 /\ Image(m) /\ i \in Nat \ {0}
      /\ dynTab' = IF m.phdr[i].type = "PT_DYNAMIC" THEN m.phdr[i].off ELSE dynTab
  BY DEF PhdrStep, IInv, TypeOK, args, staticVars, lookupVars
<1>2. i \in 1..Len(m.phdr)
  BY <1>1, TableTypes DEF PhdrStep
<1>3. TypeOK'
  BY <1>1, <1>2, TableTypes DEF IInv, TypeOK, Pointers
<1>4. Took(dynTab', PhVals(i))
  <2>1. Took(dynTab, PhVals(i - 1))
    BY <1>1 DEF IInv, PhdrInv
  <2>2. PhVals(i) = IF m.phdr[i].type = "PT_DYNAMIC" THEN PhVals(i - 1) \cup {m.phdr[i].off}
                                                     ELSE PhVals(i - 1)
    BY <1>1, <1>2, PhValsStep, Zenon
  <2>3. CASE m.phdr[i].type = "PT_DYNAMIC"
    BY <1>1, <2>2, <2>3 DEF Took
  <2>4. CASE m.phdr[i].type # "PT_DYNAMIC"
    BY <1>1, <2>1, <2>2, <2>4, Zenon
  <2>5. QED
    BY <2>3, <2>4
<1>5. PhdrInv'
  <2>1. i' - 1 = i
    BY <1>1
  <2>2. PhVals(i)' = PhVals(i') /\ PhVals(i' - 1) = PhVals(i)
    BY <1>1, <2>1 DEF PhVals
  <2>3. QED
    BY <1>1, <1>4, <2>1 DEF PhdrInv, PhVals, Took
<1>6. DynInv'
  BY <1>1 DEF IInv, DynInv, Dyns, Took, DynVals
<1>7. SecInv'
  BY <1>1 DEF IInv, SecInv, Secs, Took, SecVals, Named, SizeTaken
<1>8. LookInv' /\ UndefinedHasCause'
  BY <1>1 DEF IInv, LookInv, UndefinedHasCause
<1>9. QED
  BY <1>3, <1>5, <1>6, <1>7, <1>8 DEF IInv

LEMMA PhdrEndKeeps == ASSUME IInv, PhdrEnd PROVE IInv'
<1>1. /\ UNCHANGED <<m, funcName, dynTab, hashTab, gnu_hashTab, strTab, symTab, sstrTab, ssymTab,
                    ssymTab_sz, wanted, targetSym, result>>
      /\ pc = "phdr" /\ pc' = "dyn" /\ i' = 1 /\ Image(m) /\ i \in Nat \ {0} /\ i > Len(m.phdr)
  BY DEF PhdrEnd, IInv, TypeOK, args, dynVars, staticVars, lookupVars
<1>2. TypeOK'
  BY <1>1 DEF IInv, TypeOK, Pointers
<1>3. PhdrInv'
  <2>1. Took(dynTab, PhVals(i - 1)) /\ i - 1 \in Nat /\ i - 1 >= Len(m.phdr)
    BY <1>1, TableTypes DEF IInv, PhdrInv
  <2>2. Took(dynTab, PhVals(Len(m.phdr)))
    BY <1>1, <2>1, AllPassed
  <2>3. QED
    BY <1>1, <2>2 DEF PhdrInv, Took, PhVals
<1>4. DynInv'
  BY <1>1 DEF IInv, DynInv, Dyns, Took, DynVals
<1>5. SecInv'
  BY <1>1 DEF IInv, SecInv, Secs, Took, SecVals, Named, SizeTaken
<1>6. LookInv' /\ UndefinedHasCause'
  BY <1>1 DEF IInv, LookInv, UndefinedHasCause
<1>7. QED
  BY <1>2, <1>3, <1>4, <1>5, <1>6 DEF IInv

LEMMA DynFaultKeeps == ASSUME IInv, DynFault PROVE IInv'
<1>1. pc = "dyn" /\ ~ PointsTo(dynTab, "dynamic") /\ Undefined /\ Image(m)
  BY DEF DynFault, IInv, TypeOK
<1>2. ~ Readable
  <2>1. SUFFICES ASSUME Readable PROVE FALSE
    OBVIOUS
  <2>2. Took(dynTab, PhVals(Len(m.phdr)))
    BY <1>1 DEF IInv, PhdrInv
  <2>3. PICK k \in 1..Len(m.phdr) : m.phdr[k].type = "PT_DYNAMIC"
    BY <2>1 DEF Readable
  <2>4. k <= Len(m.phdr)
    BY <1>1, <2>3, TableTypes
  <2>5. PhVals(Len(m.phdr)) # {}
    BY <2>3, <2>4 DEF PhVals
  <2>6. PICK j \in 1..Len(m.phdr) : m.phdr[j].type = "PT_DYNAMIC" /\ dynTab = m.phdr[j].off
    BY <2>2, <2>5 DEF Took, PhVals
  <2>7. QED
    BY <1>1, <2>1, <2>6 DEF Readable
<1>3. QED
  BY <1>1, <1>2, LostKeeps

LEMMA DynStepKeeps == ASSUME IInv, DynStep PROVE IInv'
<1>1. /\ UNCHANGED <<m, funcName, dynTab, sstrTab, ssymTab, ssymTab_sz, wanted, targetSym, result>>
      /\ pc = "dyn" /\ pc' = "dyn" /\ i' = i + 1 /\ Image(m) /\ i \in Nat \ {0} /\ i <= Len(m.dyn)
  BY DEF DynStep, IInv, TypeOK, args, staticVars, lookupVars
<1>2. /\ hashTab' = IF m.dyn[i].tag = "DT_HASH" THEN m.dyn[i].val ELSE hashTab
      /\ gnu_hashTab' = IF m.dyn[i].tag = "DT_GNU_HASH" THEN m.dyn[i].val ELSE gnu_hashTab
      /\ strTab' = IF m.dyn[i].tag = "DT_STRTAB" THEN m.dyn[i].val ELSE strTab
      /\ symTab' = IF m.dyn[i].tag = "DT_SYMTAB" THEN m.dyn[i].val ELSE symTab
  BY DEF DynStep
<1>3. i \in 1..Len(m.dyn) /\ m.dyn[i].val \in Nat
  BY <1>1, TableTypes
<1>4. TypeOK'
  BY <1>1, <1>2, <1>3 DEF IInv, TypeOK, Pointers
<1>5. ASSUME NEW tag, NEW v, NEW w, Took(v, DynVals(tag, i - 1)),
             w = IF m.dyn[i].tag = tag THEN m.dyn[i].val ELSE v
      PROVE  Took(w, DynVals(tag, i))
  <2>1. DynVals(tag, i) = IF m.dyn[i].tag = tag THEN DynVals(tag, i - 1) \cup {m.dyn[i].val}
                                                ELSE DynVals(tag, i - 1)
    BY <1>1, <1>3, DynValsStep, Zenon
  <2>2. CASE m.dyn[i].tag = tag
    BY <1>5, <2>1, <2>2 DEF Took
  <2>3. CASE m.dyn[i].tag # tag
    BY <1>5, <2>1, <2>3, Zenon
  <2>4. QED
    BY <2>2, <2>3
<1>6. DynInv'
  <2>1. Dyns(i - 1)
    BY <1>1 DEF IInv, DynInv
  <2>2. /\ Took(hashTab', DynVals("DT_HASH", i)) /\ Took(gnu_hashTab', DynVals("DT_GNU_HASH", i))
        /\ Took(strTab', DynVals("DT_STRTAB", i)) /\ Took(symTab', DynVals("DT_SYMTAB", i))
    BY <1>2, <1>5, <2>1 DEF Dyns
  <2>3. \A tag : DynVals(tag, i)' = DynVals(tag, i') /\ DynVals(tag, i - 1)' = DynVals(tag, i)
    <3>1. i' - 1 = i
      BY <1>1
    <3>2. QED
      BY <1>1, <3>1 DEF DynVals
  <2>4. Dyns(i - 1)'
    BY <2>2, <2>3 DEF Dyns, Took
  <2>5. QED
    BY <1>1, <2>4 DEF DynInv
<1>7. PhdrInv'
  BY <1>1 DEF IInv, PhdrInv, Took, PhVals
<1>8. SecInv'
  BY <1>1 DEF IInv, SecInv, Secs, Took, SecVals, Named, SizeTaken
<1>9. LookInv' /\ UndefinedHasCause'
  BY <1>1 DEF IInv, LookInv, UndefinedHasCause
<1>10. QED
  BY <1>4, <1>6, <1>7, <1>8, <1>9 DEF IInv

LEMMA DynEndKeeps == ASSUME IInv, DynEnd PROVE IInv'
<1>1. /\ UNCHANGED <<m, funcName, dynTab, hashTab, gnu_hashTab, strTab, symTab, sstrTab, ssymTab,
                    ssymTab_sz, wanted, targetSym, result>>
      /\ pc = "dyn" /\ pc' = "shdr" /\ i' = 1 /\ Image(m) /\ i \in Nat \ {0} /\ i > Len(m.dyn)
  BY DEF DynEnd, IInv, TypeOK, args, dynVars, staticVars, lookupVars
<1>2. TypeOK'
  BY <1>1 DEF IInv, TypeOK, Pointers
<1>3. DynInv'
  <2>1. Dyns(i - 1) /\ i - 1 \in Nat /\ i - 1 >= Len(m.dyn)
    BY <1>1, TableTypes DEF IInv, DynInv
  <2>2. \A tag : DynVals(tag, i - 1) = DynVals(tag, Len(m.dyn))
    BY <1>1, <2>1, AllPassed
  <2>3. Dyns(Len(m.dyn))
    BY <2>1, <2>2 DEF Dyns
  <2>4. Dyns(Len(m.dyn))'
    BY <1>1, <2>3, SameImage DEF Dyns, Took
  <2>5. QED
    BY <1>1, <2>4 DEF DynInv
<1>4. SecInv'
  <2>1. Secs(0) /\ i' - 1 = 0
    BY <1>1 DEF IInv, SecInv
  <2>2. QED
    BY <1>1, <2>1 DEF SecInv, Secs, Took, SecVals, Named, SizeTaken
<1>5. PhdrInv' /\ LookInv' /\ UndefinedHasCause'
  BY <1>1 DEF IInv, PhdrInv, LookInv, UndefinedHasCause
<1>6. QED
  BY <1>2, <1>3, <1>4, <1>5 DEF IInv

LEMMA ShdrStepKeeps == ASSUME IInv, ShdrStep PROVE IInv'
<1>1. /\ UNCHANGED <<m, funcName, dynTab, hashTab, gnu_hashTab, strTab, symTab, wanted, targetSym, result>>
      /\ pc = "shdr" /\ pc' = "shdr" /\ i' = i + 1 /\ Image(m) /\ i \in Nat \ {0} /\ i <= Len(m.shdr)
  BY DEF ShdrStep, IInv, TypeOK, args, dynVars, lookupVars
<1>2. /\ ssymTab' = IF m.shdr[i].name = ".symtab" THEN m.shdr[i].off ELSE ssymTab
      /\ ssymTab_sz' = IF m.shdr[i].name = ".symtab" THEN m.shdr[i].size ELSE ssymTab_sz
      /\ sstrTab' = IF m.shdr[i].name = ".strtab" THEN m.shdr[i].off ELSE sstrTab
  BY DEF ShdrStep
<1>3. i \in 1..Len(m.shdr) /\ m.shdr[i].off \in Nat /\ m.shdr[i].size \in Nat
  BY <1>1, TableTypes
<1>4. TypeOK'
  BY <1>1, <1>2, <1>3 DEF IInv, TypeOK, Pointers
<1>5. ASSUME NEW name, NEW v, NEW w, Took(v, SecVals(name, i - 1)),
             w = IF m.shdr[i].name = name THEN m.shdr[i].off ELSE v
      PROVE  Took(w, SecVals(name, i))
  <2>1. SecVals(name, i) = IF m.shdr[i].name = name THEN SecVals(name, i - 1) \cup {m.shdr[i].off}
                                                    ELSE SecVals(name, i - 1)
    BY <1>1, <1>3, SecValsStep, Zenon
  <2>2. CASE m.shdr[i].name = name
    BY <1>5, <2>1, <2>2 DEF Took
  <2>3. CASE m.shdr[i].name # name
    BY <1>5, <2>1, <2>3, Zenon
  <2>4. QED
    BY <2>2, <2>3
<1>6. IF Named(".symtab", i) = {} THEN ssymTab_sz' = 0
                                  ELSE \E k \in Named(".symtab", i) : ssymTab_sz' = m.shdr[k].size
  <2>1. Named(".symtab", i) = Named(".symtab", i - 1) \cup (IF m.shdr[i].name = ".symtab" THEN {i} ELSE {})
    BY <1>1, <1>3, SecValsStep, Zenon
  <2>2. SizeTaken(i - 1)
    BY <1>1 DEF IInv, SecInv, Secs
  <2>3. CASE m.shdr[i].name = ".symtab"
    BY <1>2, <2>1, <2>3
  <2>4. CASE m.shdr[i].name # ".symtab"
    BY <1>2, <2>1, <2>2, <2>4 DEF SizeTaken
  <2>5. QED
    BY <2>3, <2>4
<1>7. SecInv'
  <2>1. Secs(i - 1)
    BY <1>1 DEF IInv, SecInv
  <2>2. Took(ssymTab', SecVals(".symtab", i)) /\ Took(sstrTab', SecVals(".strtab", i))
    BY <1>2, <1>5, <2>1 DEF Secs
  <2>3. \A name : /\ SecVals(name, i)' = SecVals(name, i') /\ SecVals(name, i - 1)' = SecVals(name, i)
                  /\ Named(name, i - 1)' = Named(name, i)
    <3>1. i' - 1 = i
      BY <1>1
    <3>2. QED
      BY <1>1, <3>1 DEF SecVals, Named
  <2>4. SizeTaken(i - 1)'
    BY <1>1, <1>6, <2>3 DEF SizeTaken
  <2>5. Secs(i - 1)'
    BY <2>2, <2>3, <2>4 DEF Secs, Took
  <2>6. QED
    BY <1>1, <2>5 DEF SecInv
<1>8. DynInv'
  <2>1. Dyns(Len(m.dyn))
    BY <1>1 DEF IInv, DynInv
  <2>2. Dyns(Len(m.dyn))'
    BY <1>1, <2>1, SameImage DEF Dyns, Took
  <2>3. QED
    BY <1>1, <2>2 DEF DynInv
<1>9. PhdrInv' /\ LookInv' /\ UndefinedHasCause'
  BY <1>1 DEF IInv, PhdrInv, LookInv, UndefinedHasCause
<1>10. QED
  BY <1>4, <1>7, <1>8, <1>9 DEF IInv

LEMMA ShdrEndKeeps == ASSUME IInv, ShdrEnd PROVE IInv'
<1>1. /\ UNCHANGED <<m, funcName, i, dynTab, hashTab, gnu_hashTab, strTab, symTab, sstrTab, ssymTab,
                    ssymTab_sz, wanted, targetSym, result>>
      /\ pc = "shdr" /\ pc' = "call" /\ Image(m) /\ i \in Nat \ {0} /\ i > Len(m.shdr)
  BY DEF ShdrEnd, IInv, TypeOK, args, dynVars, staticVars, lookupVars
<1>2. TypeOK'
  BY <1>1 DEF IInv, TypeOK, Pointers
<1>3. SecInv'
  <2>1. Secs(i - 1) /\ i - 1 \in Nat /\ i - 1 >= Len(m.shdr)
    BY <1>1, TableTypes DEF IInv, SecInv
  <2>2. \A name : /\ SecVals(name, i - 1) = SecVals(name, Len(m.shdr))
                  /\ Named(name, i - 1) = Named(name, Len(m.shdr))
    BY <1>1, <2>1, AllPassed
  <2>3. Secs(Len(m.shdr))
    BY <2>1, <2>2 DEF Secs, SizeTaken
  <2>4. Secs(Len(m.shdr))'
    BY <1>1, <2>3, SameImage DEF Secs, Took, SizeTaken
  <2>5. QED
    BY <1>1, <2>4 DEF SecInv
<1>4. DynInv'
  <2>1. Dyns(Len(m.dyn))
    BY <1>1 DEF IInv, DynInv
  <2>2. Dyns(Len(m.dyn))'
    BY <1>1, <2>1, SameImage DEF Dyns, Took
  <2>3. QED
    BY <1>1, <2>2 DEF DynInv
<1>5. PhdrInv' /\ LookInv' /\ UndefinedHasCause'
  BY <1>1 DEF IInv, PhdrInv, LookInv, UndefinedHasCause
<1>6. QED
  BY <1>2, <1>3, <1>4, <1>5 DEF IInv

LEMMA ShdrGarbageKeeps == ASSUME IInv, ShdrGarbage PROVE IInv'
<1>1. CASE Undefined
  BY <1>1, LostKeeps DEF ShdrGarbage, Readable
<1>2. CASE pc' = "call" /\ UNCHANGED <<args, i, dynVars, staticVars, lookupVars, result>>
  <2>1. /\ UNCHANGED <<m, funcName, i, dynTab, hashTab, gnu_hashTab, strTab, symTab, sstrTab, ssymTab,
                      ssymTab_sz, wanted, targetSym, result>>
        /\ pc = "shdr" /\ pc' = "call" /\ ~ SectionsThere
    BY <1>2 DEF ShdrGarbage, args, dynVars, staticVars, lookupVars
  <2>2. TypeOK'
    BY <2>1 DEF IInv, TypeOK, Pointers
  <2>3. SecInv'
    BY <2>1, SameImage DEF SecInv
  <2>4. DynInv'
    <3>1. Dyns(Len(m.dyn))
      BY <2>1 DEF IInv, DynInv
    <3>2. Dyns(Len(m.dyn))'
      BY <2>1, <3>1, SameImage DEF Dyns, Took
    <3>3. QED
      BY <2>1, <3>2 DEF DynInv
  <2>5. PhdrInv' /\ LookInv' /\ UndefinedHasCause'
    BY <2>1 DEF IInv, PhdrInv, LookInv, UndefinedHasCause
  <2>6. QED
    BY <2>2, <2>3, <2>4, <2>5 DEF IInv
<1>3. QED
  BY <1>1, <1>2 DEF ShdrGarbage

LEMMA CallKeeps == ASSUME IInv, pc = "call", Call(Covered) PROVE IInv'
<1>1. /\ UNCHANGED <<m, funcName, i, dynTab, hashTab, gnu_hashTab, strTab, symTab, sstrTab, ssymTab,
                    ssymTab_sz, result>>
      /\ pc' = "lookup" /\ Image(m) /\ wanted' = Holding(Covered) /\ targetSym' = Pending
  BY DEF Call, IInv, TypeOK, args, dynVars, staticVars
<1>2. wanted' \subseteq 1..(m.nsyms - 1)
  BY <1>1, TableTypes DEF Covered
<1>3. TypeOK'
  BY <1>1, <1>2 DEF IInv, TypeOK, Pointers
<1>4. SecInv'
  <2>1. SectionsThere => Secs(Len(m.shdr))
    BY DEF IInv, SecInv
  <2>2. SectionsThere => Secs(Len(m.shdr))'
    BY <1>1, <2>1, SameImage DEF Secs, Took, SizeTaken
  <2>3. QED
    BY <1>1, <2>2, SameImage DEF SecInv
<1>5. LookInv'
  <2>1. Holding(Covered)' = Holding(Covered)
    BY <1>1 DEF Holding, Covered, HasTag, GnuCovered, ElfCovered
  <2>2. QED
    BY <1>1, <2>1 DEF IInv, LookInv
<1>6. PhdrInv' /\ DynInv' /\ UndefinedHasCause'
  BY <1>1 DEF IInv, PhdrInv, DynInv, UndefinedHasCause
<1>7. QED
  BY <1>3, <1>4, <1>5, <1>6 DEF IInv

LEMMA GnuCallKeeps == ASSUME IInv, GnuCall PROVE IInv'
<1>1. pc = "call" /\ gnu_hashTab # Null /\ Image(m) /\ Dyns(Len(m.dyn))
  BY DEF GnuCall, IInv, TypeOK, DynInv
<1>2. HasTag("DT_GNU_HASH")
  BY <1>1, WholeDyn DEF Dyns
<1>3. CASE Call(GnuCovered)
  BY <1>1, <1>2, <1>3, CallKeeps DEF Covered
<1>4. CASE ~ (PointsTo(gnu_hashTab, "gnuhash") /\ Symbols) /\ Undefined
  <2>1. SUFFICES ASSUME Readable PROVE FALSE
    BY <1>1, <1>4, LostKeeps
  <2>2. PointsTo(gnu_hashTab, "gnuhash")
    BY <1>1, <1>2, <2>1, WholeDyn DEF Dyns, Readable
  <2>3. PointsTo(strTab, "dynstr") /\ PointsTo(symTab, "dynsym")
    BY <1>1, <2>1, WholeDyn DEF Dyns, Readable
  <2>4. QED
    BY <1>4, <2>2, <2>3 DEF Symbols
<1>5. QED
  BY <1>3, <1>4 DEF GnuCall

LEMMA ElfCallKeeps == ASSUME IInv, ElfCall PROVE IInv'
<1>1. pc = "call" /\ gnu_hashTab = Null /\ Image(m) /\ Dyns(Len(m.dyn))
  BY DEF ElfCall, IInv, TypeOK, DynInv
<1>2. ~ HasTag("DT_GNU_HASH")
  BY <1>1, WholeDyn DEF Dyns
<1>3. CASE Call(ElfCovered)
  BY <1>1, <1>2, <1>3, CallKeeps DEF Covered
<1>4. CASE ~ (PointsTo(hashTab, "hash") /\ Symbols) /\ Undefined
  <2>1. SUFFICES ASSUME Readable PROVE FALSE
    BY <1>1, <1>4, LostKeeps
  <2>2. PointsTo(hashTab, "hash")
    BY <1>1, <1>2, <2>1, WholeDyn DEF Dyns, Readable
  <2>3. PointsTo(strTab, "dynstr") /\ PointsTo(symTab, "dynsym")
    BY <1>1, <2>1, WholeDyn DEF Dyns, Readable
  <2>4. QED
    BY <1>4, <2>2, <2>3 DEF Symbols
<1>5. QED
  BY <1>3, <1>4 DEF ElfCall

LEMMA LookupReturnsKeeps == ASSUME IInv, LookupReturns PROVE IInv'
<1>1. /\ UNCHANGED <<m, funcName, i, dynTab, hashTab, gnu_hashTab, strTab, symTab, sstrTab, ssymTab,
                    ssymTab_sz, wanted, result>>
      /\ pc = "lookup" /\ pc' = "answer" /\ Image(m)
      /\ targetSym' \in wanted \/ (wanted = {} /\ targetSym' = NoSym)
  BY DEF LookupReturns, Lookup!Next, Lookup!Found, Lookup!Missing, IInv, TypeOK, args, dynVars, staticVars
<1>2. TypeOK'
  BY <1>1 DEF IInv, TypeOK, Pointers
<1>3. SecInv'
  <2>1. SectionsThere => Secs(Len(m.shdr))
    BY <1>1 DEF IInv, SecInv
  <2>2. SectionsThere => Secs(Len(m.shdr))'
    BY <1>1, <2>1, SameImage DEF Secs, Took, SizeTaken
  <2>3. QED
    BY <1>1, <2>2, SameImage DEF SecInv
<1>4. LookInv'
  <2>1. Holding(Covered)' = Holding(Covered)
    BY <1>1 DEF Holding, Covered, HasTag, GnuCovered, ElfCovered
  <2>2. wanted = Holding(Covered) /\ result = 0
    BY <1>1 DEF IInv, LookInv
  <2>3. NoSym \notin wanted
    <3>1. wanted \subseteq 1..(m.nsyms - 1) /\ m.nsyms \in Nat
      BY DEF IInv, TypeOK, Image
    <3>2. wanted \subseteq Nat
      BY <3>1
    <3>3. QED
      BY <3>2, SentinelAssumption
  <2>4. IF targetSym' = NoSym THEN wanted = {} ELSE targetSym' \in wanted
    BY <1>1, <2>3
  <2>5. QED
    BY <1>1, <2>1, <2>2, <2>4 DEF LookInv
<1>5. PhdrInv' /\ DynInv' /\ UndefinedHasCause'
  BY <1>1 DEF IInv, PhdrInv, DynInv, UndefinedHasCause
<1>6. QED
  BY <1>2, <1>3, <1>4, <1>5 DEF IInv

\* A step that ends the call has only the type of its result to keep.
LEMMA DoneKeeps ==
  ASSUME IInv, UNCHANGED <<args, i, dynVars, staticVars, lookupVars>>, pc' = "done", result' \in Nat
  PROVE  IInv'
<1>1. UNCHANGED <<m, funcName, i, dynTab, hashTab, gnu_hashTab, strTab, symTab, sstrTab, ssymTab,
                  ssymTab_sz, wanted, targetSym>>
  BY DEF args, dynVars, staticVars, lookupVars
<1>2. TypeOK'
  BY <1>1 DEF IInv, TypeOK, Pointers
<1>3. PhdrInv' /\ DynInv' /\ SecInv' /\ LookInv' /\ UndefinedHasCause'
  BY DEF PhdrInv, DynInv, SecInv, LookInv, UndefinedHasCause
<1>4. QED
  BY <1>2, <1>3 DEF IInv

LEMMA NoAnswerKeeps == ASSUME IInv, NoAnswer PROVE IInv'
<1>1. /\ UNCHANGED <<m, funcName, i, dynTab, hashTab, gnu_hashTab, strTab, symTab, sstrTab, ssymTab,
                    ssymTab_sz, wanted, targetSym, result>>
      /\ UNCHANGED <<args, i, dynVars, staticVars, lookupVars>>
      /\ pc = "answer" /\ targetSym = NoSym /\ Image(m) /\ result \in Nat
      /\ pc' = IF m.mapped THEN "done" ELSE "symtab"
  BY DEF NoAnswer, IInv, TypeOK, args, dynVars, staticVars, lookupVars
<1>2. CASE m.mapped
  BY <1>1, <1>2, DoneKeeps
<1>3. CASE ~ m.mapped
  <2>1. TypeOK'
    BY <1>1, <1>3 DEF IInv, TypeOK, Pointers
  <2>2. SecInv'
    <3>1. SectionsThere => Secs(Len(m.shdr))
      BY <1>1 DEF IInv, SecInv
    <3>2. SectionsThere => Secs(Len(m.shdr))'
      BY <1>1, <3>1, SameImage DEF Secs, Took, SizeTaken
    <3>3. QED
      BY <1>1, <1>3, <3>2, SameImage DEF SecInv
  <2>3. LookInv'
    <3>1. Holding(Covered)' = Holding(Covered)
      BY <1>1 DEF Holding, Covered, HasTag, GnuCovered, ElfCovered
    <3>2. Holding(Covered) = {} /\ result = 0
      BY <1>1 DEF IInv, LookInv
    <3>3. QED
      BY <1>1, <1>3, <3>1, <3>2 DEF LookInv
  <2>4. PhdrInv' /\ DynInv' /\ UndefinedHasCause'
    BY <1>1, <1>3 DEF PhdrInv, DynInv, UndefinedHasCause
  <2>5. QED
    BY <2>1, <2>2, <2>3, <2>4 DEF IInv
<1>4. QED
  BY <1>2, <1>3

(***************************************************************************)
(* What the three ends of the call find, and what the linear search does.  *)
(***************************************************************************)
LEMMA Sections ==
  ASSUME IInv, pc = "symtab"
  PROVE  /\ ~ m.mapped /\ Holding(Covered) = {} /\ result = 0
         /\ Secs(Len(m.shdr))
         /\ ssymTab_sz = 0 <=> (HasSection(".symtab") => m.symtab = <<>>)
<1>1. ~ m.mapped /\ Holding(Covered) = {} /\ result = 0 /\ Image(m)
  BY DEF IInv, TypeOK, LookInv
<1>2. Secs(Len(m.shdr))
  BY <1>1 DEF IInv, SecInv, SectionsThere
<1>3. QED
  BY <1>1, <1>2, WholeSize DEF Secs

LEMMA StaticPastKeeps == ASSUME IInv, StaticPast PROVE IInv'
<1>1. pc = "symtab" /\ Undefined /\ Image(m) /\ ssymTab_sz # 0
      /\ ~ (StaticSymbols /\ \E k \in DOMAIN m.symtab : FirstStatic(k))
  BY DEF StaticPast, IInv, TypeOK
<1>2. SUFFICES ASSUME Readable
               PROVE  ~ m.mapped /\ m.symtab # <<>> /\ Holding(Covered) = {} /\ Static = {}
  BY <1>1, LostKeeps
<1>3. ~ m.mapped /\ Holding(Covered) = {} /\ HasSection(".symtab") /\ m.symtab # <<>>
  BY <1>1, Sections
<1>4. StaticSymbols
  <2>1. Took(ssymTab, SecVals(".symtab", Len(m.shdr))) /\ Took(sstrTab, SecVals(".strtab", Len(m.shdr)))
    BY <1>1, Sections DEF Secs
  <2>2. PointsTo(ssymTab, "symtab")
    BY <1>1, <1>2, <1>3, <2>1, WholeSec DEF Readable
  <2>3. PointsTo(sstrTab, "strtab")
    BY <1>1, <1>2, <1>3, <2>1, WholeSec DEF Readable
  <2>4. QED
    BY <2>2, <2>3 DEF StaticSymbols
<1>5. QED
  BY <1>1, <1>3, <1>4 DEF Static

LEMMA Ends ==
  ASSUME IInv, TakeAnswer \/ (NoAnswer /\ m.mapped) \/ StaticHit \/ StaticEmpty
  PROVE  /\ result' \in Nat /\ pc' = "done"
         /\ UNCHANGED <<args, i, dynVars, staticVars, lookupVars>>
         /\ result' \in Values \/ (Values = {} /\ result' = 0)
<1>1. CASE TakeAnswer
  <2>1. targetSym \in Holding(Covered) /\ Holding(Covered) \subseteq 1..(m.nsyms - 1) /\ Image(m)
    BY <1>1 DEF TakeAnswer, IInv, TypeOK, LookInv
  <2>2. result' = m.dynsym[targetSym].value
    BY <1>1 DEF TakeAnswer
  <2>3. result' \in Nat
    BY <2>1, <2>2, TableTypes
  <2>4. result' \in Values
    BY <2>1, <2>2 DEF Values
  <2>5. QED
    BY <1>1, <2>3, <2>4 DEF TakeAnswer
<1>2. CASE NoAnswer /\ m.mapped
  <2>1. Holding(Covered) = {} /\ result = 0
    BY <1>2 DEF NoAnswer, IInv, LookInv
  <2>2. Values = {}
    BY <1>2, <2>1 DEF Values, Static
  <2>3. QED
    BY <1>2, <2>1, <2>2 DEF NoAnswer
<1>3. CASE StaticHit
  <2>1. PICK k \in DOMAIN m.symtab : FirstStatic(k) /\ result' = m.symtab[k].value
    BY <1>3 DEF StaticHit
  <2>2. result' \in Nat
    BY <2>1, TableTypes DEF IInv, TypeOK
  <2>3. ~ m.mapped /\ Holding(Covered) = {} /\ HasSection(".symtab")
    BY <1>3, Sections DEF StaticHit, IInv, TypeOK
  <2>4. k \in Static
    BY <2>1, <2>3 DEF Static
  <2>5. result' \in Values
    BY <2>1, <2>3, <2>4 DEF Values
  <2>6. QED
    BY <1>3, <2>2, <2>5 DEF StaticHit
<1>4. CASE StaticEmpty
  <2>1. Holding(Covered) = {} /\ result = 0 /\ (HasSection(".symtab") => m.symtab = <<>>)
    BY <1>4, Sections DEF StaticEmpty
  <2>2. Static = {}
    BY <2>1 DEF Static
  <2>3. QED
    BY <1>4, <2>1, <2>2 DEF StaticEmpty, Values
<1>5. QED
  BY <1>1, <1>2, <1>3, <1>4

LEMMA NextKeeps == IInv /\ [Next]_vars => IInv'
<1> SUFFICES ASSUME IInv, [Next]_vars PROVE IInv'
  OBVIOUS
<1>1. CASE TakeAnswer \/ StaticHit \/ StaticEmpty
  <2>1. /\ UNCHANGED <<args, i, dynVars, staticVars, lookupVars>>
        /\ pc' = "done" /\ result' \in Nat
    <3>1. TakeAnswer \/ (NoAnswer /\ m.mapped) \/ StaticHit \/ StaticEmpty
      BY <1>1
    <3>2. QED
      BY <3>1, Ends
  <2>2. QED
    BY <2>1, DoneKeeps, Zenon
<1>2. CASE Headers \/ PhdrStep \/ PhdrEnd \/ DynFault \/ DynStep \/ DynEnd
  BY <1>2, HeadersKeep, PhdrStepKeeps, PhdrEndKeeps, DynFaultKeeps, DynStepKeeps, DynEndKeeps, Zenon
<1>3. CASE ShdrStep \/ ShdrEnd \/ ShdrGarbage \/ GnuCall \/ ElfCall \/ LookupReturns
  BY <1>3, ShdrStepKeeps, ShdrEndKeeps, ShdrGarbageKeeps, GnuCallKeeps, ElfCallKeeps, LookupReturnsKeeps,
     Zenon
<1>4. CASE NoAnswer \/ StaticPast
  BY <1>4, NoAnswerKeeps, StaticPastKeeps
<1>5. CASE UNCHANGED vars
  <2>1. /\ UNCHANGED <<m, funcName, pc, i, dynTab, hashTab, gnu_hashTab, strTab, symTab, sstrTab, ssymTab,
                      ssymTab_sz, wanted, targetSym, result>>
    BY <1>5 DEF vars, args, dynVars, staticVars, lookupVars
  <2>2. TypeOK'
    BY <2>1 DEF IInv, TypeOK
  <2>3. PhdrInv'
    BY <2>1 DEF IInv, PhdrInv, Took, PhVals
  <2>4. DynInv'
    <3>1. /\ \A tag : DynVals(tag, i - 1)' = DynVals(tag, i - 1)
          /\ \A tag : DynVals(tag, 0)' = DynVals(tag, 0)
      BY <2>1 DEF DynVals
    <3>2. (Dyns(i - 1)' <=> Dyns(i - 1)) /\ (Dyns(0)' <=> Dyns(0))
      BY <2>1, <3>1 DEF Dyns, Took
    <3>3. Dyns(Len(m.dyn))' <=> Dyns(Len(m.dyn))
      BY <2>1, SameImage DEF Dyns, Took
    <3>4. QED
      BY <2>1, <3>2, <3>3 DEF IInv, DynInv
  <2>5. SecInv'
    <3>1. SecVals(".symtab", i - 1)' = SecVals(".symtab", i - 1) /\ SecVals(".strtab", i - 1)' = SecVals(".strtab", i - 1)
          /\ Named(".symtab", i - 1)' = Named(".symtab", i - 1)
      BY <2>1 DEF SecVals, Named
    <3>2. Secs(i - 1)' <=> Secs(i - 1)
      BY <2>1, <3>1 DEF Secs, Took, SizeTaken
    <3>3. Secs(Len(m.shdr))' <=> Secs(Len(m.shdr))
      BY <2>1, SameImage DEF Secs, Took, SizeTaken
    <3>4. Secs(0)' <=> Secs(0)
      BY <2>1 DEF Secs, Took, SizeTaken, SecVals, Named
    <3>5. QED
      BY <2>1, <3>2, <3>3, <3>4, SameImage DEF IInv, SecInv
  <2>6. LookInv'
    <3>1. Holding(Covered)' = Holding(Covered)
      BY <2>1 DEF Holding, Covered, HasTag, GnuCovered, ElfCovered
    <3>2. QED
      BY <2>1, <3>1 DEF IInv, LookInv
  <2>7. UndefinedHasCause'
    <3>1. Readable' <=> Readable
      BY <2>1 DEF Readable, HasTag, TagPlaced, PointsTo, SectionsThere, SectionPlaced, HasSection
    <3>2. Holding(Covered)' = Holding(Covered)
      BY <2>1 DEF Holding, Covered, HasTag, GnuCovered, ElfCovered
    <3>3. Static' = Static
      BY <2>1 DEF Static, FirstStatic, HasSection
    <3>4. QED
      BY <2>1, <3>1, <3>2, <3>3 DEF IInv, UndefinedHasCause
  <2>8. QED
    BY <2>2, <2>3, <2>4, <2>5, <2>6, <2>7 DEF IInv
<1>6. QED
  BY <1>1, <1>2, <1>3, <1>4, <1>5 DEF Next

LEMMA Invariance == Spec => []IInv
BY InitHolds, NextKeeps, PTL DEF Spec

(***************************************************************************)
(* redlsym reads nothing it should not on an image of the layout it takes  *)
(* for granted, but for the linear search of .symtab for a name that is    *)
(* nowhere.                                                                *)
(***************************************************************************)
THEOREM LostOnlyWithCause == Spec => [](TypeOK /\ UndefinedHasCause)
BY Invariance, PTL DEF IInv

(***************************************************************************)
(* redlsym implements the lookup specification its own lookups implement:  *)
(* whatever it returns is the value of an entry of that name, and 0 stands *)
(* for no entry.                                                           *)
(***************************************************************************)
THEOREM RedlsymImplements == Spec => ResolveSpec
<1>1. Init => Resolve!Init
  <2> SUFFICES ASSUME Init PROVE Resolve!Init
    OBVIOUS
  <2>1. Image(m)
    BY ImagesAssumption DEF Init
  <2>2. Values \subseteq Nat
    <3>1. Holding(Covered) \subseteq 1..(m.nsyms - 1)
      BY <2>1, TableTypes DEF Covered
    <3>2. Static \subseteq DOMAIN m.symtab
      BY DEF Static
    <3>3. QED
      BY <2>1, <3>1, <3>2, TableTypes DEF Values
  <2>3. QED
    BY <2>2 DEF Init, Resolve!Init
<1>2. IInv /\ [Next]_vars => [Resolve!Next]_(Resolve!vars)
  <2> SUFFICES ASSUME IInv, [Next]_vars PROVE [Resolve!Next]_(Resolve!vars)
    OBVIOUS
  <2>1. CASE UNCHANGED vars
    BY <2>1 DEF vars, args, Resolve!vars, Values, Holding, Covered, HasTag, HasSection, GnuCovered,
                ElfCovered, Static, FirstStatic
  <2>2. CASE Next
    <3>1. UNCHANGED args /\ pc # "done"
      BY <2>2 DEF Next, Headers, PhdrStep, PhdrEnd, DynFault, DynStep, DynEnd, ShdrStep, ShdrEnd,
                  ShdrGarbage, GnuCall, ElfCall, Call, LookupReturns, TakeAnswer, NoAnswer, StaticHit,
                  StaticEmpty, StaticPast, Undefined
    <3>2. Values' = Values
      BY <3>1 DEF args, Values, Holding, Covered, HasTag, HasSection, GnuCovered, ElfCovered, Static,
                  FirstStatic
    <3>3. CASE TakeAnswer \/ (NoAnswer /\ m.mapped) \/ StaticHit \/ StaticEmpty
      <4>1. pc' = "done" /\ (result' \in Values \/ (Values = {} /\ result' = 0))
        BY <3>3, Ends
      <4>2. QED
        BY <3>1, <3>2, <4>1 DEF Resolve!Next, Resolve!Found, Resolve!Missing
    <3>4. CASE pc' # "done"
      BY <3>1, <3>2, <3>4 DEF Resolve!vars
    <3>5. CASE Headers \/ PhdrStep \/ PhdrEnd \/ DynFault \/ DynStep \/ DynEnd
      <4>1. pc' # "done"
        BY <3>5 DEF Headers, PhdrStep, PhdrEnd, DynFault, DynStep, DynEnd, Undefined
      <4>2. QED
        BY <3>4, <4>1
    <3>6. CASE ShdrStep \/ ShdrEnd \/ ShdrGarbage \/ GnuCall \/ ElfCall \/ LookupReturns
      <4>1. pc' # "done"
        BY <3>6 DEF ShdrStep, ShdrEnd, ShdrGarbage, GnuCall, ElfCall, Call, LookupReturns, Undefined
      <4>2. QED
        BY <3>4, <4>1
    <3>7. CASE (NoAnswer /\ ~ m.mapped) \/ StaticPast
      <4>1. pc' # "done"
        BY <3>7 DEF NoAnswer, StaticPast, Undefined
      <4>2. QED
        BY <3>4, <4>1
    <3>8. QED
      <4>1. CASE NoAnswer
        BY <3>3, <3>7, <4>1
      <4>2. CASE TakeAnswer \/ StaticHit \/ StaticEmpty
        BY <3>3, <4>2
      <4>3. QED
        BY <2>2, <3>5, <3>6, <3>7, <4>1, <4>2 DEF Next
  <2>3. QED
    BY <2>1, <2>2
<1>3. QED
  BY <1>1, <1>2, Invariance, PTL DEF Spec, ResolveSpec, Resolve!Spec
================================================================================
