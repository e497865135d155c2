-------------------------------- MODULE Redlsym --------------------------------
(***************************************************************************)
(* redlsym (localUtil_linux.c): the value of a symbol of an ELF image, by  *)
(* the hash table of the dynamic section and, for an image read from a     *)
(* file, by .symtab when the hash table does not have it.                  *)
(*                                                                         *)
(* A pointer of the C code is its distance from procBase, or Null.  An     *)
(* image m says                                                            *)
(*   m.mapped        the image was loaded (isvirtual), not read from a file *)
(*   m.mem[x]        which structure starts at procBase + x, if any        *)
(*   m.phdr          the program headers                                   *)
(*   m.dyn           the dynamic entries before DT_NULL                    *)
(*   m.shdr          the section headers, e_shnum of them                  *)
(*   m.shdrsMapped   the section headers and their names are in memory too *)
(*   m.dynsym        the dynamic symbols, from index 0                     *)
(*   m.symoffset     the first of them DT_GNU_HASH covers                  *)
(*   m.symtab        the symbols of .symtab                                *)
(* Reading a structure where there is another, or none, is undefined: the  *)
(* call ends in pc = "undefined".  loadOff, which no statement reads, is   *)
(* left out.                                                               *)
(*                                                                         *)
(* The two hash lookups are called through NameLookup, which GnuLookup and *)
(* ElfLookup implement.                                                    *)
(***************************************************************************)
EXTENDS Naturals, Sequences

CONSTANTS
  Name,           \* symbol names
  Images,         \* the images considered
  Null,           \* the null pointer
  Pending, NoSym  \* see NameLookup

VARIABLES
  m,          \* the image
  funcName,
  pc,
  i,          \* the loop counter, of dynamic entries too
  dynTab, hashTab, gnu_hashTab, strTab, symTab,   \* the C locals
  sstrTab, ssymTab, ssymTab_sz,                   \* and the static ones
  wanted,     \* the entries the lookup that runs may answer with
  targetSym,
  result

args == <<m, funcName>>
dynVars == <<dynTab, hashTab, gnu_hashTab, strTab, symTab>>
staticVars == <<sstrTab, ssymTab, ssymTab_sz>>
lookupVars == <<wanted, targetSym>>
vars == <<args, pc, i, dynVars, staticVars, lookupVars, result>>

Lookup == INSTANCE NameLookup WITH answer <- targetSym

ProgramHeader == [type : {"PT_DYNAMIC", "PT_LOAD", "PT_NOTE"}, off : Nat]

DynamicEntry ==
  [tag : {"DT_HASH", "DT_GNU_HASH", "DT_STRTAB", "DT_SYMTAB", "DT_NEEDED"}, val : Nat]

SectionHeader == [name : {".symtab", ".strtab", ".text"}, off : Nat, size : Nat]

Symbol == [name : Name, value : Nat]

Image(x) ==
  /\ x.mapped \in BOOLEAN /\ x.shdrsMapped \in BOOLEAN
  /\ x.phdr \in Seq(ProgramHeader) /\ x.dyn \in Seq(DynamicEntry) /\ x.shdr \in Seq(SectionHeader)
  /\ x.nsyms \in Nat \ {0} /\ x.symoffset \in Nat \ {0}
  /\ x.dynsym \in [0..(x.nsyms - 1) -> Symbol]
  /\ x.symtab \in Seq(Symbol)
  /\ \A k \in 1..Len(x.shdr) :
       x.shdr[k].name = ".symtab" => (x.shdr[k].size = 0 <=> x.symtab = <<>>)

ASSUME ImagesAssumption == \A x \in Images : Image(x)
ASSUME SentinelAssumption ==
  Null \notin Nat /\ Pending # NoSym /\ Pending \notin Nat /\ NoSym \notin Nat

-------------------------------------------------------------------------------
\* The structure a pointer points to is the one the code takes it for.
PointsTo(p, thing) == p # Null /\ p \in DOMAIN m.mem /\ m.mem[p] = thing

\* A loaded image need not have its section headers in memory; one without
\* sections has none to miss.
SectionsThere == m.mapped => m.shdrsMapped \/ m.shdr = <<>>

Init ==
  /\ m \in Images
  /\ funcName \in Name
  /\ pc = "headers" /\ i = 1
  /\ dynTab = Null /\ hashTab = Null /\ gnu_hashTab = Null /\ strTab = Null /\ symTab = Null
  /\ sstrTab = Null /\ ssymTab = Null /\ ssymTab_sz = 0
  /\ wanted = {} /\ targetSym = NoSym
  /\ result = 0

Undefined ==
  /\ pc' = "undefined"
  /\ UNCHANGED <<args, i, dynVars, staticVars, lookupVars, result>>

\* section_table[e_shstrndx] is read whatever isvirtual says.  An image in
\* memory that lacks the section headers has other bytes there, or none.
Headers ==
  /\ pc = "headers"
  /\ \/ /\ pc' = "phdr"
        /\ UNCHANGED <<args, i, dynVars, staticVars, lookupVars, result>>
     \/ ~ SectionsThere /\ Undefined

PhdrStep ==
  /\ pc = "phdr" /\ i <= Len(m.phdr)
  /\ dynTab' = IF m.phdr[i].type = "PT_DYNAMIC" THEN m.phdr[i].off ELSE dynTab
  /\ i' = i + 1
  /\ UNCHANGED <<args, pc, hashTab, gnu_hashTab, strTab, symTab, staticVars, lookupVars, result>>

PhdrEnd ==
  /\ pc = "phdr" /\ i > Len(m.phdr)
  /\ pc' = "dyn" /\ i' = 1
  /\ UNCHANGED <<args, dynVars, staticVars, lookupVars, result>>

DynFault ==
  /\ pc = "dyn" /\ ~ PointsTo(dynTab, "dynamic")
  /\ Undefined

\* Mutant: one variable for the two kinds of hash table.
DynStepOneTable ==
  LET ent == m.dyn[i]
      Takes(tags, old) == IF ent.tag \in tags THEN ent.val ELSE old
  IN  /\ pc = "dyn" /\ PointsTo(dynTab, "dynamic") /\ i <= Len(m.dyn)
      /\ gnu_hashTab' = Takes({"DT_HASH", "DT_GNU_HASH"}, gnu_hashTab)
      /\ strTab' = Takes({"DT_STRTAB"}, strTab)
      /\ symTab' = Takes({"DT_SYMTAB"}, symTab)
      /\ i' = i + 1
      /\ UNCHANGED <<args, pc, dynTab, hashTab, staticVars, lookupVars, result>>

DynStep ==
  LET ent == m.dyn[i]
      Takes(tag, old) == IF ent.tag = tag THEN ent.val ELSE old
  IN  /\ pc = "dyn" /\ PointsTo(dynTab, "dynamic") /\ i <= Len(m.dyn)
      /\ hashTab' = Takes("DT_HASH", hashTab)
      /\ gnu_hashTab' = Takes("DT_GNU_HASH", gnu_hashTab)
      /\ strTab' = Takes("DT_STRTAB", strTab)
      /\ symTab' = Takes("DT_SYMTAB", symTab)
      /\ i' = i + 1
      /\ UNCHANGED <<args, pc, dynTab, staticVars, lookupVars, result>>

DynEnd ==
  /\ pc = "dyn" /\ PointsTo(dynTab, "dynamic") /\ i > Len(m.dyn)
  /\ pc' = "shdr" /\ i' = 1
  /\ UNCHANGED <<args, dynVars, staticVars, lookupVars, result>>

\* Mutant: a section that is neither of the two does not advance the loop.
ShdrStays ==
  LET sec == m.shdr[i]
  IN  /\ pc = "shdr" /\ SectionsThere /\ i <= Len(m.shdr)
      /\ ssymTab' = IF sec.name = ".symtab" THEN sec.off ELSE ssymTab
      /\ ssymTab_sz' = IF sec.name = ".symtab" THEN sec.size ELSE ssymTab_sz
      /\ sstrTab' = IF sec.name = ".strtab" THEN sec.off ELSE sstrTab
      /\ i' = IF sec.name \in {".symtab", ".strtab"} THEN i + 1 ELSE i
      /\ UNCHANGED <<args, pc, dynVars, lookupVars, result>>

ShdrStep ==
  LET sec == m.shdr[i]
  IN  /\ pc = "shdr" /\ SectionsThere /\ i <= Len(m.shdr)
      /\ ssymTab' = IF sec.name = ".symtab" THEN sec.off ELSE ssymTab
      /\ ssymTab_sz' = IF sec.name = ".symtab" THEN sec.size ELSE ssymTab_sz
      /\ sstrTab' = IF sec.name = ".strtab" THEN sec.off ELSE sstrTab
      /\ i' = i + 1
      /\ UNCHANGED <<args, pc, dynVars, lookupVars, result>>

ShdrEnd ==
  /\ pc = "shdr" /\ SectionsThere /\ i > Len(m.shdr)
  /\ pc' = "call"
  /\ UNCHANGED <<args, i, dynVars, staticVars, lookupVars, result>>

\* The comparison of section names reads other bytes: it faults, or it takes
\* nothing that is used later, as isvirtual is set.
ShdrGarbage ==
  /\ pc = "shdr" /\ ~ SectionsThere
  /\ \/ /\ pc' = "call"
        /\ UNCHANGED <<args, i, dynVars, staticVars, lookupVars, result>>
     \/ Undefined

\* The symbols each hash table covers.
GnuCovered == m.symoffset .. (m.nsyms - 1)
ElfCovered == 1 .. (m.nsyms - 1)

Holding(covered) == {k \in covered : m.dynsym[k].name = funcName}

Symbols == PointsTo(strTab, "dynstr") /\ PointsTo(symTab, "dynsym")

Call(covered) ==
  /\ wanted' = Holding(covered)
  /\ targetSym' = Pending
  /\ pc' = "lookup"
  /\ UNCHANGED <<args, i, dynVars, staticVars, result>>

GnuCall ==
  /\ pc = "call" /\ gnu_hashTab # Null
  /\ \/ PointsTo(gnu_hashTab, "gnuhash") /\ Symbols /\ Call(GnuCovered)
     \/ ~ (PointsTo(gnu_hashTab, "gnuhash") /\ Symbols) /\ Undefined

ElfCall ==
  /\ pc = "call" /\ gnu_hashTab = Null
  /\ \/ PointsTo(hashTab, "hash") /\ Symbols /\ Call(ElfCovered)
     \/ ~ (PointsTo(hashTab, "hash") /\ Symbols) /\ Undefined

LookupReturns ==
  /\ pc = "lookup"
  /\ Lookup!Next
  /\ pc' = "answer"
  /\ UNCHANGED <<args, i, dynVars, staticVars, result>>

TakeAnswer ==
  /\ pc = "answer" /\ targetSym # NoSym
  /\ result' = m.dynsym[targetSym].value
  /\ pc' = "done"
  /\ UNCHANGED <<args, i, dynVars, staticVars, lookupVars>>

\* Mutant: the test of isvirtual the wrong way round.
NoAnswerInverted ==
  /\ pc = "answer" /\ targetSym = NoSym
  /\ pc' = IF m.mapped THEN "symtab" ELSE "done"
  /\ UNCHANGED <<args, i, dynVars, staticVars, lookupVars, result>>

NoAnswer ==
  /\ pc = "answer" /\ targetSym = NoSym
  /\ pc' = IF m.mapped THEN "done" ELSE "symtab"
  /\ UNCHANGED <<args, i, dynVars, staticVars, lookupVars, result>>

(***************************************************************************)
(* symtabsearch, as SymtabSearch says: the first match, or -1 for an empty *)
(* table; a walk past the table is undefined.  Its result is dropped.      *)
(***************************************************************************)
StaticSymbols == PointsTo(ssymTab, "symtab") /\ PointsTo(sstrTab, "strtab")

FirstStatic(k) ==
  /\ k \in DOMAIN m.symtab /\ m.symtab[k].name = funcName
  /\ \A j \in 1..(k - 1) : m.symtab[j].name # funcName

StaticHit ==
  /\ pc = "symtab" /\ ssymTab_sz > 0 /\ StaticSymbols
  /\ \E k \in DOMAIN m.symtab : FirstStatic(k) /\ result' = m.symtab[k].value
  /\ pc' = "done"
  /\ UNCHANGED <<args, i, dynVars, staticVars, lookupVars>>

StaticEmpty ==
  /\ pc = "symtab" /\ ssymTab_sz = 0
  /\ pc' = "done"
  /\ UNCHANGED <<args, i, dynVars, staticVars, lookupVars, result>>

StaticPast ==
  /\ pc = "symtab" /\ ssymTab_sz > 0
  /\ ~ (StaticSymbols /\ \E k \in DOMAIN m.symtab : FirstStatic(k))
  /\ Undefined

Next ==
  \/ Headers \/ PhdrStep \/ PhdrEnd
  \/ DynFault \/ DynStep \/ DynEnd
  \/ ShdrStep \/ ShdrEnd \/ ShdrGarbage
  \/ GnuCall \/ ElfCall \/ LookupReturns \/ TakeAnswer \/ NoAnswer
  \/ StaticHit \/ StaticEmpty \/ StaticPast

Spec == Init /\ [][Next]_vars

FairSpec == Spec /\ WF_vars(Next)

-------------------------------------------------------------------------------
Pointers == Nat \cup {Null}

TypeOK ==
  /\ Image(m) /\ funcName \in Name
  /\ pc \in {"headers", "phdr", "dyn", "shdr", "call", "lookup", "answer", "symtab", "done", "undefined"}
  /\ i \in Nat \ {0}
  /\ dynTab \in Pointers /\ hashTab \in Pointers /\ gnu_hashTab \in Pointers
  /\ strTab \in Pointers /\ symTab \in Pointers
  /\ sstrTab \in Pointers /\ ssymTab \in Pointers /\ ssymTab_sz \in Nat
  /\ wanted \subseteq 1..(m.nsyms - 1)
  /\ targetSym \in 1..(m.nsyms - 1) \cup {Pending, NoSym}
  /\ result \in Nat

\* The dynamic section has an entry with this tag, and section a header.
HasTag(tag) == \E k \in 1..Len(m.dyn) : m.dyn[k].tag = tag
HasSection(name) == \E k \in 1..Len(m.shdr) : m.shdr[k].name = name

\* The symbols the image's hash table covers.
Covered == IF HasTag("DT_GNU_HASH") THEN GnuCovered ELSE ElfCovered

\* The first symbol of that name in .symtab, for an image read from a file.
Static ==
  IF m.mapped \/ ~ HasSection(".symtab") THEN {}
                                        ELSE {k \in DOMAIN m.symtab : FirstStatic(k)}

\* An entry of the dynamic section is worth following as it stands.
TagPlaced(tag, thing) ==
  \A k \in 1..Len(m.dyn) : m.dyn[k].tag = tag => PointsTo(m.dyn[k].val, thing)

SectionPlaced(name, thing) ==
  \A k \in 1..Len(m.shdr) : m.shdr[k].name = name => PointsTo(m.shdr[k].off, thing)

(***************************************************************************)
(* The images redlsym can read: there is a dynamic section with a hash     *)
(* table, its strings and its symbols; p_offset and the addresses in the   *)
(* dynamic section are the distances from procBase, in a file and in       *)
(* memory alike; section headers are there; .symtab comes with .strtab.    *)
(***************************************************************************)
Readable ==
  /\ \E k \in 1..Len(m.phdr) : m.phdr[k].type = "PT_DYNAMIC"
  /\ \A k \in 1..Len(m.phdr) : m.phdr[k].type = "PT_DYNAMIC" => PointsTo(m.phdr[k].off, "dynamic")
  /\ HasTag("DT_HASH") \/ HasTag("DT_GNU_HASH")
  /\ HasTag("DT_STRTAB") /\ HasTag("DT_SYMTAB")
  /\ TagPlaced("DT_HASH", "hash") /\ TagPlaced("DT_GNU_HASH", "gnuhash")
  /\ TagPlaced("DT_STRTAB", "dynstr") /\ TagPlaced("DT_SYMTAB", "dynsym")
  /\ SectionsThere
  /\ ~ m.mapped => /\ SectionPlaced(".symtab", "symtab") /\ SectionPlaced(".strtab", "strtab")
                   /\ HasSection(".symtab") => HasSection(".strtab")

(***************************************************************************)
(* On a readable image the call goes wrong in one case only: a name that   *)
(* neither table has, looked up in a file that has a .symtab, where the    *)
(* linear search has no end.                                               *)
(***************************************************************************)
UndefinedHasCause ==
  pc = "undefined" =>
    \/ ~ Readable
    \/ /\ ~ m.mapped /\ m.symtab # <<>>
       /\ Holding(Covered) = {} /\ Static = {}

(***************************************************************************)
(* redlsym is itself a lookup: it answers with the value of an entry of    *)
(* the hash table that holds the name if there is one, else with that of   *)
(* the first entry of .symtab if it was read from a file and has one, and  *)
(* with 0 only if there is neither (or if such an entry has the value 0).  *)
(***************************************************************************)
Values ==
  IF Holding(Covered) # {} THEN {m.dynsym[k].value : k \in Holding(Covered)}
                           ELSE {m.symtab[k].value : k \in Static}

Resolve == INSTANCE NameLookup WITH
             NoSym <- 0,
             wanted <- Values,
             answer <- IF pc = "done" THEN result ELSE Pending

ResolveSpec == Resolve!Spec

\* The call returns, unless it is lost in a place it should not read.
Termination == <>(pc \in {"done", "undefined"})
================================================================================
