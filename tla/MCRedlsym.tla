------------------------------- MODULE MCRedlsym -------------------------------
(***************************************************************************)
(* Small ELF images for TLC, built from a layout as a link editor makes    *)
(* it.  The hash tables and the dynamic symbols are in a segment at file   *)
(* offset 0, linked at LinkBase; .dynamic is in one whose address is slide *)
(* beyond its offset; .symtab and .strtab are in no segment.               *)
(***************************************************************************)
EXTENDS Redlsym

CONSTANTS LinkBases, Slides

Off == [dynamic |-> 1, gnuhash |-> 2, hash |-> 3, dynstr |-> 4, dynsym |-> 5,
        symtab |-> 6, strtab |-> 7]

\* What is where, by distance from procBase.
Memory(mapped, slide) ==
  LET loaded == {"gnuhash", "hash", "dynstr", "dynsym"}
      Place(t) == IF t = "dynamic" /\ mapped THEN Off[t] + slide ELSE Off[t]
      present == IF mapped THEN loaded \cup {"dynamic"} ELSE DOMAIN Off
  IN  [x \in {Place(t) : t \in present} |-> CHOOSE t \in present : Place(t) = x]

TagOf == [hash |-> "DT_HASH", gnuhash |-> "DT_GNU_HASH", dynstr |-> "DT_STRTAB", dynsym |-> "DT_SYMTAB"]

\* The entries for the tables, each with the address it was linked at.
Dynamic(tables, base) ==
  LET ent(t) == IF t \in tables THEN <<[tag |-> TagOf[t], val |-> base + Off[t]]>> ELSE <<>>
  IN  <<[tag |-> "DT_NEEDED", val |-> 0]>> \o ent("hash") \o ent("gnuhash") \o ent("dynstr") \o ent("dynsym")

Sections(names) ==
  LET text == [name |-> ".text", off |-> 0, size |-> 1]
      sec(n, off, size) == IF n \in names THEN <<[name |-> n, off |-> off, size |-> size]>> ELSE <<>>
  IN  IF names = {} THEN <<>> ELSE <<text>> \o sec(".symtab", Off.symtab, 1) \o sec(".strtab", Off.strtab, 1)

\* Symbols with values: imports have 0, entry k defines k + off.
SymbolLists(n, off, undefined) ==
  {[k \in 1..n |-> [name |-> nm[k], value |-> IF k \in undefined THEN 0 ELSE k + off]] :
     nm \in [1..n -> Name]}

DynSyms == UNION {SymbolLists(n, 10, 1..u) \X {u + 1} : <<n, u>> \in {p \in (0..2) \X (0..2) : p[2] <= p[1]}}
StaticSyms == SymbolLists(1, 20, {}) \cup SymbolLists(2, 20, {1})

MCImages ==
  {[mapped |-> v # "file", shdrsMapped |-> v = "whole",
    mem |-> Memory(v # "file", slide),
    phdr |-> IF dynamic THEN <<[type |-> "PT_LOAD", off |-> 0],
                               [type |-> "PT_DYNAMIC", off |-> Off.dynamic],
                               [type |-> "PT_NOTE", off |-> 0]>>
                        ELSE <<[type |-> "PT_LOAD", off |-> 0]>>,
    dyn |-> Dynamic(hashes \cup {"dynstr", "dynsym"}, base),
    shdr |-> Sections(names),
    nsyms |-> Len(ds[1]) + 1,
    dynsym |-> [k \in 0..Len(ds[1]) |->
                  IF k = 0 THEN [name |-> CHOOSE x \in Name : TRUE, value |-> 0] ELSE ds[1][k]],
    symoffset |-> ds[2],
    symtab |-> IF ".symtab" \in names THEN ss ELSE <<>>] :
     v \in {"file", "loaded", "whole"}, slide \in Slides, base \in LinkBases, dynamic \in BOOLEAN,
     hashes \in SUBSET {"hash", "gnuhash"}, names \in SUBSET {".symtab", ".strtab"},
     ds \in DynSyms, ss \in StaticSyms}
================================================================================
