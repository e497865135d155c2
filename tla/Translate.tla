------------------------------- MODULE Translate -------------------------------
(***************************************************************************)
(* From the address of a byte of an image to its offset in the file:       *)
(* elf_vatoraw (localUtil_linux.c), pe_vatoraw with section_with_sym       *)
(* (localUtil_windows.c), and macho_vatoraw (localUtil_xnu.c).  The        *)
(* headers define virt_to_file as the one of the platform.                 *)
(*                                                                         *)
(* An entry of tab is a program header or a section header:                *)
(*   loads  the loader maps it (PT_LOAD, or any section of a PE image)     *)
(*   addr   p_vaddr or VirtualAddress                                      *)
(*   size   p_memsz or VirtualSize                                         *)
(*   off    p_offset or PointerToRawData                                   *)
(* The fields are 64 bits wide in an ELF image and 32 in a PE image; the   *)
(* address that is asked for is a size_t.                                  *)
(***************************************************************************)
EXTENDS Integers, Sequences

CONSTANTS
  W,            \* the number of values of a size_t
  DW,           \* and of a DWORD or an int
  ElfTables,    \* the program headers considered
  PeTables,     \* the section headers considered
  Unset         \* what *symbol_out holds before the call

VARIABLES
  fn,         \* the function called
  tab,
  valid,      \* the two signatures of a PE image are there
  va,         \* symbol_va
  wantsOut,   \* symbol_out is not NULL
  pc, i, result, out

args == <<fn, tab, valid, va, wantsOut>>
vars == <<args, pc, i, result, out>>

\* The sum of the macro is taken in the type of the fields.
Elf == INSTANCE OverlapMacros
Pe == INSTANCE OverlapMacros WITH W <- DW

Entry(w) == [loads : BOOLEAN, addr : 0..(w - 1), size : 0..(w - 1), off : 0..(w - 1)]

ASSUME WidthAssumption ==
  W \in Nat /\ DW \in Nat \ {0} /\ DW % 2 = 0 /\ DW <= W
ASSUME TablesAssumption ==
  /\ ElfTables \subseteq Seq(Entry(W))
  /\ PeTables \subseteq {t \in Seq(Entry(DW)) : \A k \in 1..Len(t) : t[k].loads}
ASSUME UnsetAssumption == Unset \notin Nat

-------------------------------------------------------------------------------
Init ==
  /\ \/ fn = "elf_vatoraw" /\ tab \in ElfTables
     \/ fn = "pe_vatoraw" /\ tab \in PeTables
     \/ fn = "macho_vatoraw" /\ tab = <<>>
  /\ valid \in BOOLEAN /\ (fn # "pe_vatoraw" => valid)
  /\ va \in 0..(W - 1)
  /\ wantsOut \in BOOLEAN
  /\ pc = "headers" /\ i = 1
  /\ result = -1 /\ out = Unset

Contains(k) ==
  IF fn = "elf_vatoraw" THEN Elf!REGION_CONTAINS(tab[k].addr, tab[k].size, va)
                        ELSE Pe!REGION_CONTAINS(tab[k].addr, tab[k].size, va)

\* Mutant: the way back, from an offset to an address.
MovedBack(e) == (va + (W - e.off) + e.addr) % W

Moved(e) == (va + (W - e.addr) + e.off) % W

\* A number as an int.
AsInt(n) == IF n % DW < DW \div 2 THEN n % DW ELSE (n % DW) - DW

BadSignature ==
  /\ pc = "headers" /\ fn = "pe_vatoraw" /\ ~ valid
  /\ pc' = "done"
  /\ UNCHANGED <<args, i, result, out>>

Headers ==
  /\ pc = "headers" /\ fn # "macho_vatoraw" /\ valid
  /\ pc' = "scan"
  /\ UNCHANGED <<args, i, result, out>>

Pass ==
  /\ pc = "scan" /\ i <= Len(tab) /\ ~ Contains(i)
  /\ i' = i + 1
  /\ UNCHANGED <<args, pc, result, out>>

\* Mutant: an offset is stored only for an entry that is mapped.
HitForgets ==
  /\ pc = "scan" /\ i <= Len(tab) /\ Contains(i)
  /\ result' = 0
  /\ out' = IF wantsOut /\ tab[i].loads THEN Moved(tab[i]) ELSE out
  /\ pc' = "done"
  /\ UNCHANGED <<args, i>>

Hit ==
  /\ pc = "scan" /\ i <= Len(tab) /\ Contains(i)
  /\ result' = 0
  /\ out' = IF wantsOut THEN Moved(tab[i]) ELSE out
  /\ pc' = "done"
  /\ UNCHANGED <<args, i>>

NoEntry ==
  /\ pc = "scan" /\ i > Len(tab)
  /\ pc' = "done"
  /\ UNCHANGED <<args, i, result, out>>

\* The address comes back as the status, and nothing is stored.
MachO ==
  /\ pc = "headers" /\ fn = "macho_vatoraw"
  /\ result' = AsInt(va)
  /\ pc' = "done"
  /\ UNCHANGED <<args, i, out>>

Next == BadSignature \/ Headers \/ Pass \/ Hit \/ NoEntry \/ MachO

Spec == Init /\ [][Next]_vars

-------------------------------------------------------------------------------
Width == IF fn = "elf_vatoraw" THEN W ELSE DW

TypeOK ==
  /\ fn \in {"elf_vatoraw", "pe_vatoraw", "macho_vatoraw"}
  /\ tab \in Seq(Entry(Width))
  /\ valid \in BOOLEAN /\ wantsOut \in BOOLEAN
  /\ va \in 0..(W - 1)
  /\ pc \in {"headers", "scan", "done"}
  /\ i \in 1..(Len(tab) + 1)
  /\ IF fn = "macho_vatoraw" THEN result \in -DW..(DW - 1) ELSE result \in {0, -1}
  /\ out \in 0..(W - 1) \cup {Unset}

Covers(k, a) == tab[k].addr <= a /\ a < tab[k].addr + tab[k].size

(***************************************************************************)
(* What link editors keep: no entry reaches the end of the address space   *)
(* or of the largest file, mapped entries do not overlap, and where an     *)
(* entry that is not mapped comes before a mapped one and overlaps it, it  *)
(* is a part of it.  One that comes later need not be: .tbss is counted in *)
(* PT_TLS and takes no addresses.                                          *)
(***************************************************************************)
WellFormed ==
  /\ \A k \in 1..Len(tab) : tab[k].addr + tab[k].size < Width /\ tab[k].off + tab[k].size <= Width
  /\ \A k \in 1..Len(tab) : \A j \in 1..(k - 1) : \A a \in 0..(W - 1) :
       Covers(j, a) /\ Covers(k, a) /\ tab[k].loads =>
         ~ tab[j].loads /\ tab[j].addr - tab[j].off = tab[k].addr - tab[k].off

(***************************************************************************)
(* In such a table the first entry that contains an address, mapped or     *)
(* not, gives the offset of the mapped one: every mapped address is        *)
(* translated, and translated as the loader maps it.  What is answered 0   *)
(* is in some entry, and what is answered -1 in none.                      *)
(***************************************************************************)
Exact ==
  pc = "done" /\ fn # "macho_vatoraw" /\ valid /\ WellFormed =>
    /\ \A k \in 1..Len(tab) : Covers(k, va) /\ tab[k].loads =>
         result = 0 /\ (wantsOut => out = va - tab[k].addr + tab[k].off)
    /\ result = 0 <=> \E k \in 1..Len(tab) : Covers(k, va)

(***************************************************************************)
(* What a caller of virt_to_file may rely on: a failed call stores         *)
(* nothing, a successful one stores an offset.  macho_vatoraw keeps the    *)
(* second half only by not answering 0, which it does for an address that  *)
(* is a multiple of 2^32.                                                  *)
(***************************************************************************)
ZeroMeansStored ==
  /\ result # 0 => out = Unset
  /\ result = 0 /\ wantsOut /\ out = Unset => fn = "macho_vatoraw" /\ va % DW = 0
================================================================================
