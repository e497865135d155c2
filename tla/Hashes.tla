-------------------------------- MODULE Hashes ---------------------------------
(***************************************************************************)
(* elf_hash and gnu_hash (localUtil_linux.c), both over the same name, one *)
(* action per character.  A 32-bit word is the pair of its halves.         *)
(***************************************************************************)
EXTENDS Integers, Sequences

CONSTANTS
  Names, \* the names hashed, sequences of bytes without the terminator
  Known, \* names with their hashes, as link editors write them
  Last   \* characters a name may end in

VARIABLES name, at, elf, gnu

vars == <<name, at, elf, gnu>>

Half == 65536

Word(hi, lo) == [hi |-> (hi + (lo \div Half)) % Half, lo |-> lo % Half]

TimesPlus(w, m, c) == Word(w.hi * m, w.lo * m + c)

NamesAssumption ==
  /\ \A n \in Names : \A k \in 1..Len(n) : n[k] \in 1..255
  /\ \A x \in Known : x.name \in Names
  /\ Last \subseteq 1..255

Init ==
  /\ name \in Names /\ at = 1
  /\ elf = Word(0, 0) /\ gnu = Word(0, 5381)

\* Exclusive or of four bits.
Differ(a, b, bit) == IF (a \div bit) % 2 = (b \div bit) % 2 THEN 0 ELSE bit

Xor(a, b) == Differ(a, b, 1) + Differ(a, b, 2) + Differ(a, b, 4) + Differ(a, b, 8)

\* lo ^ (unit * bits), for four bits at unit.
Flip(lo, unit, bits) ==
  LET there == (lo \div unit) % 16 IN lo + unit * (Xor(there, bits) - there)

\* Mutant: the four highest bits come back at the bottom.
FoldLow(w) == [hi |-> w.hi % 4096, lo |-> Flip(w.lo, 1, w.hi \div 4096)]

\* h ^= g >> 24 and h &= ~g, for the four highest bits g of h.
Fold(w) == [hi |-> w.hi % 4096, lo |-> Flip(w.lo, 16, w.hi \div 4096)]

ElfStep(w, c) == Fold(TimesPlus(w, 16, c))

GnuStep(w, c) == TimesPlus(w, 33, c)

Char ==
  /\ at <= Len(name)
  /\ elf' = ElfStep(elf, name[at]) /\ gnu' = GnuStep(gnu, name[at])
  /\ at' = at + 1
  /\ UNCHANGED name

Next == Char

Spec == Init /\ [][Next]_vars

-------------------------------------------------------------------------------
(***************************************************************************)
(* elf_hash has 28 bits whatever overflows on the way, and names that      *)
(* differ in their last character only never collide, in either hash.      *)
(***************************************************************************)
LastTells ==
  /\ elf.hi < 4096
  /\ \A c, d \in Last : c # d => ElfStep(elf, c) # ElfStep(elf, d) /\ GnuStep(gnu, c) # GnuStep(gnu, d)

(***************************************************************************)
(* The hashes are those the tables are made with: both have the values     *)
(* known for names long and short.                                         *)
(***************************************************************************)
AsLinked ==
  /\ LastTells
  /\ \A x \in Known : x.name = name /\ at > Len(name) => elf = x.elf /\ gnu = x.gnu
================================================================================
