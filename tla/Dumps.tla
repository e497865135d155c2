--------------------------------- MODULE Dumps ---------------------------------
(***************************************************************************)
(* hexdump (localUtil.c), dumpMem and dumpMemT (localUtil.cpp): which      *)
(* bytes of the memory are printed, and in which row.  One action per unit *)
(* printed; the text of a unit is left out, but for the room its format    *)
(* takes.                                                                  *)
(***************************************************************************)
EXTENDS Integers, Sequences

CONSTANTS
  MaxLen,  \* bound: bytes to dump
  LabelMod \* 2^16, the number of values of the unsigned short in a label

VARIABLES
  fn, len,
  format,   \* format_a[0], "" for the end of an empty format
  prefixed, \* format_a[1] is 'x'; after an empty format it may be anything
  windows, pointer, \* the build: of dumpMem, and its sizeof(void*)
  pc, i,
  out       \* what is printed: labels, and units with the bytes read

args == <<fn, len, format, prefixed, windows, pointer>>
vars == <<args, pc, i, out>>

BoundsAssumption == MaxLen \in Nat /\ LabelMod \in Nat \ {0}

Init ==
  /\ fn \in {"hexdump", "dumpMem"} /\ len \in 0..MaxLen
  /\ format \in {"", "s", "c", "b", "h", "w", "q", "other"}
  /\ prefixed \in BOOLEAN /\ windows \in BOOLEAN /\ pointer \in {4, 8}
  /\ fn = "hexdump" => format = "b"
  /\ pc = "start" /\ i = 0 /\ out = <<>>

\* The format dumpMem goes by, an empty one is that of an address.
Format == IF format # "" THEN format ELSE IF pointer = 4 THEN "w" ELSE "q"

Formats == {"c", "b", "h", "w", "q"}

unitLen == CASE Format \in {"c", "b"} -> 1 [] Format = "h" -> 2 [] Format = "w" -> 4 [] Format = "q" -> 8

Label(n) == [is |-> "label", at |-> n % LabelMod]

Unit(n) == [is |-> "unit", bytes |-> n..(n + unitLen - 1)]

\* Characters written to formatdump[10], the terminator included.
FormatRoom ==
  (IF prefixed THEN 2 ELSE 0) + 1
    + CASE Format \in {"c", "b"} -> 7 [] Format = "h" -> 6 [] Format = "w" -> 5
        [] Format = "q" -> IF windows THEN 8 ELSE 7

\* dumpMem with another format prints no bytes.
Start ==
  /\ pc = "start"
  /\ IF Format \in Formats THEN pc' = "loop" /\ out' = <<Label(0)>>
     ELSE pc' = "done" /\ UNCHANGED out
  /\ UNCHANGED <<args, i>>

\* Mutant: a new row for each 16 units.
RowOfUnits == i % (16 * unitLen) = 0

RowStarts == i % 16 = 0

Dump ==
  /\ pc = "loop" /\ i < len
  /\ out' = Append(IF RowStarts /\ i # 0 THEN Append(out, Label(i)) ELSE out, Unit(i))
  /\ i' = i + unitLen
  /\ UNCHANGED <<args, pc>>

End ==
  /\ pc = "loop" /\ i >= len
  /\ pc' = "done"
  /\ UNCHANGED <<args, i, out>>

Next == Start \/ Dump \/ End

Spec == Init /\ [][Next]_vars

-------------------------------------------------------------------------------
\* out[n] is in the row with this label.
InRow(n, label) ==
  \E m \in 1..n : out[m] = label /\ \A j \in (m + 1)..n : out[j].is = "unit"

Printing(k) == {n \in DOMAIN out : out[n].is = "unit" /\ k \in out[n].bytes}

(***************************************************************************)
(* A dump is whole: every byte is printed once, in the row of 16 bytes     *)
(* whose label is its offset up to 2^16.  No byte further than the last    *)
(* unit is read, and the format fits its buffer, but for "qx" on Windows.  *)
(***************************************************************************)
DumpExact ==
  pc = "done" /\ Format \in Formats =>
    /\ \A k \in 0..(len - 1) :
         \E n \in DOMAIN out : Printing(k) = {n} /\ InRow(n, Label(k - (k % 16)))
    /\ \A n \in DOMAIN out : out[n].is = "unit" => \A k \in out[n].bytes : k - (k % unitLen) < len
    /\ fn = "dumpMem" /\ ~ (windows /\ prefixed /\ Format = "q") => FormatRoom <= 10
================================================================================
