-------------------------------- MODULE Helpers --------------------------------
(***************************************************************************)
(* The helpers that need nothing but their arguments: the region macros    *)
(* (Regions), the string helpers (Strings, here under the name Text), the  *)
(* hashes (Hashes, under Hash), the dumps (Dumps, under Dumping), the JSON *)
(* walk (JsonWalk, under Json), and a vector of pairs (Pairs, under        *)
(* PairVector).                                                            *)
(***************************************************************************)
EXTENDS Regions, Integers, Sequences

CONSTANTS
  Byte, Room, SizeMax,       \* of the string helpers
  Names, Known, Last,        \* of the hashes
  MaxLen, LabelMod,          \* of the dumps
  Docs, NULL,                \* of the JSON walk
  Key, PairValue, MaxPairs   \* of the pairs

VARIABLES
  helper, mem, charSigned, s1, s2, maxlen, textPc, distance, block, textResult,
  name, at, elf, gnu,
  fn, len, format, prefixed, windows, pointer, dumpPc, offset, out,
  d, stack, printed, jsonPc,
  vector, sought, position, pairPc, held, sorted

Text == INSTANCE Strings WITH fn <- helper, pc <- textPc, i <- distance, result <- textResult

Hash == INSTANCE Hashes

Dumping == INSTANCE Dumps WITH pc <- dumpPc, i <- offset

Json == INSTANCE JsonWalk WITH pc <- jsonPc

PairVector == INSTANCE Pairs WITH pc <- pairPc, i <- position, Value <- PairValue

ASSUME TextAssumption == Text!RoomAssumption
ASSUME HashAssumption == Hash!NamesAssumption
ASSUME DumpsAssumption == Dumping!BoundsAssumption
ASSUME DocumentsAssumption == Json!DocsAssumption
ASSUME PairsAssumption == PairVector!KeysAssumption

-------------------------------------------------------------------------------
(***************************************************************************)
(* Strings: what the helpers return is what they are for, and they leave   *)
(* the memory only where no end is in it.                                  *)
(***************************************************************************)
StringsExact == Text!Exact

(***************************************************************************)
(* Hashes: the hashes are those link editors make the tables with.         *)
(***************************************************************************)
AsLinked == Hash!AsLinked

(***************************************************************************)
(* Dumps: every byte once, in the right row, and none past the last unit.  *)
(***************************************************************************)
DumpExact == Dumping!DumpExact

(***************************************************************************)
(* JsonWalk: a document is printed whole but for those in which an object  *)
(* or array follows an object in the same object.                          *)
(***************************************************************************)
CompleteUnlessMisled == Json!CompleteUnlessMisled

(***************************************************************************)
(* Pairs: what a search answered stays true while pairs are added, the     *)
(* index until the vector is sorted.                                       *)
(***************************************************************************)
FindHolds == PairVector!FindHolds
================================================================================
