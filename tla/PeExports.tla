------------------------------- MODULE PeExports -------------------------------
(***************************************************************************)
(* redlsym (localUtil_windows.c): looks up what a PE image exports, one    *)
(* action per name of the export table.                                    *)
(*                                                                         *)
(* The call is given the image as the loader maps it (loaded) or as it is  *)
(* in the file, and virtual_address to tell it which.  An image is a       *)
(* record of                                                               *)
(*   edata      whether get_pesection finds a section named .edata         *)
(*              (HeaderScan), and what it starts with: "none", "directory" *)
(*              or "other"; the call takes it for the export directory     *)
(*   shift      by section, PointerToRawData - VirtualAddress              *)
(*   at         the section each table of the directory is in: the names'  *)
(*              addresses, the ordinals, the functions, and the names      *)
(*   names, ordinals, functions   the tables, ordinals counted from 1;     *)
(*              nothing keeps an ordinal inside the table of functions     *)
(***************************************************************************)
EXTENDS Integers, Sequences

CONSTANTS
  Images,
  Name,
  Section,  \* sections, ".edata" among them
  NotFound  \* the result 0

VARIABLES
  img, loaded,              \* the image
  symName, virtual_address, \* the other arguments
  pc, nameOrd,
  result

args == <<img, loaded, symName, virtual_address>>
vars == <<args, pc, nameOrd, result>>

Tables == {"addrNames", "addrOrd", "addrFunc", "name"}

Image(x) ==
  /\ x.edata \in {"none", "directory", "other"} /\ x.shift \in [Section -> Int] /\ x.at \in [Tables -> Section]
  /\ x.names \in Seq(Name) /\ x.functions \in Seq(Nat)
  /\ x.ordinals \in [DOMAIN x.names -> Nat \ {0}]

ImagesAssumption == ".edata" \in Section /\ \A x \in Images : Image(x)
NotFoundAssumption == NotFound \notin Nat

-------------------------------------------------------------------------------
Init ==
  /\ img \in Images /\ loaded \in BOOLEAN
  /\ symName \in Name /\ virtual_address \in BOOLEAN
  /\ pc = "section" /\ nameOrd = 1
  /\ result = NotFound

\* Mutant: the adjustment the other way round.
AdjustSwapped == IF virtual_address THEN img.shift[".edata"] ELSE 0

\* VIRTUAL_ADJUST: what is added to the address of anything in the image.
VIRTUAL_ADJUST == IF virtual_address THEN 0 ELSE img.shift[".edata"]

\* Where a thing of this section is, as the image is given.
Place(section) == IF loaded THEN 0 ELSE img.shift[section]

Reads(table) == VIRTUAL_ADJUST = Place(img.at[table])

NoSection ==
  /\ pc = "section" /\ img.edata = "none"
  /\ pc' = "done"
  /\ UNCHANGED <<args, nameOrd, result>>

\* The start of the section is the directory, or is taken for one.
Directory ==
  /\ pc = "section" /\ img.edata # "none"
  /\ pc' = IF img.edata = "directory" /\ VIRTUAL_ADJUST = Place(".edata") THEN "names" ELSE "undefined"
  /\ UNCHANGED <<args, nameOrd, result>>

Names == pc = "names" /\ nameOrd <= Len(img.names)

Misread ==
  /\ Names /\ ~ (Reads("addrNames") /\ Reads("name"))
  /\ pc' = "undefined"
  /\ UNCHANGED <<args, nameOrd, result>>

Pass ==
  /\ Names /\ Reads("addrNames") /\ Reads("name") /\ img.names[nameOrd] # symName
  /\ nameOrd' = nameOrd + 1
  /\ UNCHANGED <<args, pc, result>>

\* Mutant: the functions are in the order of the names.
FunctionByName == img.functions[nameOrd]

Function == img.functions[img.ordinals[nameOrd]]

\* The ordinal of the name is not looked at.
Within == img.ordinals[nameOrd] \in DOMAIN img.functions

Hit ==
  /\ Names /\ Reads("addrNames") /\ Reads("name") /\ img.names[nameOrd] = symName
  /\ IF Reads("addrOrd") /\ Reads("addrFunc") /\ Within
     THEN pc' = "done" /\ result' = Function
     ELSE pc' = "undefined" /\ UNCHANGED result
  /\ UNCHANGED <<args, nameOrd>>

Missing ==
  /\ pc = "names" /\ nameOrd > Len(img.names)
  /\ pc' = "done"
  /\ UNCHANGED <<args, nameOrd, result>>

Next == NoSection \/ Directory \/ Misread \/ Pass \/ Hit \/ Missing

Spec == Init /\ [][Next]_vars

-------------------------------------------------------------------------------
\* Where the name sought stands in the table of names.
Holding == {m \in DOMAIN img.names : img.names[m] = symName}

(***************************************************************************)
(* The call reads what it should when it is told the truth about the       *)
(* image, of a loaded image always, of a file when all tables are in       *)
(* .edata; or when the sections are moved as .edata is.  But .edata has to *)
(* start with the directory, and the ordinal of the name sought to be one  *)
(* of a function: those of the other names make no difference.             *)
(***************************************************************************)
UndefinedHasCause ==
  pc = "undefined" =>
    \/ virtual_address # loaded
    \/ ~ loaded /\ \E t \in Tables : img.at[t] # ".edata"
    \/ img.edata = "other"
    \/ \E n \in Holding : img.ordinals[n] \notin DOMAIN img.functions

\* What the image exports under this name.
Exported == {img.functions[img.ordinals[n]] : n \in {m \in Holding : img.ordinals[m] \in DOMAIN img.functions}}

(***************************************************************************)
(* An answer is the function exported under the name; there is none only   *)
(* where the name is not in the table, or there is no section .edata.      *)
(***************************************************************************)
ExportFound ==
  pc = "done" =>
    \/ result \in Exported
    \/ result = NotFound /\ (Holding = {} \/ img.edata = "none")
================================================================================
