------------------------------ MODULE ImageReaders -----------------------------
(***************************************************************************)
(* The functions that read the headers of an image: the translations       *)
(* (Translate), the scans (HeaderScan, here under the name Scan), redlsym  *)
(* and ridlsym for Windows (PeExports and PeImports), and the search of    *)
(* .symtab (SymtabSearch, under Linear).                                   *)
(***************************************************************************)
EXTENDS Translate

CONSTANTS
  Command, SegName, PeImages, MachOImages,  \* of the scans
  Name,                                     \* of exports and imports
  Exporters, Sections,
  Importers, Library, Ordinal,
  MaxSyms, EntSize, MaxPast                 \* of the search

VARIABLES
  img, scanFn, sought, scanWantsOut, scanPc, cmd_index, sec_index, scanResult, scanOut,
  exporter, loaded, exportName, virtual_address, exportPc, nameOrd, exportResult,
  importer, libName, importName, importPc, descriptor, ogT, importResult,
  symtab, symtab_sz, symname, net_iter, entry, searchPc, targ

Scan == INSTANCE HeaderScan WITH
  fn <- scanFn, wantsOut <- scanWantsOut, pc <- scanPc, result <- scanResult, out <- scanOut

Exports == INSTANCE PeExports WITH
  img <- exporter, symName <- exportName, pc <- exportPc, result <- exportResult,
  Images <- Exporters, Section <- Sections, NotFound <- Unset

Imports == INSTANCE PeImports WITH
  img <- importer, symName <- importName, pc <- importPc, i <- descriptor, result <- importResult,
  Images <- Importers, Symbol <- Name

Linear == INSTANCE SymtabSearch WITH i <- entry, pc <- searchPc, NoSym <- Unset

ASSUME ScanAssumption == Scan!WidthAssumption /\ Scan!ImagesAssumption /\ Scan!UnsetAssumption
ASSUME ExportsAssumption == Exports!ImagesAssumption /\ Exports!NotFoundAssumption
ASSUME ImportsAssumption == Imports!ImagesAssumption /\ Imports!NamesAssumption
ASSUME LinearAssumption == Linear!Sizes

-------------------------------------------------------------------------------
(***************************************************************************)
(* HeaderScan: a scan answers with the first place of what is sought, and  *)
(* fails only if there is none but hidden ones.                            *)
(***************************************************************************)
FirstFound == Scan!FirstFound

(***************************************************************************)
(* PeExports: redlsym reads other bytes than it should only when it is not *)
(* told the truth about the image, its tables are not all in .edata, which *)
(* has to start with the directory, or the ordinal leads nowhere.          *)
(***************************************************************************)
ExportsReadable == Exports!UndefinedHasCause

(***************************************************************************)
(* PeExports: an answer is the function exported under the name, and there *)
(* is none only where the name is not exported or there is no .edata.      *)
(***************************************************************************)
ExportFound == Exports!ExportFound

(***************************************************************************)
(* PeImports: ridlsym leaves the tables only without an                    *)
(* OriginalFirstThunk, with a Size too large, or on its way from an        *)
(* ordinal past names.                                                     *)
(***************************************************************************)
ImportsReadable == Imports!UndefinedHasCause

(***************************************************************************)
(* PeImports: the first import that is sought is found, in the table of    *)
(* names, and missed only where Size leaves it out.                        *)
(***************************************************************************)
FirstImport == Imports!FirstImport

(***************************************************************************)
(* SymtabSearch: a name that .symtab holds is found at its first entry,    *)
(* and nothing after it is read.                                           *)
(***************************************************************************)
FirstMatch == Linear!FirstMatch
================================================================================
