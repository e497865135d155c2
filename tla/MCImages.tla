-------------------------------- MODULE MCImages -------------------------------
(***************************************************************************)
(* One call of a function that reads the headers of an image: a            *)
(* translation (Translate), a scan of the headers (HeaderScan), redlsym or *)
(* ridlsym for Windows (PeExports, PeImports), or symtabsearch             *)
(* (SymtabSearch), each on small images.  The parts that are not called    *)
(* stay as they are.                                                       *)
(***************************************************************************)
EXTENDS ImageReaders

CONSTANTS
  Addrs, SegSizes, Offs,   \* of program headers and sections
  MaxEntries            \* bound: descriptors, thunks, exported names

VARIABLE called

scanVars == <<img, scanFn, sought, scanWantsOut, scanPc, cmd_index, sec_index, scanResult, scanOut>>
exportVars == <<exporter, loaded, exportName, virtual_address, exportPc, nameOrd, exportResult>>
importVars == <<importer, libName, importName, importPc, descriptor, ogT, importResult>>
searchVars == <<symtab, symtab_sz, symname, net_iter, entry, searchPc, targ>>

SeqsUpTo(S, n) == UNION {[1..k -> S] : k \in 0..n}

-------------------------------------------------------------------------------
(* Tables for the translations. *)

Entries(loads) == [loads : loads, addr : Addrs, size : SegSizes, off : Offs]

MCElfTables == SeqsUpTo(Entries(BOOLEAN), 2)

MCPeTables == SeqsUpTo({e \in Entries({TRUE}) : e.addr < DW /\ e.size < DW /\ e.off < DW}, 2)

-------------------------------------------------------------------------------
(* Images for the scans. *)

Headed(tables, signatures) ==
  {[dos |-> d, nt |-> n, field |-> 7, table |-> t] : d \in signatures, n \in signatures, t \in tables}

\* fills and ends: a short name, and the two kinds of a long one.
Named(cmds) ==
  {[cmd |-> c, name |-> n, fills |-> f[1], ends |-> f[2], sections |-> <<>>] :
     c \in cmds, n \in SegName, f \in {<<FALSE, FALSE>>, <<TRUE, TRUE>>, <<TRUE, FALSE>>}}

Lists == SeqsUpTo([addr : {0, 2, 5}, size : {0, 2, 3}], 2)

Plain == [cmd |-> "LC_UUID", name |-> CHOOSE n \in SegName : TRUE, fills |-> FALSE, ends |-> FALSE, sections |-> <<>>]

Segments(l, r) == <<Plain, [Plain EXCEPT !.cmd = "LC_SEGMENT_64", !.sections = l],
                    [Plain EXCEPT !.cmd = "LC_SEGMENT_64", !.sections = r]>>

MCPeImages == Headed(SeqsUpTo(Named({"LC_UUID"}), 2), BOOLEAN)

MCMachOImages ==
  Headed(SeqsUpTo(Named(Command), 2) \cup {Segments(l, r) : l \in Lists, r \in Lists}, {TRUE})

-------------------------------------------------------------------------------
(* Export and import directories: an export table in .edata or in one      *)
(* other section, ordinals up to one too large, and every Size of an       *)
(* import directory up to two descriptors too large.                       *)

MCExporters ==
  UNION {[edata : {"none", "directory", "other"}, shift : [Sections -> {0, 1}], at : [{"addrNames", "addrOrd", "addrFunc", "name"} -> Sections],
          names : [1..n -> Name], ordinals : [1..n -> 1..(MaxEntries + 1)],
          functions : {[k \in 1..MaxEntries |-> 10 * k]}] : n \in 0..MaxEntries}

Descriptors == [lib : Library, original : BOOLEAN, thunks : SeqsUpTo(Name \cup Ordinal, MaxEntries)]

MCImporters ==
  [dos : BOOLEAN, nt : BOOLEAN, size : {1}, imports : {<<>>}]
    \cup UNION {[dos : {TRUE}, nt : {TRUE}, size : 0..(n + 3), imports : [1..n -> Descriptors]] : n \in 0..MaxEntries}

-------------------------------------------------------------------------------
TranslateIdle ==
  /\ fn = "elf_vatoraw" /\ tab = <<>> /\ valid = TRUE /\ va = 0 /\ wantsOut = FALSE
  /\ pc = "idle" /\ i = 1 /\ result = -1 /\ out = Unset

ScanIdle ==
  /\ img = Unset /\ scanFn = Unset /\ sought = Unset /\ scanWantsOut = FALSE
  /\ scanPc = "idle" /\ cmd_index = 1 /\ sec_index = 1 /\ scanResult = -1 /\ scanOut = Unset

ExportIdle ==
  /\ exporter = Unset /\ loaded = FALSE /\ exportName = Unset /\ virtual_address = FALSE
  /\ exportPc = "idle" /\ nameOrd = 1 /\ exportResult = Unset

ImportIdle ==
  /\ importer = Unset /\ libName = Unset /\ importName = Unset
  /\ importPc = "idle" /\ descriptor = 1 /\ ogT = 1 /\ importResult = Imports!NotFound

SearchIdle ==
  /\ symtab = <<>> /\ symtab_sz = 0 /\ symname = Unset /\ net_iter = 0 /\ entry = 0
  /\ searchPc = "idle" /\ targ = Unset

MCInit ==
  \/ called = "translation" /\ Init /\ ScanIdle /\ ExportIdle /\ ImportIdle /\ SearchIdle
  \/ called = "scan" /\ TranslateIdle /\ Scan!Init /\ ExportIdle /\ ImportIdle /\ SearchIdle
  \/ called = "export" /\ TranslateIdle /\ ScanIdle /\ Exports!Init /\ ImportIdle /\ SearchIdle
  \/ called = "import" /\ TranslateIdle /\ ScanIdle /\ ExportIdle /\ Imports!Init /\ SearchIdle
  \/ called = "search" /\ TranslateIdle /\ ScanIdle /\ ExportIdle /\ ImportIdle /\ Linear!Init

MCNext ==
  \/ Next /\ UNCHANGED <<called, scanVars, exportVars, importVars, searchVars>>
  \/ Scan!Next /\ UNCHANGED <<called, vars, exportVars, importVars, searchVars>>
  \/ Exports!Next /\ UNCHANGED <<called, vars, scanVars, importVars, searchVars>>
  \/ Imports!Next /\ UNCHANGED <<called, vars, scanVars, exportVars, searchVars>>
  \/ Linear!Next /\ UNCHANGED <<called, vars, scanVars, exportVars, importVars>>

MCSpec == MCInit /\ [][MCNext]_<<called, vars, scanVars, exportVars, importVars, searchVars>>
================================================================================
