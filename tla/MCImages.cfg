\* translations, header scans, exports and imports of small images
SPECIFICATION MCSpec
CONSTANTS
  W = 8
  DW = 4
  Addrs = {0, 1, 3, 5}
  SegSizes = {0, 1, 2, 4}
  Offs = {0, 2, 3}
  ElfTables <- MCElfTables
  PeTables <- MCPeTables
  Unset = Unset
  Command = {"LC_SEGMENT_64", "LC_UUID", "LC_SYMTAB"}
  SegName = {"x", "y"}
  PeImages <- MCPeImages
  MachOImages <- MCMachOImages
  Sections = {".edata", ".rdata"}
  Exporters <- MCExporters
  Importers <- MCImporters
  Name = {open, close}
  Ordinal = {first}
  Library = {lower, upper}
  MaxEntries = 2
  MaxSyms = 4
  EntSize = 24
  MaxPast = 2
INVARIANTS
  Exact
  ZeroMeansStored
  FirstFound
  ExportsReadable
  ExportFound
  ImportsReadable
  FirstImport
  FirstMatch
CHECK_DEADLOCK FALSE
