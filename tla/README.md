# Verification of local_util

local_util is a small collection of C and C++ helpers: error-handling macros,
reverse string functions, a directory traversal, a function that reads a file
into a page-aligned block, and look-ups of symbols in ELF, PE and Mach-O images.
This directory holds TLA+ modules translated from that code, TLC configurations
that check them on small instances, and TLAPS proofs for every instance.

Paths below are relative to the repository, line numbers are in `PROJECT.json`
(`map` names the lines each definition translates).

## Inventory

| part | source | state | operations |
|---|---|---|---|
| DT_GNU_HASH lookup | localUtil_linux.c | the image's table, `symix` | gnu_lookup |
| DT_HASH lookup | localUtil_linux.c | the image's table, `i` | elf_lookup |
| hash functions | localUtil_linux.c | none | elf_hash, gnu_hash |
| linear search | localUtil_linux.c | .symtab, `i`, `net_iter` | symtabsearch |
| ELF symbol resolution | localUtil_linux.c | headers, dynamic entries, section headers | redlsym |
| address translation | localUtil_linux.c, _windows.c, _xnu.c | segment or section table | elf_vatoraw, pe_vatoraw, macho_vatoraw, section_with_sym (two) |
| PE images | localUtil_windows.c, .h | headers, export and import tables | retEntryPoint, nt_headsize, get_pesection, redlsym, ridlsym |
| Mach-O load commands | localUtil_xnu.c | load commands | getsegbynamefromheader_64, getloadcommandfrommach |
| system snapshots | localUtil_windows.c, localUtil_xnu.c | a list the system keeps | isDriverLoaded, GetModuleBaseAddress, getpidbyname |
| kallsyms map | localUtil_linux.cpp | std::map | gen_kallsymmap |
| region macros | localUtil.h | none | CASE_OVERLAP_*, OVERLAP_REGIONS, REGION_CONTAINS |
| directory traversal | localUtil.c | the C stack, open streams, the file system | recurse_op |
| file grabbing | localUtil.c, localUtil.h | a stream, a block, the file | block_grab, OS* macros |
| string helpers | localUtil.c | none | rstrnlenu, strnlenu, rfindnn, rstrncmp, subint |
| vector of pairs | localUtil_cpp.h | a vector | vector_pair_ind, _key_find, _sort |
| dumps | localUtil.c, localUtil.cpp | none | hexdump, dumpMem |
| JSON walk | jsonUtil.c (not built) | a json_object | json_parse, json_parse_array |

How the parts interact. `redlsym` calls `gnu_lookup` or `elf_lookup` and then,
for an image read from a file, `symtabsearch`. `elf_vatoraw` and the two
`section_with_sym` ask `REGION_CONTAINS` of each segment or section;
`pe_vatoraw` calls `section_with_sym`. `recurse_op` calls itself and a callback
of its caller. A caller typically grabs an image with `block_grab` and resolves
symbols in the block. Nothing in the library has threads of its own: what runs
concurrently is the rest of the system, through files, directories, process and
module lists.

What is hard in this code:

- the hash walks end only where the table says so, and a misread filter, bucket
  or end mark hides a symbol for a few hash values only;
- `recurse_op` and `block_grab` make several system calls on names and sizes
  that other processes may change in between, and ignore most results;
- boundaries: ends of regions, sizes that wrap, a loop bound in bytes;
- lists fetched in two calls (size, then content) on Windows and macOS, or line
  by line (/proc/kallsyms), while others change them;
- what a caller says of an image (loaded or from a file) and what the image says
  of itself (the Size of a directory), which the look-ups of localUtil_windows.c
  take on trust;
- a loop that assigns the variable it loops over (json_parse).

What makes each part correct:

- lookups: the answer is an entry that holds the name, and "none" exactly when
  there is none; no read outside the table; the walk ends;
- regions: the macro says yes exactly when the regions share an address;
- traversal: every regular file that stays in place is visited, exactly once,
  unless a directory above it could not be opened; every stream is closed; the
  call returns;
- file grabbing: the block is never overrun, an undisturbed file is read whole,
  the stream is closed, and the block is handed over or never made, which a call
  without `allocBase` does not keep;
- translations: the result is the file offset of the byte at the address;
- snapshots: the answer is an element the system had during the call, and what
  was there all the time is not missed;
- exports and imports: the answer is the entry sought, and the tables are left
  only for a reason that can be named;
- hashes: they are the ones link editors compute;
- JSON walk: every value is printed once, in order;
- string helpers, dumps, vector of pairs: their definitions.

## Modules

| module | models | correspondence |
|---|---|---|
| `NameLookup` | what a lookup promises | abstract: `wanted`, `answer` |
| `GnuLookup` | gnu_lookup | `BloomTest` (the filter), `BucketTest` (buckets[] and the empty bucket), `ChainStep` (one iteration of `while (1)`) |
| `ElfLookup` | elf_lookup | `Start`, then `Found`, `Follow` or `EndOfList` per iteration |
| `SymtabSearch` | symtabsearch | `LoopEnds`, `Hit`, `Miss`; `Fault` for a read past the table |
| `Redlsym` | redlsym (localUtil_linux.c) | the C locals keep their names; one action per entry of each table (`PhdrStep`, `DynStep`, `ShdrStep`), then `GnuCall` or `ElfCall`, `LookupReturns`, `TakeAnswer` or `NoAnswer`, `Static*` |
| `OverlapMacros` | the macros of localUtil.h | one operator per macro, same name |
| `Regions` | the macros at work | `Evaluate` evaluates them on two regions and an address |
| `Translate` | elf_vatoraw, pe_vatoraw with section_with_sym, macho_vatoraw | `Pass` for an entry that does not contain the address, `Hit` for the one that does |
| `HeaderScan` | retEntryPoint, nt_headsize, get_pesection; getsegbynamefromheader_64, getloadcommandfrommach, section_with_sym (xnu) | `Pass`, `Hit` per entry; `EnterSegment`, `SectionPass`, `SectionHit`, `LeaveSegment` are the nested loop |
| `ImageReaders` | one call of Translate, HeaderScan (as `Scan`), PeExports, PeImports or SymtabSearch (as `Linear`) | composes them by INSTANCE, with a variable of its own for each of theirs |
| `ListSnapshot` | getpidbyname, GetModuleBaseAddress, isDriverLoaded | `pc` names the next system call; `Change` is everybody else |
| `TreeVisit` | what a traversal promises | abstract: `owed`, `visited`, `result` |
| `RecurseOp` | recurse_op | `stack` is the C stack; `Stat*`, `Open*`, `Read*` are the results of stat, opendir, readdir; `Interfere` is everybody else |
| `BlockGrab` | block_grab, built for POSIX systems or for Windows | `pc` names the next system call; `Write` is everybody else |
| `PeExports` | redlsym (localUtil_windows.c) | `Directory`, then `Pass` or `Hit` per name; `Misread` where an address is adjusted wrongly |
| `PeImports` | ridlsym | `OtherLibrary` or `Enter` per descriptor, `Look` per thunk |
| `Kallsyms` | gen_kallsymmap | `Line` per line, `NoLine` where getline ends; `Boot` is what was loaded before, `Change` loads and unloads modules |
| `Snapshots` | one call of ListSnapshot or Kallsyms (as `Symbols`) | composes them by INSTANCE |
| `JsonWalk` | json_parse, json_parse_array, print_json_value | `stack` is the C stack, one action per type of value |
| `Hashes` | elf_hash and gnu_hash | `Char` per character, a 32-bit word is two halves |
| `Strings` | rstrnlenu, strnlenu, rfindnn, rstrncmp, subint | `Found` or `GoesOn` per iteration, `LoopEnds` after the last; `Calloc` or `NoBlock` before subint's |
| `Pairs` | vector_pair_ind, _key_find, _sort | `Differ`, `Same` or `NotThere` per iteration of the search; `vector_pair_sort` is one action, `PushBack` is the owner of the vector |
| `Dumps` | hexdump, dumpMem, dumpMemT | `Dump` per unit |
| `Helpers` | one use of Regions, Strings (as `Text`), Hashes (as `Hash`), Dumps (as `Dumping`), JsonWalk (as `Json`) or Pairs (as `PairVector`) | composes them by INSTANCE |
| `*Proofs` | theorems about the module named | |
| `MCImages`, `MCSnapshots`, `MCHelpers` | ImageReaders, Snapshots, and Helpers | the inputs, and which component is called |
| other `MC*` | instances of one module for TLC | |

`ImageReaders`, `Snapshots` and `Helpers` put components together that take the
same kind of input. They have general constants, their theorems are about the
specification of each component (`Scan!Spec`, `Json!Spec`, ...), and their
invariants are those of the components: where a name would be used twice, the
composing module gives it another (`ImportsReadable` is `UndefinedHasCause` of
`PeImports`, `ExportsReadable` that of `PeExports`). The MC modules choose in
their initial state which component is called and leave the others as they are,
so that one run checks them all.

### GnuLookup and ElfLookup

The table is a constant of the call: the code never writes it. `GnuTable` and
`ElfTable` say what a link editor guarantees of the section: the filter has the
bits of each hashed symbol, the symbols of a bucket are consecutive and the last
has the end mark; each list holds the symbols of its bucket and ends with 0.
The hash functions are arbitrary functions from names to numbers, so the results
hold for any of them, collisions included. A filter word is the set of its one
bits. Both are shown to implement `NameLookup` with `wanted` the hashed entries
that hold the name.

### SymtabSearch

`net_iter` stays 0: the third clause of the `for` is the expression `net_iter`.
So the only ways out for a table with entries are a match and, past the table,
an accidental match or a fault. `FirstMatch` and `PresentFound` say that a name
that is there is found all the same; `ReadsInsideSymtab`, the bound the loop
states, is violated (run `symtab_bound`, listed in `findings`).

### Redlsym

A pointer is its distance from `procBase`, and `m.mem` says which structure
starts where; following a pointer to anything else ends in `pc = "undefined"`.
`Readable` describes the images redlsym can read, among them none whose
addresses are not distances from `procBase`: the code adds p_offset and the
addresses of the dynamic section to `procBase` in a file and in memory alike.
`UndefinedHasCause` says that on a readable image the only way out of the tables
is the linear search for a name that is nowhere. The two hash lookups are called
through `NameLookup`, which their own modules are shown to implement, so the
result is any entry of the table that holds the name. `Resolve`, a second
`NameLookup`, is the promise of redlsym itself: an entry of the hash table, else
the first of .symtab. The inline call of symtabsearch is reduced to its outcome
(first match, or lost past the table), which `SymtabSearch` shows.

### Regions

Addresses are 0..W-1 and sums wrap. `MacrosDecide` is the exact statement of
what the two macros decide. OVERLAP_REGIONS (`OverlapDecides`): "shares an
address", except for two regions with the same end of which the first starts
before the second; the comments above the macro promise that case (run
`regions_encompass`, in `findings`). REGION_CONTAINS (`ContainsExact`): "is in
the region", except for one that reaches the top of the address space.

### Translate

An ELF program header and a PE section header are the same record; `loads` says
whether the loader maps it, which the code does not ask. The sum inside
`REGION_CONTAINS` is taken in the type of the fields (64 bits for ELF, 32 for
PE), the address is a size_t: two instances of `OverlapMacros` with two widths.
`WellFormed` is what link editors keep, and `Exact` says that in such a table
the first entry that contains an address, mapped or not, gives the right offset.
PT_TLS is why the condition is stated by order: .tbss takes addresses in PT_TLS
that belong to whatever follows, and the code is right only because PT_TLS comes
after the PT_LOADs. `macho_vatoraw` returns the address in place of a status and
stores nothing: `ZeroMeansStored` says what is left of the contract of
`virt_to_file`.

### HeaderScan

A name may fill its field, and then strcmp reads the next one: `fills` and
`ends` of an entry tell the three cases apart. `FirstFound` is the promise: the
answer is the first place of what is sought, and "none" only when there is none
but the `Hidden` ones, the names that run on and the sections that end with the
address space. The sections of a PE image are the same loop without the nesting;
section_with_sym of localUtil_windows.c is in `Translate`.

### ListSnapshot

`system` is the list as it is now, others remove and append elements between any
two system calls, and an id (a process number, a load address) may be used
again. `stable` and `ever` remember which ids have had the name all the time and
at some time since the call began; the code has neither. The list that is asked
for twice, for its size and for its content, may have grown or shrunk: sysctl
fails when it does not fit, EnumProcessModules fills what fits and leaves zeros.
A zero in the array is the null handle, which names the program itself. When
EnumDeviceDrivers fails the code goes on with an array and a count it never
wrote: in the model any array and any count, past the end of the array too
(`DrvPastEnd`, `pc = "undefined"`). `StableFound` says that nothing else leads
there, `AnswerWasThere` that even such an array gives no driver of another name
(`findings`).
The result code of isDriverLoaded and getpidbyname
is 0 exactly when there is an answer, and is not kept apart.

### RecurseOp

A path is a model value; `Parent` and `Anc` give the tree of names, `kind` says
what is at each path now. The kinds tell apart what stat and d_type tell apart.
`readdir` may return for a name what was there at opendir or what is there now,
must return every name that stayed in place, and may return a name a second
time only after it was created again: what POSIX leaves open. opendir fails for
what is no directory, for the paths in `Denied`, and when `MaxOpen` streams are
open. The results of nested calls and of the callback are dropped, as in the
code. `TreeVisit` is the promise to the caller: `owed` shrinks when others touch
a path or a directory cannot be opened, and a call that returns 0 has visited
what is still owed.

A path has a length, that of the argument, `base`, and what the names below it
add, `Suffix`. stat refuses a path of `PathMax` bytes and more
(ENAMETOOLONG), but strcpy and strcat do not look: `EntryOverruns` assembles a
path that does not fit `path_tmp`, counts in `beyond` the bytes past its end,
and the model stops there, since what follows is undefined. `PathsFit` bounds
it: the callback never gets a path that is too long; an overrun is by no more
than a slash and one name, because the directory the entry is in was opened
under its own path; and no more activations nest, each with its buffer on the
stack, than half the bytes the argument leaves of `PathMax`. That it overruns
at all is in `findings`.

Not modelled: links
that lead back into the tree (d_type is DT_LNK for them, the code skips them
except as the argument of the call), directories that may be read but not
searched.

### BlockGrab

Sizes are size_t values modulo `SizeMod`, so the padding wraps as in the code
and ftell's -1 is the largest of them. A store beyond the block or through NULL
is undefined: the model stops in `pc = "undefined"`. `UndefinedHasCause` says
when that can happen: after a failed allocation, or for a source that has no
position. A directory, which fopen opens for reading, is covered: its end is at
the largest offset and reading it fails.

block_grab allocates the block whether or not it was given an `allocBase` to
hand it over by, and never frees it: a caller without one leaks it
(`findings`). `Owner` says who has the block, and `Released` that at the return
the stream is closed and block_grab itself has a block left in that case,
always, and in no other.

`os` is the build. On Windows GetFileSize answers with the low word of the size
(`DwordMod`), ReadFile refuses a block or a handle that are none, and nobody
else writes the file while it is open, because CreateFileA asks not to share it.
A failed CreateFileA answers INVALID_HANDLE_VALUE, which the test for 0 lets
pass: the call goes on without a file (run `block_grab_open`, in `findings`).

### PeExports and PeImports

`UndefinedHasCause` of each names every way to bytes that are not those the
call is after. For exports these are a caller who says the
wrong thing of the image (`virtual_address`), an image read from a file with
a table outside .edata, since one adjustment is used for all, a section .edata
that starts with something other than the directory, and a name whose ordinal
is that of no function: neither is looked at. What is taken for granted is that
NumberOfNames is the number of names and of ordinals, and that names and thunks
have their terminators. For imports they
are descriptors without OriginalFirstThunk, a Size that goes past the
terminating descriptor, and an ordinal sought among names. `ExportFound` and
`FirstImport` say what is found otherwise. `FirstImport` says also from which of
the two tables ridlsym answers: the wrong one, against its comment
(`findings`). What get_pesection does is in `HeaderScan`; here it is whether
there is a section .edata and what it starts with.

### Kallsyms

The file is the lines of the kernel and, after them, those of the modules,
`rest`, and is read by position. Modules are loaded before or after the others
and unloaded between any two lines; `stayed` and `moved` remember which were
there all the time and before which one was unloaded. The number an address is
written as is not modelled.

### JsonWalk

A document is a tree whose nodes are numbered in the order of its text:
`Document` says that between a node and its parent there are only nodes below
that parent, and that the keys of an object differ. The action `Object` assigns the nested object to `jobj` of the activation, as the
code does, and `Value` looks the next one up in `jobj`. Calling json-c on no
object is undefined. `CompleteUnlessMisled` has both halves: which documents are
printed whole, and which are never got through (`findings`). The second is
about the outermost object: what follows an object there, under a key of its
own, is looked up in another object and not found. Deeper in the document such
a value may never be reached.

### Strings, Hashes, Pairs, Dumps

`Strings` runs one of the five helpers on one piece of memory, one action per
iteration; char is signed or not, as the compiler has it, and a read outside
the memory ends in `undefined`. subint is the loop of its strncpy: its calloc
may fail, which nobody looks at (`null`), and gives no byte when strsize is
SIZE_MAX; what number the field is stays with strtoul. `StringsExact` says which
place a helper answers for by sets of places, not by a loop; it shows that
characters that are not ASCII are counted where char is signed (`findings`), and
that the memory is left only where nothing in it stops the helper.
`Hashes` keeps the width of the word in two halves, because the numbers of
TLC have 32 bits with a sign; that nothing is lost by it is proved
(`HashesAreNumbers`). `AsLinked` compares with hashes of known
names and asks (`LastTells`) that no two last characters collide. In `Pairs`
std::sort may leave equal keys in any order: any permutation that orders the
keys. In `Dumps` what is printed is a sequence of labels and of units with the
bytes they are made of; the text is left out, but for the room of the format.
`DumpExact` allows what dumpMemT reads past `len` to the end of its last unit,
and the one format that does not fit its buffer, and nothing else (`findings`).

## Runs

| run | question | bounds |
|---|---|---|
| `gnu` | gnu_lookup is right on every table | 3 names, hash values 0, 1, 6 (two that collide but for the lowest bit, two filter words), 0-3 hashed symbols, 1-2 buckets, 1-2 filter words of 4 bits, symoffset 1-2: empty, shared and last buckets, false positives of the filter all occur |
| `elf` | elf_lookup is right on every table | 3 names, hash values 0 and 1, 0-3 symbols in every list order, 1-2 buckets |
| `symtab` | a search for a present name returns with it | 3 names, tables of 0-4 entries with repetitions; two entries past the table |
| `symtab_bound` | the loop's bound holds (violated) | 2 names, 0-2 entries |
| `redlsym` | which images redlsym can read, and what it answers | 2 names; images in memory, from a file, and in memory with their section headers; link bases and slides 0 and 8; no PT_DYNAMIC, either, both or no hash table, with and without .symtab and .strtab; up to 2 dynamic symbols, imports among them, and 1-2 static ones |
| `regions_encompass` | the comment's case (violated) | every pair of regions for W = 8 |
| `images` | what the functions that read image headers answer | translations: every table of up to 2 entries with addresses 0, 1, 3, 5, sizes 0, 1, 2, 4, offsets 0, 2, 3, and every address of W = 8 (64 bits) with DW = 4 (32 bits): nested, adjacent, overlapping, empty and wrapping entries. Scans: up to 2 named entries, three kinds of command, names short, long and hidden; two segments of up to 2 sections each after another command, sections that reach the top. Exports: up to 2 names, in any order of ordinals, the same one twice and one past the functions included, no .edata, one with the directory, one without, each table in .edata or elsewhere, sections that move or not, and either word of the caller. Imports: up to 2 descriptors with up to 2 thunks each, names and ordinals mixed, Size from 0 to two descriptors too many. Linear search: 2 names, tables of 0-4 entries, two entries past the table |
| `snapshots` | reading lists that change | 3 ids, 2 names, lists of 0-3 elements (ARRAY_SIZE 3, so that one does not fit), sysctl's estimate exact or one more; kernels of 1-3 lines, as wide as the buffer or one less, two modules, one of which shares a name with the kernel; two changes by others, every call may fail |
| `helpers` | what the helpers decide and return | regions: every pair of regions and address for W = 8, all orders of four endpoints and the wrap. Strings: every piece of 4 bytes out of the terminator, two ASCII characters and a byte that is not ASCII, every start, two of them for rstrncmp, lengths 0-5 and SIZE_MAX, 255 here. Hashes: 7 names with known hashes, one of which overflows, and all names of up to 8 of the bytes 15 and 255; four last characters, among them pairs that differ in the lowest bit or in the top four. Dumps: 0-40 bytes, every unit and build, labels that start again at 32. JSON: every document of up to 5 nodes with 3 keys. Pairs: up to 3 pairs, 2 keys, 3 values, 0 among them |
| `recurse_op` | traversal under interference | root, two entries, one with an entry of its own; every assignment of kinds; two changes by others; two descriptors for three possible levels; one directory that may not be opened; a PATH_MAX of 10 bytes, names of 1 and 2 bytes, arguments of 4, 7 and 10: all paths fit, the deepest does not, or the argument does not |
| `block_grab` | reading under interference | both builds; 5-bit sizes, a DWORD of 3 bits, pages of 4, files of up to 9 bytes (none, less than a page, a page, more, more than a DWORD counts), two writes by others, every call may fail |
| `block_grab_open` | a file that cannot be opened is an error (violated) | the same |

Names and paths are distinct roles, so the sets of names are not declared
symmetric where `CHOOSE` picks one of them. One loop of the code treats each entry
alike and looks at no other, so two entries show what a third would: a first
match, a later one, and one passed over. Five nodes are enough for a JSON object
with two values after an object, one of which has a value of its own; eight
bytes are enough for the sum of elf_hash to overflow.

The bounds `MaxPast`, `MaxChanges`, `MaxLen`, `MaxWrites` limit only what the
environment may do or how far an undefined walk is followed; the proofs do not
depend on their values. Runs of functions that return switch deadlock checking
off, because a call that has returned does nothing more.

Every property of a passing run has a mutant: a plausible error in one mapped
definition, kept in the module before that definition and marked `Mutant`, which
makes TLC report the property violated.

Fairness. `FairSpec` adds weak fairness of the function's own steps: a call that
can execute its next statement executes it. No fairness is assumed of other
processes, and none of the outcomes of a system call. `Termination` of
recurse_op counts a path that overruns its buffer as an end, and rests on the
bound on changes: with entries created forever
readdir may never end, and no property says that it does.

## Proofs

All theorems hold for every value of the constants that satisfies the named
assumptions in the modules; they use no other assumption.

| theorem | statement | argument |
|---|---|---|
| `ChainWalkSafe` | `Spec => [](TypeOK /\ ChainInv)` | the conjunction is inductive; the end mark keeps the walk in the bucket: `symix + 1` is in the bucket exactly when the mark is absent |
| `GnuLookupImplements` | `Spec => LookupSpec` | a filter or bucket that says no excludes every entry with the name's hash; at the end mark `ChainInv` leaves no entry to hold it |
| `ListWalkSafe` | `Spec => [](TypeOK /\ ListInv)` | `pos`, the place in the list, grows by one with each `Follow` |
| `ElfLookupImplements` | `Spec => LookupSpec` | from `ListInv` |
| `LostOnlyWithCause` | `Redlsym`: `Spec => [](TypeOK /\ UndefinedHasCause)` | strengthened: what each loop has taken so far is the field of an entry already passed, or still null when no such entry was passed |
| `RedlsymImplements` | `Spec => ResolveSpec` | the lookup that runs wants the covered entries of the name; the static search stops at the first match |
| `TranslationExact` | `ImageReaders`, Translate: `Spec => [](TypeOK /\ Exact /\ ZeroMeansStored)` | strengthened: the loop has passed only entries that do not contain the address, so the one it stops at is the first; in a well-formed table it has the displacement of the mapped one |
| `SearchInside` | `ImageReaders`: `Linear!Spec => [](Linear!TypeOK /\ FirstMatch)` | strengthened: `net_iter` stays 0, and no entry that holds the name has been passed |
| `Typing`, `RegionMacros` | `Spec => []MacrosDecide` | the macros' arithmetic, case by case |
| `VisitsOnce` | `Spec => [](TypeOK /\ AtMostOnce /\ VisitsAreFiles)` | strengthened: the frames of the stack are nested directories, what a frame has `done` accounts for every call on an untouched path below it, so an untouched path not yet done has not been visited |
| `StreamsAndSkips` | `Spec => [](OpenDirsInv /\ SkipsHaveCause)` | strengthened: every frame but the last is in "read" and the stack's length is the depth of its last directory |
| `PathLengths` | `Spec => []PathsFit` | strengthened (`LengthInv`): the path of every activation that got past its stat fits, so that of an entry is one name longer at most; the frames are nested directories, and each adds two bytes or more to the path |
| `RecurseOpImplements` | `Spec => VisitSpec` | strengthened: what is done by a frame has been visited, or is being visited by the frames above, or is no longer owed |
| `GrabSafe` | `Spec => [](TypeOK /\ UndefinedHasCause /\ Released /\ FailureIsClean)` | strengthened by what is known at each `pc`, of the block and of what was handed over; `PadHolds`: the padded size of a size that does not wrap is at least the size |
| `GrabWhole` | `Spec => [](WholeFile /\ ShortHasCause)` | strengthened: while nobody writes, `size` is the length of the file and `got` at most that |
| `ScansHold` | `ImageReaders`: `Scan!Spec => []FirstFound` | strengthened: no place of what is sought lies before the cursors, the section cursor included; a name that runs on is one of the `Hidden` places |
| `ExportsHold` | `Exports!Spec => [](ExportsReadable /\ ExportFound)` | strengthened: no name passed is the one sought, and the one adjustment there is is that of .edata; what is answered has an ordinal inside the table |
| `ImportsHold` | `Imports!Spec => [](ImportsReadable /\ FirstImport)` | strengthened: no import sought lies `Before` the two cursors |
| `LookupsHold` | `Snapshots`, ListSnapshot: `Spec => [](AnswerWasThere /\ StableFound /\ Released)` | strengthened by what is known at each `pc` (nothing, of the array and the count, after a failed EnumDeviceDrivers): those with the name in the list are in `ever`, and those in `stable` are in the list; of the list that was fetched, at or after the cursor, unless a call failed |
| `SymbolsComplete` | `Symbols!Spec => [](KernelComplete /\ ModulesStay)` | strengthened: each line of a loaded module is in `rest`; what lies before `pos` is in the map, if it is the kernel's or of a module in `stayed` and not in `moved` |
| `StringsHold` | `Text!Spec => []StringsExact` | strengthened: a loop has passed only places that are inside the memory and at which its string does not stop; where a place is inside, so is every one before it (`InsidePrefix`) |
| `HashesAreNumbers` | `Hash!Spec => Number(elf) = 0 /\ Number(gnu) = 5381 /\ [][StepsOfC]_(Hash!vars)` | with `Number(w)` the number the halves stand for, each `Char` is the C statement modulo 2^32 (`TimesPlusNumber`: the carry between the halves; `FoldNumber`: the four highest bits moved on) |
| `HashesTell` | `Hash!Spec => []Hash!LastTells` | the exclusive or bit by bit (`XorTells`); the sum before it, with and without a carry between the halves (`ElfTells`) |
| `PairsFound` | `Helpers`: `PairVector!Spec => []FindHolds` | strengthened: no pair before the cursor has the key, and the last answer is a pair of the vector |
| `DumpsExact` | `Dumping!Spec => []DumpExact` | strengthened: each byte below `offset` is in one unit printed, in its row, and a row is open for the next |
| `JsonWhole` | `Json!Spec => []CompleteUnlessMisled` | see below |

The type invariants are part of these theorems, where the argument needs them,
and are not repeated in the runs. For `BlockGrab` the theorems hold of both
builds.

`JsonWhole` has two invariants, one for each half. `WholeInv` is the first: what
json_parse and json_parse_array have visited is at any time the nodes below some
number F, since nodes are numbered in the order of the text. `WalkAt(F, c)` says
that the activations go through the nodes of a path c, that each is at its first
entry from F on, that what is not yet visited lies below F's successors or is an
entry of a node of the path, and that exactly the scalars below F are printed.
Hence (`Frontier`) the activation in front is at F itself, and (`ValueFound`)
looking it up gives F, since `jobj` can be another object than the one gone
through only when an object came before, which a document that is not `Misled`
excludes. F and c are not variables of the model: the invariant says that there
are such. When no activation is left no node from F on has its parent below F,
so F is past the last. `ApartInv` is the second: where an object k and a later
value j of the outermost object have j's key for j alone, the first activation
does not get past j, and from k on does not look into the outermost object.

Only model-checked: every `Termination` and `PresentFound` (liveness is outside
the prover's reach), the three violated properties, and the half of `AsLinked`
that compares what `Hashes` computes with the hashes of concrete names: these
are data of the run, and computing a hash from them is induction over their
characters. Its other half, `LastTells`, is proved, and so is that every step
computes what the C code does (`HashesAreNumbers`, an action property only
proved: TLC has no numbers of 32 bits to compare with); the
provers do not read the module Bitwise, so `Hashes` has its own exclusive or, of
four bits.

## Not modelled

See `components` in `PROJECT.json` for each part and its reason. The vendored
headers under linux_compat and windows_compat (four fifths of the lines of the
repository) and the build files have no behaviour; of elf.h only the four
structures that redlsym reads are mapped. The error-handling and release macros
appear as the early returns and releases of the modules that use them.

Within the parts that are modelled, left out are:

- what runs after path_tmp has been overrun, or past the array of
  isDriverLoaded: the models stop there;
- the lengths of process names (p_comm holds 16 characters);
- p_filesz, which elf_vatoraw does not read, so that an address of .bss gets an
  offset that is not its own;
- the walk from a header to the table after it (e_phoff, SizeOfOptionalHeader,
  cmdsize), which the models take as the table it leads to;
- what number strtoul makes of the field subint copies;
- the text hexdump, dumpMem and print_json_value print.

## Plan

Every part with behaviour has its module, and every safety property of a passing
run has its theorem, but for the known hashes of `AsLinked`. Nothing of the plan
is left; a change of the code starts at `map`, which names the definitions that
stand for the lines changed.
