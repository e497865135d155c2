------------------------------- MODULE BlockGrab -------------------------------
(***************************************************************************)
(* block_grab (localUtil.c), as built for POSIX systems and for Windows by *)
(* the OS macros of localUtil.h: reads a whole file into a page-aligned    *)
(* block, while other processes write the file.                            *)
(*                                                                         *)
(* Each system call of the function is a step ("pc" names the next one).   *)
(* The results of the seek, the allocation and the read are not looked at. *)
(* On Windows neither is that of the open: CreateFileA's answer to a       *)
(* failure is not the 0 the call tests for, and it goes on without a file. *)
(* What a store outside the block does is undefined: the call ends in      *)
(* pc = "undefined".  Bytes are counted, not told apart.                   *)
(***************************************************************************)
EXTENDS Naturals

CONSTANTS
  SizeMod,  \* 2^w, the number of values of size_t
  LongMax,  \* the largest long, the largest offset of a file
  DwordMod, \* 2^32, the number of values of the DWORD GetFileSize answers with
  Page,     \* PAGE_SIZE4K
  MaxLen,   \* bound: length of the file
  MaxWrites \* bound: times other processes change the file

ASSUME WidthAssumption ==
  /\ SizeMod \in Nat /\ LongMax \in Nat /\ Page \in Nat \ {0}
  /\ DwordMod \in 1..SizeMod
  /\ 2 * (LongMax + 1) = SizeMod /\ Page <= LongMax + 1
  /\ MaxLen \in 0..LongMax /\ MaxWrites \in Nat

VARIABLES
  os,       \* the system built for
  file,     \* the file: its kind, and its length now
  writes,   \* history: how often others changed it during the call
  marks,    \* history: "grown" and "cut" for what they did, "openError", "ioError"
  args,     \* the output arguments that are not NULL
  pc,
  streams,  \* open streams or handles
  size,     \* outfileSz
  block,    \* allocTmp: NULL or on the heap, and the bytes it has room for
  got,      \* bytes fread or ReadFile has stored
  outs,     \* what was stored through fSize and allocBase
  result    \* "none" before the return, then "ok" (0) or "failed" (-1)

fileVars == <<file, writes>>
input == <<os, args>>
vars == <<fileVars, marks, input, pc, streams, size, block, got, outs, result>>

NoBlock == [at |-> "null", room |-> 0]

Unset == SizeMod   \* no size_t: nothing was stored through fSize

\* "dir": fopen takes a directory, its end is at LongMax and reads fail;
\* CreateFileA does not.
\* "stream": a pipe or a terminal, which has no position.
Files == [kind : {"regular", "dir", "stream"}, len : 0..MaxLen]

Init ==
  /\ file \in Files /\ writes = 0 /\ marks = {}
  /\ os \in {"posix", "windows"}
  /\ args \in SUBSET {"fSize", "allocBase"}
  /\ pc = "open" /\ streams = 0
  /\ size = 0 /\ block = NoBlock /\ got = 0
  /\ outs = [fSize |-> Unset, allocBase |-> "unset"]
  /\ result = "none"

-------------------------------------------------------------------------------
OpenFails ==
  /\ pc = "open"
  /\ \/ os = "posix" /\ pc' = "done" /\ result' = "failed" /\ UNCHANGED marks
     \/ os = "windows" /\ pc' = "size" /\ marks' = marks \cup {"openError"} /\ UNCHANGED result
  /\ UNCHANGED <<fileVars, input, streams, size, block, got, outs>>

Open ==
  /\ pc = "open" /\ (os = "windows" => file.kind # "dir")
  /\ pc' = "size" /\ streams' = streams + 1
  /\ UNCHANGED <<fileVars, marks, input, size, block, got, outs, result>>

\* Mutant: no fseek to the end.
StartOffset == IF file.kind = "stream" THEN SizeMod - 1 ELSE 0

\* What ftell answers after fseek to the end, as a size_t; GetFileSize answers
\* with the low word of the size, or INVALID_FILE_SIZE.
EndOffset ==
  IF os = "windows" THEN
    IF streams = 1 /\ file.kind = "regular" THEN file.len % DwordMod ELSE DwordMod - 1
  ELSE
    CASE file.kind = "regular" -> file.len
      [] file.kind = "dir" -> LongMax
      [] file.kind = "stream" -> SizeMod - 1

Size ==
  /\ pc = "size" /\ pc' = "alloc" /\ size' = EndOffset
  /\ UNCHANGED <<fileVars, marks, input, streams, block, got, outs, result>>

Plus(a, b) == IF a + b < SizeMod THEN a + b ELSE a + b - SizeMod

\* Mutant: rounds down.
PadDown(n) == n - (n % Page)

\* outfileSzPad
Padded(n) ==
  IF n % Page = 0 THEN n ELSE Plus(n, Page) - (Plus(n, Page) % Page)

\* Nothing tells success from failure.  VirtualAlloc has no block of size 0.
Alloc ==
  /\ pc = "alloc" /\ pc' = "read"
  /\ \/ block' = NoBlock
     \/ block' = [at |-> "heap", room |-> Padded(size)] /\ (os = "windows" => Padded(size) > 0)
  /\ UNCHANGED <<fileVars, marks, input, streams, size, got, outs, result>>

\* ReadFile refuses a handle or a block that are none, fread has no such check.
Reading ==
  /\ pc = "read" /\ streams = 1 /\ file.kind # "dir"
  /\ os = "windows" => block # NoBlock

\* Some more of what is there is stored, up to outfileSz bytes.
ReadSome(n) ==
  /\ Reading
  /\ got + n <= size /\ got + n <= file.len
  /\ got' = got + n
  /\ pc' = IF got' <= block.room THEN "read" ELSE "undefined"
  /\ UNCHANGED <<fileVars, marks, input, streams, size, block, outs, result>>

\* Mutant: the block is handed over only with its size.
StoreBoth ==
  /\ outs' = [fSize |-> IF "fSize" \in args THEN size ELSE Unset,
              allocBase |-> IF args = {"fSize", "allocBase"} THEN block.at ELSE "unset"]
  /\ result' = "ok"
  /\ pc' = "close"
  /\ UNCHANGED <<fileVars, input, streams, size, block, got>>

Store ==
  /\ outs' = [fSize |-> IF "fSize" \in args THEN size ELSE Unset,
              allocBase |-> IF "allocBase" \in args THEN block.at ELSE "unset"]
  /\ result' = "ok"
  /\ pc' = "close"
  /\ UNCHANGED <<fileVars, input, streams, size, block, got>>

\* Mutant: one read call instead of fread's loop.
ReadOnce ==
  /\ pc = "read" /\ Store
  /\ UNCHANGED marks

\* outfileSz bytes are stored, or the file ends here.
ReadEnd ==
  /\ Reading /\ (got = size \/ got >= file.len)
  /\ Store
  /\ UNCHANGED marks

ReadFails ==
  /\ pc = "read" /\ Store
  /\ marks' = marks \cup {"ioError"}

\* Mutant: no fclose.
CloseForgets ==
  /\ pc = "close" /\ pc' = "done"
  /\ UNCHANGED <<fileVars, marks, input, streams, size, block, got, outs, result>>

\* SAFE_HCLOSE passes over INVALID_HANDLE_VALUE.
Close ==
  /\ pc = "close" /\ pc' = "done"
  /\ streams' = IF "openError" \in marks THEN streams ELSE streams - 1
  /\ UNCHANGED <<fileVars, marks, input, size, block, got, outs, result>>

Step ==
  \/ OpenFails \/ Open \/ Size \/ Alloc \/ ReadEnd \/ ReadFails \/ Close
  \/ \E n \in 1..MaxLen : ReadSome(n)

-------------------------------------------------------------------------------
(* Other processes; for a stream, the writer at its other end. *)

Append(n) ==
  /\ file.kind # "dir" /\ n > file.len
  /\ file' = [file EXCEPT !.len = n] /\ marks' = marks \cup {"grown"}

Truncate(n) ==
  /\ file.kind = "regular" /\ n < file.len
  /\ file' = [file EXCEPT !.len = n] /\ marks' = marks \cup {"cut"}

\* CreateFileA is asked for a handle that shares the file with nobody.
Write ==
  /\ os = "windows" /\ file.kind = "regular" => streams = 0
  /\ pc \notin {"done", "undefined"} /\ writes < MaxWrites /\ writes' = writes + 1
  /\ \E n \in 0..MaxLen : Append(n) \/ Truncate(n)
  /\ UNCHANGED <<input, pc, streams, size, block, got, outs, result>>

Next == Step \/ Write

Spec == Init /\ [][Next]_vars

-------------------------------------------------------------------------------
TypeOK ==
  /\ file \in Files /\ writes \in 0..MaxWrites
  /\ marks \subseteq {"grown", "cut", "openError", "ioError"}
  /\ os \in {"posix", "windows"} /\ args \in SUBSET {"fSize", "allocBase"}
  /\ pc \in {"open", "size", "alloc", "read", "close", "done", "undefined"}
  /\ streams \in {0, 1}
  /\ size \in 0..(SizeMod - 1) /\ got \in 0..(SizeMod - 1)
  /\ block \in [at : {"null", "heap"}, room : 0..(SizeMod - 1)]
  /\ outs \in [fSize : 0..SizeMod, allocBase : {"unset", "null", "heap"}]
  /\ result \in {"none", "ok", "failed"}

(***************************************************************************)
(* fread stays inside the block, however the file changes meanwhile: only  *)
(* a failed allocation or a source without a size lets it go beyond.  On   *)
(* Windows nothing does, with a file or without.                           *)
(***************************************************************************)
UndefinedHasCause == pc = "undefined" => os = "posix" /\ (block = NoBlock \/ file.kind = "stream")

(***************************************************************************)
(* A file others leave alone is read whole, and its size reported, unless  *)
(* on Windows that needs more than the low word.                           *)
(***************************************************************************)
WholeFile ==
  result = "ok" /\ file.kind = "regular" /\ marks = {} /\ (os = "windows" => file.len < DwordMod) =>
    got = file.len /\ ("fSize" \in args => outs.fSize = file.len)

(***************************************************************************)
(* Less than the reported size is read only for a reason: the file was cut *)
(* short, it has no size, or the read failed.                              *)
(***************************************************************************)
ShortHasCause ==
  result = "ok" /\ got < size => file.kind = "stream" \/ "cut" \in marks \/ "ioError" \in marks

\* Who has the block.
Owner ==
  IF block = NoBlock THEN "nobody"
  ELSE IF outs.allocBase = "heap" THEN "caller" ELSE "block_grab"

(***************************************************************************)
(* When the call returns the stream is closed.  The block has been handed  *)
(* over, or there is none; or block_grab still has it and drops it: always *)
(* for a caller who gave no allocBase, and for no other.  The C code       *)
(* allocates without a look at allocBase, see PROJECT.json findings.       *)
(***************************************************************************)
Released ==
  pc = "done" =>
    /\ streams = 0
    /\ outs.allocBase = "heap" <=> Owner = "caller"
    /\ Owner = "block_grab" <=> block # NoBlock /\ "allocBase" \notin args

(***************************************************************************)
(* A call that fails has allocated and stored nothing.                     *)
(***************************************************************************)
FailureIsClean ==
  result = "failed" => block = NoBlock /\ outs = [fSize |-> Unset, allocBase |-> "unset"]

(***************************************************************************)
(* "SAFE_BAIL(outFile == 0)" (localUtil.c), "existing file only"           *)
(* (localUtil.h): without a file the call fails.  The Windows build does   *)
(* not keep it, see PROJECT.json findings.                                 *)
(***************************************************************************)
FailsWithoutFile == result = "ok" => "openError" \notin marks
================================================================================
