---------------------------- MODULE BlockGrabProofs ----------------------------
(***************************************************************************)
(* Proofs about block_grab for every width of size_t, every page size and  *)
(* every length a file can have.                                           *)
(*                                                                         *)
(* The argument: the block has room for the padded size, and padding a     *)
(* size that is the offset of a file does not wrap (PadHolds).  FlowInv    *)
(* ties what is known of the size, the block and the outputs to the call   *)
(* that comes next.                                                        *)
(***************************************************************************)
EXTENDS BlockGrab, TLAPS

USE WidthAssumption

(***************************************************************************)
(* Padding: for an offset of a file the block is at least as large; for    *)
(* any size_t the result is one again.                                     *)
(***************************************************************************)
LEMMA PadHolds ==
  ASSUME NEW n \in 0..(SizeMod - 1)
  PROVE  /\ Padded(n) \in 0..(SizeMod - 1)
         /\ n <= LongMax => n <= Padded(n)
         /\ Padded(n) > 0 => n <= Padded(n)
<1>1. /\ Plus(n, Page) \in 0..(SizeMod - 1)
      /\ Plus(n, Page) = n + Page \/ (n > LongMax /\ Plus(n, Page) < Page)
  BY DEF Plus
<1>2. /\ Plus(n, Page) % Page \in 0..(Page - 1)
      /\ Plus(n, Page) % Page <= Plus(n, Page)
  <2>1. \A m \in Nat, p \in Nat \ {0} : m % p \in 0..(p - 1) /\ m % p <= m
    OBVIOUS
  <2>2. Plus(n, Page) \in Nat /\ Page \in Nat \ {0}
    BY <1>1
  <2>3. QED
    BY <2>1, <2>2, Zenon
<1>3. QED
  BY <1>1, <1>2 DEF Padded

FlowInv ==
  /\ pc \in {"open", "size", "alloc"} => block = NoBlock /\ got = 0
  /\ pc \in {"open", "size", "alloc", "read"} => result = "none"
  /\ result = "none" => outs = [fSize |-> Unset, allocBase |-> "unset"]
  /\ streams = IF pc \in {"open", "done"} \/ "openError" \in marks THEN 0 ELSE 1
  /\ "openError" \in marks => os = "windows" /\ pc # "open"
  /\ os = "windows" /\ block # NoBlock => size <= block.room
  /\ pc \notin {"open", "size"} /\ result # "failed" =>
       /\ os = "posix" /\ file.kind # "stream" => size <= LongMax
       /\ file.kind = "regular" /\ marks = {} /\ (os = "windows" => file.len < DwordMod) => size = file.len
       /\ file.kind = "regular" /\ "cut" \notin marks /\ "openError" \notin marks => size <= file.len
  /\ pc = "undefined" => result = "none"
  /\ pc = "close" => result = "ok"
  /\ block # NoBlock => block = [at |-> "heap", room |-> Padded(size)]
  /\ pc # "undefined" => got <= block.room
  /\ got <= size
  /\ result = "failed" => block = NoBlock /\ outs = [fSize |-> Unset, allocBase |-> "unset"]
  /\ result = "ok" =>
       outs = [fSize |-> IF "fSize" \in args THEN size ELSE Unset,
               allocBase |-> IF "allocBase" \in args THEN block.at ELSE "unset"]

Safety == UndefinedHasCause /\ WholeFile /\ ShortHasCause /\ Released /\ FailureIsClean

IInv == TypeOK /\ FlowInv /\ Safety

-------------------------------------------------------------------------------
LEMMA InitHolds == Init => IInv
<1> SUFFICES ASSUME Init PROVE IInv
  OBVIOUS
<1>1. SizeMod - 1 \in Nat /\ 0 \in 0..(SizeMod - 1) /\ SizeMod \in 0..SizeMod
  OBVIOUS
<1>2. block \in [at : {"null", "heap"}, room : 0..(SizeMod - 1)]
  BY <1>1 DEF Init, NoBlock
<1>3. outs \in [fSize : 0..SizeMod, allocBase : {"unset", "null", "heap"}]
  BY <1>1 DEF Init, Unset
<1>4. file \in Files /\ os \in {"posix", "windows"} /\ args \in SUBSET {"fSize", "allocBase"}
  BY DEF Init
<1>5. TypeOK
  <2>1. /\ writes \in 0..MaxWrites /\ marks \subseteq {"grown", "cut", "openError", "ioError"}
        /\ pc \in {"open", "size", "alloc", "read", "close", "done", "undefined"}
        /\ streams \in {0, 1} /\ size \in 0..(SizeMod - 1) /\ got \in 0..(SizeMod - 1)
        /\ result \in {"none", "ok", "failed"}
    BY <1>1 DEF Init
  <2>2. QED
    BY <1>2, <1>3, <1>4, <2>1, Zenon DEF TypeOK
<1>6. FlowInv
  BY DEF Init, FlowInv, NoBlock, Files, Unset
<1>7. Safety
  BY DEF Init, Safety, UndefinedHasCause, WholeFile, ShortHasCause, Released, Owner, FailureIsClean
<1>8. QED
  BY <1>5, <1>6, <1>7 DEF IInv

LEMMA NextKeeps == IInv /\ [Next]_vars => IInv'
<1> SUFFICES ASSUME TypeOK, FlowInv, Safety, [Next]_vars
             PROVE  TypeOK' /\ FlowInv' /\ Safety'
  BY DEF IInv
<1>1. CASE UNCHANGED vars
  <2>1. TypeOK'
    BY <1>1 DEF TypeOK, FlowInv, vars, fileVars, input
  <2>2. FlowInv'
    BY <1>1 DEF TypeOK, FlowInv, vars, fileVars, input
  <2>3. Safety'
    BY <1>1 DEF TypeOK, FlowInv, vars, fileVars, input, Safety,
       UndefinedHasCause, WholeFile, ShortHasCause, Released, Owner, FailureIsClean
  <2>4. QED
    BY <2>1, <2>2, <2>3
<1>2. CASE OpenFails
  <2>1. TypeOK'
    BY <1>2 DEF TypeOK, FlowInv, OpenFails, fileVars, input
  <2>2. FlowInv'
    BY <1>2 DEF TypeOK, FlowInv, OpenFails, fileVars, input
  <2>3. Safety'
    <3>1. UndefinedHasCause'
      BY <1>2 DEF TypeOK, FlowInv, OpenFails, fileVars, input, Safety, UndefinedHasCause
    <3>2. WholeFile'
      BY <1>2 DEF TypeOK, FlowInv, OpenFails, fileVars, input, Safety, WholeFile
    <3>3. ShortHasCause'
      BY <1>2 DEF TypeOK, FlowInv, OpenFails, fileVars, input, Safety, ShortHasCause
    <3>4. Released'
      BY <1>2 DEF TypeOK, FlowInv, OpenFails, fileVars, input, Safety, Released, Owner
    <3>5. FailureIsClean'
      BY <1>2 DEF TypeOK, FlowInv, OpenFails, fileVars, input, Safety, FailureIsClean
    <3>6. QED
      BY <3>1, <3>2, <3>3, <3>4, <3>5 DEF Safety
  <2>4. QED
    BY <2>1, <2>2, <2>3
<1>3. CASE Open
  <2>1. TypeOK'
    BY <1>3 DEF TypeOK, FlowInv, Open, fileVars, input
  <2>2. FlowInv'
    BY <1>3 DEF TypeOK, FlowInv, Open, fileVars, input
  <2>3. Safety'
    BY <1>3 DEF TypeOK, FlowInv, Open, fileVars, input, Safety,
       UndefinedHasCause, WholeFile, ShortHasCause, Released, Owner, FailureIsClean
  <2>4. QED
    BY <2>1, <2>2, <2>3
<1>4. CASE Size
  <2>0. /\ os \in {"posix", "windows"} /\ file.kind \in {"regular", "dir", "stream"} /\ file.len \in 0..LongMax
        /\ block = NoBlock /\ got = 0 /\ result = "none"
        /\ streams = IF "openError" \in marks THEN 0 ELSE 1
    BY <1>4 DEF TypeOK, FlowInv, Size, Files
  <2>a. /\ file.len % DwordMod \in 0..(DwordMod - 1) /\ file.len % DwordMod <= file.len
        /\ file.len < DwordMod => file.len % DwordMod = file.len
    <3>1. \A m \in Nat, p \in Nat \ {0} : m % p \in 0..(p - 1) /\ m % p <= m /\ (m < p => m % p = m)
      OBVIOUS
    <3>2. file.len \in Nat /\ DwordMod \in Nat \ {0}
      BY <2>0
    <3>3. QED
      BY <3>1, <3>2, Zenon
  <2>b. /\ size' \in 0..(SizeMod - 1)
        /\ os = "posix" /\ file.kind # "stream" => size' <= LongMax
        /\ file.kind = "regular" /\ marks = {} /\ (os = "windows" => file.len < DwordMod) => size' = file.len
        /\ file.kind = "regular" /\ "openError" \notin marks => size' <= file.len
    BY <1>4, <2>0, <2>a DEF Size, EndOffset
  <2>1. TypeOK'
    BY <1>4, <2>b DEF TypeOK, Size, fileVars, input
  <2>2. FlowInv'
    BY <1>4, <2>0, <2>b DEF FlowInv, Size, fileVars, input, NoBlock
  <2>3. Safety'
    BY <1>4 DEF TypeOK, FlowInv, Size, EndOffset, fileVars, input, Files, Safety,
       UndefinedHasCause, WholeFile, ShortHasCause, Released, Owner, FailureIsClean
  <2>4. QED
    BY <2>1, <2>2, <2>3
<1>5. CASE Alloc
  <2>1. TypeOK'
    <3>1. Padded(size) \in 0..(SizeMod - 1) /\ 0 \in 0..(SizeMod - 1)
      BY PadHolds DEF TypeOK
    <3>2. block' \in [at : {"null", "heap"}, room : 0..(SizeMod - 1)]
      BY <1>5, <3>1 DEF Alloc, NoBlock
    <3>3. QED
      BY <1>5, <3>2 DEF TypeOK, Alloc, fileVars, input
  <2>2. FlowInv'
    BY <1>5, PadHolds DEF TypeOK, FlowInv, Alloc, fileVars, input, NoBlock
  <2>3. Safety'
    BY <1>5, PadHolds DEF TypeOK, FlowInv, Alloc, fileVars, input, NoBlock, Safety,
       UndefinedHasCause, WholeFile, ShortHasCause, Released, Owner, FailureIsClean
  <2>4. QED
    BY <2>1, <2>2, <2>3
<1>6. CASE ReadEnd
  <2>1. TypeOK'
    BY <1>6 DEF TypeOK, FlowInv, ReadEnd, Reading, Store, fileVars, input, Unset
  <2>2. FlowInv'
    BY <1>6 DEF TypeOK, FlowInv, ReadEnd, Reading, Store, fileVars, input, Unset
  <2>3. Safety'
    <3>1. UndefinedHasCause'
      BY <1>6 DEF TypeOK, FlowInv, ReadEnd, Reading, Store, fileVars, input, Unset, Safety, UndefinedHasCause
    <3>2. WholeFile'
      BY <1>6 DEF TypeOK, FlowInv, ReadEnd, Reading, Store, fileVars, input, Unset, Safety, WholeFile
    <3>3. ShortHasCause'
      <4>1. /\ file.kind \in {"regular", "stream"} /\ result = "none" /\ file.len \in Nat
            /\ got = size \/ got >= file.len
            /\ size' = size /\ got' = got /\ file' = file /\ marks' = marks
        BY <1>6 DEF TypeOK, FlowInv, ReadEnd, Reading, Store, fileVars, input, Files
      <4>2. file.kind = "regular" /\ "cut" \notin marks => size <= file.len
        BY <1>6, <4>1 DEF FlowInv, ReadEnd, Reading
      <4>3. ~ (got < size) \/ file.kind = "stream" \/ "cut" \in marks
        BY <4>1, <4>2 DEF TypeOK
      <4>4. QED
        BY <4>1, <4>3 DEF ShortHasCause
    <3>4. Released'
      BY <1>6 DEF TypeOK, FlowInv, ReadEnd, Reading, Store, fileVars, input, Unset, Safety, Released, Owner
    <3>5. FailureIsClean'
      BY <1>6 DEF TypeOK, FlowInv, ReadEnd, Reading, Store, fileVars, input, Unset, Safety, FailureIsClean
    <3>6. QED
      BY <3>1, <3>2, <3>3, <3>4, <3>5 DEF Safety
  <2>4. QED
    BY <2>1, <2>2, <2>3
<1>7. CASE ReadFails
  <2>1. TypeOK'
    BY <1>7 DEF TypeOK, FlowInv, ReadFails, Store, fileVars, input, Unset
  <2>2. FlowInv'
    BY <1>7 DEF TypeOK, FlowInv, ReadFails, Store, fileVars, input, Unset
  <2>3. Safety'
    BY <1>7 DEF TypeOK, FlowInv, ReadFails, Store, fileVars, input, Unset, Safety,
       UndefinedHasCause, WholeFile, ShortHasCause, Released, Owner, FailureIsClean
  <2>4. QED
    BY <2>1, <2>2, <2>3
<1>8. CASE Close
  <2>1. TypeOK'
    BY <1>8 DEF TypeOK, FlowInv, Close, fileVars, input
  <2>2. FlowInv'
    BY <1>8 DEF TypeOK, FlowInv, Close, fileVars, input
  <2>3. Safety'
    <3>1. UndefinedHasCause'
      BY <1>8 DEF TypeOK, FlowInv, Close, fileVars, input, Safety, UndefinedHasCause
    <3>2. WholeFile'
      BY <1>8 DEF TypeOK, FlowInv, Close, fileVars, input, Safety, WholeFile
    <3>3. ShortHasCause'
      BY <1>8 DEF TypeOK, FlowInv, Close, fileVars, input, Safety, ShortHasCause
    <3>4. Released'
      <4>1. streams' = 0 /\ result = "ok" /\ UNCHANGED <<args, block, outs>>
        BY <1>8 DEF FlowInv, Close, input
      <4>2. /\ outs.allocBase = IF "allocBase" \in args THEN block.at ELSE "unset"
            /\ block.at = IF block = NoBlock THEN "null" ELSE "heap"
        BY <4>1 DEF FlowInv, NoBlock
      <4>3. QED
        BY <4>1, <4>2 DEF Released, Owner
    <3>5. FailureIsClean'
      BY <1>8 DEF TypeOK, FlowInv, Close, fileVars, input, Safety, FailureIsClean
    <3>6. QED
      BY <3>1, <3>2, <3>3, <3>4, <3>5 DEF Safety
  <2>4. QED
    BY <2>1, <2>2, <2>3
<1>9. CASE \E n \in 1..MaxLen : ReadSome(n)
  <2>1. TypeOK'
    BY <1>9, PadHolds DEF TypeOK, FlowInv, ReadSome, Reading, fileVars, input, NoBlock
  <2>2. FlowInv'
    BY <1>9, PadHolds DEF TypeOK, FlowInv, ReadSome, Reading, fileVars, input, NoBlock
  <2>3. Safety'
    BY <1>9, PadHolds DEF TypeOK, FlowInv, ReadSome, Reading, fileVars, input, NoBlock, Safety,
       UndefinedHasCause, WholeFile, ShortHasCause, Released, Owner, FailureIsClean
  <2>4. QED
    BY <2>1, <2>2, <2>3
<1>10. CASE Write
  <2>1. TypeOK'
    <3>1. PICK n \in 0..MaxLen : file' = [file EXCEPT !.len = n]
      BY <1>10 DEF Write, Append, Truncate
    <3>2. file' \in Files
      BY <3>1 DEF TypeOK, Files
    <3>3. marks' \subseteq {"grown", "cut", "openError", "ioError"} /\ writes' \in 0..MaxWrites
      BY <1>10 DEF TypeOK, Write, Append, Truncate
    <3>4. QED
      BY <1>10, <3>2, <3>3 DEF TypeOK, Write, input
  <2>2. FlowInv'
    <3>1. PICK n \in 0..MaxLen : Append(n) \/ Truncate(n)
      BY <1>10 DEF Write
    <3>2. /\ n \in Nat /\ file.len \in Nat /\ file'.kind = file.kind /\ file'.len = n
          /\ marks' # {} /\ marks \subseteq marks'
          /\ "openError" \in marks' => "openError" \in marks
          /\ "cut" \in marks' \/ n > file.len
      BY <3>1 DEF TypeOK, Append, Truncate, Files
    <3>3. UNCHANGED <<os, args, pc, streams, size, block, got, outs, result>>
      BY <1>10 DEF Write, input
    <3>4. size \in Nat
      BY DEF TypeOK
    <3>5. file'.kind = "regular" /\ "cut" \notin marks' /\ "openError" \notin marks' /\ pc' \notin {"open", "size"}
            /\ result' # "failed" => size' <= file'.len
      BY <3>2, <3>3, <3>4 DEF FlowInv
    <3>6. QED
      BY <3>2, <3>3, <3>5 DEF FlowInv
  <2>3. Safety'
    BY <1>10 DEF TypeOK, FlowInv, Write, Append, Truncate, Files, Safety,
       UndefinedHasCause, WholeFile, ShortHasCause, Released, Owner, FailureIsClean
  <2>4. QED
    BY <2>1, <2>2, <2>3
<1>11. QED
  BY <1>1, <1>2, <1>3, <1>4, <1>5, <1>6, <1>7, <1>8, <1>9, <1>10 DEF Next, Step

(***************************************************************************)
(* block_grab stores inside its block unless the allocation failed or the  *)
(* source has no size.  It closes the stream, and loses the block it made  *)
(* for a caller without allocBase and no other.                            *)
(***************************************************************************)
THEOREM GrabSafe == Spec => [](TypeOK /\ UndefinedHasCause /\ Released /\ FailureIsClean)
<1>1. IInv => TypeOK /\ UndefinedHasCause /\ Released /\ FailureIsClean
  BY DEF IInv, Safety
<1>2. QED
  BY InitHolds, NextKeeps, <1>1, PTL DEF Spec

(***************************************************************************)
(* A return with 0 means the whole file, unless somebody changed the file, *)
(* fread met an error, or it is no regular file.                           *)
(***************************************************************************)
THEOREM GrabWhole == Spec => [](WholeFile /\ ShortHasCause)
<1>1. IInv => WholeFile /\ ShortHasCause
  BY DEF IInv, Safety
<1>2. QED
  BY InitHolds, NextKeeps, <1>1, PTL DEF Spec
================================================================================
