-------------------------------- MODULE Strings --------------------------------
(***************************************************************************)
(* The string helpers of localUtil.c: rstrnlenu, strnlenu, rfindnn,        *)
(* rstrncmp and subint, on a piece of memory, one action per iteration of  *)
(* their loops.  The helpers whose name starts with r go towards lower     *)
(* addresses.                                                              *)
(*                                                                         *)
(* subint copies a field of maxlen (there strsize) characters to a block   *)
(* for strtoul: its loop is that of strncpy, and its result the number of  *)
(* characters copied, since what number they are is strtoul's.             *)
(* char is signed or not as the compiler has it; that matters to the       *)
(* lengths only.  A read outside the memory is undefined.                  *)
(***************************************************************************)
EXTENDS Integers

CONSTANTS
  Byte,   \* the bytes considered, in 0..255
  Room,   \* the memory considered is mem[0..Room-1]
  SizeMax \* the largest size_t

VARIABLES
  fn, mem, charSigned,
  s1, s2, maxlen, \* the arguments; s2 is that of rstrncmp
  pc, i,
  block,          \* the bytes of strbase_new
  result

args == <<fn, mem, charSigned, s1, s2, maxlen>>
vars == <<args, pc, i, block, result>>

RoomAssumption == Byte \subseteq 0..255 /\ Room \in Nat /\ SizeMax \in Nat /\ Room < SizeMax

Lengths == {"rstrnlenu", "strnlenu"}

Init ==
  /\ fn \in Lengths \cup {"rfindnn", "rstrncmp", "subint"}
  /\ mem \in [0..(Room - 1) -> Byte] /\ charSigned \in BOOLEAN /\ (fn \in Lengths \/ charSigned)
  /\ s1 \in 0..(Room - 1) /\ s2 \in 0..(Room - 1) /\ (fn = "rstrncmp" \/ s2 = s1)
  /\ maxlen \in 0..(Room + 1) \cup {SizeMax}
  /\ pc = IF fn = "subint" THEN "calloc" ELSE "loop"
  /\ i = 0 /\ block = 0 /\ result = 0

-------------------------------------------------------------------------------
\* Whether calloc failed is not asked: strncpy and strtoul are given NULL.
NoBlock ==
  /\ pc = "calloc"
  /\ pc' = "null"
  /\ UNCHANGED <<args, i, block, result>>

FieldAndEnd == (maxlen + 1) % (SizeMax + 1)

\* strncpy writes maxlen bytes, the zeros that fill the field up among them.
Calloc ==
  /\ pc = "calloc"
  /\ block' = FieldAndEnd
  /\ pc' = IF maxlen > FieldAndEnd THEN "undefined" ELSE "loop"
  /\ UNCHANGED <<args, i, result>>

\* Where the iteration k is at, from s.
Place(s, k) == IF fn \in {"strnlenu", "subint"} THEN s + k ELSE s - k

Inside(k) == {Place(s1, k), Place(s2, k)} \subseteq DOMAIN mem

Here == mem[Place(s1, i)]

There == mem[Place(s2, i)]

AsChar(b) == IF charSigned /\ b > 127 THEN b - 256 ELSE b

Return(value) ==
  /\ pc' = "done" /\ result' = value
  /\ UNCHANGED <<args, i, block>>

LoopEnds ==
  /\ pc = "loop" /\ i = maxlen
  /\ Return(IF fn = "rstrncmp" THEN 0 ELSE maxlen)

OutOfMemory ==
  /\ pc = "loop" /\ i < maxlen /\ ~ Inside(i)
  /\ pc' = "undefined"
  /\ UNCHANGED <<args, i, block, result>>

Iterates == pc = "loop" /\ i < maxlen /\ Inside(i)

\* Mutant: compares on after the end of the strings.
EndsNever(b) == FALSE

Ends(b) == b = 0

Found ==
  /\ Iterates
  /\ \/ fn \in Lengths \cup {"subint"} /\ Here = 0 /\ Return(i)
     \/ fn \in Lengths /\ AsChar(Here) > 127 /\ Return(SizeMax)
     \/ fn = "rfindnn" /\ Here # 0 /\ Return(i)
     \/ fn = "rstrncmp" /\ Here # There /\ Return(-1)
     \/ fn = "rstrncmp" /\ Here = There /\ Ends(Here) /\ Return(0)

GoesOn ==
  /\ Iterates
  /\ CASE fn \in Lengths -> Here # 0 /\ AsChar(Here) <= 127
       [] fn = "subint" -> Here # 0
       [] fn = "rfindnn" -> Here = 0
       [] fn = "rstrncmp" -> Here = There /\ ~ Ends(Here)
  /\ i' = i + 1
  /\ UNCHANGED <<args, pc, block, result>>

Next == NoBlock \/ Calloc \/ LoopEnds \/ OutOfMemory \/ Found \/ GoesOn

Spec == Init /\ [][Next]_vars

-------------------------------------------------------------------------------
\* What the call may look at: distances from its pointers.
Field == 0..(maxlen - 1)

Ahead == {k \in Field : Inside(k)}

Zeros == {k \in Ahead : mem[Place(s1, k)] = 0}

\* Characters that are no ASCII to a compiler that can tell.
Foreign == {k \in Ahead : mem[Place(s1, k)] > 127 /\ ~ charSigned}

Differences == {k \in Ahead : mem[Place(s1, k)] # mem[Place(s2, k)]}

Stops ==
  CASE fn \in Lengths -> Zeros \cup Foreign
    [] fn = "subint" -> Zeros
    [] fn = "rfindnn" -> Ahead \ Zeros
    [] fn = "rstrncmp" -> Zeros \cup Differences

\* What a stop at n means.
Answer(n) ==
  CASE fn \in Lengths -> IF n \in Zeros THEN n ELSE SizeMax
    [] fn \in {"subint", "rfindnn"} -> n
    [] fn = "rstrncmp" -> IF n \in Differences THEN -1 ELSE 0

(***************************************************************************)
(* The loops that go backwards and forwards answer for the first place     *)
(* their string stops at, within maxlen, and leave the memory only where   *)
(* there is none in it; what subint gives to strtoul ends in its block.    *)
(* Where char is signed they count characters that are not ASCII, against  *)
(* the "generic non ascii character fail case" of localUtil.c, see         *)
(* PROJECT.json findings.                                                  *)
(***************************************************************************)
Exact ==
  /\ pc = "done" =>
       \/ \E n \in Stops : (\A k \in Stops : n <= k) /\ result = Answer(n)
       \/ Stops = {} /\ Ahead = Field /\ result = IF fn = "rstrncmp" THEN 0 ELSE maxlen
  /\ pc = "done" /\ fn = "subint" => result < block
  /\ pc = "undefined" => (Stops = {} /\ Ahead # Field) \/ (fn = "subint" /\ maxlen = SizeMax)
================================================================================
