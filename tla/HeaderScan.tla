------------------------------- MODULE HeaderScan ------------------------------
(***************************************************************************)
(* Reading the headers of PE and Mach-O images: retEntryPoint, nt_headsize *)
(* and get_pesection (localUtil_windows.c), getloadcommandfrommach,        *)
(* getsegbynamefromheader_64 and section_with_sym (localUtil_xnu.c).       *)
(*                                                                         *)
(* An image is a record of                                                 *)
(*   dos, nt   the two signatures of a PE image are there                  *)
(*   field     the field of the optional header that is asked for          *)
(*   table     the section headers, or the load commands                   *)
(* An entry of the table has a cmd (load commands only), a name in a field *)
(* of fixed length, and sections (segments only).  A name as long as its   *)
(* field has no terminator of its own: strcmp goes on into the next field, *)
(* the size of a section or the address of a segment, and "ends" says that *)
(* the first byte there is 0.                                              *)
(***************************************************************************)
EXTENDS Integers, Sequences

CONSTANTS
  W,            \* the number of values of a 64-bit word
  Command,      \* the types of load commands, LC_SEGMENT_64 among them
  SegName,      \* names of segments and sections
  PeImages, MachOImages,
  Unset         \* what the out parameter points to before the call

LC_SEGMENT_64 == "LC_SEGMENT_64"

VARIABLES
  fn,          \* the function called
  img,
  sought,      \* the name, command or address it is called with
  wantsOut,    \* the out parameter is not NULL
  pc,
  cmd_index,   \* the entry looked at, from 1
  sec_index,   \* and its section, from 1
  result, out

args == <<fn, img, sought, wantsOut>>
vars == <<args, pc, cmd_index, sec_index, result, out>>

Macros == INSTANCE OverlapMacros

Section == [addr : 0..(W - 1), size : 0..(W - 1)]

Entry == [cmd : Command, name : SegName, fills : BOOLEAN, ends : BOOLEAN, sections : Seq(Section)]

Image(x) ==
  /\ x.dos \in BOOLEAN /\ x.nt \in BOOLEAN /\ x.field \in Nat
  /\ x.table \in Seq(Entry)

PeFunctions == {"retEntryPoint", "nt_headsize", "get_pesection"}
MachOFunctions == {"getloadcommandfrommach", "getsegbynamefromheader_64", "section_with_sym"}

WidthAssumption == W \in Nat \ {0}
ImagesAssumption == \A x \in PeImages \cup MachOImages : Image(x)
UnsetAssumption == LC_SEGMENT_64 \in Command /\ Unset \notin Nat

-------------------------------------------------------------------------------
Init ==
  /\ \/ fn \in PeFunctions /\ img \in PeImages
     \/ fn \in MachOFunctions /\ img \in MachOImages
  /\ sought \in CASE fn = "section_with_sym" -> 0..(W - 1)
                  [] fn = "getloadcommandfrommach" -> Command
                  [] OTHER -> SegName
  /\ wantsOut \in BOOLEAN
  /\ pc = "headers" /\ cmd_index = 1 /\ sec_index = 1
  /\ result = -1 /\ out = Unset

Signed == fn \in PeFunctions => img.dos /\ img.nt

BadSignature ==
  /\ pc = "headers" /\ ~ Signed
  /\ pc' = "done"
  /\ UNCHANGED <<args, cmd_index, sec_index, result, out>>

Finish(found) ==
  /\ result' = 0
  /\ out' = IF wantsOut THEN found ELSE out
  /\ pc' = "done"
  /\ UNCHANGED <<args, cmd_index, sec_index>>

\* retEntryPoint and nt_headsize
Field ==
  /\ pc = "headers" /\ Signed /\ fn \in {"retEntryPoint", "nt_headsize"}
  /\ Finish(img.field)

Headers ==
  /\ pc = "headers" /\ Signed /\ fn \notin {"retEntryPoint", "nt_headsize"}
  /\ pc' = "scan"
  /\ UNCHANGED <<args, cmd_index, sec_index, result, out>>

\* strcmp of a name in a field of fixed length.
NameIs(e, name) == e.name = name /\ (e.fills => e.ends)

\* Mutant: any load command is taken for a segment.
MatchesAny(e) ==
  CASE fn = "get_pesection" -> NameIs(e, sought)
    [] fn = "getsegbynamefromheader_64" -> NameIs(e, sought)
    [] fn = "getloadcommandfrommach" -> e.cmd = sought
    [] OTHER -> FALSE

Matches(e) ==
  CASE fn = "get_pesection" -> NameIs(e, sought)
    [] fn = "getsegbynamefromheader_64" -> e.cmd = LC_SEGMENT_64 /\ NameIs(e, sought)
    [] fn = "getloadcommandfrommach" -> e.cmd = sought
    [] OTHER -> FALSE

Current == img.table[cmd_index]

\* section_with_sym looks into a segment.
LooksInto(e) == fn = "section_with_sym" /\ e.cmd = LC_SEGMENT_64

Pass ==
  /\ pc = "scan" /\ cmd_index <= Len(img.table) /\ ~ Matches(Current) /\ ~ LooksInto(Current)
  /\ cmd_index' = cmd_index + 1
  /\ UNCHANGED <<args, pc, sec_index, result, out>>

Hit ==
  /\ pc = "scan" /\ cmd_index <= Len(img.table) /\ Matches(Current)
  /\ Finish(<<cmd_index>>)

NotFound ==
  /\ pc = "scan" /\ cmd_index > Len(img.table)
  /\ pc' = "done"
  /\ UNCHANGED <<args, cmd_index, sec_index, result, out>>

EnterSegment ==
  /\ pc = "scan" /\ cmd_index <= Len(img.table) /\ LooksInto(Current)
  /\ pc' = "sections" /\ sec_index' = 1
  /\ UNCHANGED <<args, cmd_index, result, out>>

InSection(s) == Macros!REGION_CONTAINS(s.addr, s.size, sought)

SectionPass ==
  /\ pc = "sections" /\ sec_index <= Len(Current.sections) /\ ~ InSection(Current.sections[sec_index])
  /\ sec_index' = sec_index + 1
  /\ UNCHANGED <<args, pc, cmd_index, result, out>>

SectionHit ==
  /\ pc = "sections" /\ sec_index <= Len(Current.sections) /\ InSection(Current.sections[sec_index])
  /\ Finish(<<cmd_index, sec_index>>)

LeaveSegment ==
  /\ pc = "sections" /\ sec_index > Len(Current.sections)
  /\ pc' = "scan" /\ cmd_index' = cmd_index + 1
  /\ UNCHANGED <<args, sec_index, result, out>>

Next ==
  \/ BadSignature \/ Field \/ Headers
  \/ Pass \/ Hit \/ NotFound
  \/ EnterSegment \/ SectionPass \/ SectionHit \/ LeaveSegment

Spec == Init /\ [][Next]_vars

-------------------------------------------------------------------------------
(***************************************************************************)
(* What the image has of what is sought, by place: an entry is <<k>>, a    *)
(* section of it <<k, s>>.                                                 *)
(***************************************************************************)
Bytes(s) == s.addr .. (s.addr + s.size - 1)

Places ==
  IF fn = "section_with_sym"
    THEN UNION {{<<k, s>> : s \in {j \in 1..Len(img.table[k].sections) :
                                    sought \in Bytes(img.table[k].sections[j])}} :
                  k \in {j \in 1..Len(img.table) : img.table[j].cmd = LC_SEGMENT_64}}
    ELSE {<<k>> : k \in {j \in 1..Len(img.table) :
            CASE fn = "getloadcommandfrommach" -> img.table[j].cmd = sought
              [] fn = "getsegbynamefromheader_64" -> img.table[j].cmd = LC_SEGMENT_64 /\ img.table[j].name = sought
              [] OTHER -> img.table[j].name = sought}}

\* Places that cannot be found: a name that runs into the next field, and a
\* section that ends with the address space.
Hidden(p) ==
  LET e == img.table[p[1]]
  IN  CASE fn = "section_with_sym" -> e.sections[p[2]].addr + e.sections[p[2]].size >= W
        [] fn = "getloadcommandfrommach" -> FALSE
        [] OTHER -> e.fills /\ ~ e.ends

Before(p, q) == p[1] < q[1] \/ (p[1] = q[1] /\ Len(p) = 2 /\ p[2] < q[2])

(***************************************************************************)
(* The scan answers with the first place of what is sought, in the order   *)
(* of the tables and through the nested loop of section_with_sym, and      *)
(* fails only if there is none but hidden ones.                            *)
(***************************************************************************)
FirstFound ==
  pc = "done" /\ Signed /\ fn \notin {"retEntryPoint", "nt_headsize"} =>
    LET found == {p \in Places : ~ Hidden(p)}
    IN  /\ result = 0 <=> found # {}
        /\ result = 0 /\ wantsOut => out \in found /\ \A p \in found : ~ Before(p, out)
================================================================================
