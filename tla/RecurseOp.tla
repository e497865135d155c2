------------------------------- MODULE RecurseOp -------------------------------
(***************************************************************************)
(* recurse_op (localUtil.c): runs a callback on every regular file below a *)
(* path, while other processes change the tree.                            *)
(*                                                                         *)
(* The stack of C activations is "stack", the innermost last; a frame is   *)
(*   dir   the path_dir argument                                           *)
(*   at    the system call that comes next: "stat", "open" or "read"       *)
(*   snap  what the directory held when it was opened                      *)
(*   done  the names readdir has returned                                  *)
(* A path is a model value; its kind is what lives there now:              *)
(*   "reg", "dir"      d_type says DT_REG, DT_DIR, and so does stat        *)
(*   "reglink", "dirlink"   stat says regular file or directory, d_type    *)
(*                     does not (symbolic links, or DT_UNKNOWN)            *)
(*   "other"           neither stat nor d_type does (FIFOs, sockets)       *)
(*   "absent"          nothing is there                                    *)
(* The callback's own result is not modelled: the C code drops it, even at *)
(* the top, where "result = 0" follows the call.                           *)
(*                                                                         *)
(* A path string has a length, that of the argument and what the path adds *)
(* to it, and every activation has a buffer of PATH_MAX bytes for the path *)
(* of an entry.  What happens once an entry's path does not fit the buffer *)
(* is undefined: the model stops there.                                    *)
(***************************************************************************)
EXTENDS Naturals, Sequences, FiniteSets

CONSTANTS
  Path,       \* the paths of the tree
  Root,       \* the path recurse_op is called with
  Parent,     \* the directory each other path is in
  Anc,        \* the path itself and the directories above it
  Denied,     \* directories the process may not open
  MaxOpen,    \* file descriptors the process can still open
  PathMax,    \* PATH_MAX: a path and its terminator
  NameMax,    \* the longest d_name
  Lengths,    \* the lengths the path_dir argument may have
  Suffix,     \* what a path adds to that length
  MaxChanges  \* bound: changes other processes make

ASSUME TreeAssumption ==
  /\ IsFiniteSet(Path) /\ Root \in Path
  /\ Parent \in [Path \ {Root} -> Path]
  /\ Anc \in [Path -> SUBSET Path]
  /\ Anc[Root] = {Root}
  /\ \A p \in Path \ {Root} : Anc[p] = {p} \cup Anc[Parent[p]] /\ p \notin Anc[Parent[p]]
  /\ \A p \in Path : Root \in Anc[p] /\ \A a \in Anc[p] : Anc[a] \subseteq Anc[p]
  /\ \A p \in Path : \A a, b \in Anc[p] \ {Root} : Parent[a] = Parent[b] => a = b

\* A path below another one goes through an entry of it.
ASSUME PathAssumption ==
  \A p \in Path : \A a \in Anc[p] \ {p} : \E c \in Anc[p] \ {Root} : Parent[c] = a

\* An entry adds a slash and its name.
ASSUME LengthAssumption ==
  /\ PathMax \in Nat /\ NameMax \in Nat /\ Lengths \subseteq Nat
  /\ Suffix \in [Path -> Nat] /\ Suffix[Root] = 0
  /\ \A p \in Path \ {Root} :
       \E d_name \in 1..NameMax : Suffix[p] = Suffix[Parent[p]] + 1 + d_name

ASSUME BoundAssumption == MaxOpen \in Nat /\ MaxChanges \in Nat /\ Denied \subseteq Path

VARIABLES
  kind,      \* the file system: what is at each path
  kind0,     \* history: what was there when the call began
  touched,   \* history: paths other processes removed or created
  changes,   \* history: how many changes they made
  stack,     \* the activations of recurse_op
  openDirs,  \* directory streams open
  calls,     \* how often routine_on_file ran on each path
  skipped,   \* history: directories opendir refused
  result,    \* what the outermost activation returned, "none" before
  base,      \* the length of the path_dir argument, chosen at the start
  beyond     \* bytes written past the end of a path_tmp

fsVars == <<kind, kind0, touched, changes>>
pathVars == <<base, beyond>>
opVars == <<stack, openDirs, calls, skipped, result, pathVars>>
vars == <<fsVars, opVars>>

Kinds == {"reg", "dir", "reglink", "dirlink", "other", "absent"}
NotADirectory == {"reg", "reglink", "other"}   \* mutant: no S_ISREG, only no directory
Regular == {"reg", "reglink"}    \* S_ISREG after stat
Openable == {"dir", "dirlink"}   \* opendir accepts it

Length(p) == base + Suffix[p]

\* Mutant: the terminator is not counted.
FitsBare(p) == Length(p) <= PathMax

\* With its terminator the path is no longer than PATH_MAX: path_tmp holds
\* it, and stat and opendir accept it.
Fits(p) == Length(p) < PathMax

Children(d) == {p \in Path \ {Root} : Parent[p] = d}

\* What lives below a path lives in a directory.
WellFormed(k) ==
  \A p \in Path : k[p] # "absent" => \A a \in Anc[p] \ {p} : k[a] \in Openable

NoEntries == [c \in Path |-> "absent"]
Called(p) == [dir |-> p, at |-> "stat", snap |-> NoEntries, done |-> {}]

Init ==
  /\ kind \in [Path -> Kinds] /\ WellFormed(kind)
  /\ kind0 = kind /\ touched = {} /\ changes = 0
  /\ stack = <<Called(Root)>>
  /\ openDirs = 0
  /\ calls = [p \in Path |-> 0]
  /\ skipped = {}
  /\ result = "none"
  /\ base \in Lengths /\ beyond = 0

-------------------------------------------------------------------------------
(* The function. *)

Top == stack[Len(stack)]

Callers == SubSeq(stack, 1, Len(stack) - 1)

\* Mutant: an activation that fails makes its caller fail.
Bail(r) ==
  /\ stack' = IF r = "failed" THEN <<>> ELSE Callers
  /\ result' = IF r = "failed" \/ Len(stack) = 1 THEN r ELSE result

\* The innermost activation returns; only the outermost one's result is kept.
Return(r) ==
  /\ stack' = Callers
  /\ result' = IF Len(stack) = 1 THEN r ELSE result

Visit(p) == calls' = [calls EXCEPT ![p] = @ + 1]

At(step) == stack # <<>> /\ Top.at = step

\* Nothing there, or ENAMETOOLONG.
StatFails ==
  /\ At("stat") /\ (kind[Top.dir] = "absent" \/ ~ Fits(Top.dir))
  /\ Return("failed")
  /\ skipped' = skipped \cup {Top.dir}
  /\ UNCHANGED <<fsVars, pathVars, openDirs, calls>>

StatFile ==
  /\ At("stat") /\ Fits(Top.dir) /\ kind[Top.dir] \in Regular
  /\ Visit(Top.dir)
  /\ Return("ok")
  /\ UNCHANGED <<fsVars, pathVars, openDirs, skipped>>

StatDir ==
  /\ At("stat") /\ Fits(Top.dir) /\ kind[Top.dir] \notin Regular \cup {"absent"}
  /\ stack' = [stack EXCEPT ![Len(stack)].at = "open"]
  /\ UNCHANGED <<fsVars, pathVars, openDirs, calls, skipped, result>>

\* Mutant: opens with O_NOFOLLOW.
RefusedLink(d) == kind[d] # "dir" \/ d \in Denied \/ openDirs = MaxOpen

\* opendir fails: not a directory (any more), no permission, no descriptor.
Refused(d) == kind[d] \notin Openable \/ d \in Denied \/ openDirs = MaxOpen

\* Mutant: tries again until opendir succeeds.
OpenRetries == At("open") /\ Refused(Top.dir) /\ UNCHANGED vars

OpenFails ==
  /\ At("open") /\ Refused(Top.dir)
  /\ Return("failed")
  /\ skipped' = skipped \cup {Top.dir}
  /\ UNCHANGED <<fsVars, pathVars, openDirs, calls>>

Opened(d) ==
  [dir |-> d, at |-> "read", done |-> {},
   snap |-> [c \in Path |-> IF c \in Children(d) THEN kind[c] ELSE "absent"]]

OpenDir ==
  /\ At("open") /\ ~ Refused(Top.dir)
  /\ openDirs' = openDirs + 1
  /\ stack' = [stack EXCEPT ![Len(stack)] = Opened(Top.dir)]
  /\ UNCHANGED <<fsVars, pathVars, calls, skipped, result>>

\* What readdir may return for a name: what was there at opendir, or is now.
Entry(c) == {Top.snap[c], kind[c]} \ {"absent"}

\* Mutant: the stream does not advance.
Rewound(c) == stack

Taken(c) == [stack EXCEPT ![Len(stack)].done = @ \cup {c}]

ReadEntry(c) ==
  /\ At("read") /\ c \in Children(Top.dir) \ Top.done
  /\ Fits(c)
  /\ \E d_type \in Entry(c) :
       \/ /\ d_type = "reg"
          /\ Visit(c)
          /\ stack' = Taken(c)
       \/ /\ d_type = "dir"
          /\ stack' = Append(Taken(c), Called(c))
          /\ UNCHANGED calls
       \/ /\ d_type \notin {"reg", "dir"}
          /\ stack' = Taken(c)
          /\ UNCHANGED calls
  /\ UNCHANGED <<fsVars, pathVars, openDirs, skipped, result>>

\* strcpy and strcat assemble the path of the entry without a look at its
\* length.
EntryOverruns(c) ==
  /\ At("read") /\ c \in Children(Top.dir) \ Top.done /\ Entry(c) # {}
  /\ ~ Fits(c)
  /\ beyond' = Length(c) + 1 - PathMax
  /\ UNCHANGED <<fsVars, stack, openDirs, calls, skipped, result, base>>

\* Mutant: no closedir.
ReadEndLeaks ==
  /\ At("read")
  /\ \A c \in Children(Top.dir) \ Top.done : Top.snap[c] = "absent" \/ c \in touched
  /\ Return("ok")
  /\ UNCHANGED <<fsVars, pathVars, openDirs, calls, skipped>>

\* readdir returns NULL once every name that stayed in place was returned.
ReadEnd ==
  /\ At("read")
  /\ \A c \in Children(Top.dir) \ Top.done : Top.snap[c] = "absent" \/ c \in touched
  /\ openDirs' = openDirs - 1
  /\ Return("ok")
  /\ UNCHANGED <<fsVars, pathVars, calls, skipped>>

Step ==
  /\ beyond = 0
  /\ \/ StatFails \/ StatFile \/ StatDir \/ OpenFails \/ OpenDir \/ ReadEnd
     \/ \E c \in Path : ReadEntry(c) \/ EntryOverruns(c)

-------------------------------------------------------------------------------
(* Other processes. *)

\* unlink, or a rename that takes the whole subtree away.
Remove(p) ==
  /\ kind[p] # "absent"
  /\ kind' = [q \in Path |-> IF p \in Anc[q] THEN "absent" ELSE kind[q]]
  /\ touched' = touched \cup {q \in Path : p \in Anc[q]}
  /\ UNCHANGED stack

\* A name created again may come a second time from a stream that returned it.
Forget(p) ==
  [k \in 1..Len(stack) |-> [stack[k] EXCEPT !.done = @ \ {p}]]

Create(p) ==
  /\ kind[p] = "absent"
  /\ p # Root => kind[Parent[p]] \in Openable
  /\ \E k \in Kinds \ {"absent"} : kind' = [kind EXCEPT ![p] = k]
  /\ touched' = touched \cup {p}
  /\ stack' = stack \/ stack' = Forget(p)

Interfere ==
  /\ beyond = 0 /\ changes < MaxChanges
  /\ changes' = changes + 1
  /\ \E p \in Path : Remove(p) \/ Create(p)
  /\ UNCHANGED <<kind0, pathVars, openDirs, calls, skipped, result>>

Next == Step \/ Interfere

Spec == Init /\ [][Next]_vars

\* The call keeps executing, whatever the others do.
FairSpec == Spec /\ WF_vars(Step)

-------------------------------------------------------------------------------
Frame ==
  {f \in [dir : Path, at : {"stat", "open", "read"}, snap : [Path -> Kinds], done : SUBSET Path] :
     f.at # "read" => f.done = {}}

TypeOK ==
  /\ kind \in [Path -> Kinds] /\ kind0 \in [Path -> Kinds]
  /\ touched \subseteq Path /\ changes \in 0..MaxChanges
  /\ stack \in Seq(Frame)
  /\ openDirs \in Nat
  /\ calls \in [Path -> Nat]
  /\ skipped \subseteq Path
  /\ result \in {"none", "ok", "failed"}
  /\ base \in Lengths /\ beyond \in Nat

Depth(p) == Cardinality(Anc[p])

(***************************************************************************)
(* The streams that are open are those of the directories above the one    *)
(* being read: none is left open when a sibling is finished, however the   *)
(* activation for it ended, and none when the call returns.                *)
(***************************************************************************)
OpenDirsInv ==
  /\ stack = <<>> => openDirs = 0
  /\ stack # <<>> =>
       openDirs = IF Top.at = "read" THEN Depth(Top.dir) ELSE Depth(Top.dir) - 1

(***************************************************************************)
(* A directory is left out for a reason: it was changed by others, was not *)
(* one to begin with, may not be opened, or lies deeper than there are     *)
(* descriptors; the path of the call itself may also be too long.          *)
(***************************************************************************)
SkipsHaveCause ==
  \A d \in skipped :
    \/ d \in touched \/ d \in Denied \/ kind0[d] \notin Openable \/ Depth(d) > MaxOpen
    \/ d = Root /\ base >= PathMax

(***************************************************************************)
(* The callback gets no path that is too long for the system.  A path that *)
(* does not fit path_tmp is one name too long, never more: the directory   *)
(* it is in was opened, so its own path did fit.  And since each           *)
(* activation's path is two bytes longer than its caller's at least, no    *)
(* more activations nest, each with a buffer of PATH_MAX bytes on the      *)
(* stack, than half the bytes the argument leaves.                         *)
(***************************************************************************)
PathsFit ==
  /\ \A p \in Path : calls[p] > 0 => Length(p) < PathMax
  /\ beyond <= NameMax + 1
  /\ stack # <<>> /\ base < PathMax => base + 2 * (Len(stack) - 1) < PathMax

(***************************************************************************)
(* The callback runs at most once on a path that others leave alone,        *)
(* whatever else they change meanwhile.                                    *)
(***************************************************************************)
AtMostOnce == \A p \in Path : calls[p] > 1 => p \in touched

(***************************************************************************)
(* The callback runs on what was a regular file when the call began, or on *)
(* something others have put there since; only the path of the call itself *)
(* may be a link to a file.                                                *)
(***************************************************************************)
VisitsAreFiles ==
  \A p \in Path : calls[p] > 0 =>
    p \in touched \/ kind0[p] = "reg" \/ (p = Root /\ kind0[p] = "reglink")

(***************************************************************************)
(* The files the callback must run on: regular ones below directories that *)
(* nobody touched and that could all be opened.                            *)
(***************************************************************************)
Owed ==
  {p \in Path :
     /\ kind0[p] \in (IF p = Root THEN Regular ELSE {"reg"})
     /\ Anc[p] \cap (touched \cup skipped) = {}
     /\ \A a \in Anc[p] \ {p, Root} : kind0[a] = "dir"}

(***************************************************************************)
(* recurse_op keeps the promises of TreeVisit: every owed file is visited  *)
(* before the call succeeds, and it fails only if nothing was visited.     *)
(***************************************************************************)
Visited == {p \in Path : calls[p] > 0}

Visits == INSTANCE TreeVisit WITH owed <- Owed, visited <- Visited

VisitSpec == Visits!Spec

\* The traversal ends: the tree is finite and so are the changes to it.  It
\* may also leave what the language defines.
Termination == <>(stack = <<>> \/ beyond > 0)
================================================================================
