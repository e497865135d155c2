------------------------------- MODULE PeImports -------------------------------
(***************************************************************************)
(* ridlsym (localUtil_windows.c): looks up what a PE image imports from a  *)
(* library, one action per import descriptor and per thunk.                *)
(*                                                                         *)
(* An image is a record of                                                 *)
(*   dos, nt  the two signatures are there                                 *)
(*   size     the Size of the import directory, in descriptors             *)
(*   imports  the descriptors before the terminating one: lib, the name    *)
(*            of the library as it is spelled there, original, whether     *)
(*            there is an OriginalFirstThunk, and the thunks it leads to   *)
(* A thunk is the name or the ordinal of a symbol.  The loader goes by the *)
(* terminating descriptor, not by Size.  Each thunk of OriginalFirstThunk  *)
(* has a counterpart in FirstThunk, which holds the address of the symbol  *)
(* once the image is loaded.                                               *)
(***************************************************************************)
EXTENDS Integers, Sequences

CONSTANTS
  Images,
  Library,        \* spellings of the names of libraries
  Symbol, Ordinal \* names and ordinals of symbols

VARIABLES
  img, libName, symName,  \* the arguments
  pc,
  i,        \* the descriptor looked at, from 1
  ogT,      \* the thunk looked at, from 1
  result    \* the descriptor, the thunk and the table read, or NotFound

args == <<img, libName, symName>>
vars == <<args, pc, i, ogT, result>>

NotFound == <<0, 0, "none">>

Descriptor == [lib : Library, original : BOOLEAN, thunks : Seq(Symbol \cup Ordinal)]

Image(x) == x.dos \in BOOLEAN /\ x.nt \in BOOLEAN /\ x.size \in Nat /\ x.imports \in Seq(Descriptor)

ImagesAssumption == \A x \in Images : Image(x)
NamesAssumption == Symbol \cap Ordinal = {}

-------------------------------------------------------------------------------
Init ==
  /\ img \in Images /\ libName \in Library /\ symName \in Symbol \cup Ordinal
  /\ pc = "headers" /\ i = 1 /\ ogT = 1
  /\ result = NotFound

Headers ==
  /\ pc = "headers"
  /\ pc' = IF img.dos /\ img.nt THEN "descriptor" ELSE "done"
  /\ UNCHANGED <<args, i, ogT, result>>

\* Mutants: the terminating descriptor counted as one more, or not left out.
AllButTwo == img.size - 2
AllOfSize == img.size

num_of_imports == img.size - 1

At(place) == pc = place /\ (place = "descriptor" => i <= num_of_imports)

Skip ==
  /\ pc' = "descriptor" /\ i' = i + 1
  /\ UNCHANGED <<args, ogT, result>>

\* The terminating descriptor has no name: what is at the base of the image.
Matches == i <= Len(img.imports) /\ img.imports[i].lib = libName

OtherLibrary ==
  /\ At("descriptor") /\ i <= Len(img.imports) + 1 /\ ~ Matches
  /\ Skip

\* Without OriginalFirstThunk the headers are taken for thunks.
Enter ==
  /\ At("descriptor") /\ Matches
  /\ pc' = IF img.imports[i].original THEN "thunk" ELSE "undefined"
  /\ ogT' = 1
  /\ UNCHANGED <<args, i, result>>

\* Whatever follows the terminating descriptor is taken for descriptors.
PastTheEnd ==
  /\ At("descriptor") /\ i > Len(img.imports) + 1
  /\ pc' = "undefined"
  /\ UNCHANGED <<args, i, ogT, result>>

Thunks == img.imports[i].thunks

AtThunk(kind) == At("thunk") /\ ogT <= Len(Thunks) /\ Thunks[ogT] \in kind

\* The thunk has the kind of the symbol sought and is, or is not, that one.
\* The name of a symbol is a pointer: no ordinal is equal to it.
Look ==
  /\ \/ AtThunk(Ordinal)
     \/ AtThunk(Symbol) /\ symName \in Symbol
  /\ \/ /\ Thunks[ogT] = symName
        /\ result' = <<i, ogT, "OriginalFirstThunk">> /\ pc' = "done"
        /\ UNCHANGED <<args, i, ogT>>
     \/ /\ Thunks[ogT] # symName
        /\ ogT' = ogT + 1
        /\ UNCHANGED <<args, pc, i, result>>

\* An ordinal is taken for a pointer to a name.
Deref ==
  /\ AtThunk(Symbol) /\ symName \in Ordinal
  /\ pc' = "undefined"
  /\ UNCHANGED <<args, i, ogT, result>>

LastThunk ==
  /\ At("thunk") /\ ogT > Len(Thunks)
  /\ Skip

LastDescriptor ==
  /\ pc = "descriptor" /\ ~ At("descriptor")
  /\ pc' = "done"
  /\ UNCHANGED <<args, i, ogT, result>>

Next ==
  \/ Headers \/ OtherLibrary \/ Enter \/ PastTheEnd \/ Look \/ Deref \/ LastThunk \/ LastDescriptor

Spec == Init /\ [][Next]_vars

-------------------------------------------------------------------------------
\* Where the image imports what is sought, as the loader sees it.
Wanted ==
  UNION {{<<d, k>> : k \in {n \in 1..Len(img.imports[d].thunks) : img.imports[d].thunks[n] = symName}} :
           d \in {n \in 1..Len(img.imports) : img.imports[n].lib = libName}}

Before(v, w) == v[1] < w[1] \/ (v[1] = w[1] /\ v[2] < w[2])

(***************************************************************************)
(* The walk leaves the tables only where the image has no                  *)
(* OriginalFirstThunk, or a Size that goes further than the terminating    *)
(* descriptor, or where an ordinal is sought in a library that is imported *)
(* from by name.                                                           *)
(***************************************************************************)
UndefinedHasCause ==
  pc = "undefined" =>
    \/ img.size > Len(img.imports) + 2
    \/ \E d \in 1..Len(img.imports) :
         /\ img.imports[d].lib = libName
         /\ \/ ~ img.imports[d].original
            \/ symName \in Ordinal /\ \E k \in 1..Len(img.imports[d].thunks) : img.imports[d].thunks[k] \in Symbol

(***************************************************************************)
(* What a signed image imports is found, at the first descriptor and thunk *)
(* that has it, although libraries may come twice and names and ordinals   *)
(* mix; it is missed only where Size leaves out the last descriptors.  The *)
(* answer is always the thunk with the name, never its counterpart with    *)
(* the address: localUtil_windows.c promises "the address of something     *)
(* that it imports", see PROJECT.json findings.                            *)
(***************************************************************************)
FirstImport ==
  pc = "done" /\ img.dos /\ img.nt =>
    LET reach == {w \in Wanted : w[1] <= num_of_imports}
    IN  \/ \E w \in reach : result = Append(w, "OriginalFirstThunk") /\ \A v \in reach : ~ Before(v, w)
        \/ result = NotFound /\ reach = {} /\ (Wanted = {} \/ img.size <= Len(img.imports))
================================================================================
