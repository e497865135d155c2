----------------------------- MODULE ListSnapshot ------------------------------
(***************************************************************************)
(* Looking up a name in a list the system keeps while others change it:    *)
(* getpidbyname (localUtil_xnu.c), GetModuleBaseAddress and isDriverLoaded *)
(* (localUtil_windows.c).                                                  *)
(*                                                                         *)
(* An element of the list has an id, which is what a caller wants: a       *)
(* process its number, a module or a driver the address it is loaded at.   *)
(* New elements come last.  An id may be used again once its element is    *)
(* gone.  The first module is the program itself and stays.                *)
(*                                                                         *)
(* Each system call is a step and may fail.  Calls for a module take the   *)
(* null handle for the program itself.                                     *)
(***************************************************************************)
EXTENDS Naturals, Sequences

CONSTANTS
  Id, Name,
  Null,         \* the answer when there is none; the null handle
  ARRAY_SIZE,   \* the elements isDriverLoaded has room for
  Slop,         \* the most that sysctl adds to the size it estimates
  MaxLen,       \* bound: the length of the list
  MaxChanges    \* bound: the changes others make during the call

VARIABLES
  fn,        \* the function called
  target,    \* the name it is called with
  system,    \* the list as it is now
  changes,   \* how often it has changed
  pc,
  list,      \* the ids fetched
  names,     \* and, for processes, their names
  count,     \* the number of elements to look at: moduleCount and the like
  i,
  curName,   \* at first what the stack happens to hold
  held,      \* what is to be released
  answer,
  failed,    \* some system call failed, or the list did not fit
  stable,    \* the ids that have had the name since the call began
  ever       \* the ids that have had it at some time since

callVars == <<list, names, count, i, curName, held, answer, failed>>
systemVars == <<system, changes, stable, ever>>
vars == <<fn, target, pc, callVars, systemVars>>

Element == [id : Id, name : Name]

Ids(s) == {s[k].id : k \in DOMAIN s}

Lists == {s \in UNION {[1..n -> Element] : n \in 0..MaxLen} : \A j, k \in DOMAIN s : s[j].id = s[k].id => j = k}

Holders(s) == {s[k].id : k \in {j \in DOMAIN s : s[j].name = target}}

NameOf(id) == (CHOOSE e \in {system[k] : k \in DOMAIN system} : e.id = id).name

ASSUME SizesAssumption ==
  ARRAY_SIZE \in Nat /\ Slop \in Nat /\ MaxLen \in Nat /\ MaxChanges \in Nat /\ Null \notin Id

-------------------------------------------------------------------------------
Init ==
  /\ fn \in {"getpidbyname", "GetModuleBaseAddress", "isDriverLoaded"}
  /\ target \in Name
  /\ system \in Lists /\ (fn = "GetModuleBaseAddress" => system # <<>>)
  /\ changes = 0
  /\ pc = CASE fn = "getpidbyname" -> "size" [] fn = "GetModuleBaseAddress" -> "open" [] OTHER -> "enum"
  /\ list = <<>> /\ names = <<>> /\ count = 0 /\ i = 1
  /\ curName \in Name \cup {Null} /\ (fn # "GetModuleBaseAddress" => curName = Null)
  /\ held = {} /\ answer = Null /\ failed = FALSE
  /\ stable = Holders(system) /\ ever = Holders(system)

Fails(label) ==
  /\ failed' = TRUE
  /\ pc' = label
  /\ UNCHANGED <<list, names, count, i, curName, held, answer>>

-------------------------------------------------------------------------------
(***************************************************************************)
(* getpidbyname.                                                           *)
(***************************************************************************)

\* sysctl with no buffer: the size of the list, and some more.
PidSize ==
  /\ fn = "getpidbyname" /\ pc = "size"
  /\ \/ /\ \E slop \in 0..Slop : count' = Len(system) + slop
        /\ pc' = "alloc"
        /\ UNCHANGED <<list, names, i, curName, held, answer, failed>>
     \/ Fails("fail")

Alloc ==
  /\ fn \in {"getpidbyname", "GetModuleBaseAddress"} /\ pc = "alloc"
  /\ \/ /\ held' = held \cup {"buffer"}
        /\ pc' = "fetch"
        /\ UNCHANGED <<list, names, count, i, curName, answer, failed>>
     \/ Fails("fail")

\* Mutant: a return in place of the jump to the label that frees the buffer.
PidFetchReturns ==
  /\ fn = "getpidbyname" /\ pc = "fetch"
  /\ \/ /\ Len(system) <= count
        /\ list' = [k \in DOMAIN system |-> system[k].id]
        /\ names' = [k \in DOMAIN system |-> system[k].name]
        /\ count' = Len(system)
        /\ pc' = "look"
        /\ UNCHANGED <<i, curName, held, answer, failed>>
     \/ Fails("done")

\* sysctl fails when the list has outgrown the buffer, and says how much it
\* has stored when it has not.
PidFetch ==
  /\ fn = "getpidbyname" /\ pc = "fetch"
  /\ \/ /\ Len(system) <= count
        /\ list' = [k \in DOMAIN system |-> system[k].id]
        /\ names' = [k \in DOMAIN system |-> system[k].name]
        /\ count' = Len(system)
        /\ pc' = "look"
        /\ UNCHANGED <<i, curName, held, answer, failed>>
     \/ Fails("fail")

PidLook ==
  /\ fn = "getpidbyname" /\ pc = "look" /\ i <= count
  /\ \/ /\ names[i] = target
        /\ answer' = list[i] /\ pc' = "fail"
        /\ UNCHANGED i
     \/ /\ names[i] # target
        /\ i' = i + 1
        /\ UNCHANGED <<answer, pc>>
  /\ UNCHANGED <<list, names, count, curName, held, failed>>

-------------------------------------------------------------------------------
(***************************************************************************)
(* GetModuleBaseAddress.                                                   *)
(***************************************************************************)
ModOpen ==
  /\ pc = "open"
  /\ \/ /\ held' = held \cup {"handle"}
        /\ pc' = "modsize"
        /\ UNCHANGED <<list, names, count, i, curName, answer, failed>>
     \/ Fails("fail")

ModSize ==
  /\ pc = "modsize"
  /\ \/ /\ count' = Len(system)
        /\ pc' = "alloc"
        /\ UNCHANGED <<list, names, i, curName, held, answer, failed>>
     \/ Fails("fail")

\* The array is zeroed when it is allocated, and count stays what it was.
ModFetch ==
  /\ fn = "GetModuleBaseAddress" /\ pc = "fetch"
  /\ \/ /\ list' = [k \in 1..count |-> IF k <= Len(system) THEN system[k].id ELSE Null]
        /\ pc' = "look"
        /\ UNCHANGED <<names, count, i, curName, held, answer, failed>>
     \/ Fails("fail")

Handle(h) == IF h = Null THEN system[1].id ELSE h

\* GetModuleBaseName fails for a module that is gone, and leaves the name.
ModLook ==
  /\ fn = "GetModuleBaseAddress" /\ pc = "look" /\ i <= count
  /\ \/ LET id == Handle(list[i])
        IN  /\ curName' = IF id \in Ids(system) THEN NameOf(id) ELSE curName
            /\ UNCHANGED failed
     \/ failed' = TRUE /\ UNCHANGED curName
  /\ \/ curName' = target /\ pc' = "info" /\ UNCHANGED i
     \/ curName' # target /\ i' = i + 1 /\ UNCHANGED pc
  /\ UNCHANGED <<list, names, count, held, answer>>

\* modCurrent is zero until GetModuleInformation has filled it in.
ModInfo ==
  /\ pc = "info"
  /\ \/ /\ Handle(list[i]) \in Ids(system)
        /\ answer' = Handle(list[i])
        /\ pc' = "fail"
        /\ UNCHANGED <<list, names, count, i, curName, held, failed>>
     \/ Handle(list[i]) \notin Ids(system) /\ Fails("fail")

-------------------------------------------------------------------------------
(***************************************************************************)
(* isDriverLoaded.                                                         *)
(***************************************************************************)

\* When EnumDeviceDrivers fails the code goes on with what happens to be in
\* its array and in cbNeeded.
DrvEnum ==
  /\ pc = "enum"
  /\ \/ /\ Len(system) < ARRAY_SIZE
        /\ list' = [k \in 1..Len(system) |-> system[k].id]
        /\ count' = Len(system)
        /\ pc' = "look"
        /\ UNCHANGED <<names, i, curName, held, answer, failed>>
     \/ Len(system) >= ARRAY_SIZE /\ Fails("fail")
     \/ /\ failed' = TRUE
        /\ list' \in [1..ARRAY_SIZE -> Id \cup {Null}]
        /\ count' \in 0..(ARRAY_SIZE + 1)
        /\ pc' = "look"
        /\ UNCHANGED <<names, i, curName, held, answer>>

\* Mutant: the loop ends at a driver without a name.
DrvLookBreaks ==
  /\ fn = "isDriverLoaded" /\ pc = "look" /\ i <= count /\ i <= ARRAY_SIZE
  /\ \/ /\ list[i] \in Holders(system)
        /\ answer' = list[i] /\ pc' = "fail"
        /\ UNCHANGED <<i, failed>>
     \/ /\ list[i] \in Ids(system) \ Holders(system)
        /\ i' = i + 1
        /\ UNCHANGED <<answer, pc, failed>>
     \/ list[i] \notin Ids(system) /\ pc' = "fail" /\ UNCHANGED <<i, answer, failed>>
  /\ UNCHANGED <<list, names, count, curName, held>>

\* Mutant: i has been advanced when the answer is taken.
DrvLookNext ==
  /\ fn = "isDriverLoaded" /\ pc = "look" /\ i <= count /\ i <= ARRAY_SIZE
  /\ \/ /\ list[i] \in Holders(system)
        /\ answer' = list[IF i < count THEN i + 1 ELSE i] /\ pc' = "fail"
        /\ UNCHANGED <<i, failed>>
     \/ /\ list[i] \notin Holders(system)
        /\ i' = i + 1
        /\ UNCHANGED <<answer, pc, failed>>
  /\ UNCHANGED <<list, names, count, curName, held>>

DrvLook ==
  /\ fn = "isDriverLoaded" /\ pc = "look" /\ i <= count /\ i <= ARRAY_SIZE
  /\ \/ /\ list[i] \in Holders(system)
        /\ answer' = list[i] /\ pc' = "fail"
        /\ UNCHANGED <<i, failed>>
     \/ /\ i' = i + 1
        /\ \/ list[i] \notin Holders(system) /\ UNCHANGED failed
           \/ failed' = TRUE
        /\ UNCHANGED <<answer, pc>>
  /\ UNCHANGED <<list, names, count, curName, held>>

\* What lies past the array is not defined.
DrvPastEnd ==
  /\ fn = "isDriverLoaded" /\ pc = "look" /\ i <= count /\ i > ARRAY_SIZE
  /\ pc' = "undefined"
  /\ UNCHANGED callVars

-------------------------------------------------------------------------------
NotThere ==
  /\ pc = "look" /\ i > count
  /\ pc' = "fail"
  /\ UNCHANGED callVars

Release ==
  /\ pc = "fail"
  /\ held' = {}
  /\ pc' = "done"
  /\ UNCHANGED <<list, names, count, i, curName, answer, failed>>

Step ==
  /\ \/ PidSize \/ PidFetch \/ PidLook
     \/ ModOpen \/ ModSize \/ ModFetch \/ ModLook \/ ModInfo
     \/ DrvEnum \/ DrvLook \/ DrvPastEnd
     \/ Alloc \/ NotThere \/ Release
  /\ UNCHANGED <<fn, target, systemVars>>

(***************************************************************************)
(* The rest of the system.                                                 *)
(***************************************************************************)
Gone(k) == SubSeq(system, 1, k - 1) \o SubSeq(system, k + 1, Len(system))

Leave == \E k \in DOMAIN system : (fn = "GetModuleBaseAddress" => k # 1) /\ system' = Gone(k)

Enter ==
  /\ Len(system) < MaxLen
  /\ \E e \in Element : e.id \notin Ids(system) /\ system' = Append(system, e)

Change ==
  /\ pc \notin {"done", "undefined"} /\ changes < MaxChanges
  /\ Leave \/ Enter
  /\ changes' = changes + 1
  /\ stable' = stable \cap Holders(system')
  /\ ever' = ever \cup Holders(system')
  /\ UNCHANGED <<fn, target, pc, callVars>>

Next == Step \/ Change

Spec == Init /\ [][Next]_vars

-------------------------------------------------------------------------------
(***************************************************************************)
(* What is answered had the name at some time while the call ran: in       *)
(* GetModuleBaseAddress neither the zeroed end of the array, nor a name    *)
(* left from the module before, nor one unloaded between two calls leads   *)
(* to the address of another module.  Only the name the array happens to   *)
(* hold at first may, if the first query of a name fails.                  *)
(***************************************************************************)
AnswerWasThere ==
  answer # Null =>
    \/ answer \in ever
    \/ fn = "GetModuleBaseAddress" /\ failed /\ i = 1

(***************************************************************************)
(* An element that is there all the time is found, or one of the same name *)
(* is, unless a system call failed or the list did not fit.  Elements that *)
(* come and go between the call that asks for the size, the call that      *)
(* fetches the list and the calls that ask for names make no difference.   *)
(* They do not lead past the end of an array either: only a failed         *)
(* EnumDeviceDrivers does.                                                 *)
(***************************************************************************)
StableFound ==
  /\ pc = "done" /\ answer = Null => failed \/ stable = {}
  /\ pc = "undefined" => failed

\* The call frees its buffer and closes its handle, whichever way it ends.
Released == pc = "done" => held = {}
================================================================================
