------------------------------- MODULE TreeVisit -------------------------------
(***************************************************************************)
(* What a traversal of a directory tree promises its caller.               *)
(*                                                                         *)
(* A call that returns 0 has run the callback on every file that is owed;  *)
(* a call that returns -1 has not run it at all, and one that has returned *)
(* runs it no more.  A file stops being owed when somebody changes it or a *)
(* directory above it, or when a directory above it cannot be opened.      *)
(***************************************************************************)
CONSTANT Path

VARIABLES
  owed,     \* files that must be visited before a return with 0
  visited,  \* the paths the callback has run on
  result    \* "none" while the call runs, then "ok" (0) or "failed" (-1)

vars == <<owed, visited, result>>

Init == owed \in SUBSET Path /\ visited = {} /\ result = "none"

Waive == owed' \subseteq owed /\ UNCHANGED <<visited, result>>

Visit(p) ==
  /\ result = "none"
  /\ visited' = visited \cup {p}
  /\ UNCHANGED <<owed, result>>

Succeed ==
  /\ result = "none" /\ owed \subseteq visited
  /\ result' = "ok"
  /\ UNCHANGED <<owed, visited>>

\* A call on a file is one step: the callback runs and the call returns.
VisitOnly(p) ==
  /\ result = "none" /\ owed \subseteq {p}
  /\ visited' = visited \cup {p}
  /\ result' = "ok"
  /\ UNCHANGED owed

Fail ==
  /\ result = "none" /\ visited = {}
  /\ result' = "failed"
  /\ owed' \subseteq owed
  /\ UNCHANGED visited

Next ==
  \/ Waive \/ Succeed \/ Fail
  \/ \E p \in Path : Visit(p) \/ VisitOnly(p)

Spec == Init /\ [][Next]_vars
================================================================================
