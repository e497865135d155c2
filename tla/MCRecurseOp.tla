------------------------------ MODULE MCRecurseOp ------------------------------
(***************************************************************************)
(* A tree for TLC: below the root r the paths a and b, and x below a; what  *)
(* each of them is, TLC chooses.  The argument is so short that every path  *)
(* fits, or x is too long by a whole name, or the argument itself is.       *)
(***************************************************************************)
EXTENDS RecurseOp, TLC

MCPath == {"r", "a", "x", "b"}
MCParent == ("a" :> "r") @@ ("x" :> "a") @@ ("b" :> "r")
MCAnc == ("r" :> {"r"}) @@ ("a" :> {"a", "r"}) @@ ("x" :> {"x", "a", "r"}) @@ ("b" :> {"b", "r"})
MCSuffix == ("r" :> 0) @@ ("a" :> 2) @@ ("x" :> 5) @@ ("b" :> 2)
================================================================================
