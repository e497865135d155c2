--------------------------------- MODULE Pairs ---------------------------------
(***************************************************************************)
(* vector_pair_ind, vector_pair_key_find and vector_pair_sort              *)
(* (localUtil_cpp.h) on a vector of pairs that its owner adds to between   *)
(* the calls.  std::sort keeps no order among pairs the comparison has     *)
(* for equal.                                                              *)
(***************************************************************************)
EXTENDS Integers, Sequences

CONSTANTS
  Key, Value, \* Key is ordered, 0 may be a value
  MaxPairs    \* bound: pairs in the vector

VARIABLES
  vector,
  sought, i, pc, \* of the search: its key, and the position it is at
  held,          \* what the last search answered: the key, index_out and the value
  sorted         \* history: the vector was sorted since

vars == <<vector, sought, i, pc, held, sorted>>

KeysAssumption == Key \subseteq Int /\ Value \subseteq Int /\ MaxPairs \in Nat

None == [key |-> 0, index |-> -1, value |-> 0]

Init == vector = <<>> /\ sought = 0 /\ i = 0 /\ pc = "idle" /\ held = None /\ sorted = FALSE

\* The owner of the vector.
PushBack(k, v) ==
  /\ pc = "idle" /\ Len(vector) < MaxPairs
  /\ vector' = Append(vector, <<k, v>>)
  /\ UNCHANGED <<sought, i, pc, held, sorted>>

vector_pair_key_find(k) ==
  /\ pc = "idle"
  /\ sought' = k /\ i' = 0 /\ pc' = "search"
  /\ UNCHANGED <<vector, held, sorted>>

\* The pair the iterator is at; positions count from 0.
Pair == vector[i + 1]

Differ ==
  /\ pc = "search" /\ i < Len(vector) /\ Pair[1] # sought
  /\ i' = i + 1
  /\ UNCHANGED <<vector, sought, pc, held, sorted>>

Answer(newInd, value) ==
  /\ held' = [key |-> sought, index |-> newInd, value |-> value]
  /\ sorted' = FALSE /\ pc' = "idle"
  /\ UNCHANGED <<vector, sought, i>>

Same == pc = "search" /\ i < Len(vector) /\ Pair[1] = sought /\ Answer(i, Pair[2])

NotThere == pc = "search" /\ i = Len(vector) /\ Answer(-1, 0)

\* Mutant: sorts the keys and leaves the values where they are.
KeysOnly(v, p) == [n \in 1..Len(v) |-> <<v[p[n]][1], v[n][2]>>]

Arranged(v, p) == [n \in 1..Len(v) |-> v[p[n]]]

Positions == 1..Len(vector)

Permutation == {p \in [Positions -> Positions] : \A n \in Positions : \E m \in Positions : p[m] = n}

\* Any arrangement in the order of the keys.
vector_pair_sort ==
  /\ pc = "idle"
  /\ \E p \in Permutation :
       /\ \A m, n \in Positions : m < n => vector[p[m]][1] <= vector[p[n]][1]
       /\ vector' = Arranged(vector, p)
  /\ sorted' = TRUE
  /\ UNCHANGED <<sought, i, pc, held>>

Next ==
  \/ \E k \in Key, v \in Value : PushBack(k, v)
  \/ \E k \in Key : vector_pair_key_find(k)
  \/ Differ \/ Same \/ NotThere
  \/ vector_pair_sort

Spec == Init /\ [][Next]_vars

-------------------------------------------------------------------------------
Values(k) == {vector[n][2] : n \in {m \in Positions : vector[m][1] = k}}

(***************************************************************************)
(* A value found stays a value of its key, and the index with it until the *)
(* vector is sorted; what is found is the first pair with the key.         *)
(***************************************************************************)
FindHolds ==
  held.index # -1 =>
    /\ held.value \in Values(held.key)
    /\ ~ sorted => /\ vector[held.index + 1] = <<held.key, held.value>>
                   /\ \A n \in 1..held.index : vector[n][1] # held.key
================================================================================
