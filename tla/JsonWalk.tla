-------------------------------- MODULE JsonWalk -------------------------------
(***************************************************************************)
(* json_parse and json_parse_array (jsonUtil.c): print every value of a    *)
(* JSON document, one action per entry of an object or element of an       *)
(* array.                                                                  *)
(*                                                                         *)
(* A document d is a tree of nodes 1..Len(d.type) numbered in the order of *)
(* its text; node 1 is the object json_parse is called with.               *)
(*   d.type[n]     "scalar" (boolean, double, int, string), "null",        *)
(*                 "object" or "array"                                     *)
(*   d.parent[n]   the object or array n is in                             *)
(*   d.key[n]      its key, when that is an object                         *)
(* json-c has no node for the value null: looking it up answers NULL.      *)
(* Going through the entries of what is no object, or asking for the       *)
(* length of what is no array, is undefined (it follows a null pointer or  *)
(* fails an assertion of json-c).                                          *)
(***************************************************************************)
EXTENDS Integers, Sequences, SequencesExt

CONSTANTS
  Docs,  \* the documents considered
  NULL

VARIABLES
  d,
  stack,    \* the activations: of which function, its jobj, and the entry
            \* or element it is at, NULL when there is none left
  printed,  \* the values printed
  pc

vars == <<d, stack, printed, pc>>

Nodes == 1..Len(d.type)

Kids(n) == {k \in Nodes \ {1} : d.parent[k] = n}

Is(n, type) == n # NULL /\ d.type[n] = type

Lowest(S) == IF S = {} THEN NULL ELSE CHOOSE k \in S : \A j \in S : k <= j

\* Mutant: a loop from 1.
SecondKid(n) == Lowest(Kids(n) \ {Lowest(Kids(n))})

FirstKid(n) == Lowest(Kids(n))

NextKid(k) == Lowest({j \in Kids(d.parent[k]) : j > k})

\* json_object_object_get
Get(o, key) ==
  IF Is(o, "object") THEN Lowest({k \in Kids(o) : d.key[k] = key /\ d.type[k] # "null"}) ELSE NULL

Called(fn, n) == [fn |-> fn, jobj |-> n, cur |-> FirstKid(n)]

\* Between a node and its parent there are only nodes below that parent; the
\* keys of an object differ.
Document(x) ==
  LET Below == 2..Len(x.type)
  IN  /\ x.type \in Seq({"scalar", "null", "object", "array"}) /\ x.type # <<>> /\ x.type[1] = "object"
      /\ \A n \in Below :
           /\ x.parent[n] \in 1..(n - 1) /\ x.type[x.parent[n]] \in {"object", "array"}
           /\ \A j \in (x.parent[n] + 1)..(n - 1) : x.parent[j] >= x.parent[n]
      /\ \A j, n \in Below :
           x.parent[j] = x.parent[n] /\ x.type[x.parent[n]] = "object" /\ x.key[j] = x.key[n] => j = n

DocsAssumption == NULL \notin Nat /\ \A x \in Docs : Document(x)

-------------------------------------------------------------------------------
Init ==
  /\ d \in Docs
  /\ stack = <<Called("json_parse", 1)>>
  /\ printed = <<>>
  /\ pc = "run"

Top == Last(stack)

At(type) == pc = "run" /\ Is(Top.cur, type)

\* The rest of the loop body: the activation goes on at the next entry, with
\* this jobj, once those it calls have returned.
Continue(jobj, calls) ==
  stack' = Front(stack) \o <<[Top EXCEPT !.jobj = jobj, !.cur = NextKid(@)]>> \o calls

Undefined == pc' = "undefined" /\ UNCHANGED <<d, stack, printed>>

\* print_json_value
Scalar ==
  /\ At("scalar")
  /\ printed' = Append(printed, Top.cur)
  /\ Continue(Top.jobj, <<>>)
  /\ UNCHANGED <<d, pc>>

NullValue ==
  /\ At("null")
  /\ Continue(Top.jobj, <<>>)
  /\ UNCHANGED <<d, printed, pc>>

\* In an object the value is looked up again, in jobj, by its key.
Value == IF Top.fn = "json_parse" THEN Get(Top.jobj, d.key[Top.cur]) ELSE Top.cur

\* json_parse assigns the nested object to jobj, the object it goes through.
Object ==
  /\ At("object")
  /\ \/ /\ Is(Value, "object")
        /\ Continue(IF Top.fn = "json_parse" THEN Value ELSE Top.jobj, <<Called("json_parse", Value)>>)
        /\ UNCHANGED <<d, printed, pc>>
     \/ ~ Is(Value, "object") /\ Undefined

Array ==
  /\ At("array")
  /\ \/ /\ Is(Value, "array")
        /\ Continue(Top.jobj, <<Called("json_parse_array", Value)>>)
        /\ UNCHANGED <<d, printed, pc>>
     \/ ~ Is(Value, "array") /\ Undefined

Return ==
  /\ pc = "run" /\ Top.cur = NULL
  /\ stack' = Front(stack)
  /\ pc' = IF Len(stack) = 1 THEN "done" ELSE "run"
  /\ UNCHANGED <<d, printed>>

Next == Scalar \/ NullValue \/ Object \/ Array \/ Return

Spec == Init /\ [][Next]_vars

-------------------------------------------------------------------------------
\* After an object in an object there is another value that is looked up.
Misled ==
  \E k, j \in Nodes \ {1} :
    /\ k < j /\ d.parent[j] = d.parent[k] /\ d.type[d.parent[k]] = "object"
    /\ d.type[k] = "object" /\ d.type[j] \in {"object", "array"}

\* Every scalar, in the order of the text.
Complete ==
  /\ {printed[m] : m \in DOMAIN printed} = {n \in Nodes : d.type[n] = "scalar"}
  /\ \A m, n \in DOMAIN printed : m < n => printed[m] < printed[n]

\* In the outermost object an object or array follows an object, with a key
\* that nothing else has.
Estranged ==
  \E k, j \in Kids(1) :
    /\ k < j /\ d.type[k] = "object" /\ d.type[j] \in {"object", "array"}
    /\ \A n \in Nodes \ {1, j} : d.type[d.parent[n]] = "object" => d.key[n] # d.key[j]

(***************************************************************************)
(* A document in which no object or array follows an object in the same    *)
(* object is printed whole, in its order, although jobj changes while its  *)
(* entries are gone through.  Arrays and what is in them are no obstacle.  *)
(* One in whose outermost object such a value has a key of its own is      *)
(* never got through: it is looked up where it is not.  jsonUtil.c         *)
(* promises "Passing through every array element", see PROJECT.json        *)
(* findings.                                                               *)
(***************************************************************************)
CompleteUnlessMisled ==
  /\ ~ Misled => pc # "undefined" /\ (pc = "done" => Complete)
  /\ Estranged => pc # "done"
================================================================================
