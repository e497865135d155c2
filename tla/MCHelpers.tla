------------------------------- MODULE MCHelpers -------------------------------
(***************************************************************************)
(* One use of a helper that needs nothing but its arguments: the region    *)
(* macros (Regions), the string helpers (Strings), the hashes (Hashes),    *)
(* the dumps (Dumps), the JSON walk (JsonWalk), or a vector of pairs       *)
(* (Pairs), on small inputs.  The parts that are not used stay as they are.*)
(***************************************************************************)
EXTENDS Helpers

CONSTANTS
  JsonKey,
  MaxNodes          \* bound: nodes of a JSON document

VARIABLE used

stringVars == <<helper, mem, charSigned, s1, s2, maxlen, textPc, distance, block, textResult>>
hashVars == <<name, at, elf, gnu>>
dumpVars == <<fn, len, format, prefixed, windows, pointer, dumpPc, offset, out>>
jsonVars == <<d, stack, printed, jsonPc>>
pairVars == <<vector, sought, position, pairPc, held, sorted>>

-------------------------------------------------------------------------------
(* Names for the hashes: some link editors have hashed, and all of up to   *)
(* eight of two bytes, long enough for the four highest bits to come back. *)

\* the empty name, printf, exit, syscall, freelocal, pthread_cond_wait,
\* and seven bytes whose sum overflows
MCKnown ==
  {
   [name |-> <<>>,
    elf |-> [hi |-> 0, lo |-> 0], gnu |-> [hi |-> 0, lo |-> 5381]],
   [name |-> <<112, 114, 105, 110, 116, 102>>,
    elf |-> [hi |-> 1913, lo |-> 1446], gnu |-> [hi |-> 5483, lo |-> 11192]],
   [name |-> <<101, 120, 105, 116>>,
    elf |-> [hi |-> 6, lo |-> 52996], gnu |-> [hi |-> 31894, lo |-> 32319]],
   [name |-> <<115, 121, 115, 99, 97, 108, 108>>,
    elf |-> [hi |-> 2825, lo |-> 39004], gnu |-> [hi |-> 47810, lo |-> 4768]],
   [name |-> <<102, 114, 101, 101, 108, 111, 99, 97, 108>>,
    elf |-> [hi |-> 3011, lo |-> 13564], gnu |-> [hi |-> 58166, lo |-> 17266]],
   [name |-> <<112, 116, 104, 114, 101, 97, 100, 95, 99, 111, 110, 100, 95, 119, 97, 105, 116>>,
    elf |-> [hi |-> 4009, lo |-> 8676], gnu |-> [hi |-> 60296, lo |-> 29380]],
   [name |-> <<255, 15, 15, 15, 15, 15, 18>>,
    elf |-> [hi |-> 0, lo |-> 2], gnu |-> [hi |-> 54551, lo |-> 28193]]
  }

MCNames == {x.name : x \in MCKnown} \cup UNION {[1..n -> {15, 255}] : n \in 1..8}

-------------------------------------------------------------------------------
(* Every JSON document of up to MaxNodes nodes, up to the names of the     *)
(* keys: the first entry of the root has always the same one.              *)

\* Nodes are numbered in the order of the text: between a node and its parent
\* there are only nodes below that parent.
Trees(n) ==
  {p \in [1..n -> 0..(n - 1)] :
     /\ p[1] = 0
     /\ \A k \in 2..n : p[k] \in 1..(k - 1) /\ \A j \in (p[k] + 1)..(k - 1) : p[j] >= p[k]}

Typings(p) ==
  {t \in [DOMAIN p -> {"scalar", "null", "object", "array"}] :
     t[1] = "object" /\ \A k \in DOMAIN p \ {1} : t[p[k]] \in {"object", "array"}}

\* The keys of an object differ; elements of arrays all have the same.
Keyings(p, t) ==
  LET any == CHOOSE x \in JsonKey : TRUE
      named == {k \in DOMAIN p \ {1} : t[p[k]] = "object"}
  IN  {[k \in DOMAIN p |-> IF k \in named THEN f[k] ELSE any] :
         f \in {g \in [named -> JsonKey] :
                  \A j, k \in named : (j = 2 => g[j] = any) /\ (p[j] = p[k] /\ g[j] = g[k] => j = k)}}

MCDocs ==
  UNION {UNION {{[parent |-> p, type |-> t, key |-> f] : f \in Keyings(p, t)} : t \in Typings(p)} :
           p \in UNION {Trees(n) : n \in 1..MaxNodes}}

-------------------------------------------------------------------------------
RegionsIdle ==
  /\ reg1 = 0 /\ reg1sz = 0 /\ reg2 = 0 /\ reg2sz = 0 /\ addr = 0
  /\ overlap = "unknown" /\ contained = "unknown"

StringsIdle ==
  /\ helper = "rfindnn" /\ mem = <<>> /\ charSigned = FALSE /\ s1 = 0 /\ s2 = 0 /\ maxlen = 0
  /\ textPc = "idle" /\ distance = 0 /\ block = 0 /\ textResult = 0

HashIdle == name = <<>> /\ at = 1 /\ elf = Hash!Word(0, 0) /\ gnu = Hash!Word(0, 5381)

DumpIdle ==
  /\ fn = "hexdump" /\ len = 0 /\ format = "b" /\ prefixed = FALSE /\ windows = FALSE /\ pointer = 8
  /\ dumpPc = "idle" /\ offset = 0 /\ out = <<>>

JsonIdle == d = [type |-> <<>>] /\ stack = <<>> /\ printed = <<>> /\ jsonPc = "idle"

MCInit ==
  \/ used = "regions" /\ Init /\ StringsIdle /\ HashIdle /\ DumpIdle /\ JsonIdle /\ PairVector!Init
  \/ used = "strings" /\ RegionsIdle /\ Text!Init /\ HashIdle /\ DumpIdle /\ JsonIdle /\ PairVector!Init
  \/ used = "hash" /\ RegionsIdle /\ StringsIdle /\ Hash!Init /\ DumpIdle /\ JsonIdle /\ PairVector!Init
  \/ used = "dump" /\ RegionsIdle /\ StringsIdle /\ HashIdle /\ Dumping!Init /\ JsonIdle /\ PairVector!Init
  \/ used = "json" /\ RegionsIdle /\ StringsIdle /\ HashIdle /\ DumpIdle /\ Json!Init /\ PairVector!Init
  \/ used = "pairs" /\ RegionsIdle /\ StringsIdle /\ HashIdle /\ DumpIdle /\ JsonIdle /\ PairVector!Init

MCNext ==
  /\ UNCHANGED used
  /\ \/ used = "regions" /\ Next /\ UNCHANGED <<stringVars, hashVars, dumpVars, jsonVars, pairVars>>
     \/ used = "strings" /\ Text!Next /\ UNCHANGED <<vars, hashVars, dumpVars, jsonVars, pairVars>>
     \/ used = "hash" /\ Hash!Next /\ UNCHANGED <<vars, stringVars, dumpVars, jsonVars, pairVars>>
     \/ used = "dump" /\ Dumping!Next /\ UNCHANGED <<vars, stringVars, hashVars, jsonVars, pairVars>>
     \/ used = "json" /\ Json!Next /\ UNCHANGED <<vars, stringVars, hashVars, dumpVars, pairVars>>
     \/ used = "pairs" /\ PairVector!Next /\ UNCHANGED <<vars, stringVars, hashVars, dumpVars, jsonVars>>

MCSpec == MCInit /\ [][MCNext]_<<used, vars, stringVars, hashVars, dumpVars, jsonVars, pairVars>>
================================================================================
