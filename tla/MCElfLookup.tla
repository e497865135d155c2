------------------------------ MODULE MCElfLookup ------------------------------
(***************************************************************************)
(* Small DT_HASH tables for TLC: every hash function from Name to          *)
(* HashValues, one or two buckets, up to MaxSyms symbols, and the lists in *)
(* every order (link editors insert at the head or at the tail).           *)
(***************************************************************************)
EXTENDS ElfLookup, Sequences, FiniteSets

CONSTANTS HashValues, MaxSyms

\* The table of the symbols s; ord ranks the entries, each list follows it.
Table(s, ord, hf, nb) ==
  LET n == Len(s)
      b(k) == hf[s[k]] % nb
      Rank(k) == Cardinality({j \in 1..n : b(j) = b(k) /\ ord[j] < ord[k]})
      At(bk, p) == {k \in 1..n : b(k) = bk /\ Rank(k) = p}
      OrZero(S) == IF S = {} THEN 0 ELSE CHOOSE k \in S : TRUE
  IN  [nsyms   |-> n + 1,
       sym     |-> [k \in 0..n |-> IF k = 0 THEN CHOOSE m \in Name : TRUE ELSE s[k]],
       hash    |-> hf,
       nbucket |-> nb,
       bucket  |-> [bk \in 0..(nb - 1) |-> OrZero(At(bk, 0))],
       chain   |-> [k \in 0..n |-> IF k = 0 THEN 0 ELSE OrZero(At(b(k), Rank(k) + 1))],
       pos     |-> [k \in 1..n |-> Rank(k)]]

Orders(n) == {f \in [1..n -> 1..n] : \A j, k \in 1..n : f[j] = f[k] => j = k}

MCTables ==
  UNION {{Table(s, ord, hf, nb) : s \in [1..n -> Name], ord \in Orders(n),
                                  hf \in [Name -> HashValues], nb \in 1..2} : n \in 0..MaxSyms}
================================================================================
