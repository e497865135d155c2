------------------------------ MODULE MCGnuLookup ------------------------------
(***************************************************************************)
(* Small DT_GNU_HASH tables for TLC: every hash function from Name to      *)
(* HashValues, one or two buckets, one or two filter words, zero to three  *)
(* hashed symbols behind symoffset - 1 imported ones.  A table is laid out *)
(* as a link editor does: entries sorted by bucket, the filter with the    *)
(* two bits of each entry and no other.                                    *)
(***************************************************************************)
EXTENDS GnuLookup, Sequences

CONSTANTS HashValues, MaxSyms

NameSeqs == UNION {[1..n -> Name] : n \in 0..MaxSyms}

Sorted(s, hash, nb) ==
  \A i, j \in DOMAIN s : i < j => hash[s[i]] % nb <= hash[s[j]] % nb

\* The table of the symbols s, hashed by hash into nb buckets and bs words.
Table(s, hash, nb, bs, off, null) ==
  LET n == Len(s)
      b(k) == hash[s[k]] % nb
      Of(bk) == {k \in 1..n : b(k) = bk}
      First(S) == CHOOSE k \in S : \A j \in S : k <= j
      bits(k) == {hash[s[k]] % ELFCLASS_BITS, (hash[s[k]] \div 2) % ELFCLASS_BITS}
  IN  [sym         |-> [i \in 0..(off + n - 1) |-> IF i < off THEN null ELSE s[i - off + 1]],
       nsyms       |-> off + n,
       hash        |-> hash,
       symoffset   |-> off,
       nbuckets    |-> nb,
       bloom_size  |-> bs,
       bloom_shift |-> 1,
       bloom       |-> [w \in 0..(bs - 1) |->
                          UNION {bits(k) : k \in {j \in 1..n : (hash[s[j]] \div ELFCLASS_BITS) % bs = w}}],
       buckets     |-> [bk \in 0..(nb - 1) |-> IF Of(bk) = {} THEN 0 ELSE off - 1 + First(Of(bk))],
       chain       |-> [c \in 0..(n - 1) |->
                          2 * (hash[s[c + 1]] \div 2) + (IF c + 1 = n \/ b(c + 2) # b(c + 1) THEN 1 ELSE 0)]]

MCTables ==
  UNION {{Table(s, hash, nb, bs, off, null) :
            s \in {q \in NameSeqs : Sorted(q, hash, nb)},
            bs \in 1..2, off \in 1..2, null \in {CHOOSE n \in Name : TRUE}} :
         hash \in [Name -> HashValues], nb \in 1..2}
================================================================================
