--------------------------- MODULE MCTaggerCaches ---------------------------
(* Small instances of TaggerCaches for TLC. *)
EXTENDS TaggerCaches, TLC

CONSTANTS t1, t2, k1, k2, k3

Symmetry == Permutations({t1, t2}) \cup Permutations({k1, k2, k3})

\* Sentences of different lengths, so that a reused cache holds too much or too little.
ShortAndLong == {<<"a">>, <<"b", "a">>}

\* The index chosen depends on the whole sentence.
LengthAndPlace(s) == [k \in DOMAIN s |-> Len(s) + k]
=============================================================================
