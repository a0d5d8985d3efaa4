--------------------------- MODULE MCSharedModel ---------------------------
(* Instances of SharedModel for TLC. *)
EXTENDS SharedModel, TLC

CONSTANTS c1, c2, c3, m1, m2, i1, i2, i3, i4, i5

\* All the models have the same tensors.
SameInfo == m1 :> "a" @@ m2 :> "a"

Symmetric == Permutations({c1, c2, c3}) \cup Permutations({i1, i2, i3, i4, i5})
=============================================================================
