------------------------------- MODULE MCRepo --------------------------------
(* Instances of TensorRepo for TLC. *)
EXTENDS TensorRepo, TLC

CONSTANTS c1, c2
OneFilter == {{c1}}
TwoFilters == {{c1}, {c1, c2}}
Symmetry == Permutations(Sinks) \cup Permutations(Srcs)
==============================================================================
