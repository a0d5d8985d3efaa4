------------------------------ MODULE Element ------------------------------
(***************************************************************************)
(* What the modules of single elements share. Each keeps its element's     *)
(* state in one variable; elements that run in pipelines of their own do   *)
(* not meet, and a model that puts them side by side has one of them at    *)
(* work and the others absent.                                             *)
(***************************************************************************)
EXTENDS Naturals, Sequences, FiniteSets

\* The value of the variable of an element that is not there.
Absent == [absent |-> TRUE]

InOrder(list) == \A j, k \in 1..Len(list) : j < k => list[j] < list[k]
Members(list) == {list[k] : k \in 1..Len(list)}

\* The positions of a set, in order, as a loop over all positions meets them.
Ascending(S) ==
  CHOOSE list \in [1..Cardinality(S) -> S] : InOrder(list) /\ Members(list) = S
=============================================================================
