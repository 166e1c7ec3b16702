--------------------------- MODULE MCSelectEvents ---------------------------
(* Model values and symmetry for the runs of SelectEvents.                 *)
EXTENDS SelectEvents, TLC

CONSTANTS n1, n2, n3

MCFdsWithInvalid == {-1, 0, 1}
NodeSymmetry == Permutations(Nodes)
=============================================================================
