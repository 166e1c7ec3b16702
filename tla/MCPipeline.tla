----------------------------- MODULE MCPipeline -----------------------------
(* Model values and symmetry for the runs of Pipeline.                     *)
EXTENDS Pipeline, TLC

CONSTANTS c1, c2, c3, id1, id2, id3, id4

ObjectSymmetry == Permutations(Coroutines) \union Permutations(Ids)
=============================================================================
