----------------------------- MODULE MCUCQuery -----------------------------
(***************************************************************************)
(* A small instance of UCQuery: the secrets people create, and symmetry.   *)
(***************************************************************************)
EXTENDS UCQuery, TLC

MCShapes == {Parameters, {"endpoint"}}

NameSymmetry == Permutations(Connections) \cup Permutations(Aliases)
=============================================================================
