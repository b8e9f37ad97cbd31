------------------------ MODULE MCJsonStoreRefinement ------------------------
(* A small instance of JsonStoreRefinement for TLC. *)
EXTENDS JsonStoreRefinement, TLC

\* CAPL scripts are interchangeable.
Symmetry == Permutations(Scripts)
=============================================================================
