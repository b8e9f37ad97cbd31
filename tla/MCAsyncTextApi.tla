---------------------------- MODULE MCAsyncTextApi ----------------------------
(* A small instance of AsyncTextApi for TLC. *)
EXTENDS AsyncTextApi, TLC

\* Threads are interchangeable.
Symmetry == Permutations(Workers)
=============================================================================
