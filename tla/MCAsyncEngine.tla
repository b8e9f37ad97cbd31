---------------------------- MODULE MCAsyncEngine ----------------------------
(* Small instances of AsyncEngine for TLC. *)
EXTENDS AsyncRefinement, TLC

\* Threads and CAPL threads are interchangeable (safety runs only).
Symmetry == Permutations(Workers) \cup Permutations(Callers)
=============================================================================
