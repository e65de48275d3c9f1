---------------------------- MODULE MCSharedWal ----------------------------
(* Two member databases; see the .cfg files for the sizes. *)
EXTENDS SharedWalRefinement
CONSTANTS a, b
Both == {a, b}
Symmetry == Permutations(Both)
=============================================================================
