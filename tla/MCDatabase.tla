---------------------------- MODULE MCDatabase ----------------------------
(* Small databases; see the .cfg files for the sizes. *)
EXTENDS DatabaseQueries, DatabaseRefinement, TLC
CONSTANTS r1, r2, db
OneReader == {r1}
TwoReaders == {r1, r2}
Symmetry == Permutations(TwoReaders)
=============================================================================
