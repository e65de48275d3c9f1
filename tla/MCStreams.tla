----------------------------- MODULE MCStreams ------------------------------
(* One series with two fields, the second of them added by a version. *)
EXTENDS Streams, TLC
CONSTANTS db
OneMember == {db}
Count == <<1, 1>>
Level == <<1, 2>>
CellSets == {Count :> 1, Level :> 5, (Count :> Null) @@ (Level :> 2)}
=============================================================================
