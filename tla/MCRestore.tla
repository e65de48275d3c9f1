----------------------------- MODULE MCRestore -----------------------------
(* A small restore; see Restore.cfg for the sizes. *)
EXTENDS Restore, TLC
=============================================================================
