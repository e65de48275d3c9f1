----------------------------- MODULE MCArchive -----------------------------
(* A small archive; see Archive.cfg for the sizes. *)
EXTENDS Archive, TLC
CONSTANT b1
=============================================================================
