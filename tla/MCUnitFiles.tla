---------------------------- MODULE MCUnitFiles ----------------------------
(* Two tables with two streams; sections of at most two rows, and so       *)
(* little memory that two rows fit with two facts, not three.              *)
EXTENDS UnitFiles

TwoTables == {1, 2}
TwoStreams == {1, 2}
FourKinds == {<<1, {1}>>, <<1, {2}>>, <<1, {1, 2}>>, <<2, {1}>>}
FirstAltered == <<2, 1>>
=============================================================================
