---------------------------- MODULE SectionSizes ----------------------------
(***************************************************************************)
(* The memory a section is charged when it is written and when it is read  *)
(* (core/src/unit/section.rs and section_decode.rs).  Writing is limited   *)
(* by WorkingBytes and reading by DecodeBytes; what may be written must be *)
(* readable, or the rows are lost the moment their log records are given   *)
(* up.                                                                     *)
(***************************************************************************)
EXTENDS Integers

CONSTANTS
    WorkingBytes,   \* SECTION_WORKING_MEMORY_BYTES, 4 MiB
    DecodeBytes     \* SECTION_DECODE_MEMORY_BYTES, 8 MiB

ASSUME BytesAssumption == /\ WorkingBytes \in Nat /\ DecodeBytes \in Nat
                          /\ 2 * WorkingBytes <= DecodeBytes

(* working_set_bytes: rows, shapes and cells, facts, column metadata. *)
WorkingSet(rows, streams, facts) ==
    24 * rows + 19 * (rows * streams) + 32 * facts + 128 * streams

(* The most bytes assemble can put out: the times, the column directory,   *)
(* for each column a presence bit a row (here a byte) and a width, for each *)
(* fact its value and a null bit (here a byte).                            *)
LongestPayload(rows, streams, facts) ==
    9 + 8 * rows + 33 * streams + rows * streams + 9 * facts

(* preflight_decode_memory: the input, the parsed directory, the times, the *)
(* cells of the selected columns, scratch for the facts of the fullest one. *)
DecodeSet(input, rows, columns, selected, fullest) ==
    input + 56 * columns + 32 * rows + 16 * (rows * selected) + 40 * fullest + 48 * selected

(* Every row has a fact and every column has at most one fact a row. *)
Shape(rows, streams, facts, fullest) ==
    /\ rows \in Nat /\ streams \in Nat /\ facts \in Nat /\ fullest \in Nat
    /\ streams >= 1 /\ facts >= rows /\ fullest <= rows
=============================================================================
