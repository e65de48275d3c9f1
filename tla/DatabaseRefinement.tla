------------------------ MODULE DatabaseRefinement -------------------------
(***************************************************************************)
(* A database uses its log within what MemberLogs promises, the module     *)
(* that SharedWal implements: here its records are the whole log and it is *)
(* the only member.  It gives up records only once they are durable, and   *)
(* the MANIFEST that a power failure would bring back decides how many.    *)
(***************************************************************************)
EXTENDS Database

CONSTANT Self       \* the database's SharedDbId

Bodies == [op : {"create", "drop", "append"}, table : Tables,
           at : Timestamps \cup {0}, epoch : 0 .. MaxCrashes]

Log == INSTANCE MemberLogs WITH
           Members <- {Self},
           Values <- Bodies,
           MaxTop <- MaxRecords,
           log <- [l \in DOMAIN records |->
                      [id |-> Self, seq |-> l, value |-> records[l]]],
           top <- Len(records),
           seq <- [m \in {Self} |-> Len(records)],
           checkpoint <- [m \in {Self} |-> settled.checkpoint],
           retired <- {}

(* Appends, batches, seals, publications, crashes and reopenings of the    *)
(* database are appends, syncs, checkpoints and crashes of that log.       *)
ImplementsMemberLogs == Log!Spec
=============================================================================
