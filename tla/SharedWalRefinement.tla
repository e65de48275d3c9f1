------------------------ MODULE SharedWalRefinement ------------------------
(***************************************************************************)
(* The shared log implements MemberLogs: the abstract log holds the frames *)
(* that are in the buffer or in a segment, and while no process runs, what *)
(* the next scan of the files will find.                                   *)
(***************************************************************************)
EXTENDS SharedWal

AbstractLog ==
    [l \in {f.lsn : f \in frames} |->
        LET f == CHOOSE g \in frames : g.lsn = l
        IN  [id |-> f.id, seq |-> f.seq, value |-> f.value]]

AbstractSeq ==
    [m \in Members |-> IF owner = "open" /\ ~member[m].retired
                       THEN member[m].seq ELSE ScannedMember(m).seq]

(* A seal counts once the owner acts on it, or finds it when it opens. *)
AbstractCheckpoint ==
    [m \in Members |-> IF owner = "open" /\ retiredAt[m] = None
                       THEN member[m].checkpoint ELSE ScanCheckpoint(m)]

Logs == INSTANCE MemberLogs WITH
            Values <- 0 .. MaxCrashes,
            MaxTop <- MaxLsn,
            log <- AbstractLog,
            top <- lsn,
            seq <- AbstractSeq,
            checkpoint <- AbstractCheckpoint,
            retired <- {m \in Members : retiredAt[m] # None}

(* The one step that is not allowed for: a power failure that takes back a *)
(* MANIFEST by which the process may have let records go.                  *)
TakesBack == owner = "open" /\ \E m \in Members : TakenBack(m)'

(* Every other step of the shared log -- appends with their rolls and      *)
(* flushes, syncs, seals, retirements, garbage collection, crashes that    *)
(* lose renamed MANIFESTs or keep them, and scans -- is a step of the      *)
(* abstract log or changes nothing it can see.                             *)
ImplementsMemberLogs == Logs!Init /\ [][Logs!Next \/ TakesBack]_(Logs!vars)
=============================================================================
