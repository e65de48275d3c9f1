----------------------------- MODULE Database ------------------------------
(***************************************************************************)
(* One member database (core/src/db.rs and what it drives): mutations go   *)
(* to the shared log and to the in-memory tail, sealing turns the tail     *)
(* into an immutable unit file, compaction merges unit files, retention    *)
(* folds the oldest ones into retention heads, and every such change is    *)
(* one publication of the MANIFEST.  Snapshots read without the engine's   *)
(* mutex, replaced files are deleted once no snapshot needs them, and an   *)
(* open rebuilds the engine from the MANIFEST and the log.                 *)
(*                                                                         *)
(* The log is the member's own records, numbered by sequence; that it may  *)
(* be taken for granted is what SharedWal and MemberLogs are about.  Each  *)
(* table has one stream of facts and one schema version.                   *)
(***************************************************************************)
EXTENDS Integers, Sequences, FiniteSets, SequencesExt

CONSTANTS
    Tables,         \* table identifiers, 1 .. n
    Founded,        \* tables created before the history starts
    Droppable,      \* tables drop_table may be called for
    Timestamps,     \* bound: the times a row may have
    Readers,        \* snapshots held at one time
    L1Window, L2Window, \* CompactionPolicy
    Takeover,       \* may an open ask for OpenOptions::takeover?
    IoErrors,       \* may file operations fail?
    MaxBatch,       \* bound: longest batch of try_append_batch
    MaxRecords,     \* bound: records in the log
    MaxCrashes      \* bound: crashes, closings and failed takeovers

ASSUME TablesAssumption ==
    /\ IsFiniteSet(Tables) /\ Tables = 1 .. Cardinality(Tables)
    /\ Founded \in 0 .. Cardinality(Tables) /\ Droppable \subseteq Tables
ASSUME TimesAssumption ==
    /\ Timestamps \subseteq Nat \ {0}
    /\ L1Window \in Nat \ {0} /\ L2Window \in Nat \ {0}
ASSUME SwitchesAssumption == {Takeover, IoErrors} \subseteq BOOLEAN
ASSUME BoundsAssumption == {MaxBatch, MaxRecords, MaxCrashes} \subseteq Nat

VARIABLES
    (* the database directory *)
    unitFiles,  \* unit id -> the unit in units/
    headFiles,  \* MANIFEST generation -> the retention heads in heads/
    manifest,   \* the MANIFEST a reader of the directory finds
    settled,    \* the MANIFEST a power failure leaves
    (* the member's log *)
    records, durable,
    (* struct Engine *)
    status,     \* "open", "closed", or "broken" when an open failed
    poison,     \* the writer refuses to go on
    catalog, tail, heads, generation, garbage,
    (* struct Db, the snapshots callers hold *)
    visible, readers,
    (* the operation holding the engine's mutex *)
    pc, job,
    crashes,
    revived     \* tables whose drop_table a crash has taken back

disk == <<unitFiles, headFiles, manifest, settled>>
log == <<records, durable>>
engine == <<catalog, tail, heads, generation>>
vars == <<disk, log, status, poison, engine, garbage, visible, readers, pc, job,
          crashes, revived>>

None == -1
NoSnapshot == [token |-> None]
NoJob == [kind |-> "none"]
NoHeads == <<>>

With(f, x, v) == [k \in DOMAIN f \cup {x} |-> IF k = x THEN v ELSE f[k]]
Without(f, S) == Restrict(f, DOMAIN f \ S)

-----------------------------------------------------------------------------
(***************************************************************************)
(* Rows, units and their order.                                            *)
(***************************************************************************)
Times(rows) == {r.at : r \in rows}
MinTs(u) == Min(Times(u.rows))
MaxTs(u) == Max(Times(u.rows))
Section(u, t) == {r \in u.rows : r.table = t}

(* Mutant: the order of the identifiers. *)
PrecedesById(u, v) == u.id < v.id

(* The order of units in the MANIFEST: by minimum time, then identifier.   *)
Precedes(u, v) ==
    \/ MinTs(u) < MinTs(v)
    \/ MinTs(u) = MinTs(v) /\ u.id < v.id

First(units) == CHOOSE u \in units : \A v \in units : v = u \/ Precedes(u, v)
AddUnits(files, units) ==
    [i \in DOMAIN files \cup {u.id : u \in units} |->
        IF \E u \in units : u.id = i THEN CHOOSE u \in units : u.id = i ELSE files[i]]

(* The units of u's level that follow it with no other level in between.   *)
RunFrom(u, units) ==
    {v \in units :
        /\ v = u \/ Precedes(u, v)
        /\ \A w \in units : \/ Precedes(w, u) \/ Precedes(v, w)
                            \/ w.level = u.level}

(* A table's sections lie one behind the other in the order of the units.  *)
SectionsOrdered(units, t) ==
    \A u, v \in {w \in units : Section(w, t) # {}} :
        Precedes(u, v) => Max(Times(Section(u, t))) < Min(Times(Section(v, t)))

-----------------------------------------------------------------------------
(***************************************************************************)
(* The tail: what the records behind the checkpoint make of the tables.    *)
(***************************************************************************)
Record(op, t, at) == [op |-> op, table |-> t, at |-> at, epoch |-> crashes]
RowOf(r) == [table |-> r.table, at |-> r.at, epoch |-> r.epoch]

(* tail_validate::validate *)
Valid(target, r) ==
    CASE r.op = "create" -> r.table = target.high + 1
      [] r.op = "drop" -> r.table \in DOMAIN target.tables
      [] r.op = "append" -> /\ r.table \in DOMAIN target.tables
                            /\ r.at > target.tables[r.table].last

(* TailIndex::apply *)
Apply(target, r) ==
    CASE r.op = "create" ->
             [tables |-> With(target.tables, r.table, [last |-> 0, rows |-> {}]),
              high |-> r.table]
      [] r.op = "drop" ->
             [target EXCEPT !.tables = Without(target.tables, {r.table})]
      [] r.op = "append" ->
             [target EXCEPT !.tables[r.table] =
                 [last |-> r.at, rows |-> @.rows \cup {RowOf(r)}]]

(* Manifest::replay_target *)
ReplayTarget(cat) ==
    [tables |-> [t \in DOMAIN cat.clocks |-> [last |-> cat.clocks[t], rows |-> {}]],
     high |-> cat.tableHigh]
Replay(cat, recs) ==
    FoldLeft(Apply, ReplayTarget(cat), SubSeq(recs, cat.checkpoint + 1, Len(recs)))

TailRows == UNION {tail.tables[t].rows : t \in DOMAIN tail.tables}

-----------------------------------------------------------------------------
(***************************************************************************)
(* Snapshots and the deletion of replaced files.                           *)
(***************************************************************************)
Snapshot(cat, tl, hd, token) ==
    [units |-> cat.units, tables |-> tl.tables, floor |-> cat.floor,
     heads |-> hd, token |-> token]
Fresh == Snapshot(catalog, tail, heads, generation)

(* Mutant: only the engine's own. *)
AliveInEngine == {generation, visible.token}

(* The generations somebody can still see. *)
Alive == {generation, visible.token} \cup {readers[r].token : r \in Readers}

Dead == {g \in garbage : g.owner \notin Alive}
Named(area, files) == {g.id : g \in {f \in files : f.area = area}}

(* lifecycle_gc::reap: a file that cannot be removed is kept for later. *)
Reapable == IF IoErrors THEN SUBSET Dead ELSE {Dead}
UnitsWithout(gone) == Without(unitFiles, Named("units", gone))
HeadsWithout(gone) == Without(headFiles, Named("heads", gone))
Reap ==
    \E gone \in Reapable :
        /\ unitFiles' = UnitsWithout(gone)
        /\ headFiles' = HeadsWithout(gone)
        /\ garbage' = garbage \ gone

(* Db::snapshot: the visible snapshot, or one made under the mutex. *)
TakeSnapshot(r) ==
    /\ status = "open" /\ readers[r] = NoSnapshot /\ job.kind # "takeover"
    /\ \/ visible # NoSnapshot /\ UNCHANGED visible
       \/ visible = NoSnapshot /\ pc = "idle" /\ visible' = Fresh
    /\ readers' = [readers EXCEPT ![r] = visible']
    /\ UNCHANGED <<disk, log, status, poison, engine, garbage, pc, job, crashes, revived>>

DropSnapshot(r) ==
    /\ readers[r] # NoSnapshot
    /\ readers' = [readers EXCEPT ![r] = NoSnapshot]
    /\ UNCHANGED <<disk, log, status, poison, engine, garbage, visible, pc, job,
                   crashes, revived>>

-----------------------------------------------------------------------------
(***************************************************************************)
(* The first open of an empty directory, and the creation of the tables.   *)
(***************************************************************************)
InitialCatalog ==
    [generation |-> 0, unitHigh |-> 0, tableHigh |-> 0, checkpoint |-> 0,
     floor |-> 0, headsGeneration |-> 0, clocks |-> <<>>, units |-> {}]

Init ==
    /\ unitFiles = <<>> /\ headFiles = <<>>
    /\ manifest = InitialCatalog /\ settled = InitialCatalog
    /\ crashes = 0 /\ revived = {}
    /\ records = [t \in 1 .. Founded |-> Record("create", t, 0)]
    /\ durable = 0
    /\ status = "open" /\ poison = FALSE
    /\ catalog = InitialCatalog
    /\ tail = Replay(InitialCatalog, records)
    /\ heads = NoHeads /\ generation = 0 /\ garbage = {}
    /\ visible = NoSnapshot
    /\ readers = [r \in Readers |-> NoSnapshot]
    /\ pc = "idle" /\ job = NoJob

Locked == status = "open" /\ pc = "idle"
Healthy == Locked /\ ~poison

-----------------------------------------------------------------------------
(***************************************************************************)
(* Mutations.  The record goes to the log first and then to the tail; both *)
(* under the engine's mutex.                                               *)
(***************************************************************************)

(* Db::mutate: append, create_table and drop_table. *)
Mutate(r) ==
    /\ Healthy /\ Len(records) < MaxRecords
    /\ Valid(tail, r)
    /\ Reap
    /\ \/ /\ records' = Append(records, r)
          /\ tail' = Apply(tail, r)
          /\ visible' = NoSnapshot
          /\ UNCHANGED poison
       \/ IoErrors /\ poison' = TRUE /\ UNCHANGED <<records, tail, visible>>
    /\ UNCHANGED <<manifest, settled, durable, status, catalog, heads, generation,
                   readers, pc, job, crashes, revived>>

AppendRow == \E t \in Tables, at \in Timestamps :
                 Mutate(Record("append", t, at))
CreateTable == \E t \in Tables : Mutate(Record("create", t, 0))
DropTable == \E t \in Droppable : Mutate(Record("drop", t, 0))

(* A call that reaps and then refuses, or finds nothing to do. *)
Tidy ==
    /\ Healthy
    /\ Reap
    /\ UNCHANGED <<manifest, settled, log, status, poison, engine, visible, readers,
                   pc, job, crashes, revived>>

(* Db::try_append_batch, which does not reap: every observation is checked *)
(* against the tail as it is and against the one before it ...             *)
BeginBatch(recs) ==
    /\ Healthy /\ Len(records) + Len(recs) <= MaxRecords
    /\ \A i \in DOMAIN recs : Valid(tail, recs[i])
    /\ \A i, j \in DOMAIN recs : i < j => recs[i].at < recs[j].at
    /\ pc' = "batch"
    /\ job' = [kind |-> "batch", all |-> recs, left |-> recs]
    /\ UNCHANGED <<disk, log, status, poison, engine, garbage, visible, readers,
                   crashes, revived>>

(* ... then they go to the log one by one, and to the tail all at once. *)
BatchRecord ==
    /\ pc = "batch"
    /\ records' = Append(records, Head(job.left))
    /\ IF Len(job.left) = 1
       THEN /\ tail' = FoldLeft(Apply, tail, job.all)
            /\ visible' = NoSnapshot
            /\ pc' = "idle" /\ job' = NoJob
       ELSE /\ job' = [job EXCEPT !.left = Tail(@)]
            /\ UNCHANGED <<tail, visible, pc>>
    /\ UNCHANGED <<disk, durable, status, poison, catalog, heads, generation,
                   garbage, readers, crashes, revived>>

BatchFails ==
    /\ pc = "batch" /\ IoErrors
    /\ poison' = TRUE
    /\ pc' = "idle" /\ job' = NoJob
    /\ UNCHANGED <<disk, log, status, engine, garbage, visible, readers, crashes, revived>>

AppendRows ==
    \E t \in Tables, n \in 1 .. MaxBatch : \E ats \in [1 .. n -> Timestamps] :
        BeginBatch([i \in 1 .. n |-> Record("append", t, ats[i])])

(* Db::sync, which reaps even when the poisoned writer then refuses. *)
Sync ==
    /\ Locked
    /\ Reap
    /\ durable' = IF poison THEN durable ELSE Len(records)
    /\ UNCHANGED <<manifest, settled, records, status, poison, engine, visible,
                   readers, pc, job, crashes, revived>>

-----------------------------------------------------------------------------
(***************************************************************************)
(* Maintenance.  Sealing, compacting and retaining write a new file and    *)
(* leave in `job` what the publication of the MANIFEST is to install.      *)
(***************************************************************************)
NextUnit == catalog.unitHigh + 1
NextGeneration == catalog.generation + 1

(* seal_locked: without rows only the catalog moves on. *)
SealedUnits == IF TailRows = {} THEN {}
               ELSE {[id |-> NextUnit, level |-> 0, rows |-> TailRows]}
CatalogAfterSeal(unitHigh, clocks) ==
    [catalog EXCEPT !.generation = NextGeneration,
                    !.unitHigh = unitHigh,
                    !.tableHigh = tail.high,
                    !.checkpoint = Len(records),
                    !.clocks = clocks,
                    !.units = @ \cup SealedUnits]
UnitHigh == IF TailRows = {} THEN catalog.unitHigh ELSE NextUnit
Clocks == [t \in DOMAIN tail.tables |-> tail.tables[t].last]
(* Mutant: a table without new rows loses its clock. *)
SealedRowClocks ==
    CatalogAfterSeal(UnitHigh, [t \in DOMAIN tail.tables |->
                                   Max(Times(tail.tables[t].rows) \cup {0})])
SealedCatalog == CatalogAfterSeal(UnitHigh, Clocks)

SealDurably(upTo) ==
    /\ Healthy /\ catalog.checkpoint < Len(records)
    /\ \E gone \in Reapable :
           /\ unitFiles' = AddUnits(UnitsWithout(gone), SealedUnits)
           /\ headFiles' = HeadsWithout(gone)
           /\ garbage' = garbage \ gone
    /\ durable' = upTo
    /\ pc' = "publish"
    /\ job' = [kind |-> "seal", next |-> SealedCatalog, tail |-> ReplayTarget(SealedCatalog),
               heads |-> heads, obsolete |-> {}]
    /\ UNCHANGED <<manifest, settled, records, status, poison, engine, visible,
                   readers, crashes, revived>>

(* Mutant: the log is not synced first. *)
SealUnsynced == SealDurably(durable)
Seal == SealDurably(Len(records))

(* unit::compact, merge: it refuses sections out of order, and units with  *)
(* sections of a table that is no longer there.                            *)
Mergeable(inputs) ==
    /\ \A u \in inputs : \A r \in u.rows : r.table \in DOMAIN tail.tables
    /\ \A t \in DOMAIN tail.tables : SectionsOrdered(inputs, t)

(* compact_locked, for the units it has been given. *)
Compact(inputs, files) ==
    LET merged == [id |-> NextUnit, level |-> First(inputs).level + 1,
                   rows |-> UNION {u.rows : u \in inputs}]
    IN  /\ Mergeable(inputs)
        /\ unitFiles' = AddUnits(files, {merged})
        /\ pc' = "publish"
        /\ job' = [kind |-> "compact",
                   next |-> [catalog EXCEPT
                       !.generation = NextGeneration, !.unitHigh = NextUnit,
                       !.units = (@ \ inputs) \cup {merged}],
                   tail |-> tail, heads |-> heads,
                   obsolete |-> {[area |-> "units", id |-> u.id] : u \in inputs}]
        /\ UNCHANGED <<manifest, settled, log, status, poison, engine, visible,
                       readers, crashes, revived>>

(* select_run: the first two or more neighbours of the level. *)
SelectRun(level) ==
    LET starts == {u \in catalog.units :
                       u.level = level /\ Cardinality(RunFrom(u, catalog.units)) >= 2}
    IN  IF starts = {} THEN {} ELSE RunFrom(First(starts), catalog.units)

CompactLevel(level) ==
    /\ Healthy /\ SelectRun(level) # {}
    /\ \E gone \in Reapable :
           /\ Compact(SelectRun(level), UnitsWithout(gone))
           /\ headFiles' = HeadsWithout(gone)
           /\ garbage' = garbage \ gone

(* select_closed_window: the first units of the level in one window of     *)
(* time, once a row behind the window has been accepted.                   *)
HighWater == Max({MaxTs(u) : u \in catalog.units}
                 \cup {tail.tables[t].last : t \in DOMAIN tail.tables} \cup {0})
ClosedWindow(level, width) ==
    LET candidates == {u \in catalog.units : u.level = level}
        first == MinTs(First(candidates))
        end == first - (first % width) + width
    IN  IF candidates = {} \/ HighWater < end THEN {}
        ELSE {u \in RunFrom(First(candidates), catalog.units) : MinTs(u) < end}

CompactWindow(level, width) ==
    /\ Healthy /\ ClosedWindow(level, width) # {}
    /\ Compact(ClosedWindow(level, width), unitFiles)
    /\ UNCHANGED <<headFiles, garbage>>

(* retain: the longest prefix of units that end before the cutoff. *)
Expired(cutoff) ==
    {u \in catalog.units :
        \A v \in catalog.units : v = u \/ Precedes(v, u) => MaxTs(v) < cutoff}

(* retention::fold: the last fact of every table that is still there. *)
Foldable(expired) ==
    /\ Mergeable(expired)
    /\ \A u \in expired : \A t \in DOMAIN heads :
           \A r \in Section(u, t) : r.at > heads[t].at
LastFacts(expired, prior) ==
    LET facts(t) == (UNION {Section(u, t) : u \in expired})
                    \cup {prior[k] : k \in DOMAIN prior \cap {t}}
    IN  [t \in {k \in DOMAIN tail.tables : facts(k) # {}} |->
            CHOOSE r \in facts(t) : \A q \in facts(t) : q.at <= r.at]
(* Mutant: the heads of earlier retentions are forgotten. *)
FoldedAfresh(expired) == LastFacts(expired, NoHeads)
Folded(expired) == LastFacts(expired, heads)

(* Mutant: the floor is the last time expired, not the one after it. *)
FloorAtLast(expired) == Max({MaxTs(u) : u \in expired})
FloorAfter(expired) == Max({MaxTs(u) : u \in expired}) + 1

Retain(cutoff) ==
    LET expired == Expired(cutoff)
        floor == FloorAfter(expired)
    IN  /\ Healthy /\ expired # {} /\ floor > catalog.floor
        /\ Foldable(expired)
        /\ \E gone \in Reapable :
               /\ unitFiles' = UnitsWithout(gone)
               /\ headFiles' = With(HeadsWithout(gone), NextGeneration, Folded(expired))
               /\ garbage' = garbage \ gone
        /\ pc' = "publish"
        /\ job' = [kind |-> "retain",
                   next |-> [catalog EXCEPT
                       !.generation = NextGeneration, !.floor = floor,
                       !.headsGeneration = NextGeneration, !.units = @ \ expired],
                   tail |-> tail, heads |-> Folded(expired),
                   obsolete |-> {[area |-> "units", id |-> u.id] : u \in expired}
                                \cup {[area |-> "heads", id |-> g] :
                                         g \in {catalog.headsGeneration} \ {0}}]
        /\ UNCHANGED <<manifest, settled, log, status, poison, engine, visible,
                       readers, crashes, revived>>

-----------------------------------------------------------------------------
(***************************************************************************)
(* Publication of the MANIFEST: rename, sync of the directory, and the     *)
(* installation in memory.                                                 *)
(***************************************************************************)

(* An error before the publication leaves the new file behind; a failed    *)
(* publication, which may have renamed the file, poisons the writer.       *)
Publish ==
    /\ pc = "publish"
    /\ manifest' = job.next
    /\ pc' = "settle"
    /\ UNCHANGED <<unitFiles, headFiles, settled, log, status, poison, engine, garbage,
                   visible, readers, job, crashes, revived>>

PublishFails ==
    /\ pc \in {"publish", "settle"} /\ job.kind # "takeover" /\ IoErrors
    /\ poison' \in {TRUE} \cup (IF pc = "publish" THEN {FALSE} ELSE {})
    /\ pc' = "idle" /\ job' = NoJob
    /\ UNCHANGED <<disk, log, status, engine, garbage, visible, readers, crashes, revived>>

(* refresh_visible; mutant: before the new state is installed. *)
RefreshedEarly == Fresh
Refreshed == Snapshot(catalog', tail', heads', generation')

(* Mutant: replaced heads are not retired. *)
RetiredUnits == {[owner |-> generation, area |-> o.area, id |-> o.id] :
                    o \in {p \in job.obsolete : p.area = "units"}}

(* Engine::retire tags the replaced files with the generation that ends.   *)
Retired == {[owner |-> generation, area |-> o.area, id |-> o.id] : o \in job.obsolete}

Install ==
    /\ pc = "settle"
    /\ settled' = manifest
    /\ catalog' = job.next
    /\ IF job.kind = "takeover"
       THEN UNCHANGED <<tail, heads, generation, garbage, visible>>
       ELSE /\ tail' = job.tail /\ heads' = job.heads
            /\ garbage' = garbage \cup Retired
            /\ generation' = IF job.kind = "seal" THEN generation ELSE generation + 1
            /\ visible' = Refreshed
    /\ pc' = IF job.kind \in {"compact", "retain"} THEN "reap" ELSE "idle"
    /\ job' = NoJob
    /\ UNCHANGED <<unitFiles, headFiles, manifest, log, status, poison, readers,
                   crashes, revived>>

FinishMaintenance ==
    /\ pc = "reap"
    /\ Reap
    /\ pc' = "idle"
    /\ UNCHANGED <<manifest, settled, log, status, poison, engine, visible, readers,
                   job, crashes, revived>>

-----------------------------------------------------------------------------
(***************************************************************************)
(* The end of the process and the next open.                               *)
(***************************************************************************)
Gone ==
    /\ catalog' = InitialCatalog /\ tail' = ReplayTarget(InitialCatalog)
    /\ heads' = NoHeads /\ garbage' = {}
    /\ visible' = NoSnapshot /\ pc' = "idle" /\ job' = NoJob
    /\ status' = "closed" /\ poison' = FALSE
    /\ crashes' = crashes + 1

(* Of the log anything from the durable prefix on is left. *)
CutLog == \E cut \in durable .. Len(records) :
              /\ records' = SubSeq(records, 1, cut) /\ durable' = cut
              /\ revived' = revived \cup {records[i].table : i \in
                     {j \in cut + 1 .. Len(records) : records[j].op = "drop"}}

(* The takeover's publication fails: the database being opened is dropped. *)
TakeoverFails ==
    /\ pc \in {"publish", "settle"} /\ job.kind = "takeover" /\ IoErrors
    /\ crashes < MaxCrashes
    /\ Gone
    /\ UNCHANGED <<disk, log, generation, readers, revived>>

(* The process dies, or the machine loses power; a renamed MANIFEST whose  *)
(* directory was not synced may then be the old one again.                 *)
Crash(power) ==
    /\ status = "open" /\ crashes < MaxCrashes
    /\ Gone /\ CutLog
    /\ readers' = [r \in Readers |-> NoSnapshot]
    /\ UNCHANGED generation
    /\ IF power THEN manifest' \in {manifest, settled} /\ settled' = manifest'
       ELSE UNCHANGED <<manifest, settled>>
    /\ UNCHANGED <<unitFiles, headFiles>>

(* The Db and the owner of its log are dropped; snapshots stay, and with   *)
(* them the lock of the directory.                                         *)
Close ==
    /\ Locked /\ crashes < MaxCrashes
    /\ Gone /\ CutLog
    /\ UNCHANGED <<disk, generation, readers>>

(* Mutant: the heads are not loaded. *)
LoadedNoHeads(cat) == NoHeads
LoadedHeads(cat) == IF cat.headsGeneration = 0 THEN NoHeads
                    ELSE headFiles[cat.headsGeneration]
Loadable ==
    /\ \A u \in manifest.units : u.id \in DOMAIN unitFiles /\ unitFiles[u.id] = u
    /\ manifest.headsGeneration \in DOMAIN headFiles \cup {0}
    /\ manifest.checkpoint <= Len(records)

(* open_shared_inner: the root is synced, the MANIFEST and what it lists   *)
(* are loaded, the log is replayed, files it does not list are removed.    *)
OpenSettling(found) ==
    /\ status = "closed" /\ \A r \in Readers : readers[r] = NoSnapshot
    /\ settled' = found
    /\ IF Loadable
       THEN LET strangers == DOMAIN unitFiles \ {u.id : u \in manifest.units}
                oldHeads == DOMAIN headFiles \ {manifest.headsGeneration}
            IN  /\ \E left \in IF IoErrors THEN SUBSET strangers ELSE {{}} :
                       unitFiles' = Without(unitFiles, strangers \ left)
                /\ \E left \in IF IoErrors THEN SUBSET oldHeads ELSE {{}} :
                       headFiles' = Without(headFiles, oldHeads \ left)
                /\ status' = "open"
                /\ catalog' = manifest
                /\ heads' = LoadedHeads(manifest)
                /\ tail' = Replay(manifest, records)
                /\ durable' = Len(records)
                /\ generation' = 0
                /\ visible' = Refreshed
                /\ \/ UNCHANGED <<pc, job>>
                   \/ Takeover /\ pc' = "publish"
                      /\ job' = [kind |-> "takeover",
                                 next |-> [manifest EXCEPT !.generation = @ + 1]]
       ELSE /\ status' = "broken"
            /\ UNCHANGED <<unitFiles, headFiles, catalog, heads, tail, durable,
                           generation, visible, pc, job>>
    /\ UNCHANGED <<manifest, records, poison, garbage, readers, crashes, revived>>

(* Mutant: the root is not synced. *)
OpenUnsynced == OpenSettling(settled)
Open == OpenSettling(manifest)

-----------------------------------------------------------------------------
Mutation == AppendRow \/ CreateTable \/ DropTable \/ AppendRows
            \/ BatchRecord \/ BatchFails \/ Sync \/ Tidy

Maintenance ==
    \/ Seal
    \/ \E level \in 0 .. 1 : CompactLevel(level)
    \/ CompactWindow(0, L1Window) \/ CompactWindow(1, L2Window)
    \/ \E cutoff \in {at + 1 : at \in Timestamps} : Retain(cutoff)
    \/ Publish \/ PublishFails \/ Install \/ FinishMaintenance

Reading == \E r \in Readers : TakeSnapshot(r) \/ DropSnapshot(r)

Next == \/ Mutation \/ Maintenance \/ Reading
        \/ \E power \in BOOLEAN : Crash(power)
        \/ TakeoverFails \/ Close \/ Open

Spec == Init /\ [][Next]_vars

-----------------------------------------------------------------------------
(***************************************************************************)
(* Properties.                                                             *)
(***************************************************************************)
(* What the engine holds of a table: in unit files and in the tail. *)
Stored(t) == (UNION {Section(u, t) : u \in catalog.units}) \cup tail.tables[t].rows
Logged(t) == {RowOf(r) : r \in {records[i] : i \in {j \in DOMAIN records :
                  records[j].op = "append" /\ records[j].table = t}}}
Mirrored == status = "open" /\ ~poison /\ pc # "batch"

(* However seals, compactions, retentions, crashes and reopenings take     *)
(* turns, the engine holds every row accepted for a table exactly once, in *)
(* one unit or in the tail, unless it has expired: those are below the     *)
(* retention floor.                                                        *)
RowsOnce ==
    Mirrored => \A t \in DOMAIN tail.tables :
        /\ Stored(t) \subseteq Logged(t)
        /\ \A u \in catalog.units :
               /\ Section(u, t) \cap tail.tables[t].rows = {}
               /\ \A v \in catalog.units : v = u \/ Section(u, t) \cap Section(v, t) = {}
        /\ \A r \in Logged(t) \ Stored(t) : r.at < catalog.floor

(* A table's head is one of its rows that have expired, and the latest     *)
(* unless a crash has taken back a drop of the table.                      *)
HeadsLatest ==
    Mirrored => \A t \in DOMAIN tail.tables \cap DOMAIN heads :
        /\ heads[t] \in Logged(t) \ Stored(t)
        /\ t \notin revived => \A r \in Logged(t) \ Stored(t) : r.at <= heads[t].at

(* Rows and heads together are what was accepted. *)
FactsAreTheLog == RowsOnce /\ HeadsLatest

(* A table whose rows have expired has its head, the only copy of its last *)
(* value: no later retention, seal, drop of another table, crash or        *)
(* reopening loses it.  The one exception is a table whose own drop was in *)
(* the log, and not synced, at a crash: a retention in between has folded  *)
(* without it.                                                             *)
HeadsKept ==
    Mirrored => \A t \in DOMAIN tail.tables \ revived :
        Logged(t) # Stored(t) => t \in DOMAIN heads

(* A table's clock is that of its last row, wherever that row is by now,   *)
(* and tables are never numbered twice: a seal or a reopening forgets      *)
(* neither, so append and create_table refuse what they should.            *)
ClocksExact ==
    Mirrored =>
        /\ \A t \in DOMAIN tail.tables :
               tail.tables[t].last = Max({r.at : r \in Logged(t)} \cup {0})
        /\ tail.high = Cardinality({i \in DOMAIN records : records[i].op = "create"})

Lists(cat) ==
    /\ \A u \in cat.units : u.id \in DOMAIN unitFiles /\ unitFiles[u.id] = u
    /\ cat.headsGeneration \in DOMAIN headFiles \cup {0}

(* The unit and head files a MANIFEST lists exist with the content it      *)
(* means: for the MANIFEST in the directory, for the one a power failure   *)
(* would bring back, and for the one in memory.  No reaping, clean-up or   *)
(* crash between two steps of a replacement takes a file still listed.     *)
FilesPresent ==
    /\ Lists(manifest) /\ Lists(settled) /\ Lists(catalog)
    /\ status = "open" /\ catalog.headsGeneration # 0 =>
           headFiles[catalog.headsGeneration] = heads

(* The next open succeeds, and no checkpoint is ahead of the durable log.  *)
AlwaysOpens ==
    /\ status # "broken"
    /\ manifest.checkpoint <= durable /\ settled.checkpoint <= durable

(* What snapshot() hands out without the engine's mutex is what it would   *)
(* make under it: every call that returned is visible in it.               *)
VisibleFresh == visible # NoSnapshot => visible = Fresh

SnapshotComplete(s) == \A u \in s.units : u.id \in DOMAIN unitFiles /\ unitFiles[u.id] = u

(* A snapshot that callers hold finds the files of its units.              *)
SnapshotsIntact ==
    \A r \in Readers : readers[r] # NoSnapshot => SnapshotComplete(readers[r])

(* It does as long as files have been replaced once since it was taken.    *)
SnapshotSurvivesOneReplacement ==
    \A r \in Readers :
        readers[r] # NoSnapshot /\ readers[r].token >= generation - 1
            => SnapshotComplete(readers[r])

(* Files are removed in the end: between two calls, unless a file          *)
(* operation failed, every file is listed or waits for its last reader.    *)
NothingLeftBehind ==
    status = "open" /\ pc = "idle" /\ ~IoErrors =>
        /\ DOMAIN unitFiles = {u.id : u \in catalog.units} \cup Named("units", garbage)
        /\ DOMAIN headFiles = ({catalog.headsGeneration} \ {0}) \cup Named("heads", garbage)
        /\ \A g \in garbage : g.owner < generation

(* The rows behind the checkpoint came in rising times, over all tables: a *)
(* fact about what callers did, which append does not ask for.             *)
InTurn == \A i, j \in 1 .. catalog.checkpoint :
    /\ i < j
    /\ records[i].op = "append" /\ records[j].op = "append"
    => records[i].at < records[j].at

(* A table's sections follow each other in the order of the MANIFEST, and  *)
(* what has expired of it came before them.                                *)
InLine(t) ==
    /\ SectionsOrdered(catalog.units, t)
    /\ \A u \in catalog.units : \A r \in Section(u, t), q \in Logged(t) \ Stored(t) :
           q.at < r.at

(* A unit may still hold rows of a table that has been dropped: these are  *)
(* refused by name (compact.rs, fold.rs).                                  *)
HoldsDropped(units) == \E u \in units : \E r \in u.rows : r.table \notin DOMAIN tail.tables
Possible(units) == HoldsDropped(units) \/ Mergeable(units)

(* Compaction and retention are possible whenever they find something,     *)
(* unless a unit holds a dropped table: no order of seals, merges,         *)
(* retentions, drops and reopenings of rows accepted in turn leaves units  *)
(* that compact or retain would call corrupt.                              *)
MaintenancePossible ==
    Healthy /\ InTurn =>
        /\ \A level \in 0 .. 1 : Possible(SelectRun(level))
        /\ Possible(ClosedWindow(0, L1Window)) /\ Possible(ClosedWindow(1, L2Window))
        /\ \A at \in Timestamps :
               Expired(at + 1) # {}
                   => HoldsDropped(Expired(at + 1)) \/ Foldable(Expired(at + 1))
=============================================================================
