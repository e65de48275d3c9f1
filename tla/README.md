# LiteSDB in TLA+

LiteSDB is an embedded time-series database. Many member databases of one
process share a write-ahead log; each has its own MANIFEST, its immutable unit
files, its retention heads and its in-memory tail. This directory models
`core/src`: the shared log and the contract between it and its members, one
member database from append to retention, what its tables answer, its unit
files down to the column codecs, and the archive with its restore. TLC checks
the models on small instances; TLAPS proves theorems about them for every value
of the constants.

Paths below are relative to `src/core/src/`.

## 1. The system

| Component | State | Operations | Talks to |
|---|---|---|---|
| Shared WAL owner (`shared_wal/`) | segment files, BOUNDARY files, MEMBER-/RETIRED- registry files, one buffer, LSNs, per-member chains, budgets, poison flag | open (scan), register, append, batch, sync, collect, discard, recover a member | members call it under its mutex; it reads members' MANIFESTs when it is opened |
| Database engine (`db.rs`, `db_batch.rs`) | catalog, tail, heads, generation, garbage list, cached snapshot | append, create/drop table, batches, sync, snapshot | owner, tail, lifecycle_gc |
| Maintenance (`maintenance.rs`, `scheduler.rs`) | none of its own | seal, compact, retain, maintain | unit files, MANIFEST, owner's checkpoint |
| Deferred deletes (`lifecycle_gc.rs`) | generations (reference counted), garbage list | advance, reap, cleanup at open | snapshots hold generations |
| MANIFEST (`manifest/`) | one file, replaced atomically | load, publish | `fsutil/publish.rs`: write, sync, rename, sync the directory |
| Units (`unit/`) | one file each, never changed; a shared directory cache | seal, merge, read | the sections' column codecs |
| Retention (`retention/`) | heads file | fold | units, tail |
| Queries (`query/`) | a snapshot | scan, value_at, latest, sample | units by path, tail, heads |
| Aggregation (`agg/`) | none of its own | fold a scan into buckets | cursors of `query/` |
| Open (`db_open.rs`) | directory lock | load, replay, clean-up, takeover | all of the above |
| Archive (`archive/`, `shared_wal/archive*.rs`, optional feature) | ARCHIVE and ARCHIVE-PIN- files, an export index and a budget in the owner | enable, export, release, prepare_base, finish_base | holds the log's collection back |
| Restore (`archive/restore*.rs`, `sealed.rs`) | a directory with generations, CURRENT, FINISHED, `ready` | install, open, apply, finish, import | the owner registers the product |
| Codecs (`codec/`) | none | fixed width, NVR with DIFF2 or XOR, presence bitmaps, timestamps, selection | sections |
| Record, heads and MANIFEST byte formats, options, telemetry, CLI | – | – | – |

What makes the code hard to test: the buffer is shared, so one member's sync,
roll or collection changes what another member finds after a crash; a seal is a
log sync, a file, a rename, a directory sync and a log checkpoint, and the
process may die or lose power between any two; snapshots read files by path
while other calls delete them; all tables of a database share the unit files,
so the order of units has to fit every table's own clock; budgets are running
totals; a restore is a long chain of file operations, each of which may
fail or be the last before a crash; a section that may be written but not read
back loses its rows the moment the log gives them up. PROJECT.json lists these as hazards at their lines.

What makes each component correct: the owner never loses what it reported
durable, opens again, keeps its budgets, and gives room back; the database
never lists a file that is not there, holds every accepted row exactly once or
has folded it into a head, answers queries from exactly those rows, and deletes
a file only when nobody reads it; a unit file gives back what was sealed or
reports corruption, and can always be merged; an archiver gets only durable
history, can go on from where it was, and a restore keeps what it acknowledged.

## 2. Modules

| Module | What it is |
|---|---|
| `MemberLogs` | Abstract specification: one log, members with sequence numbers and checkpoints, crashes that cut it, forgetting. |
| `SharedWal` | `shared_wal/` in detail. |
| `SharedWalRefinement` | `SharedWal` implements `MemberLogs`. |
| `Database` | One member database: mutations, maintenance, snapshots, deletes, crashes, open. |
| `DatabaseRefinement` | `Database` uses its log as `MemberLogs` allows. |
| `DatabaseQueries` | scan, value_at and latest over a `Database` state. |
| `Streams` | One table on top of `MemberLogs`: versions, validity, retired series and fields, heads, sample and aggregate. |
| `UnitFiles` | Cutting the tail into sections, merging, checksums, damage, the directory cache. |
| `SectionSizes` | The memory charged for writing and for reading a section. |
| `Codecs` | Column codecs, presence, timestamps and the choice between forms. |
| `Archive` | Export, release and pinned bases against the member's log. |
| `Restore` | Restoring a base and chunks, finishing, importing: file operation by file operation. |
| `Folding` | What the library's fold computes, for any step: instantiated by the proofs of the log, the database, the archive, the streams and the unit files. |
| `StreamsProofs` (also of `MemberLogs`), `UnitFilesProofs` (also of `SectionSizes`), `SharedWalProofs`, `SharedWalContractProofs`, `DatabaseProofs` (also of `DatabaseQueries`), `ArchiveProofs`, `RestoreProofs` | Theorems, section 4. |
| `MCSharedWal`, `MCDatabase`, `MCStreams`, `MCUnitFiles`, `MCCodecs`, `MCArchive`, `MCRestore` | Model values and symmetry for TLC. |

The composition goes through `MemberLogs`: `SharedWal` implements it for all
members at once, `Database` implements it as its only member. `Database` may
therefore keep its records as one sequence instead of segments and frames.
`Streams` goes further and is built on the actions of `MemberLogs` themselves:
each of its steps that touches the log is one of theirs. `UnitFiles` EXTENDS
`SectionSizes`.

### SharedWal

State and code: `files` are the segment files with the bytes written and the
bytes synced; `evidence` the BOUNDARY files; `registered`, `retiredAt`,
`manifest` the registry and the members' MANIFEST checkpoints (`settled` is
what a power failure would leave of the latter); `frames` the records, placed by
pointer and chained by `prev`; the rest is `struct State` field by field
(`offset`, `lsn`, `durable`, `storage`, `charged`, `member`, `segments`).

Every operation holds the owner's mutex, so operations do not interleave with
each other, but crashes come between their steps: `pc` says how far the holder
has come. An append is BeginAppend, Preflight (batches only), then for each
frame Push, or Roll and PushRolled, with GcUnlink / GcEvidence / GcReturn when
the storage budget is reached, or AppendRefused. A seal releases the mutex
between its steps (SealSync, SealPublish, SealCheckpoint), so everything other
members do comes in between. Opening is the scan of `recover.rs`:
PublishBoundary freezes a torn tail, Open or CrashInOpen or OpenRefused follow.

Abstractions. A frame is a length, a pointer and links; its checksum is the
fact that a torn frame is noticed. A crash keeps a prefix of the log that
contains what was written (process death) or synced (power loss), with the
next record perhaps torn. The SHARED binding file is part of being registered.
A MANIFEST that fails to be published poisons the owner while nobody holds its
mutex, because `poison()` needs it. A takeover's MANIFEST does not change the
checkpoint and is left out. A kill followed by a power failure without an open
in between is the same as the power failure; the open in between syncs the last
file (`recover.rs:245`). Any MANIFEST whose rename was not synced may be taken
back by a power failure, also one the owner has read meanwhile: the owner's open
does not sync the member's directory (`registry.rs:171`). `promised` notes, when
the process dies, what each member was told and which checkpoint the owner acted
on; `TakenBack(m)` says that the MANIFEST found next is behind that one.
`durable_position` is (0, 0, 0) once the owner is poisoned, as its lock then
fails (`mod.rs:177`); what it would report otherwise is `KeptSeq`, `KeptPointer`.

### Database

State and code: `catalog`, `tail`, `heads`, `generation`, `garbage` are
`struct Engine`; `visible` is the cached snapshot and `readers` those callers
hold; `unitFiles`, `headFiles`, `manifest` are the directory, with `settled`
the MANIFEST a power failure brings back; `records` and `durable` the log.
`pc`/`job` say how far the holder of the engine's mutex has come: a batch
between two records; or a maintenance call that has written its file and has to
Publish (rename), Install (directory sync, state in memory), and, after a
compaction or retention, reap.

Seal, Compact and Retain compute the next catalog as
`successor_from_tail` / `successor_catalog` do; `Mergeable` and `Foldable` are
the conditions under which `compact::merge` and `retention::fold` refuse;
`Retired` tags replaced files with the generation that ends; `Reap` removes
those whose generation has no holder (any subset if file operations may fail).
PublishFails covers an error before or after the rename: before it the writer
may or may not be poisoned (an error of the unit file does not poison, one of
the MANIFEST does). Open waits for all snapshots to be dropped because a
`Generation` holds the directory's lock; it cleans up, replays, and may go on
to publish a takeover.

Abstractions. Each table has one stream and one schema version; `Streams` has
the rest. Times are positive so that floor 0 stands for None. A failed append
leaves no record, because `flush_locked` fails before the frame enters the
buffer; a failed batch leaves a prefix. `epoch` (the number of crashes so far)
tells rows apart whose time is used again after a crash. A failed takeover
counts as a crash. `revived` remembers the tables whose drop_table a crash has
taken back, for the properties only. The limits on units, tables and tail bytes are left out.
`append_requires_checkpoint` is constantly false outside test builds.

### Streams

State and code: `table` is `TailTable` (versions, rows, retirements, the last
time), `catalog` the table in the MANIFEST, `units` the rows of each unit,
`heads` and `floor` the retention heads; `history` and `buried` only serve
comparison. Row, version and retirement records pass the checks of
`tail_validate.rs` and are applied as in `tail.rs` (`Mutate`); `Sync`, `Seal`,
`Collect`, `Retain` (as `fold.rs` does, in-memory tail included) and `Restart`,
a crash with the replay of the open after it, complete it. `ValueAt`, `LatestOf` and `Sample` follow
`primitives.rs` and `batch.rs`, `Aggregate` follows `agg/bucket.rs` and
`agg/fold.rs`; they are compared with answers computed from `history` alone.

What the comparison taught, and what the definitions of the true answer
therefore say: when a series and a field are both retired the later cutoff
decides, so a fact hidden by a field's retirement at 5 is visible again at 7 if
its series is retired at 10. A row after a retirement revives the stream, and
with it facts from before the cutoff, unless a retention has folded them as
dead in between (`buried`): retention is not transparent there. A retention
folds with retirements that are not yet synced, so a crash may lose the
retirement and keep its effect, as with an unsynced drop_table. `latest` asks
at the table's last time, so the last fact of a retired series shows until a
newer row of the table comes.

Abstractions. Publications are atomic, units hold one table's rows and are not
compacted: `Database` has the steps, the sharing and the compaction.

### UnitFiles and SectionSizes

A row is its time, its version and the streams it has a fact for. `TailSections`
cuts the tail into sections as `seal.rs` does, by rows, by versions and by
halving what exceeds the memory; `Merge` is `compact.rs` with its reader of one
section ahead; reading follows `source.rs`: a directory, a body, the checksums
and the integrity memo that remembers which were compared. While the database
is closed a file may be damaged: header or footer, a body, or a directory
entry. The cache keeps pages with ticks, evicts under its budget and renumbers
when its clock ends. `SectionSizes` holds the four formulas of `section.rs` and
`section_decode.rs`.

Abstractions. Damage while the file is open is not modelled, because the memo
says the file was checked. All tables are stamped from one clock, and dropped
tables are left out (`Database` has both). Which files live is `Database`'s.

### Codecs

Everything of `codec/` as functions on sequences: predictors, NVR tokens with
their lengths, fixed width, bitmaps, `select`. Bytes have `ByteBits` bits and
words `WordBytes` bytes; a form whose numbers do not fit that width is refused, not
wrapped. Each state is one
input: a column of rows, a list of times, or a foreign byte stream.

### Archive and Restore

`Archive`: `records`, `first`, `cuts`, `durable`, `checkpoint` are the member's
log; `root` the directory with `settled`, the states a power failure may bring
back; `prot` and `index` are `Protection` and the export index. Calls go
through the steps of their publications (`pc`, `job`), crashes and errors come
between. A cursor's hash over the history is the history itself. The log is the
member's own; `SharedWal` says what several members do to each other.

`Restore`: a call is the list of file operations it makes, in their order, each
on an area (`root`, `gens`, `ready`, the owner's registry) whose states since
its last sync are all possible after a power failure. An error or a crash may
come before every one of them. Retries of a chunk, a second builder after a
crash and the import with its own crashes are part of the run. A crash before
the RESTORE marker is published leaves a directory that is refused as "target
is not this restore": nothing has been acknowledged then. The entry of the
target in its parent directory is never synced and is taken as durable.
Importers import what finish returned, into one owner.

## 3. What TLC checks

`CHECK_DEADLOCK FALSE` everywhere: the bounds stop the models, and a poisoned
owner, a poisoned writer or a refused open really end the program's life.

| Run | Instance | Shows |
|---|---|---|
| `wal_crashes` | 2 founding members, 5 LSNs, 2 crashes, torn headers, renames taken back, tight budgets; 1.73M states | What durable_position said is found by the scan (PromisesKept), it is exact and never falls while the owner is healthy; files are refused only in the headless case of section 5; both but for a member whose MANIFEST was taken back (section 5); totals are exact, accepted batches never stop half way, checkpoints give room back. |
| `wal_members` | one member founded, one registered later that may be discarded; 4 LSNs, 1 crash; 0.49M | Linked, readable records for every member whatever the other does; the log implements `MemberLogs` up to a MANIFEST taken back; a call gives the mutex back. |
| `streams` | 1 series, 2 fields (one added by a version), 4 records, times up to 3; 0.29M | Every answer is what the accepted records say; the log never forgets what an open needs. |
| `db_crashes` | file errors, failed publications, takeover, batches, 2 crashes; 0.38M | The files a MANIFEST lists exist; the database opens; `visible` is fresh; the log is used within `MemberLogs`. |
| `db_snapshots` | 2 tables, one of them dropped, a reader, batches, 5 records, 1 crash; 1.91M | Units, tail and heads hold exactly the accepted rows; expired tables keep their heads, unless a crash took back the table's own drop (section 5); clocks survive; a snapshot outlives one replacement; no file is left behind. |
| `db_queries` | 2 tables with clocks of their own, one droppable, 6 records; 0.56M | Scans are exact or, of a table whose sections are out of order, refused; lookups are exact where sections are in line; when rows came in turn both hold always and maintenance is refused only for units of a dropped table. |
| `archive` | 1 base, 4 records, budget of 2 bytes, file errors, 1 crash; 0.82M | Archivers get durable history only and can go on from any cursor; a pinned base can be extended; the owner opens. |
| `restore` | a base at 1, records up to 3, 3 faults; 1.82M | Restores can be resumed, keep what they acknowledged, hold each record once; retries are recognised; the owner opens with the product. |
| `codecs` | all columns of up to 6 cells over 5 values, all streams of up to 4 bytes over 12; 0.20M | Round trip, and only canonical streams are accepted. |
| `unit_files` | 2 tables, 2 streams, 3 rows, sections of 2 rows, 1 damaged file, 1 reopening; 0.44M | Reads are exact or report damage; merging is possible; the cache is within its budget and in order. |
| `db_replaced_twice`, `db_stale_lookup` | | Counterexamples, section 5. |

Bounds. Segments hold two frames (8 bytes: a header of 2 and frames of 3) and
the storage budget two segments, so four frames already roll, fill the budget
and collect; the buffer holds one frame, so the second one flushes. Batches of
two cross a roll. Two crashes are the least that interrupt a recovery or a
later collection. In `Database` two units make a compaction, a third one a
second replacement; windows of 2 and 4 put some of the times 1..3 on either side
of a window's end (`db_snapshots`, which has five records for the drop to come
between two retentions, has larger windows and merges by level only); two tables are the least that share units. In `Streams` the
cutoffs 1 and 2 lie before, at and after rows, and a validity of 2 ends within
the times asked about. A budget of two bytes is what one export and one append
compete for. Three faults in a restore are a failed call, a crash in its retry
and another one in the clean-up. Words of two 5-bit bytes need every length of
token and every width; six rows need a bitmap of two bytes. A working set of
470 takes two rows with two facts but not three.

Fairness. Only `CallReturns` in `wal_members` needs it: weak fairness of the
steps of the call that holds the mutex (`CallStep`), a thread that keeps
running. No fairness is assumed of callers, crashes or maintenance.

## 4. What is proved

`StreamsProofs`, its first part: **Sound**, `Spec => [](TypeOK /\ Complete /\ Ordered)`, for
any members, values and bound. Completeness alone is not inductive: a crash
could cut the log below a checkpoint, or a new record could take a number that
is there already. `IInv` adds `Bounded` (no record is newer than its member's
last one, checkpoints are not ahead, retired members have given everything up).
The proof has one lemma per action; the crash lemma rests on `SeqAtMax`, which
says that `SeqAt` chooses a maximum, and that on the well-foundedness of <.

`SharedWalProofs`: **TypeCorrect**, `Spec => []TypeOK`, for any members, frame
lengths, header, segment, buffer and budget sizes that meet the module's
assumptions, with and without torn headers. TypeOK is
inductive as stated; it carries the facts later proofs need (the active
segment has a file, a call holds the mutex of an open owner only).
The work is in the operators over finite sets: `MaxOfFinite`, `MinOfFinite`
(from the well-foundedness of strict inclusion) and the lemmas about
what a scan computes.

`DatabaseProofs`: **FilesStay**, **OpensAlways** and **SnapshotsFresh**, that is
`Spec => []FilesPresent`, `[]AlwaysOpens` and `[]VisibleFresh`, for any tables,
readers, times and bounds. Four catalogs may be loaded or installed next: the
MANIFEST in the directory, the one a power failure brings back, the engine's,
and the one a publication is about to install. `CatalogsKept` says that each
lists files that are there, that no deferred delete names, and a checkpoint the
log has reached. That is not inductive on its own: `OneCatalog` says which of
the four are equal at which step, so that a delete decided by the engine spares
all of them; `JobOK` that what is about to be retired is not in the next
catalog; `GarbageOld` that deletes never name the next identifier to be
written; `HeadsOK` and `LogOK` that heads and log are what the engine has in
memory; `Control` ties the steps together. There is a lemma for each thing a
step can do to a kept catalog (reap, write a unit, write heads, tag, install)
and one step per action.

Also in `SharedWalProofs`: **PositionsRise**, `Spec => DurableNeverFalls`, for the
constants of TypeCorrect: while the owner is open and healthy; a poisoned one
reports zeroes. A member behind the last sync reports its last record,
one ahead of it the record noted in `durableSeq`; the critical steps change from
the first to the second (an append after a sync, `AcceptDurable`) or put a member
at the checkpoint of its MANIFEST (its first opening, `OpenMemberDurable`).
`DurableInv` says that notes are behind the records, that only open members
append, and that a member never opened has accepted nothing. The last also holds
after a scan, because the scan refuses frames of a member without a MANIFEST.

Also in `DatabaseProofs`: **SnapshotsSurvive**,
`Spec => []SnapshotSurvivesOneReplacement`, with the invariant above and `SnapInv`: a reader's snapshot is of
no later generation than the engine's; unless it is older than one generation
its files are there and every delete waiting for one of them bears its token;
one of the current generation lists only units that are live. A seal only adds
units (`SealOnlyAdds`), so a snapshot stays current through it.

Also there: **NothingStaysBehind**, `Spec => []NothingLeftBehind`, with both
invariants above and `FilesInv`, which is about the histories in which no file
operation has failed since the last open. A file is listed, waits for its
delete, or belongs to the publication under way, which is about to list what it
wrote and to tag what it replaces (`Accounted`); what a publication replaces is
listed until then (`ReplacedListed`); and a file waits under one tag only
(`DeletesOnce`), so that a delete carried out leaves no entry for a file that is
gone. A crash in the middle of a publication breaks the first; the open that
follows removes what its catalog does not list.

The second half of `DatabaseProofs`: what the four catalogs and the tail say of the log.
**RowsStay** (nothing accepted is lost or held twice), **ClocksStay**
(`Spec => []ClocksExact`), **HeadsStay** (`[]HeadsKept`) and **FactsStay**
(`[]FactsAreTheLog`) hold for any tables, times and bounds, drops and crashes
included. Of a table in `revived`, whose drop a crash has taken back, only this
is claimed, that a head it has is one of its expired rows: a retention in between
may have forgotten it (section 5). The invariant is `IInv` and `FInv`: the log is legal (`LogFacts`: tables are numbered in order, rows go to
live tables and later than the last); each catalog that may be loaded next means
the log up to its checkpoint (`CatalogsMeant`: clocks, highest table, and each row
once in its units or below its floor, with heads no older than what expired of
every table not in `revived`); the engine's tail is `TailAt`, what a replay of the log from the checkpoint gives
(`EngineFacts`), also in the middle of a batch (`BatchFacts`) and for the tail a
publication is about to install (`JobFacts`). `TailAt` is defined from the set of
records, so that seal, compaction, retention and reopening are compared with the
log and not with each other; that the fold of `Replay` computes it is shown by
the least prefix for which it would not, on the run `Folding` gives.

`Folding` stands under this proof and those of four other modules. The induction
theorems take operators, which the provers cannot instantiate, but an INSTANCE of a module whose
constant is an operator can be cited: `RunExists` says, once and for any step,
that `FoldLeft` is the end of a run that takes the step for each element in turn,
and `RunStays` that a set no step leaves holds the end; both by the least position
where it would not be so.

Also there: **MaintenanceStaysPossible**, `Spec => []MaintenancePossible`: in
every state in which the rows behind the checkpoint came in rising times
(`InTurn`), whatever else happened. append does not ask for such times, so this
is a condition on the history and not on the constants; of rows out of turn the
claim is false (section 5). `OrderInv` says of each catalog that may be loaded
next that, if the rows of its part of the log are `Ascending`, its units cover
intervals of time that do not meet, and everything that has expired of a table
is older than all of them (`Apart`). `LineOrder` makes of that a total order of
units. Then a seal adds the latest unit, what select_run and
select_closed_window take has no stranger in it (`Neighbours`), so that a merge
leaves intervals apart, and a retention takes the oldest. A catalog depends only
on records behind its checkpoint, which no crash takes away (`OrderAgrees`).
Strictly rising is needed: with equal times in two tables a closed window of a
single unit is merged into one with a higher number, which may then sort behind
a unit with the same first time.

Also there: what queries answer, from the three invariants above.
**ScansStayExact** (`Spec => []ScansExact`) and **LookupsStayExact**
(`[]LookupsExact`), for callers with any clocks, with drops and crashes. A scan is
exact, or is refused as corrupt where the sections of its table are out of order.
A lookup is exact for every table that is `InLine`: sections in order, and later
than what has expired of it. `TurnInLine` shows that all tables are when rows
came in turn. Of a table that is not, the lookup may be wrong (section 5).
`Held` says where the rows of a table are: in the tail, in exactly one unit, or
expired below the floor, and that the tail is later than the rest (`TableRows`:
each table's own clock rises). So a scan's plan misses no row and the tail always
joins (`TailFollows`, `ScansMean`). A lookup walks the units from the newest
(`NewestIs`, `WalkFinds`): the first row it meets that is not after the time asked
for is the latest such row of all, because no earlier section can hold a later
one, and when the walk meets none the head answers (`HeadCovers`: it is the latest
row that expired).

`SharedWalProofs` and `SharedWalContractProofs`: what the files of the shared log
hold. The invariant `LogInv` (**LogHolds**) has ten parts; that the steps of a
running owner and a crash keep it is in the first module, the opening and what
follows from it in the second. Of the log: frames lie one behind the
other (`FramesApart`), each segment holds exactly the LSNs from its number to its
successor's (`Numbered`), a member's frames rise and are chained (`SeqsRise`,
`Linked`). Of the files: what may be empty or torn, and that every boundary
describes its segment (`Boundaries`); what is durable is synced, what is not lies
in the active segment behind the synced bytes (`DurableFrames`). Of the owner's
memory: the cursor, the index and the members agree with the files
(`CursorTrue`, `IndexTrue`, `MembersTrue`). Of the MANIFESTs: what they rely on is
durable (`ManifestsKept`), also while a seal is under way (`HandlesTrue`). Of a
process that has died: the log goes as far as was promised (`LeftBehind`). It is
inductive together with TypeOK and `DurableInv`; TLC checked it first under the
bounds of the `wal_` runs. From it follow
**RecordsStayReachable** (`Spec => []RecordsReachable`),
**DurablePositionsExact** (`[]DurablePositionExact`), **PromisesAreKept**
(`[]PromisesKept`) and **CorruptHeadlessOnly** (`[]CorruptOnlyHeadless`), with
power failures that take back any rename not synced. Both of the last name the
member it costs (`TakenBack`), section 5. The lemmas say what can
happen to a log at all (`LogSame`, `LogFileAdded`, `LogAppended`, `LogFileGone`,
`LogCut`), that the scan counts LSNs as the owner did (`ScanCounts`), that it
accepts (`ScanAccepts`), and one lemma per action puts them together. The hard
steps are a crash, where the torn tail and the synced prefix have to be told
apart (`CrashFiles`), the unlinking of a segment, which must leave every member's
chain whole above its checkpoint (`GcUnlinkLog`), and the opening of an owner,
where all of the above is made from the files alone (`OpenLog`).
DurablePositionExact and RecordsReachable are about members that have not been
retired: a retired member's position is not kept, and its frames may go.

`SharedWalContractProofs`: the limits of the shared log, with every kind of crash.
**BudgetsAreExact** (`Spec => []BudgetsExact`): the totals are the sums they stand
for. `BudgetsKept` says it also in the middle of a roll, where the index has been
charged for a segment that is not there yet (`RollCharge`). A sum is counted as a
set of pairs (`Pile`), so that it does not depend on the order of a fold.
**AcceptedBatchesFit** (`[]AcceptedBatchFits`): what the preflight would still
predict for the rest of the batch fits (`BatchFits`), and the prediction made
before an append is that of the record plus the one made after it (`PlanGoesOn`).
The plan is a fold over the records, an instance of `Folding`.
**CapacityAlwaysReturns** (`[]CapacityReturns`): `Small` says that no file outgrows
a segment, even as a crash leaves it (`CrashParts`: a torn record is shorter than
a whole one), that the owner knows the active one's length, and that a segment's
entries are not ahead of its members. Then only the active segment stays, and the
limit has room for it and the next (`2 * SegmentBytes <= MaxBytes`).
Two assumptions are for these proofs: a record has some length
(`Lengths # {}`), and the index limit admits the founders and a first
segment, as it did when they were registered (`LimitsAssumption`).

With this every invariant of `SharedWal` that a run checks is proved.

Also in `SharedWalContractProofs`: **SharedWalImplements**,
`Spec => ImplementsMemberLogs`, for every step but the power failure that takes
back a MANIFEST the owner had relied on (`TakesBack`). A seal counts for the
abstract log once the owner acts on it or finds it (`AbstractCheckpoint`). The abstract log of a
set of frames is `LogOf`; `LogGrows` and `LogCutTo` say what one more frame and a
cut do to it. An append with its roll is one Accept, a sync a Persist, the
MANIFEST a seal publishes a Checkpoint (`HandleTrue`: what it names is durable),
the unlinking of a segment a Forget (`GoneWasGivenUp`), the death of a process a
Crash; opening the owner is not seen, since the scan finds the number every
member had (`OpenUnseen`). `BoundsInv` keeps the model's own bounds: a call
reserves the LSNs of its whole batch. With Sound, it follows for the real log
what `Complete` and `Ordered` say of the abstract one.

Also in `DatabaseProofs`: **DatabaseImplements**, `Spec => ImplementsMemberLogs`,
assuming `Founded = 0` since `MemberLogs` starts with an empty log. `LogInv`
adds that the MANIFEST is ahead of the one a power failure leaves only while the
whole log is durable. So a power failure that keeps it looks like a checkpoint
from outside, and one that loses it like a crash, never like both at once.

`UnitFilesProofs`: **WrittenIsReadable**, a section that fits the memory for
writing is no longer than a section may be and can be read within the memory
for reading, for every shape and all limits of which the reader's is at least
twice the writer's (`BytesAssumption`; the code has 4 and 8 MiB);
**SmallerNeedsLess**, smaller sections need no more, so halving ends.

Also there: **CacheIsExact** (`Spec => []CacheExact`), for any tables, budget,
overhead and last tick of which the clock has room for as many pages as the
budget (`LimitsAssumption`; the code's clock has 64 bits, the budget 32). The
invariant is `IInv`: every live unit has a file, every file a directory of at
least one entry (`FilesOK`), and while the database is open the cache is
`CacheOK`, which is CacheExact with what it rests on. The total is counted as a
set of slices (`Pile`), one per charged unit of a page, so that it does not
depend on an order; one page more or less moves it by its charge (`PileLess`).
Every page is charged more than the overhead, so the budget bounds their number
(`PagesFit`, `ClockRoom`), and a renumbered clock is never at its end. Renumbering
gives each page the number of pages before it, which keeps their order
(`RankIs`). An eviction has a page to take: after k turns either the new page fits
or k pages are gone, and without pages nothing is used (`ShrunkOK`), so the three
corruption errors of evict_oldest (`unit/dircache.rs:125`) cannot happen. Readers
carry a cache through directories, units and tables by folds (`ReaderOK`,
instances of `Folding`), and stop at damage without spoiling it. Damage is done
while the database is closed, and an open starts with an empty cache.

`ArchiveProofs`: **ArchiveInvariant**, `Spec => []IInv`, for any lengths, budget,
pins and bounds, and from it the four invariants of the run:
**OwnerStaysUsable** (`[]AlwaysUsable`), **ExportedIsDurable**
(`[]ArchivedIsDurable`), **ExportsAlwaysContinue** (`[]ExportsContinue`) and
**BasesStayExtendable** (`[]BasesExtendable`). The root of the archive is written
and then synced, so a power failure may bring back any root since the last sync;
the invariant is about all of them at once (`settled`). `RootsOK`: the cursors of
each lie on the durable history, no pin is behind its release, and the records
behind that release are there. `OneArchive`: once something was protected or
exported, all of them are of the same archive, so that an old root found after a
crash continues the same history. `Protected` relates the owner's memory to them:
what it protects is not ahead of any release that may be found, and equal to it
when no step is under way. `Indexed` and `Received` put the export index and what
archivers hold on that history, `Copies` ties a finished base to its pin, and
`Working` says how far the call under way has come. A cursor's digest is the
records it stands for, `At`; that it survives an append and a crash (`Agree`) is
what most lemmas need. There is one lemma for each action; the export charges and
pushes records by folds, both instances of `Folding`.

`RestoreProofs`: the five invariants of the run, for any base, chunks and number
of faults: **RestoreResumes** (`[]Resumable`), **ProgressIsKept**
(`[]AcknowledgedKept`), **RestoreIsExact** (`[]RestoredExact`),
**RetriesAreAccepted** (`[]RetriesAccepted`) and **OwnersOpen** (`[]OwnerOpens`).
None of them is inductive. A power failure may bring back any combination of what
the four areas held since their last syncs, so the invariant has to hold of all
combinations (`Good`): each root agrees with each choice of generations, product
and registry. What CURRENT names is in `gens` until FINISHED is there (`GensOK`),
what FINISHED names is in `ready`, bound only if registered and otherwise still
verified by SEALED (`ReadyOK`, `OwnerOK`), and RESTORE-WORK goes only when no
root without FINISHED may come back (`Marked`). And while a call runs, what is
still to do has to be possible. `Leads(calm, c, p, S, q)` says this of a list of
operations: each of them can be made in its turn, none is a refusal, and each
keeps `Good`, from the world `p` to `q`; where a failure would be passed over a
builder can go on. `InstallLeads`, `OpenLeads`, `ApplyLeads`, `FinishNewLeads`,
`FinishAgainLeads` and `ImportLeads` run the list of each call, put together from
single writes and syncs (`WriteGens`, `SyncRoot`, ...). The invariant is
`IInv == Shaped /\ GoodNow(Call) /\ JobOK /\ BuilderOK`; `JobOK` holds the list
that is left, `BuilderOK` ties an open builder to CURRENT or FINISHED. A step, a
failure and a crash then stay within the worlds the call knows (`Within`).

`StreamsProofs`, the rest: **AnswersAreExact** (`Table => []AnswersExact`:
value_at, latest and sample) for any series, fields, rows, times, durations and
bounds. Answers are computed from what was kept, the truth from all records that
were accepted, so the property is not inductive.
`StreamsInv` adds to the invariant of the log what a table is after the first n
records of a history, `TableSays`: its rows, the versions with the time of the
first row written with each (`VersionsSay`), and of every series and field the
cutoff no later row has ended (`RetiredSay`). `TablesOK` says this of the
MANIFEST's table, up to the checkpoint, and of the one in memory, up to the last
record; `UnitsOK` that the units hold the checkpointed rows at or above the floor,
in stretches of time that do not meet; `HeadsOK` that the newest expired fact of
each stream is in its head or was dead when it was folded. `ApplySays` shows that
one record more keeps `TableSays`; a replay is a run of it (`ReplaySays`, an
instance of `Folding`), so a crash is shown to give back exactly the shorter
history. The hard parts are that a version a row was written with stays the one
its time is resolved to (`VersionFound`), that a retention which goes by its own
clock finds the newest fact of a stream (`FoldFinds`), and the revival of what was
retired (`HoldingNext`). From the invariant, `ValueIsTrue` compares a lookup with
the truth. A sample is one pass: `ScanIs` says what it visits, `SlotIs` that no
fact comes between the one shown and the time of its slot, and the pass is a run
whose states have the first slots right (`SampleIs`); `GridIs` that there are as
many slots as times were asked for, by arithmetic with division.
**AggregatesAreExact** (`Table => []AggregatesExact`) follows from the same
invariant. `PassesIs` gives each fact of the pass its row and the number of its
bucket: the numbers never fall (`IndexRises`), and the rows with one number are
those whose times are in that bucket's span (`SpanIs`). `StateAfter` is what the
pass knows after each fact, the closed buckets and the rows counted in the open
one; `PassStep` shows that a fact either goes into the open bucket
(`BucketAdd`: its count, nulls, extremes and sum are those of one row more) or
closes it, when no later fact can belong to it (`PartNext`) and it is the next of
the busy ones (`NthSeen`). `GeometryIs` ties the bounds and the mark of being
partial to the table's last time: cut off by the range, open for rows to come
(`MayGrow`), or filled up to its last tick by the newest row of all (`JustFilled`,
section 5). Extremes of floats are compared by the key of
their bits, which `OrderIs` shows to have the order of the numbers.
`CellsAssumption` is what the proof needs of the constants, as `types/value.rs:10`
has it: a cell is null or unsigned, and a float's bits have one sign bit in front.

With this every invariant that a run checks is proved of `MemberLogs`, `SharedWal`,
`Database`, `DatabaseQueries`, `Archive`, `Restore` and `Streams`, and the cache of
`UnitFiles`. Model-checked only: `ReadsExact` and `MergePossible` of `UnitFiles`,
and the codecs (`RoundTrip`, `OnlyCanonical`). What they are about is computed by
recursion on the data itself, the halving of sections and the bits of a stream,
and needs an induction over data. Liveness (`CallReturns`) is out of the
prover's reach.

## 5. Where code and tests disagree

Two runs end in a counterexample on purpose:

- `db_replaced_twice`: a snapshot loses a unit that is replaced two generations
  after it was taken (`lifecycle_gc.rs:53`). `SnapshotSurvivesOneReplacement`
  is what does hold.
- `db_stale_lookup`: with a table whose rows come late, value_at and latest may
  return an older row (`query/batch.rs:109`). `LookupsExact` says for which tables
  the answer is right.

More disagreements can be seen by changing a passing run:

- `DbStaleLookup.cfg` with the invariant `ScansExact`: in the same layout a
  scan is answered with a corruption error (`query/plan.rs:137`).
- `MaintenancePossible` without its condition `InTurn` fails in `db_queries`:
  late rows make units overlap, and a run of them is refused
  (`unit/compact.rs:239`).
- `MaintenancePossible` without `HoldsDropped` fails there too: units with
  sections of a dropped table are refused by compaction and retention
  (`unit/compact.rs:281`, `retention/fold.rs:83`).
- `HeadsKept` without `\ revived` fails in `db_snapshots`: a retention after an
  unsynced drop_table removes the head of a table that a crash brings back
  (`retention/fold.rs:93`). A head such a table gets later may be older than one
  that was lost, so `HeadsLatest` and `LookupsExact` except it as well.
- `PromisesKept` without `TakenBack` fails in `wal_crashes`: the owner's open
  trusts a MANIFEST whose rename may still be undone
  (`shared_wal/registry.rs:171`), collects by it, and after a power failure the
  older MANIFEST asks for records that are gone.
- `CorruptOnlyHeadless` in `wal_crashes` names two cases instead of excluding them: a
  headless segment that an open froze as empty, once it is the lowest file left,
  is refused by every later open (`shared_wal/recover.rs:79`). A MANIFEST taken
  back, as above, is the other.

Also seen, and not called wrong: rows accepted below the retention floor can
never be asked for; `retain` returns "retention floor must advance" while the
oldest prefix consists of such late units; a bucket whose last tick holds the
table's newest row is final, as times strictly rise, but `agg/fold.rs:175` calls
it partial until a later row comes (nothing says what partial means, and the
tests' own reference, `lifecycle_matrix_tests.rs:150`, does the same:
`partial: latest_fact.0 < 100`); a damaged directory entry whose
checksum was only compared, not computed, can hide a section from an answer
(`ReadsExact` allows for that and for nothing else); the points under Streams
and Restore above.

## 6. Plan

Done: the log, the database, its queries, streams, aggregation, unit files,
codecs, archive and restore, in that order. Left, by value:

1. Proofs: `MergePossible` and `ReadsExact` of `UnitFiles`, from the lengths of their sections.
2. `VisibleSnapshot`: the engine's and the visible snapshot's mutexes step by
   step, shown to implement an atomic register; the nesting of locks.
3. The limits on live units, tables and tail bytes, checked after the files
   have been written.
4. Enabling an archive again with other options, and export_sealed.

## 7. Not modelled

The byte layout of log records, heads files and the MANIFEST; the standalone
WAL under `wal/`, which is compiled for tests only; options, telemetry, CLI and
examples; the limits on live units, tables, tail bytes and output; the order in
which the inner mutexes are taken. Of the archive: enabling it again with other
options, the pins' check in `retire.rs`, export_sealed. Temporary files of a
publication and their clean-up. Of the disk: writes reach a file in order and
fsync failures lose nothing that is not at risk anyway; unlinks are durable at
once (a resurrected unit or head file would be removed at the next open, a
resurrected segment scanned again). `Database` and `SharedWal` are of the build
without the archive feature, where collection has no other limit.
