----------------------------- MODULE SharedWal -----------------------------
(***************************************************************************)
(* The shared write-ahead log (core/src/shared_wal): one owner directory   *)
(* holds the segment files of every registered member database.  Members   *)
(* append frames to one in-memory buffer, a sync makes everything accepted *)
(* so far durable, a member's checkpoint (published in the member's own    *)
(* MANIFEST) lets segments go, and opening the owner scans the surviving   *)
(* files and rebuilds the state.                                           *)
(*                                                                         *)
(* All operations hold the owner's mutex, so they interleave with crashes  *)
(* but not with each other; `pc` tells how far the operation that holds    *)
(* the mutex has come.  Sealing a member is the exception: it takes the    *)
(* mutex twice and publishes the MANIFEST in between.                      *)
(*                                                                         *)
(* The compiled configuration is the one without the `archive` feature:    *)
(* Member::archive_limit is unbounded.                                     *)
(***************************************************************************)
EXTENDS Integers, Sequences, FiniteSets, SequencesExt

CONSTANTS
    Members,        \* member databases (SharedDbId)
    Lengths,        \* lengths a frame can have
    MaxBatch,       \* bound: longest batch of try_append_batch
    HeaderLen,      \* SEGMENT_HEADER
    SegmentBytes,   \* SharedWalOptions::segment_bytes
    BufferBytes,    \* SharedWalOptions::buffer_bytes
    MaxBytes,       \* SharedWalOptions::max_bytes
    IndexBytes,     \* SharedWalOptions::index_bytes
    MemberCharge,   \* index bytes of a registered member
    SegmentCharge,  \* index bytes of a segment (128 in the code)
    EntryCharge,    \* index bytes of a member's entry in a segment (96)
    Founders,       \* members registered, initialised and open at the start
    TornHeaders,    \* may a crash leave a segment file shorter than its header?
    Retirable,      \* members discard_unpublished may be called for
    MaxLsn,         \* bound: frames accepted in one history
    MaxCrashes      \* bound: crashes in one history

ASSUME MembersAssumption == IsFiniteSet(Members) /\ Founders \subseteq Members
ASSUME LengthsAssumption ==
    /\ HeaderLen \in Nat \ {0}
    /\ Lengths \subseteq Nat \ {0} /\ Lengths # {}
    /\ \A len \in Lengths : len <= BufferBytes /\ HeaderLen + len <= SegmentBytes
ASSUME LimitsAssumption ==
    /\ {SegmentBytes, BufferBytes, MaxBytes, IndexBytes} \subseteq Nat
    /\ {MemberCharge, SegmentCharge, EntryCharge} \subseteq Nat
    /\ 2 * SegmentBytes <= MaxBytes
    /\ SegmentCharge + MemberCharge * Cardinality(Founders) <= IndexBytes
ASSUME BoundsAssumption ==
    /\ {MaxBatch, MaxLsn, MaxCrashes} \subseteq Nat
    /\ TornHeaders \in BOOLEAN

VARIABLES
    (* the owner's and the members' directories *)
    files,      \* segment number -> [first |-> LSN, length |-> bytes written,
                \* synced |-> bytes a power failure cannot take]
    evidence,   \* segment number -> accepted boundary (BOUNDARY- file)
    registered, \* members with a MEMBER- and a SHARED file
    retiredAt,  \* member -> sequence in its RETIRED- file, or None
    manifest,   \* member -> checkpoint of the MANIFEST a reader finds, or None
    settled,    \* member -> checkpoint of the MANIFEST a power failure leaves
    (* frames: those in the files and those still in the buffer *)
    frames,
    (* struct State *)
    owner,      \* "open", "down" or why SharedWal::open refused the files
    poison, segment, offset, lsn, durable, storage, charged, member, segments,
    (* the operation holding the mutex, the open handles *)
    pc, call, opened, sealing,
    (* history *)
    promised,   \* member -> its durable position when the process died, and
                \* the checkpoint the process let segments go by
    crashes

disk == <<files, evidence, registered, retiredAt, manifest, settled>>
index == <<storage, charged, member, segments>>
cursor == <<segment, offset, lsn, durable>>
vars == <<disk, frames, owner, poison, cursor, index, pc, call, opened,
          sealing, promised, crashes>>

None == -1
NoPointer == [segment |-> 0, offset |-> 0]
Before(p, q) == \/ p.segment < q.segment
                \/ p.segment = q.segment /\ p.offset < q.offset

With(f, x, v) == [k \in DOMAIN f \cup {x} |-> IF k = x THEN v ELSE f[k]]

(* What a call asks for: the member, the lengths still to append, whether  *)
(* it is a batch, whether this attempt has collected garbage already, and  *)
(* where garbage collection returns to.                                    *)
NoCall == [id |-> None, raws |-> <<>>, batch |-> FALSE, tried |-> FALSE,
           return |-> "idle"]

FramesOf(m) == {f \in frames : f.id = m}
FramesIn(n) == {f \in frames : f.at.segment = n}
FrameEnd(f) == f.at.offset + f.length
LowestFile == Min(DOMAIN files)
LastFile == Max(DOMAIN files)

(* Frames the operating system has been handed: State::buffer is the rest. *)
Written(f) == f.at.offset < files[f.at.segment].length
BufferLength == offset - files[segment].length

NoPromise == [seq |-> 0, checkpoint |-> 0]
FreshMember == [initialized |-> FALSE, retired |-> FALSE, checkpoint |-> 0,
                latest |-> NoPointer, seq |-> 0, lsn |-> 0,
                durableSeq |-> 0, durablePointer |-> NoPointer]

(***************************************************************************)
(* SharedWal::open on an empty directory, and open_db of the founders.     *)
(***************************************************************************)
Init ==
    /\ files = [n \in {1} |->
                  [first |-> 1, length |-> HeaderLen, synced |-> HeaderLen]]
    /\ evidence = <<>>
    /\ registered = Founders
    /\ retiredAt = [m \in Members |-> None]
    /\ manifest = [m \in Members |-> IF m \in Founders THEN 0 ELSE None]
    /\ settled = manifest
    /\ frames = {}
    /\ owner = "open" /\ poison = FALSE
    /\ segment = 1 /\ offset = HeaderLen /\ lsn = 0 /\ durable = 0
    /\ storage = HeaderLen
    /\ charged = SegmentCharge + MemberCharge * Cardinality(Founders)
    /\ member = [m \in Members |->
                    [FreshMember EXCEPT !.initialized = m \in Founders]]
    /\ segments = [n \in {1} |-> [length |-> HeaderLen, members |-> <<>>]]
    /\ pc = "idle" /\ call = NoCall
    /\ opened = Founders /\ sealing = [m \in Members |-> "no"]
    /\ promised = [m \in Members |-> NoPromise] /\ crashes = 0

(* SharedWal::lock, and no other operation holds the mutex. *)
Locked == owner = "open" /\ pc = "idle" /\ ~poison

-----------------------------------------------------------------------------
(***************************************************************************)
(* Flushing and syncing.                                                   *)
(***************************************************************************)

(* flush_locked: hand the whole buffer to the operating system. *)
FlushedFiles == [files EXCEPT ![segment].length = offset]

(* Mutant: sync_locked flushes but does not call sync_data. *)
FlushedOnly == IF durable = lsn THEN files ELSE FlushedFiles

(* sync_locked: nothing to do, or flush and sync_data the active segment. *)
SyncedFiles == IF durable = lsn THEN files
               ELSE [FlushedFiles EXCEPT ![segment].synced = offset]
SyncLocked == files' = SyncedFiles /\ durable' = lsn

SyncUpTo(m) == IF member[m].lsn > durable
               THEN SyncLocked
               ELSE UNCHANGED <<files, durable>>

(* SharedWal::sync: the position it returns covers every member. *)
Sync ==
    /\ Locked
    /\ SyncLocked
    /\ UNCHANGED <<evidence, registered, retiredAt, manifest, settled, frames,
                   owner, poison, segment, offset, lsn, index, pc, call, opened,
                   sealing, promised, crashes>>

(* SharedMember::sync, and prepare_checkpoint, which is the same. *)
MemberSyncLocked(m) ==
    /\ SyncUpTo(m)
    /\ member' = [member EXCEPT ![m].durableSeq = member[m].seq,
                                ![m].durablePointer = member[m].latest]

SyncMember(m) ==
    /\ Locked /\ m \in opened /\ sealing[m] = "no"
    /\ MemberSyncLocked(m)
    /\ UNCHANGED <<evidence, registered, retiredAt, manifest, settled, frames,
                   owner, poison, segment, offset, lsn, storage, charged,
                   segments, pc, call, opened, sealing, promised, crashes>>

(***************************************************************************)
(* The durable position the owner keeps of a member, and what              *)
(* durable_position reports of it.                                         *)
(***************************************************************************)
KeptSeq(m) == IF member[m].lsn <= durable
              THEN member[m].seq ELSE member[m].durableSeq
KeptPointer(m) == IF member[m].lsn <= durable
                  THEN member[m].latest ELSE member[m].durablePointer

(* A poisoned owner refuses its lock, and then the position is (0, 0, 0).  *)
DurableSeq(m) == IF poison THEN 0 ELSE KeptSeq(m)
DurablePointer(m) == IF poison THEN NoPointer ELSE KeptPointer(m)

-----------------------------------------------------------------------------
(***************************************************************************)
(* Appending.  append_raw starts at "append"; append_batch_raw starts at   *)
(* "preflight" and then appends every record of the batch.  The mutex is   *)
(* held throughout.                                                        *)
(***************************************************************************)
BeginAppend(m, raws) ==
    /\ Locked /\ m \in opened /\ sealing[m] = "no"
    /\ lsn + Len(raws) <= MaxLsn
    /\ \/ Len(raws) = 1 /\ pc' = "append"
          /\ call' = [NoCall EXCEPT !.id = m, !.raws = raws]
       \/ pc' = "preflight"
          /\ call' = [NoCall EXCEPT !.id = m, !.raws = raws, !.batch = TRUE]
    /\ UNCHANGED <<disk, frames, owner, poison, cursor, index, opened, sealing,
                   promised, crashes>>

(* The call returns an error that leaves the owner usable, unless it is in *)
(* the middle of a batch.                                                  *)
Reject ==
    /\ pc' = "idle" /\ call' = NoCall
    /\ poison' = (call.batch /\ pc # "preflight")

(* gc_locked is entered; `return` is where it comes back to. *)
Collect ==
    /\ call' = [call EXCEPT !.tried = TRUE, !.return = pc]
    /\ pc' = "gc"
    /\ UNCHANGED poison

(* Mutant: the plan charges a member one entry, whatever it rolls to. *)
PlanWithOneEntry ==
    FoldLeft(LAMBDA plan, len :
                 LET rolls == plan.offset + len > SegmentBytes
                 IN  [offset |-> (IF rolls THEN HeaderLen ELSE plan.offset) + len,
                      growth |-> plan.growth + len
                                 + (IF rolls THEN HeaderLen ELSE 0),
                      index  |-> plan.index + (IF rolls THEN SegmentCharge ELSE 0)
                                 + (IF plan.represented THEN 0 ELSE EntryCharge),
                      represented |-> TRUE],
             [offset |-> offset, growth |-> 0, index |-> 0,
              represented |-> call.id \in DOMAIN segments[segment].members],
             call.raws)

(* preflight_batch: what the records would add, rolls included. *)
BatchPlan ==
    FoldLeft(LAMBDA plan, len :
                 LET rolls == plan.offset + len > SegmentBytes
                     entry == rolls \/ ~plan.represented
                 IN  [offset |-> (IF rolls THEN HeaderLen ELSE plan.offset) + len,
                      growth |-> plan.growth + len
                                 + (IF rolls THEN HeaderLen ELSE 0),
                      index  |-> plan.index + (IF rolls THEN SegmentCharge ELSE 0)
                                 + (IF entry THEN EntryCharge ELSE 0),
                      represented |-> TRUE],
             [offset |-> offset, growth |-> 0, index |-> 0,
              represented |-> call.id \in DOMAIN segments[segment].members],
             call.raws)

Preflight ==
    /\ pc = "preflight"
    /\ LET full == storage + BatchPlan.growth > MaxBytes
           crowded == charged + BatchPlan.index > IndexBytes
       IN  \/ full /\ ~call.tried /\ Collect
           \/ full /\ call.tried /\ Reject
           \/ ~full /\ crowded /\ Reject
           \/ ~full /\ ~crowded /\ pc' = "append" /\ UNCHANGED poison
              /\ call' = [call EXCEPT !.tried = FALSE]
    /\ UNCHANGED <<disk, frames, owner, cursor, index, opened, sealing, promised,
                   crashes>>

(* append_locked, for the first record the call still has to append. *)
Length == Head(call.raws)
Rolls == offset + Length > SegmentBytes
Growth == Length + IF Rolls THEN HeaderLen ELSE 0
(* Mutant: a member that is in the active segment pays no entry after a roll. *)
IndexGrowthSameEntry ==
    (IF Rolls THEN SegmentCharge ELSE 0)
    + IF call.id \notin DOMAIN segments[segment].members THEN EntryCharge ELSE 0
IndexGrowth ==
    (IF Rolls THEN SegmentCharge ELSE 0)
    + IF Rolls \/ call.id \notin DOMAIN segments[segment].members
      THEN EntryCharge ELSE 0
Full == storage + Growth > MaxBytes
Crowded == charged + IndexGrowth > IndexBytes
Fits == pc = "append" /\ ~Full /\ ~Crowded

(* Mutant: collecting garbage again and again. *)
AppendRefusedNeverGivesUp ==
    /\ pc = "append"
    /\ \/ Full /\ Collect
       \/ ~Full /\ Crowded /\ Reject
    /\ UNCHANGED <<disk, frames, owner, cursor, index, opened, sealing, promised,
                   crashes>>

AppendRefused ==
    /\ pc = "append"
    /\ \/ Full /\ ~call.tried /\ Collect
       \/ Full /\ call.tried /\ Reject
       \/ ~Full /\ Crowded /\ Reject
    /\ UNCHANGED <<disk, frames, owner, cursor, index, opened, sealing, promised,
                   crashes>>

(* Mutant: the durable position is not taken over before the member runs  *)
(* ahead of the last sync.                                                 *)
AcceptForgetsDurable(at) ==
    /\ frames' = frames \cup {[id |-> call.id, seq |-> member[call.id].seq + 1,
                               lsn |-> lsn + 1, prev |-> member[call.id].latest,
                               at |-> at, length |-> Length, value |-> crashes]}
    /\ member' = [member EXCEPT ![call.id].seq = @ + 1, ![call.id].lsn = lsn + 1,
                                ![call.id].latest = at]
    /\ lsn' = lsn + 1
    /\ IF Len(call.raws) = 1
       THEN pc' = "idle" /\ call' = NoCall
       ELSE pc' = "append" /\ call' = [call EXCEPT !.raws = Tail(@), !.tried = FALSE]

(* The record becomes part of the log at pointer `at`. *)
Accept(at) ==
    LET m == call.id
        old == member[m]
        synced == old.lsn <= durable
    IN  /\ frames' = frames \cup {[id |-> m, seq |-> old.seq + 1, lsn |-> lsn + 1,
                                   prev |-> old.latest, at |-> at,
                                   length |-> Length, value |-> crashes]}
        /\ member' = [member EXCEPT ![m] =
               [old EXCEPT !.seq = old.seq + 1, !.lsn = lsn + 1, !.latest = at,
                           !.durableSeq = IF synced THEN old.seq ELSE @,
                           !.durablePointer = IF synced THEN old.latest ELSE @]]
        /\ lsn' = lsn + 1
        /\ IF Len(call.raws) = 1
           THEN pc' = "idle" /\ call' = NoCall
           ELSE pc' = "append" /\ call' = [call EXCEPT !.raws = Tail(@),
                                                       !.tried = FALSE]

Push ==
    /\ Fits /\ ~Rolls
    /\ files' = IF BufferLength + Length > BufferBytes THEN FlushedFiles ELSE files
    /\ offset' = offset + Length
    /\ storage' = storage + Length
    /\ charged' = charged + IndexGrowth
    /\ segments' = [segments EXCEPT ![segment] =
           [length |-> @.length + Length,
            members |-> With(@.members, call.id, member[call.id].seq + 1)]]
    /\ Accept([segment |-> segment, offset |-> offset])
    /\ UNCHANGED <<evidence, registered, retiredAt, manifest, settled, owner,
                   poison, segment, durable, opened, sealing, promised, crashes>>

(* roll_locked up to create_new of the next segment's file ... *)
Roll ==
    /\ Fits /\ Rolls
    /\ charged' = charged + IndexGrowth
    /\ files' = With(SyncedFiles, segment + 1,
                     [first |-> lsn + 1, length |-> 0, synced |-> 0])
    /\ durable' = lsn
    /\ pc' = "roll"
    /\ UNCHANGED <<evidence, registered, retiredAt, manifest, settled, frames,
                   owner, poison, segment, offset, lsn, storage, member,
                   segments, call, opened, sealing, promised, crashes>>

(* ... and the rest of it, with the append that made it necessary. *)
PushRolled ==
    /\ pc = "roll"
    /\ files' = [files EXCEPT ![segment + 1].length = HeaderLen,
                              ![segment + 1].synced = HeaderLen]
    /\ segment' = segment + 1
    /\ offset' = HeaderLen + Length
    /\ storage' = storage + HeaderLen + Length
    /\ segments' = With(segments, segment + 1,
                        [length |-> HeaderLen + Length,
                         members |-> [m \in {call.id} |-> member[m].seq + 1]])
    /\ Accept([segment |-> segment + 1, offset |-> HeaderLen])
    /\ UNCHANGED <<evidence, registered, retiredAt, manifest, settled, owner,
                   poison, durable, charged, opened, sealing, promised, crashes>>

-----------------------------------------------------------------------------
(***************************************************************************)
(* gc_locked: segments leave from the lowest number on.                    *)
(***************************************************************************)
Lowest == Min(DOMAIN segments)
(* Mutants: the active segment may go too; a checkpoint at a record does   *)
(* not let it go; a segment goes once one of its members lets it go.       *)
CollectableActive(n) ==
    \A m \in DOMAIN segments[n].members :
        member[m].retired \/ member[m].checkpoint >= segments[n].members[m]
CollectableLate(n) ==
    n # segment /\ \A m \in DOMAIN segments[n].members :
        member[m].retired \/ member[m].checkpoint > segments[n].members[m]
CollectableByAny(n) ==
    n # segment /\ \E m \in DOMAIN segments[n].members :
        member[m].retired \/ member[m].checkpoint >= segments[n].members[m]
Collectable(n) ==
    /\ n # segment
    /\ \A m \in DOMAIN segments[n].members :
           member[m].retired \/ member[m].checkpoint >= segments[n].members[m]

GcUnlink ==
    /\ pc = "gc" /\ Collectable(Lowest)
    /\ files' = Restrict(files, DOMAIN files \ {Lowest})
    /\ frames' = frames \ FramesIn(Lowest)
    /\ segments' = Restrict(segments, DOMAIN segments \ {Lowest})
    /\ storage' = storage - segments[Lowest].length
    /\ charged' = charged - SegmentCharge
                  - EntryCharge * Cardinality(DOMAIN segments[Lowest].members)
    /\ pc' = IF Lowest \in DOMAIN evidence THEN "evidence" ELSE "gc"
    /\ UNCHANGED <<evidence, registered, retiredAt, manifest, settled, owner,
                   poison, cursor, member, call, opened, sealing, promised, crashes>>

(* The boundary of the segment just unlinked goes, or its removal fails,   *)
(* which fails the call but does not poison the owner.                     *)
GcEvidence ==
    /\ pc = "evidence"
    /\ \/ pc' = "gc" /\ UNCHANGED <<call, poison>>
          /\ evidence' = Restrict(evidence, DOMAIN evidence \ {Lowest - 1})
       \/ pc' = "idle" /\ call' = NoCall /\ UNCHANGED evidence
          /\ poison' = (call.batch /\ call.return = "append")
    /\ UNCHANGED <<files, registered, retiredAt, manifest, settled, frames,
                   owner, cursor, index, opened, sealing, promised, crashes>>

GcReturn ==
    /\ pc = "gc" /\ ~Collectable(Lowest)
    /\ pc' = call.return
    /\ call' = IF call.return = "idle" THEN NoCall ELSE call
    /\ UNCHANGED <<disk, frames, owner, poison, cursor, index, opened, sealing,
                   promised, crashes>>

-----------------------------------------------------------------------------
(***************************************************************************)
(* Members: registration, opening, sealing, retirement.                    *)
(***************************************************************************)

(* register_inner: the MEMBER- file, the state, the SHARED file; a failed  *)
(* publication poisons the owner.                                          *)
Register(m) ==
    /\ Locked /\ m \notin registered
    /\ charged + MemberCharge <= IndexBytes
    /\ registered' = registered \cup {m}
    /\ charged' = charged + MemberCharge
    /\ poison' \in BOOLEAN
    /\ UNCHANGED <<files, evidence, retiredAt, manifest, settled, frames, owner,
                   cursor, storage, member, segments, pc, call, opened,
                   sealing, promised, crashes>>

(* open_shared_inner publishes the initial MANIFEST of a new member; when  *)
(* publication fails after the rename the owner is poisoned.               *)
PublishInitial(m) ==
    /\ owner = "open" /\ m \in registered
    /\ manifest[m] = None /\ retiredAt[m] = None
    /\ manifest' = [manifest EXCEPT ![m] = 0]
    /\ \/ settled' = [settled EXCEPT ![m] = 0] /\ UNCHANGED poison
       \/ pc = "idle" /\ poison' = TRUE /\ UNCHANGED settled
    /\ UNCHANGED <<files, evidence, registered, retiredAt, frames, owner, cursor,
                   index, pc, call, opened, sealing, promised, crashes>>

(* The records SharedMember::recover walks back over and then replays.     *)
ChainFrame(m, s, p) ==
    \E f \in FramesOf(m) : f.seq = s /\ f.at = p /\ f.at.segment \in DOMAIN files
ChainIntact(m) ==
    LET replayed == {f \in FramesOf(m) : f.seq > member[m].checkpoint}
    IN  /\ member[m].seq > member[m].checkpoint
               => ChainFrame(m, member[m].seq, member[m].latest)
        /\ \A f \in replayed :
               f.seq > member[m].checkpoint + 1 => ChainFrame(m, f.seq - 1, f.prev)

(* The rest of open_shared_inner: DbDir::initialize has synced the root,   *)
(* `initialized` adopts the checkpoint of a new member, recover syncs what *)
(* the member has in the buffer and replays it.                            *)
OpenMember(m) ==
    /\ Locked /\ m \in registered \ opened
    /\ manifest[m] # None /\ retiredAt[m] = None
    /\ member[m].initialized => member[m].checkpoint = manifest[m]
    /\ ChainIntact(m)
    /\ settled' = [settled EXCEPT ![m] = manifest[m]]
    /\ member' = IF member[m].initialized THEN member
                 ELSE [member EXCEPT ![m].initialized = TRUE,
                                     ![m].checkpoint = manifest[m],
                                     ![m].seq = manifest[m],
                                     ![m].durableSeq = manifest[m]]
    /\ SyncUpTo(m)
    /\ opened' = opened \cup {m}
    /\ UNCHANGED <<evidence, registered, retiredAt, manifest, frames, owner,
                   poison, segment, offset, lsn, storage, charged, segments, pc,
                   call, sealing, promised, crashes>>

(* Dropping the Db.  (Its engine is not inside a call.) *)
Close(m) ==
    /\ m \in opened /\ sealing[m] = "no" /\ pc = "idle"
    /\ opened' = opened \ {m}
    /\ UNCHANGED <<disk, frames, owner, poison, cursor, index, pc, call, sealing,
                   promised, crashes>>

(* Mutant: sealing what has not been synced. *)
SealUnsynced(m) ==
    /\ Locked /\ m \in opened /\ sealing[m] = "no"
    /\ member[m].seq > member[m].checkpoint
    /\ sealing' = [sealing EXCEPT ![m] = "synced"]
    /\ UNCHANGED <<disk, frames, owner, poison, cursor, index, pc, call, opened,
                   promised, crashes>>

(* seal_locked, first part: prepare_checkpoint syncs the member. *)
SealSync(m) ==
    /\ Locked /\ m \in opened /\ sealing[m] = "no"
    /\ member[m].seq > member[m].checkpoint
    /\ MemberSyncLocked(m)
    /\ sealing' = [sealing EXCEPT ![m] = "synced"]
    /\ UNCHANGED <<evidence, registered, retiredAt, manifest, settled, frames,
                   owner, poison, segment, offset, lsn, storage, charged,
                   segments, pc, call, opened, promised, crashes>>

(* The mutex is free while the unit and the MANIFEST are written.  The     *)
(* publication succeeds, fails before or after its rename (poisoning the   *)
(* owner), or is never reached because writing the unit failed.            *)
SealPublish(m) ==
    /\ owner = "open" /\ sealing[m] = "synced"
    /\ \/ /\ manifest' = [manifest EXCEPT ![m] = member[m].seq]
          /\ settled' = [settled EXCEPT ![m] = member[m].seq]
          /\ sealing' = [sealing EXCEPT ![m] = "published"]
          /\ UNCHANGED poison
       \/ /\ pc = "idle"
          /\ \/ manifest' = [manifest EXCEPT ![m] = member[m].seq]
             \/ UNCHANGED manifest
          /\ poison' = TRUE /\ sealing' = [sealing EXCEPT ![m] = "no"]
          /\ UNCHANGED settled
       \/ /\ sealing' = [sealing EXCEPT ![m] = "no"]
          /\ UNCHANGED <<manifest, settled, poison>>
    /\ UNCHANGED <<files, evidence, registered, retiredAt, frames, owner, cursor,
                   index, pc, call, opened, promised, crashes>>

(* SharedMember::checkpoint, then gc_locked. *)
SealCheckpoint(m) ==
    /\ Locked /\ sealing[m] = "published"
    /\ member' = [member EXCEPT ![m].checkpoint = member[m].seq]
    /\ sealing' = [sealing EXCEPT ![m] = "no"]
    /\ pc' = "gc"
    /\ UNCHANGED <<disk, frames, owner, poison, cursor, storage, charged,
                   segments, call, opened, promised, crashes>>

(* discard_unpublished, of a member nobody has open. *)
Retire(m) ==
    /\ Locked /\ m \in (registered \cap Retirable) \ opened /\ retiredAt[m] = None
    /\ retiredAt' = [retiredAt EXCEPT ![m] = member[m].seq]
    /\ \/ member' = [member EXCEPT ![m].retired = TRUE]
          /\ pc' = "gc" /\ UNCHANGED poison
       \/ poison' = TRUE /\ UNCHANGED <<member, pc>>
    /\ UNCHANGED <<files, evidence, registered, manifest, settled, frames, owner,
                   cursor, storage, charged, segments, call, opened, sealing,
                   promised, crashes>>

-----------------------------------------------------------------------------
(***************************************************************************)
(* Failures.  An I/O error of a write, a sync, a file creation or an       *)
(* unlink poisons the owner; what the failed call left in the file shows   *)
(* only in what a later crash leaves.                                      *)
(***************************************************************************)
IoError ==
    /\ owner = "open" /\ ~poison /\ pc \in {"idle", "append", "roll", "gc"}
    /\ poison' = TRUE /\ pc' = "idle" /\ call' = NoCall
    /\ UNCHANGED <<disk, frames, owner, cursor, index, opened, sealing, promised,
                   crashes>>

(* What is left of the process once it has died. *)
Died(upTo) ==
    /\ frames' = {f \in frames : f.lsn <= upTo}
    /\ owner' = "down" /\ poison' = FALSE
    /\ segment' = 0 /\ offset' = 0 /\ lsn' = upTo /\ durable' = upTo
    /\ storage' = 0 /\ charged' = 0 /\ segments' = <<>>
    /\ member' = [m \in Members |-> FreshMember]
    /\ pc' = "idle" /\ call' = NoCall
    /\ opened' = {} /\ sealing' = [m \in Members |-> "no"]
    /\ crashes' = crashes + 1
    /\ promised' = [m \in Members |-> [seq |-> KeptSeq(m),
                                        checkpoint |-> member[m].checkpoint]]
    /\ UNCHANGED <<evidence, registered, retiredAt>>

(* The process dies, or the machine loses power.  A prefix of the log      *)
(* survives: what was written, or synced if power is lost, and anything up *)
(* to the last record accepted (the process may have died writing).  The   *)
(* record behind the prefix may be torn, and so may the header of a file   *)
(* that was being created.                                                 *)
AtRisk(power) ==
    {f \in frames : FrameEnd(f) > IF power THEN files[f.at.segment].synced
                                           ELSE files[f.at.segment].length}

(* The files once the log ends with LSN upTo and `torn` bytes behind it.   *)
Remains(upTo, torn, header) ==
    LET kept == {f \in FramesIn(segment) : f.lsn <= upTo}
        end == Max({FrameEnd(f) : f \in kept} \cup {HeaderLen})
        size(n) == IF n = segment THEN end + torn
                   ELSE IF n = segment + 1 THEN header ELSE files[n].length
    IN  [n \in DOMAIN files |->
            [first |-> files[n].first, length |-> size(n), synced |-> size(n)]]

Crash(power) ==
    /\ owner = "open" /\ crashes < MaxCrashes
    /\ \E upTo \in Min({f.lsn - 1 : f \in AtRisk(power)} \cup {lsn}) .. lsn :
       \E torn \in 0 .. Max({f.length - 1 : f \in {g \in frames : g.lsn = upTo + 1}}
                            \cup {0}) :
       \E header \in (IF TornHeaders THEN 0 .. HeaderLen ELSE {HeaderLen}) :
           /\ files' = Remains(upTo, torn, header)
           /\ Died(upTo)
    /\ IF power
       THEN /\ manifest' \in {f \in [Members -> {None} \cup 0 .. MaxLsn] :
                                \A m \in Members :
                                    f[m] \in {manifest[m], settled[m]}}
            /\ settled' = manifest'
       ELSE UNCHANGED <<manifest, settled>>

-----------------------------------------------------------------------------
(***************************************************************************)
(* SharedWal::open after a crash: `recover::scan` over the files.          *)
(***************************************************************************)
Empty(n) == \/ files[n].length < HeaderLen
            \/ n \in DOMAIN evidence /\ evidence[n].end = 0

(* next_lsn before and after the scan of segment n. *)
NextBefore(n) ==
    LET full == {p \in DOMAIN files : p < n /\ ~Empty(p)}
    IN  IF full = {} THEN 1
        ELSE files[Max(full)].first + Cardinality(FramesIn(Max(full)))
NextAfter(n) ==
    IF Empty(n) THEN NextBefore(n) ELSE files[n].first + Cardinality(FramesIn(n))

(* Where the records the scan finds intact in segment n end. *)
ScanEnd(n) ==
    IF Empty(n) THEN 0 ELSE Max({FrameEnd(f) : f \in FramesIn(n)} \cup {HeaderLen})
Torn(n) == Empty(n) \/ ScanEnd(n) < files[n].length

CorruptSegment(n) ==
    \/ n # LowestFile /\ n - 1 \notin DOMAIN files
    \/ n # LastFile /\ Torn(n) /\ n \notin DOMAIN evidence
    \/ n \in DOMAIN evidence
       /\ evidence[n] # [length |-> files[n].length, end |-> ScanEnd(n),
                         next |-> NextAfter(n)]
    \/ ~Empty(n) /\ n # LowestFile /\ files[n].first # NextBefore(n)
    \/ ~Empty(n) /\ {f.lsn : f \in FramesIn(n)}
                       # files[n].first .. NextAfter(n) - 1

ScanCheckpoint(m) == IF retiredAt[m] # None THEN retiredAt[m]
                     ELSE IF manifest[m] # None THEN manifest[m] ELSE 0

(* The record of f's member the scan meets before f. *)
Predecessors(f) == {g \in FramesOf(f.id) : g.lsn < f.lsn}
CorruptFrame(f) ==
    \/ f.id \notin registered
    \/ retiredAt[f.id] # None /\ f.seq > retiredAt[f.id]
    \/ retiredAt[f.id] = None /\ manifest[f.id] = None
    \/ Predecessors(f) = {}
       /\ \/ f.seq > ScanCheckpoint(f.id) + 1
          \/ f.prev # NoPointer /\ ~Before(f.prev, f.at)
    \/ Predecessors(f) # {}
       /\ ~\E g \in Predecessors(f) :
              /\ \A h \in Predecessors(f) : h.lsn <= g.lsn
              /\ f.seq = g.seq + 1 /\ f.prev = g.at

Corrupt == \/ \E n \in DOMAIN files : CorruptSegment(n)
           \/ \E f \in frames : CorruptFrame(f)

(* publish_boundary: the torn tail of the last segment is frozen. *)
NeedsBoundary == Torn(LastFile) /\ LastFile \notin DOMAIN evidence
PublishBoundary ==
    /\ owner = "down" /\ ~Corrupt /\ NeedsBoundary
    /\ evidence' = With(evidence, LastFile, [length |-> files[LastFile].length,
                                             end |-> ScanEnd(LastFile),
                                             next |-> NextAfter(LastFile)])
    /\ UNCHANGED <<files, registered, retiredAt, manifest, settled, frames,
                   owner, poison, cursor, index, pc, call, opened, sealing,
                   promised, crashes>>

(* A frozen last segment is never appended to: the scan starts a new one.  *)
(* Mutant: the scan goes on writing behind the torn tail. *)
NeverRotate == FALSE
NeedsRotate == LastFile \in DOMAIN evidence
Rotated == IF NeedsRotate
           THEN With(files, LastFile + 1, [first |-> NextAfter(LastFile),
                                           length |-> HeaderLen,
                                           synced |-> HeaderLen])
           ELSE files

ScannedSegments ==
    [n \in DOMAIN Rotated |->
        [length |-> Rotated[n].length,
         members |-> [m \in {f.id : f \in FramesIn(n)} |->
                         Max({f.seq : f \in FramesIn(n) \cap FramesOf(m)})]]]
StorageOf(segs) == SumFunction([n \in DOMAIN segs |-> segs[n].length])
IndexOf(segs) ==
    SumFunction([n \in DOMAIN segs |->
        SegmentCharge + EntryCharge * Cardinality(DOMAIN segs[n].members)])
    + MemberCharge * Cardinality(registered)
OverBudget == \/ StorageOf(ScannedSegments) > MaxBytes
              \/ IndexOf(ScannedSegments) > IndexBytes

ScannedMember(m) ==
    LET own == FramesOf(m)
        cp == ScanCheckpoint(m)
        last == CHOOSE f \in own : \A g \in own : g.lsn <= f.lsn
        found == own # {} /\ last.seq >= cp
        seq == IF found THEN last.seq ELSE cp
        latest == IF found THEN last.at ELSE NoPointer
    IN  [initialized |-> manifest[m] # None /\ retiredAt[m] = None,
         retired |-> retiredAt[m] # None,
         checkpoint |-> cp, seq |-> seq, latest |-> latest,
         lsn |-> IF own = {} THEN 0 ELSE last.lsn,
         durableSeq |-> seq, durablePointer |-> latest]

(* The scan refuses the files.  The index budget is checked only after the *)
(* next segment has been created, the storage budget before.               *)
OpenRefused ==
    /\ owner = "down"
    /\ \/ Corrupt /\ owner' = "corrupt" /\ UNCHANGED files
       \/ ~Corrupt /\ ~NeedsBoundary /\ OverBudget /\ owner' = "over budget"
          /\ files' = IF StorageOf(ScannedSegments) > MaxBytes THEN files ELSE Rotated
    /\ UNCHANGED <<evidence, registered, retiredAt, manifest, settled, frames,
                   poison, cursor, index, pc, call, opened, sealing, promised,
                   crashes>>

Scannable == owner = "down" /\ ~Corrupt /\ ~NeedsBoundary /\ ~OverBudget

(* A crash while the scan creates the next segment. *)
CrashInOpen ==
    /\ Scannable /\ NeedsRotate /\ TornHeaders /\ crashes < MaxCrashes
    /\ \E header \in 0 .. HeaderLen :
           files' = [Rotated EXCEPT ![LastFile + 1].length = header,
                                    ![LastFile + 1].synced = header]
    /\ crashes' = crashes + 1
    /\ UNCHANGED <<evidence, registered, retiredAt, manifest, settled, frames,
                   owner, poison, cursor, index, pc, call, opened, sealing, promised>>

Open ==
    /\ Scannable
    /\ owner' = "open"
    /\ files' = Rotated
    /\ segments' = ScannedSegments
    /\ storage' = StorageOf(ScannedSegments)
    /\ charged' = IndexOf(ScannedSegments)
    /\ member' = [m \in Members |-> ScannedMember(m)]
    /\ segment' = Max(DOMAIN Rotated)
    /\ offset' = Rotated[Max(DOMAIN Rotated)].length
    /\ lsn' = NextAfter(LastFile) - 1
    /\ durable' = NextAfter(LastFile) - 1
    /\ promised' = [m \in Members |-> NoPromise]
    /\ UNCHANGED <<evidence, registered, retiredAt, manifest, settled, frames,
                   poison, pc, call, opened, sealing, crashes>>

-----------------------------------------------------------------------------
(* The steps of the call that holds the mutex, and of opening the owner.   *)
CallStep == Preflight \/ AppendRefused \/ Push \/ Roll \/ PushRolled
            \/ GcUnlink \/ GcEvidence \/ GcReturn

Batches == UNION {[1 .. k -> Lengths] : k \in 1 .. MaxBatch}

Next ==
    \/ CallStep
    \/ Sync
    \/ \E m \in Members :
         \/ \E raws \in Batches : BeginAppend(m, raws)
         \/ SyncMember(m) \/ Register(m) \/ PublishInitial(m) \/ OpenMember(m)
         \/ Close(m) \/ SealSync(m) \/ SealPublish(m) \/ SealCheckpoint(m)
         \/ Retire(m)
    \/ IoError
    \/ \E power \in BOOLEAN : Crash(power)
    \/ OpenRefused \/ PublishBoundary \/ CrashInOpen \/ Open

Spec == Init /\ [][Next]_vars

(* A thread inside a call runs on. *)
FairSpec == Spec /\ WF_vars(CallStep)

-----------------------------------------------------------------------------
(***************************************************************************)
(* Properties.                                                             *)
(***************************************************************************)
Pointers == [segment : Nat, offset : Nat]
Frames == [id : Members, seq : Nat \ {0}, lsn : Nat \ {0}, prev : Pointers,
           at : Pointers, length : Lengths, value : Nat]
MemberStates == [initialized : BOOLEAN, retired : BOOLEAN, checkpoint : Nat,
                 latest : Pointers, seq : Nat, lsn : Nat, durableSeq : Nat,
                 durablePointer : Pointers]
Calls == [id : Members, raws : Seq(Lengths) \ {<<>>}, batch : BOOLEAN,
          tried : BOOLEAN, return : {"idle", "preflight", "append"}]

(* The type of every variable, with what the steps rely on: the active     *)
(* segment has a file, and a call holds the mutex only of an open owner.   *)
(* For the totals `storage` and `charged`, which are sums over the         *)
(* segments, see BudgetsExact.                                             *)
FilesOK ==
    /\ DOMAIN files \subseteq Nat \ {0} /\ DOMAIN files # {}
    /\ IsFiniteSet(DOMAIN files)
    /\ \A n \in DOMAIN files :
           files[n] \in [first : Nat \ {0}, length : Nat, synced : Nat]
EvidenceOK ==
    \A n \in DOMAIN evidence :
        evidence[n] \in [length : Nat, end : Nat, next : Nat \ {0}]
FramesOK == frames \subseteq Frames /\ IsFiniteSet(frames)
RegistryOK ==
    /\ registered \subseteq Members
    /\ retiredAt \in [Members -> Nat \cup {None}]
    /\ manifest \in [Members -> Nat \cup {None}]
    /\ settled \in [Members -> Nat \cup {None}]
CursorOK ==
    /\ owner \in {"open", "down", "corrupt", "over budget"}
    /\ poison \in BOOLEAN
    /\ segment \in Nat /\ offset \in Nat /\ lsn \in Nat /\ durable \in Nat
IndexOK ==
    /\ member \in [Members -> MemberStates]
    /\ \A n \in DOMAIN segments :
           /\ segments[n].length \in Nat
           /\ DOMAIN segments[n].members \subseteq Members
           /\ \A m \in DOMAIN segments[n].members :
                  segments[n].members[m] \in Nat \ {0}
CallOK ==
    /\ pc \in {"idle", "preflight", "append", "roll", "gc", "evidence"}
    /\ call = NoCall \/ call \in Calls
    /\ pc # "idle" => owner = "open"
    /\ pc \in {"preflight", "append", "roll"} => call \in Calls
    /\ owner = "open" => segment \in DOMAIN files
    /\ pc = "roll" => segment + 1 \in DOMAIN files
HandlesOK ==
    /\ opened \subseteq Members
    /\ sealing \in [Members -> {"no", "synced", "published"}]
    /\ promised \in [Members -> [seq : Nat, checkpoint : Nat]] /\ crashes \in Nat
TypeOK == /\ FilesOK /\ EvidenceOK /\ FramesOK /\ RegistryOK /\ CursorOK
          /\ IndexOK /\ CallOK /\ HandlesOK

(* A power failure has taken back a renamed MANIFEST that the owner's last *)
(* open had read: the process may have let go of records by a checkpoint   *)
(* that is no longer there.                                                *)
TakenBack(m) == ScanCheckpoint(m) < promised[m].checkpoint

(* Whatever durable_position reported before the process died -- because   *)
(* of a sync of this member, of another member, of the owner, of a roll or *)
(* of a reopening -- is what the scan finds afterwards, or more, whichever *)
(* way the process died, and whatever renames a power failure takes back:  *)
(* but for a member whose MANIFEST the owner had relied on too early.      *)
PromisesKept ==
    owner = "down" =>
        \A m \in Members : retiredAt[m] = None =>
            TakenBack(m) \/ ScannedMember(m).seq >= promised[m].seq

(* A crash never leaves files that SharedWal::open calls corrupt, whatever *)
(* crashed and however often -- torn tails, half-written batches, half-done*)
(* garbage collections, rolls and reopenings are all recognised -- but for *)
(* two cases: an empty segment that was frozen and is now the lowest file, *)
(* and a MANIFEST the owner had relied on and that was taken back.         *)
HeadlessBoundary == Empty(LowestFile) /\ LowestFile \in DOMAIN evidence
                    /\ evidence[LowestFile].next # 1
CorruptOnlyHeadless ==
    owner = "corrupt" => HeadlessBoundary \/ \E m \in Members : TakenBack(m)

(* Every record a member needs (those above its checkpoint) is still in a  *)
(* file or the buffer, linked to its predecessor: recover can always walk  *)
(* back to the checkpoint, in spite of what other members' checkpoints and *)
(* retirements collected.                                                  *)
RecordsReachable ==
    owner = "open" => \A m \in registered : retiredAt[m] = None => ChainIntact(m)

(* durable_position, which is kept in two ways (the member is ahead of the *)
(* last sync or it is not), tells exactly the last record of the member    *)
(* that a power failure cannot take, and where it is.  (Of a member that   *)
(* has been retired the frames may go before the owner closes.)            *)
Synced(f) == FrameEnd(f) <= files[f.at.segment].synced
DurablePositionExact ==
    owner = "open" /\ ~poison => \A m \in Members : retiredAt[m] = None =>
        /\ \A f \in FramesOf(m) : Synced(f) <=> f.seq <= DurableSeq(m)
        /\ DurableSeq(m) > member[m].checkpoint
               => \E f \in FramesOf(m) : f.seq = DurableSeq(m)
                                         /\ f.at = DurablePointer(m)

(* What durable_position reports never falls while the owner is open and   *)
(* healthy; an error that poisons the owner ends that: it then reports 0.  *)
DurableNeverFalls ==
    [][owner = "open" /\ owner' = "open" /\ ~poison' =>
           \A m \in Members : DurableSeq(m)' >= DurableSeq(m)]_vars

(* The budgets are kept, and the running totals agree with the segments    *)
(* they stand for.                                                         *)
BudgetsExact ==
    owner = "open" /\ ~poison /\ pc # "roll" =>
        /\ storage = StorageOf(segments) /\ storage <= MaxBytes
        /\ charged = IndexOf(segments) /\ charged <= IndexBytes

(* A batch that passed the preflight is accepted to its last record: the   *)
(* preflight predicts every roll and every limit, so only an I/O error     *)
(* poisons the owner in the middle of a batch.                             *)
AcceptedBatchFits == pc = "append" /\ call.batch => Fits

(* A call lets go of the mutex: collecting garbage and trying again does   *)
(* not go on forever.                                                      *)
CallReturns == pc # "idle" ~> pc = "idle"

(* Once every member has checkpointed everything it accepted, collecting   *)
(* garbage makes room for any record, a roll included.                     *)
CapacityReturns ==
    /\ owner = "open" /\ ~poison /\ pc = "idle"
    /\ \A m \in registered : member[m].retired \/ member[m].checkpoint = member[m].seq
    => StorageOf(Restrict(segments, {n \in DOMAIN segments : ~Collectable(n)}))
           + HeaderLen + Max(Lengths) <= MaxBytes
=============================================================================
