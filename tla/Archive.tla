------------------------------ MODULE Archive ------------------------------
(***************************************************************************)
(* The archive of one member (core/src/archive, shared_wal/archive*.rs):   *)
(* the log keeps what has not been released, an archiver exports the       *)
(* durable records behind a cursor and releases them once they are safe    *)
(* elsewhere, and a base, a frozen copy of the sealed database, pins the   *)
(* log behind it until it is finished.                                     *)
(*                                                                         *)
(* A cursor carries a hash chained over every record since the archive was *)
(* enabled; here that digest is the sequence of those records.  The log is *)
(* the member's own records, as in Database; what the segments of several  *)
(* members do to one another is in SharedWal.                              *)
(***************************************************************************)
EXTENDS Integers, Sequences, FiniteSets, SequencesExt

CONSTANTS
    Bases,          \* base identities
    MaxPins,        \* MAX_PINS
    Lengths,        \* bytes a record and its frame header can have
    MaxBytes,       \* ArchiveOptions::max_bytes less RESERVE
    ScratchEntries, \* entries of an export index that other exports leave room for
    IoErrors,       \* may file operations fail?
    MaxBatch,       \* bound: longest batch of try_append_batch
    MaxRecords,     \* bound: records in the log
    MaxCrashes      \* bound: crashes and closings

ASSUME ArchiveAssumption ==
    /\ IsFiniteSet(Bases) /\ Lengths \subseteq Nat \ {0} /\ IoErrors \in BOOLEAN
    /\ {MaxPins, MaxBytes, ScratchEntries, MaxBatch, MaxRecords, MaxCrashes}
           \subseteq Nat

VARIABLES
    (* the member's log and MANIFEST *)
    records,    \* every record logged so far, by sequence
    first,      \* sequence of the oldest record in a segment file
    cuts,       \* sequences that end a segment
    durable, checkpoint,
    (* the root directory: ARCHIVE and ARCHIVE-PIN- files *)
    root,       \* what a reader of the directory finds
    settled,    \* its states since it was last synced: what a power failure leaves
    (* struct Protection and the member's handle *)
    prot, index, status,
    poison,     \* "no", or why: "io" for a file error, "wrong" for the rest
    (* the operation holding the engine's mutex *)
    pc, job,
    (* what archivers have *)
    archived,   \* the records exported since the archive was enabled
    frozen,     \* base id -> finished copy
    crashes

log == <<records, first, cuts, durable, checkpoint>>
roots == <<root, settled>>
vars == <<log, roots, prot, index, status, poison, pc, job, archived, frozen, crashes>>

None == [none |-> TRUE]
With(f, x, v) == [k \in DOMAIN f \cup {x} |-> IF k = x THEN v ELSE f[k]]
Top == Len(records)
Pins(r) == {r.pins[id] : id \in DOMAIN r.pins}

-----------------------------------------------------------------------------
(***************************************************************************)
(* Cursors.                                                                *)
(***************************************************************************)

(* ArchiveCursor::advance, over the records from the cursor up to `seq`. *)
Advance(c, seq) ==
    [c EXCEPT !.seq = seq, !.digest = @ \o SubSeq(records, c.seq + 1, seq)]

(* ArchiveCursor::covers: an error when the histories differ. *)
Covers(c, d) == c.branch = d.branch /\ (c = d \/ c.seq > d.seq)

(* archive_status: where an export may end.  Mutant: where the log ends. *)
VisibleEnd == prot.latest
DurableEnd == IF Top <= durable THEN prot.latest ELSE prot.durable

(* Protection::bytes *)
Charge(recs) == FoldLeft(LAMBDA sum, r : sum + r.length, 0, recs)
Bytes == Charge(SubSeq(records, prot.released.seq + 1, prot.latest.seq))

(* A pin protects what is behind it from `through` being released. *)
PinsAllow(r, through) ==
    \A pin \in Pins(r) : pin.branch = through.branch /\ pin.seq >= through.seq

-----------------------------------------------------------------------------
(***************************************************************************)
(* The log.                                                                *)
(***************************************************************************)
Init ==
    /\ records = <<>> /\ first = 1 /\ cuts = {} /\ durable = 0 /\ checkpoint = 0
    /\ root = [authority |-> None, pins |-> <<>>] /\ settled = {root}
    /\ prot = None /\ index = None /\ status = "open" /\ poison = "no"
    /\ pc = "idle" /\ job = None
    /\ archived = <<>> /\ frozen = <<>> /\ crashes = 0

Healthy == status = "open" /\ pc = "idle" /\ poison = "no"

(* gc_locked: the oldest segments that neither the checkpoint nor          *)
(* archive_limit still needs.                                              *)
Limit(p) == IF p = None THEN Top ELSE p.released.seq
(* Mutant: collection looks at the checkpoint only. *)
CollectedByCheckpoint(upTo, p) ==
    Max({first} \cup {cut + 1 : cut \in {c \in cuts : c <= upTo}})
Collected(upTo, p) ==
    Max({first} \cup {cut + 1 : cut \in {c \in cuts : c <= upTo /\ c <= Limit(p)}})

(* append_locked for one record.  A roll syncs the segment it leaves; a    *)
(* member whose records were all durable keeps its end as `durable`.       *)
Fits(p, recs) ==
    p # None => Charge(SubSeq(records, p.released.seq + 1, Top)) + Charge(recs) <= MaxBytes
Push(s, r) ==
    LET end == Len(s.records)
        synced == IF r.rolls THEN end ELSE s.durable
        body == [length |-> r.length, epoch |-> crashes]
        tooMuch == ~Fits(s.prot, Append(SubSeq(s.records, Top + 1, end), body))
    IN  IF s.stopped \/ tooMuch THEN [s EXCEPT !.stopped = TRUE]
        ELSE [records |-> Append(s.records, body),
              cuts |-> IF r.rolls THEN s.cuts \cup {end} ELSE s.cuts,
              durable |-> synced,
              prot |-> IF s.prot = None THEN None
                       ELSE [s.prot EXCEPT
                                !.durable = IF end <= synced THEN s.prot.latest ELSE @,
                                !.latest.seq = @ + 1,
                                !.latest.digest = Append(@, body)],
              stopped |-> FALSE]

(* An append, or a batch of them: preflight_batch checks the budget before *)
(* the first record is accepted, and stopping later poisons the owner.     *)
(* Mutant: each record is checked on its own.                              *)
PreflightEach(rs) == \A i \in DOMAIN rs : Fits(prot, <<rs[i]>>)
Preflight(rs) == Fits(prot, rs)

AppendRecords(rs) ==
    /\ Healthy /\ Top + Len(rs) <= MaxRecords
    /\ Preflight(rs)
    /\ LET pushed == FoldLeft(Push, [records |-> records, cuts |-> cuts, durable |-> durable,
                                     prot |-> prot, stopped |-> FALSE], rs)
       IN  /\ records' = pushed.records /\ cuts' = pushed.cuts
           /\ durable' = pushed.durable /\ prot' = pushed.prot
           /\ poison' = IF pushed.stopped THEN "wrong" ELSE "no"
    /\ UNCHANGED <<first, checkpoint, roots, index, status, pc, job, archived, frozen,
                   crashes>>

Sync ==
    /\ Healthy
    /\ durable' = Top
    /\ UNCHANGED <<records, first, cuts, checkpoint, roots, prot, index, status, poison,
                   pc, job, archived, frozen, crashes>>

(* seal_locked: everything durable, the MANIFEST published, the log told.  *)
SealLocked ==
    /\ durable' = Top /\ checkpoint' = Top
    /\ first' = Collected(Top, prot)
    /\ UNCHANGED <<records, cuts>>

Seal ==
    /\ Healthy /\ checkpoint < Top
    /\ SealLocked
    /\ UNCHANGED <<roots, prot, index, status, poison, pc, job, archived, frozen, crashes>>

-----------------------------------------------------------------------------
(***************************************************************************)
(* ARCHIVE: enabling the archive and releasing a prefix.                   *)
(***************************************************************************)
Rename(r) == root' = r /\ settled' = settled \cup {r}
RootSynced == settled' = {root} /\ UNCHANGED root

(* facade::enable_archive: a member without an archive is sealed and       *)
(* synced, so that the archive starts at its end.                          *)
BeginEnable ==
    /\ Healthy /\ prot = None
    /\ SealLocked
    /\ pc' = "authority"
    /\ LET start == [branch |-> crashes, seq |-> Top, digest |-> <<>>]
       IN  job' = [kind |-> "enable", next |-> [initial |-> start, released |-> start]]
    /\ UNCHANGED <<roots, prot, index, status, poison, archived, frozen, crashes>>

(* Cursors an archiver can name: those inside what it has received. *)
Held(k) ==
    LET initial == root.authority.initial
    IN  [initial EXCEPT !.seq = @ + k, !.digest = SubSeq(archived, 1, k)]

(* ExportIndex: from the newest durable record back to the baseline, then  *)
(* forward to the cursor asked for; kept for the next export.              *)
Cached(after) == index # None /\ index.cursor = after
Ready(after) == Cached(after) /\ (index.remaining > 0 \/ index.end = DurableEnd)
Baseline(after) == IF Cached(after) THEN after ELSE prot.released
NewIndex(after) ==
    [cursor |-> Advance(Baseline(after), after.seq), end |-> DurableEnd,
     remaining |-> DurableEnd.seq - after.seq,
     charged |-> IF DurableEnd.seq = after.seq THEN 0
                 ELSE DurableEnd.seq - Baseline(after).seq]
IndexFor(after) == IF Ready(after) THEN index ELSE NewIndex(after)

(* The frames an index walks through are still in the segment files. *)
Readable(after) == (IF Ready(after) THEN after ELSE Baseline(after)).seq + 1 >= first
Exportable(after) == Covers(after, prot.released) /\ Covers(DurableEnd, after)
Affordable(after) == Ready(after) \/ DurableEnd.seq - Baseline(after).seq <= ScratchEntries

(* ensure_export_index: an export that cannot be afforded drops the index; *)
(* one that finds frames missing, or another hash, is corruption.          *)
IndexReady(after) ==
    /\ Affordable(after) /\ Readable(after) /\ IndexFor(after).cursor = after
    /\ index' = IndexFor(after)

ExportFails(after) ==
    /\ Healthy /\ prot # None /\ Exportable(after) /\ after # DurableEnd
    /\ ~(Affordable(after) /\ Readable(after) /\ IndexFor(after).cursor = after)
    /\ index' = None
    /\ poison' = IF Affordable(after) /\ ~Readable(after) THEN "wrong" ELSE "no"
    /\ UNCHANGED <<log, roots, prot, status, pc, job, archived, frozen, crashes>>

(* export_durable: some of the records behind the cursor, at least one.    *)
Export(k) ==
    LET after == Held(k)
    IN  /\ Healthy /\ prot # None /\ Exportable(after) /\ after # DurableEnd
        /\ Affordable(after) /\ Readable(after) /\ IndexFor(after).cursor = after
        /\ \E n \in 1 .. IndexFor(after).remaining :
               LET ix == IndexFor(after)
                   chunk == SubSeq(records, after.seq + 1, after.seq + n)
                   left == ix.remaining - n
               IN  /\ index' = [ix EXCEPT !.cursor = Advance(@, after.seq + n),
                                          !.remaining = left,
                                          !.charged = IF left = 0 THEN 0 ELSE @]
                   /\ poison' = IF left = 0 /\ index'.cursor # ix.end THEN "wrong" ELSE "no"
                   /\ archived' = SubSeq(archived, 1, k) \o chunk
                                  \o SubSeq(archived, k + n + 1, Len(archived))
        /\ UNCHANGED <<log, roots, prot, status, pc, job, frozen, crashes>>

(* release_archive verifies the cursor, which may build the index, and     *)
(* looks at the pins before the new ARCHIVE is published.                  *)
Releasable(through) == Covers(through, prot.released) /\ PinsAllow(root, through)

BeginRelease(k) ==
    LET through == Held(k)
    IN  /\ Healthy /\ prot # None /\ through # prot.released
        /\ Exportable(through) /\ Releasable(through)
        /\ IF through = DurableEnd THEN UNCHANGED index ELSE IndexReady(through)
        /\ pc' = "authority"
        /\ job' = [kind |-> "release", next |-> [root.authority EXCEPT !.released = through]]
        /\ UNCHANGED <<log, roots, prot, status, poison, archived, frozen, crashes>>

PublishAuthority ==
    /\ pc = "authority"
    /\ Rename([root EXCEPT !.authority = job.next])
    /\ pc' = "authoritySync"
    /\ UNCHANGED <<log, prot, index, status, poison, job, archived, frozen, crashes>>

(* The directory is synced; only now is the prefix given up. *)
AuthorityDone ==
    /\ pc = "authoritySync"
    /\ RootSynced
    /\ LET next == IF job.kind = "enable"
                   THEN [released |-> job.next.released, latest |-> job.next.released,
                         durable |-> job.next.released]
                   ELSE [prot EXCEPT !.released = job.next.released]
       IN  /\ prot' = next
           /\ first' = IF job.kind = "release" THEN Collected(checkpoint, next) ELSE first
    /\ pc' = "idle" /\ job' = None
    /\ UNCHANGED <<records, cuts, durable, checkpoint, index, status, poison, archived,
                   frozen, crashes>>

AuthorityFails ==
    /\ pc \in {"authority", "authoritySync"} /\ IoErrors
    /\ poison' = "io" /\ pc' = "idle" /\ job' = None
    /\ UNCHANGED <<log, roots, prot, index, status, archived, frozen, crashes>>

-----------------------------------------------------------------------------
(***************************************************************************)
(* Bases.                                                                  *)
(***************************************************************************)

(* prepare_base_with_id: sealed, then pinned, then linked and copied.      *)
(* Mutant: the cursor is the durable end before the seal. *)
PinBeforeSeal == DurableEnd
PinnedCursor == prot.latest
BeginBase(id) ==
    /\ Healthy /\ prot # None
    /\ id \notin DOMAIN root.pins /\ id \notin DOMAIN frozen
    /\ Cardinality(DOMAIN root.pins) < MaxPins
    /\ SealLocked
    /\ pc' = "pin"
    /\ job' = [kind |-> "base", id |-> id, cursor |-> PinnedCursor]
    /\ UNCHANGED <<roots, prot, index, status, poison, archived, frozen, crashes>>

PublishPin ==
    /\ pc = "pin"
    /\ Rename([root EXCEPT !.pins = With(@, job.id, job.cursor)])
    /\ pc' = "pinSync"
    /\ UNCHANGED <<log, prot, index, status, poison, job, archived, frozen, crashes>>

PinDone ==
    /\ pc = "pinSync"
    /\ RootSynced
    /\ pc' = "copy"
    /\ UNCHANGED <<log, prot, index, status, poison, job, archived, frozen, crashes>>

CopyBase ==
    /\ pc = "copy"
    /\ frozen' = With(frozen, job.id, [cursor |-> job.cursor,
                                       rows |-> SubSeq(records, 1, checkpoint)])
    /\ pc' = "idle" /\ job' = None
    /\ UNCHANGED <<log, roots, prot, index, status, poison, archived, crashes>>

(* finish_base, for a finished copy or for a pin found by pending_bases.   *)
FinishBase(id) ==
    /\ Healthy /\ prot # None /\ id \in DOMAIN root.pins
    /\ Rename([root EXCEPT !.pins = Restrict(@, DOMAIN @ \ {id})])
    /\ pc' = "unpin"
    /\ UNCHANGED <<log, prot, index, status, poison, job, archived, frozen, crashes>>

FinishBaseDone ==
    /\ pc = "unpin"
    /\ RootSynced
    /\ pc' = "idle"
    /\ UNCHANGED <<log, prot, index, status, poison, job, archived, frozen, crashes>>

(* None of these errors poisons: a pin may stay, or its removal not last.  *)
BaseFails ==
    /\ pc \in {"pin", "pinSync", "copy", "unpin"} /\ IoErrors
    /\ pc' = "idle" /\ job' = None
    /\ UNCHANGED <<log, roots, prot, index, status, poison, archived, frozen, crashes>>

-----------------------------------------------------------------------------
(***************************************************************************)
(* Crashes and the next open.                                              *)
(***************************************************************************)
Gone ==
    /\ status' = "closed" /\ poison' = "no" /\ prot' = None /\ index' = None
    /\ pc' = "idle" /\ job' = None
    /\ crashes' = crashes + 1

(* A power failure leaves any of the root's states since its last sync.    *)
Crash(power) ==
    /\ status = "open" /\ crashes < MaxCrashes
    /\ Gone
    /\ \E cut \in durable .. Top :
           /\ records' = SubSeq(records, 1, cut) /\ durable' = cut
           /\ cuts' = {c \in cuts : c <= cut}
    /\ IF power THEN root' \in settled /\ settled' = {root'} ELSE UNCHANGED roots
    /\ UNCHANGED <<first, checkpoint, archived, frozen>>

(* Protection::load refuses pins behind the release, and the scan refuses  *)
(* an archive whose records are not all there.                             *)
Loadable ==
    root.authority # None =>
        /\ PinsAllow(root, root.authority.released)
        /\ root.authority.released.seq <= Top
        /\ root.authority.released.seq + 1 >= first

(* Protection::replay *)
Replayed(released) == Advance(released, Top)

(* SharedWal::open and open_db_with_archive; the active segment may be     *)
(* left for a new one.                                                     *)
Open ==
    /\ status = "closed"
    /\ IF Loadable
       THEN /\ status' = "open"
            /\ durable' = Top
            /\ cuts' \in {cuts, cuts \cup {Top}}
            /\ RootSynced
            /\ prot' = IF root.authority = None THEN None
                       ELSE LET released == root.authority.released
                            IN  [released |-> released, latest |-> Replayed(released),
                                 durable |-> Replayed(released)]
       ELSE /\ status' = "broken"
            /\ UNCHANGED <<durable, cuts, roots, prot>>
    /\ UNCHANGED <<records, first, checkpoint, index, poison, pc, job, archived, frozen,
                   crashes>>

-----------------------------------------------------------------------------
Batches == UNION {[1 .. n -> [length : Lengths, rolls : BOOLEAN]] : n \in 1 .. MaxBatch}

Next ==
    \/ \E rs \in Batches : AppendRecords(rs)
    \/ Sync \/ Seal
    \/ BeginEnable \/ PublishAuthority \/ AuthorityDone \/ AuthorityFails
    \/ \E k \in 0 .. Len(archived) :
           /\ root.authority # None
           /\ Export(k) \/ ExportFails(Held(k)) \/ BeginRelease(k)
    \/ \E id \in Bases : BeginBase(id) \/ FinishBase(id)
    \/ PublishPin \/ PinDone \/ CopyBase \/ FinishBaseDone \/ BaseFails
    \/ \E power \in BOOLEAN : Crash(power)
    \/ Open

Spec == Init /\ [][Next]_vars

-----------------------------------------------------------------------------
(***************************************************************************)
(* Properties.                                                             *)
(***************************************************************************)
(* The owner opens again after any crash: no pin is left behind a release, *)
(* and no record behind a release is missing.  And nothing but a failed    *)
(* file operation poisons it: no export meets a collected segment or       *)
(* another hash, no batch stops half way for the archive's budget.         *)
AlwaysUsable == status # "broken" /\ poison # "wrong"

(* What was exported is the log's own history and stays so: a crash never  *)
(* takes back a record an archiver has, exports continue one another       *)
(* across crashes, and durable_end is exactly the end of what is durable.  *)
ArchivedIsDurable ==
    /\ archived # <<>> =>
           LET start == root.authority.initial.seq
           IN  /\ start + Len(archived) <= durable
               /\ archived = SubSeq(records, start + 1, start + Len(archived))
    /\ status = "open" /\ prot # None =>
           DurableEnd = Advance(root.authority.initial, durable)

(* From every cursor an archiver holds that is not behind the release it   *)
(* can go on exporting: the records are there, whatever was sealed,        *)
(* collected, crashed or released by others in between.                    *)
ExportsContinue ==
    Healthy /\ prot # None =>
        \A k \in 0 .. Len(archived) :
            Held(k).seq >= prot.released.seq =>
                /\ Exportable(Held(k)) /\ Readable(Held(k))
                /\ IndexFor(Held(k)).cursor = Held(k)
                /\ IndexFor(Held(k)).remaining > 0 \/ Held(k).seq = DurableEnd.seq

(* A finished base is the database up to its cursor, and as long as its    *)
(* pin is there the log that follows it has not been released.             *)
BasesExtendable ==
    \A id \in DOMAIN frozen :
        LET cursor == frozen[id].cursor
        IN  /\ frozen[id].rows = SubSeq(records, 1, cursor.seq)
            /\ id \in DOMAIN root.pins =>
                   first <= cursor.seq + 1 /\ root.authority.released.seq <= cursor.seq
=============================================================================
