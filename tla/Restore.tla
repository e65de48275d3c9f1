------------------------------ MODULE Restore ------------------------------
(***************************************************************************)
(* The restore of a base and of the chunks exported after it               *)
(* (core/src/archive/restore.rs, restore_io.rs, sealed.rs): a builder      *)
(* installs the base as generation 0, every chunk makes a new generation   *)
(* that CURRENT then names, finish turns the last one into `ready`, and    *)
(* an owner of a shared log imports that.                                  *)
(*                                                                         *)
(* A call is the list of file-system operations it makes, in their order;  *)
(* a crash or an error can come before each of them.  A record of the      *)
(* source is its sequence number, a cursor the number of the last record   *)
(* before it: Archive shows that the exported history never changes.  The  *)
(* hash of a MANIFEST is the records it stands for.                        *)
(***************************************************************************)
EXTENDS Integers, Sequences, FiniteSets, SequencesExt, Functions

CONSTANTS
    BaseSeq,        \* cursor of the base
    MaxSeq,         \* bound: records of the source
    MaxFaults       \* bound: crashes and failed file operations

ASSUME RestoreAssumption ==
    /\ {BaseSeq, MaxSeq, MaxFaults} \subseteq Nat /\ BaseSeq <= MaxSeq

VARIABLES
    disk,       \* area -> what a reader of the directory finds
    settled,    \* area -> its states since its last sync: what a power failure leaves
    builder,    \* RestoreBuilder, or None
    job,        \* the call that is running, or None
    acked,      \* cursor of the last apply or install that returned
    offered,    \* the last chunk given to apply_archive
    broken,     \* a call failed although no file operation did
    faults

vars == <<disk, settled, builder, job, acked, offered, broken, faults>>

None == [none |-> TRUE]
NoManifest == <<0>>             \* no record has the number 0
Blank == [blank |-> TRUE]       \* RESTORE-WORK as install and clone first write it
With(f, x, v) == [k \in DOMAIN f \cup {x} |-> IF k = x THEN v ELSE f[k]]
Without(f, x) == Restrict(f, DOMAIN f \ {x})

(* root: the target directory; gens: `generations`; ready: the product;    *)
(* owner: is the product registered with a shared log?                     *)
Areas == {"root", "gens", "ready", "owner"}
NoRoot == [marker |-> FALSE, current |-> None, finished |-> None]
Nothing == [gens |-> <<>>, root |-> None, ready |-> None, owner |-> FALSE]

-----------------------------------------------------------------------------
(***************************************************************************)
(* File-system operations.  A write may leave any of several states.       *)
(***************************************************************************)
Write(area, states) == [op |-> "write", area |-> area, to |-> states, lenient |-> FALSE]
Put(area, state) == Write(area, {state})
Sync(area) == [op |-> "sync", area |-> area, to |-> {}, lenient |-> FALSE]
Refuse == [op |-> "refuse", area |-> "root", to |-> {}, lenient |-> FALSE]
Leniently(steps) == [i \in DOMAIN steps |-> [steps[i] EXCEPT !.lenient = TRUE]]

(* publish_atomically: a rename, then a sync of the directory.             *)
(* Mutant: no sync. *)
PublishUnsynced(area, state) == <<Put(area, state)>>
Publish(area, state) == <<Put(area, state), Sync(area)>>

(* A database directory: RESTORE-WORK, the records its MANIFEST stands for, *)
(* and whether the files the MANIFEST lists are there.                     *)
Generation(work, rows, whole) == [work |-> work, rows |-> rows, whole |-> whole]
(* remove_dir_all interrupted, or a copy that has not come to its end.     *)
Torn(g) == {[g EXCEPT !.work = None], [g EXCEPT !.rows = NoManifest, !.whole = FALSE]}
TornIn(gens, some) == UNION {{With(gens, g, t) : t \in Torn(gens[g])} : g \in some}

State(g, cursor, previous, rows) ==
    [generation |-> g, cursor |-> cursor, previous |-> previous, manifest |-> rows]
Records(from, to) == [i \in 1 .. to - from |-> from + i]
(* What replaying a chunk needs: its first record is the next one. *)
Replayable(rows, start) == Len(rows) = start

(* reap_generations: everything but one generation. *)
Reap(gens, keep) ==
    LET others == DOMAIN gens \ {keep}
    IN  IF others = {} THEN <<Sync("gens")>>
        ELSE <<Write("gens", TornIn(gens, others)), Put("gens", Restrict(gens, {keep})),
               Sync("gens")>>

-----------------------------------------------------------------------------
(***************************************************************************)
(* The calls.                                                              *)
(***************************************************************************)
Base == Records(0, BaseSeq)
InitialState == State(0, BaseSeq, BaseSeq, Base)

(* RestoreBuilder::install without CURRENT: the marker, generation 0 from  *)
(* the base's files, then CURRENT.                                         *)
InstallSteps ==
    LET root == IF disk.root = None THEN NoRoot ELSE disk.root
        marked == [root EXCEPT !.marker = TRUE]
        zero(work, rows, whole) == Put("gens", With(disk.gens, 0, Generation(work, rows, whole)))
    IN  <<Put("root", root), Sync("root")>>
        \o (IF root.marker THEN <<>> ELSE Publish("root", marked))
        \o (IF 0 \in DOMAIN disk.gens
            THEN <<Write("gens", TornIn(disk.gens, {0})), Put("gens", Without(disk.gens, 0))>>
            ELSE <<>>)
        \o <<zero(Blank, NoManifest, FALSE), zero(Blank, Base, TRUE),
             zero(InitialState, Base, TRUE), Sync("gens")>>
        \o Publish("root", [marked EXCEPT !.current = InitialState])

(* DbDir::initialize.  Mutant: an open that only reads. *)
OpenUnsynced == <<>>
OpenRoot == <<Sync("root")>>

(* RestoreBuilder::open: the directory is synced, the state FINISHED or    *)
(* CURRENT names is verified, other generations are removed.               *)
Recovered == IF disk.root.finished # None THEN disk.root.finished ELSE disk.root.current
Verified ==
    IF disk.root.finished # None
    THEN /\ disk.ready # None /\ disk.ready.rows # NoManifest
         /\ disk.ready.work # None => /\ disk.ready.work = Recovered
                                      /\ disk.ready.rows = Recovered.manifest
    ELSE /\ Recovered # None
         /\ Recovered.generation \in DOMAIN disk.gens
         /\ disk.gens[Recovered.generation].work = Recovered
         /\ disk.gens[Recovered.generation].rows = Recovered.manifest
OpenSteps ==
    OpenRoot
    \o (IF ~Verified THEN <<Refuse>>
        ELSE IF disk.root.finished # None THEN <<>>
        ELSE Reap(disk.gens, Recovered.generation))

(* apply_archive: the chunk applied last is recognised, any other has to   *)
(* start at the applied cursor.  Mutant: none is recognised.               *)
RecognisedNever(chunk) == FALSE
Recognised(chunk) ==
    chunk.end = builder.state.cursor /\ chunk.start = builder.state.previous

(* apply_new: a new generation is cloned, the records are replayed into    *)
(* it, it is sealed and described, and only then becomes CURRENT.          *)
NewState(chunk, rows) ==
    State(builder.state.generation + 1, chunk.end, chunk.start, rows)
ApplySteps(chunk) ==
    LET old == builder.state
        next == old.generation + 1
        source == disk.gens[old.generation]
        rows == source.rows \o Records(chunk.start, chunk.end)
        state == NewState(chunk, rows)
        put(work, r, whole) == Put("gens", With(disk.gens, next, Generation(work, r, whole)))
    IN  IF next \in DOMAIN disk.gens \/ ~source.whole THEN <<Refuse>>
        ELSE <<put(Blank, NoManifest, FALSE), put(Blank, source.rows, TRUE),
               put(old, source.rows, TRUE)>>
             \o (IF Replayable(source.rows, chunk.start) THEN <<>> ELSE <<Refuse>>)
             \o <<put(old, rows, TRUE), put(state, rows, TRUE), Sync("gens")>>
             \o Publish("root", [disk.root EXCEPT !.current = state])
             \o Leniently(Reap(With(disk.gens, next, Generation(state, rows, TRUE)), next))

(* RestoreBuilder::finish: the product is cloned and sealed, FINISHED says *)
(* that it is complete, its RESTORE-WORK goes, then the generations go.    *)
Product(work, rows, whole, sealed) ==
    [work |-> work, rows |-> rows, whole |-> whole, sealed |-> sealed, bound |-> FALSE,
     changed |-> FALSE]
Unmark(ready) ==
    IF ready.work = None THEN <<>> ELSE Publish("ready", [ready EXCEPT !.work = None])
ClearReady ==
    IF disk.ready = None THEN <<>>
    ELSE <<Write("ready", Torn(disk.ready)), Put("ready", None)>>
MakeReady ==
    LET rows == disk.gens[builder.state.generation].rows
        ready(work, whole, r, sealed) == Put("ready", Product(work, r, whole, sealed))
    IN  <<ready(Blank, FALSE, NoManifest, NoManifest), ready(Blank, TRUE, rows, NoManifest),
          ready(builder.state, TRUE, rows, NoManifest), ready(builder.state, TRUE, rows, rows),
          Sync("root"), Sync("ready")>>
(* Mutant: a `ready` that is already there is used. *)
ReadyReused == IF disk.ready = None THEN MakeReady ELSE <<>>
ReadySteps == ClearReady \o MakeReady
FinishSteps ==
    LET sealed == Product(builder.state, disk.gens[builder.state.generation].rows, TRUE,
                          disk.gens[builder.state.generation].rows)
        dropped == <<Write("gens", {<<>>} \cup TornIn(disk.gens, DOMAIN disk.gens)),
                     Sync("root")>>
    IN  (IF builder.finished THEN Unmark(disk.ready)
         ELSE IF ~disk.gens[builder.state.generation].whole THEN <<Refuse>>
         ELSE ReadySteps
              \o Publish("root", [disk.root EXCEPT !.finished = builder.state])
              \o Unmark(sealed))
        \o Leniently(dropped)

(* sealed::install: an unbound product is verified against SEALED, both    *)
(* directories are synced by opening them, the product is registered and   *)
(* bound; the open may take it over; then SEALED goes.                     *)
Sealed(ready) ==
    /\ ready.sealed # NoManifest /\ ready.sealed = ready.rows
    /\ ready.whole /\ ~ready.changed
Taken(ready, takeover) == [ready EXCEPT !.bound = TRUE, !.changed = @ \/ takeover]
(* Mutant: SEALED goes once the product has been verified. *)
ImportUnsealedFirst(takeover) ==
    Publish("ready", [disk.ready EXCEPT !.sealed = NoManifest])
    \o (IF disk.owner THEN <<>> ELSE Publish("owner", TRUE))
    \o Publish("ready", [Taken(disk.ready, takeover) EXCEPT !.sealed = NoManifest])
ImportSteps(takeover) ==
    <<Sync("owner"), Sync("ready")>>
    \o (IF disk.ready.bound THEN IF disk.owner THEN <<>> ELSE <<Refuse>>
        ELSE (IF disk.owner THEN <<>> ELSE Publish("owner", TRUE))
             \o Publish("ready", Taken(disk.ready, FALSE)))
    \o (IF takeover THEN Publish("ready", Taken(disk.ready, TRUE)) ELSE <<>>)
    \o Publish("ready", [Taken(disk.ready, takeover) EXCEPT !.sealed = NoManifest])

-----------------------------------------------------------------------------
(***************************************************************************)
(* Behaviours.                                                             *)
(***************************************************************************)
Init ==
    /\ disk = Nothing /\ settled = [a \in Areas |-> {Nothing[a]}]
    /\ builder = None /\ job = None
    /\ acked = 0 /\ offered = None /\ broken = FALSE /\ faults = 0

Calling(kind, steps) ==
    job' = [kind |-> kind, todo |-> steps]
Quiet == UNCHANGED <<disk, settled, acked, broken, faults>>

(* Somebody else's directory, or one whose RESTORE was never published, is *)
(* refused.                                                                *)
Install ==
    /\ job = None /\ builder = None
    /\ disk.root # None => disk.root.marker /\ disk.root.current = None
    /\ Calling("install", InstallSteps)
    /\ Quiet /\ UNCHANGED <<builder, offered>>

OpenBuilder ==
    /\ job = None /\ builder = None
    /\ disk.root # None /\ disk.root.marker
    /\ disk.root.current # None
    /\ Calling("open", OpenSteps)
    /\ Quiet /\ UNCHANGED <<builder, offered>>

(* Chunks a caller can have: exported in any pieces. *)
Chunks == {c \in [start : BaseSeq .. MaxSeq, end : BaseSeq .. MaxSeq] : c.start < c.end}

Apply(chunk) ==
    /\ job = None /\ builder # None /\ ~builder.poisoned /\ ~builder.finished
    /\ offered' = chunk
    /\ \/ /\ Recognised(chunk)
          /\ acked' = builder.state.cursor
          /\ UNCHANGED job
       \/ /\ ~Recognised(chunk) /\ chunk.start = builder.state.cursor
          /\ Calling("apply", ApplySteps(chunk))
          /\ UNCHANGED acked
    /\ UNCHANGED <<disk, settled, builder, broken, faults>>

Finish ==
    /\ job = None /\ builder # None /\ ~builder.poisoned
    /\ Calling("finish", FinishSteps)
    /\ Quiet /\ UNCHANGED <<builder, offered>>

(* Dropping the builder releases its lock. *)
Forget ==
    /\ job = None /\ builder # None
    /\ builder' = None
    /\ Quiet /\ UNCHANGED <<job, offered>>

(* Callers import what finish gave them. *)
Import(takeover) ==
    /\ job = None /\ builder = None
    /\ disk.root # None /\ disk.root.finished # None
    /\ disk.ready # None /\ disk.ready.work = None /\ disk.ready.sealed # NoManifest
    /\ disk.ready.bound \/ Sealed(disk.ready)
    /\ Calling("import", ImportSteps(takeover))
    /\ Quiet /\ UNCHANGED <<builder, offered>>

(* The imported database is used: its MANIFEST is no longer the sealed one. *)
Use ==
    /\ job = None /\ disk.ready # None /\ disk.ready.bound /\ disk.ready.sealed = NoManifest
    /\ ~disk.ready.changed
    /\ disk' = [disk EXCEPT !.ready.changed = TRUE]
    /\ settled' = [settled EXCEPT !.ready = {disk'.ready}]
    /\ UNCHANGED <<builder, job, acked, offered, broken, faults>>

(* The next file-system operation of the call. *)
Running == job # None /\ job.todo # <<>>
Step ==
    /\ Running
    /\ LET s == Head(job.todo)
       IN  /\ s.op # "refuse"
           /\ IF s.op = "sync"
              THEN /\ settled' = [settled EXCEPT ![s.area] = {disk[s.area]}]
                   /\ UNCHANGED disk
              ELSE \E v \in s.to :
                       /\ disk' = [disk EXCEPT ![s.area] = v]
                       /\ settled' = [settled EXCEPT ![s.area] = @ \cup {v}]
    /\ job' = [job EXCEPT !.todo = Tail(@)]
    /\ UNCHANGED <<builder, acked, offered, broken, faults>>

(* The call fails, because a file operation does or because it refuses to  *)
(* go on: an apply poisons the builder, the others drop it.                *)
StepFails ==
    /\ Running
    /\ LET s == Head(job.todo)
           refused == s.op = "refuse"
       IN  /\ refused \/ faults < MaxFaults
           /\ faults' = IF refused THEN faults ELSE faults + 1
           /\ broken' = (broken \/ refused)
           /\ job' = IF s.lenient THEN [job EXCEPT !.todo = <<>>] ELSE None
           /\ builder' = IF s.lenient THEN builder
                         ELSE IF job.kind = "apply" THEN [builder EXCEPT !.poisoned = TRUE]
                         ELSE None
    /\ UNCHANGED <<disk, settled, acked, offered>>

Return ==
    /\ job # None /\ job.todo = <<>>
    /\ job' = None
    /\ builder' = CASE job.kind \in {"install", "open", "apply"} ->
                           [state |-> Recovered, poisoned |-> FALSE,
                            finished |-> disk.root.finished # None]
                    [] OTHER -> None
    /\ acked' = IF job.kind \in {"install", "apply"} THEN Recovered.cursor ELSE acked
    /\ UNCHANGED <<disk, settled, offered, broken, faults>>

Crash(power) ==
    /\ faults < MaxFaults
    /\ faults' = faults + 1
    /\ builder' = None /\ job' = None
    /\ IF power
       THEN /\ \E r \in settled.root, g \in settled.gens, p \in settled.ready,
                 o \in settled.owner :
                   disk' = [root |-> r, gens |-> g, ready |-> p, owner |-> o]
            /\ settled' = [a \in Areas |-> {disk'[a]}]
       ELSE UNCHANGED <<disk, settled>>
    /\ UNCHANGED <<acked, offered, broken>>

Next ==
    \/ Install \/ OpenBuilder \/ Finish \/ Forget \/ Use
    \/ \E chunk \in Chunks : Apply(chunk)
    \/ Step \/ StepFails \/ Return
    \/ \E flag \in BOOLEAN : Import(flag) \/ Crash(flag)

Spec == Init /\ [][Next]_vars

-----------------------------------------------------------------------------
(***************************************************************************)
(* Properties.                                                             *)
(***************************************************************************)
Stopped == job = None /\ builder = None

(* Whatever crashed or failed, a restore can be taken up again: what       *)
(* CURRENT or FINISHED names is there, and no call fails because of what   *)
(* an earlier one left behind.                                             *)
Resumable ==
    /\ ~broken
    /\ Stopped /\ disk.root # None /\ disk.root.current # None => Verified

(* Progress a caller was told of is not lost: opening again finds it, and  *)
(* the finished product has it.                                            *)
AcknowledgedKept ==
    Stopped /\ acked > 0 =>
        /\ disk.root # None /\ disk.root.marker /\ Recovered # None
        /\ Recovered.cursor >= acked

(* An open builder has the source's records up to its cursor, all of them  *)
(* and each of them once; so has the product that FINISHED stands for.     *)
RestoredExact ==
    /\ job = None /\ builder # None /\ ~builder.poisoned /\ ~builder.finished =>
           /\ builder.state = Recovered
           /\ disk.gens[builder.state.generation] =
                  Generation(builder.state, Records(0, builder.state.cursor), TRUE)
    /\ disk.root # None /\ disk.root.finished # None =>
           /\ disk.ready # None /\ disk.ready.whole
           /\ disk.ready.rows = Records(0, disk.root.finished.cursor)

(* A caller that does not know whether its last chunk was applied can give *)
(* it again, after any crash: it continues the cursor or is recognised.    *)
RetriesAccepted ==
    job = None /\ builder # None /\ ~builder.finished /\ offered # None =>
        offered.start = builder.state.cursor \/ Recognised(offered)

(* An owner that has registered the product opens after a crash at any     *)
(* step: its registry finds the binding, or a SEALED that verifies; and a  *)
(* finished product that has no binding can be imported.                   *)
OwnerOpens ==
    /\ disk.owner => /\ disk.ready # None /\ disk.ready.rows # NoManifest
                     /\ disk.ready.bound \/ Sealed(disk.ready)
    /\ disk.root # None /\ disk.root.finished # None =>
           disk.ready # None /\ (disk.ready.bound => disk.owner)
           /\ (disk.ready.bound \/ Sealed(disk.ready))
=============================================================================
