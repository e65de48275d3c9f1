--------------------------- MODULE DatabaseProofs ---------------------------
(***************************************************************************)
(* No step of a publication, no reaping, no failure and no crash takes a   *)
(* file that a MANIFEST lists, for all tables, times, readers and bounds   *)
(* of Database: the files a MANIFEST lists are there, the database opens   *)
(* again, and the published snapshot is the engine's state.                *)
(*                                                                         *)
(* The invariant follows four catalogs: the MANIFEST in the directory, the *)
(* one a power failure brings back, the engine's, and the one a            *)
(* publication is about to install.  Any of them may be loaded next, so    *)
(* each must list files that exist and that no deferred delete names.      *)
(*                                                                         *)
(* The second part is about the snapshots that readers hold, the third     *)
(* about the files that nothing refers to any more, the fourth about the   *)
(* log: every step of a database is a step of MemberLogs, and the rest     *)
(* about what the database holds: the rows, clocks and heads of its log.   *)
(***************************************************************************)
EXTENDS DatabaseRefinement, DatabaseQueries, SequenceTheorems, FiniteSetTheorems, TLAPS

-----------------------------------------------------------------------------
(***************************************************************************)
(* The invariant.                                                          *)
(***************************************************************************)
Rec == [op : {"create", "drop", "append"}, table : Tables, at : Timestamps \cup {0},
        epoch : Nat]

IsCatalog(c) ==
    /\ c \in [generation : Nat, unitHigh : Nat, tableHigh : {c.tableHigh}, checkpoint : Nat,
              floor : {c.floor}, headsGeneration : Nat, clocks : {c.clocks},
              units : {c.units}]
    /\ c.headsGeneration \in 0 .. c.generation
    /\ \A u \in c.units : u.id \in 1 .. c.unitHigh

(* Everything an open with this catalog needs is there, and stays there    *)
(* when the deferred deletes are carried out.                              *)
Kept(c, files, headsOn, junk, upTo) ==
    /\ IsCatalog(c)
    /\ \A u \in c.units : u.id \in DOMAIN files /\ files[u.id] = u
    /\ c.headsGeneration \in DOMAIN headsOn \cup {0}
    /\ \A g \in junk : /\ g.area = "units" => \A u \in c.units : u.id # g.id
                       /\ g.area = "heads" => g.id # c.headsGeneration
    /\ c.checkpoint <= upTo

KeptNow(c) == Kept(c, unitFiles, headFiles, garbage, durable)

Publishing == pc \in {"publish", "settle"}

CatalogsKept ==
    /\ KeptNow(manifest) /\ KeptNow(settled) /\ KeptNow(catalog)
    /\ Publishing => KeptNow(job.next)

Control ==
    /\ status \in {"open", "closed"}
    /\ pc \in {"idle", "batch", "publish", "settle", "reap"}
    /\ status = "closed" => /\ pc = "idle" /\ garbage = {} /\ visible = NoSnapshot
                            /\ poison = FALSE
    /\ Publishing => ~poison /\ job.kind \in {"seal", "compact", "retain", "takeover"}
    /\ pc = "batch" => /\ job = [kind |-> "batch", all |-> job.all, left |-> job.left]
                       /\ job.left \in Seq(Rec) /\ job.left # <<>>
    /\ poison \in BOOLEAN

LogOK ==
    /\ records \in Seq(Rec) /\ crashes \in Nat
    /\ durable \in 0 .. Len(records)

(* Between two publications that did not fail all catalogs are one. *)
OneCatalog ==
    /\ status = "open" /\ ~poison /\ ~Publishing => manifest = catalog /\ settled = catalog
    /\ pc = "publish" => manifest = catalog /\ settled = catalog
    /\ pc = "settle" => manifest = job.next /\ settled = catalog

(* Deferred deletes name files from before, never the next ones written.   *)
GarbageOld ==
    \A g \in garbage : /\ g.area = "units" => g.id \in 1 .. catalog.unitHigh
                       /\ g.area = "heads" => g.id \in 1 .. catalog.generation

HeadsOK ==
    status = "open" /\ catalog.headsGeneration # 0 =>
        headFiles[catalog.headsGeneration] = heads

(* What a publication is about to install and to retire. *)
JobOK ==
    Publishing =>
        /\ job.next.unitHigh >= catalog.unitHigh
        /\ job.next.generation >= catalog.generation
        /\ job.kind = "takeover" => job.next = [catalog EXCEPT !.generation = @ + 1]
        /\ job.kind # "takeover" =>
               /\ job.next.headsGeneration # 0 =>
                      headFiles[job.next.headsGeneration] = job.heads
               /\ \A o \in job.obsolete :
                      /\ o.area = "units" => /\ o.id \in 1 .. catalog.unitHigh
                                             /\ \A u \in job.next.units : u.id # o.id
                      /\ o.area = "heads" => /\ o.id \in 1 .. catalog.generation
                                             /\ o.id # job.next.headsGeneration

IInv == CatalogsKept /\ Control /\ LogOK /\ OneCatalog /\ GarbageOld /\ HeadsOK /\ JobOK
        /\ VisibleFresh

(* The invariant has what is claimed. *)
LEMMA IInvMeans == IInv => FilesPresent /\ AlwaysOpens /\ VisibleFresh
BY DEF IInv, CatalogsKept, KeptNow, Kept, FilesPresent, Lists, AlwaysOpens, Control, HeadsOK

-----------------------------------------------------------------------------
(***************************************************************************)
(* Files that are removed and files that are written.                      *)
(***************************************************************************)

(* Deletes that are carried out spare what a kept catalog lists. *)
LEMMA ReapKeeps ==
    ASSUME NEW c, NEW gone \in Reapable, KeptNow(c)
    PROVE  /\ Kept(c, UnitsWithout(gone), HeadsWithout(gone), garbage \ gone, durable)
           /\ gone \subseteq garbage
<1>1. gone \subseteq garbage
  BY DEF Reapable, Dead
<1>2. ASSUME NEW u \in c.units
      PROVE  u.id \in DOMAIN UnitsWithout(gone) /\ UnitsWithout(gone)[u.id] = u
  <2>1. u.id \in DOMAIN unitFiles /\ unitFiles[u.id] = u
    BY DEF KeptNow, Kept
  <2>2. u.id \notin Named("units", gone)
    BY <1>1 DEF KeptNow, Kept, Named
  <2> QED
    BY <2>1, <2>2 DEF UnitsWithout, Without, Restrict
<1>3. c.headsGeneration \in DOMAIN HeadsWithout(gone) \cup {0}
  <2>1. c.headsGeneration \notin Named("heads", gone)
    BY <1>1 DEF KeptNow, Kept, Named
  <2> QED
    BY <2>1 DEF KeptNow, Kept, HeadsWithout, Without, Restrict
<1> QED
  BY <1>1, <1>2, <1>3 DEF KeptNow, Kept

(* The heads of the catalog in memory are spared too. *)
LEMMA ReapKeepsHeads ==
    ASSUME NEW c, NEW gone \in Reapable, KeptNow(c), c.headsGeneration # 0
    PROVE  HeadsWithout(gone)[c.headsGeneration] = headFiles[c.headsGeneration]
<1>1. gone \subseteq garbage
  BY DEF Reapable, Dead
<1>2. c.headsGeneration \notin Named("heads", gone)
  BY <1>1 DEF KeptNow, Kept, Named
<1> QED
  BY <1>2 DEF KeptNow, Kept, HeadsWithout, Without, Restrict

(* Writing the next unit, or the next heads, leaves a catalog kept. *)
LEMMA NewUnitKeeps ==
    ASSUME NEW c, NEW files, NEW hs, NEW junk, NEW upTo, NEW unit,
           Kept(c, files, hs, junk, upTo), unit.id \notin 1 .. c.unitHigh
    PROVE  Kept(c, AddUnits(files, {unit}), hs, junk, upTo)
<1>1. ASSUME NEW u \in c.units
      PROVE  u.id \in DOMAIN AddUnits(files, {unit}) /\ AddUnits(files, {unit})[u.id] = u
  <2>1. u.id \in DOMAIN files /\ files[u.id] = u
    BY DEF Kept
  <2>2. u.id # unit.id
    BY DEF Kept, IsCatalog
  <2>3. /\ DOMAIN AddUnits(files, {unit}) = DOMAIN files \cup {unit.id}
        /\ \A i \in DOMAIN files : i # unit.id => AddUnits(files, {unit})[i] = files[i]
    BY DEF AddUnits
  <2> QED
    BY <2>1, <2>2, <2>3
<1> QED
  BY <1>1 DEF Kept

LEMMA NewHeadsKeep ==
    ASSUME NEW c, NEW files, NEW hs, NEW junk, NEW upTo, NEW g, NEW h,
           Kept(c, files, hs, junk, upTo)
    PROVE  Kept(c, files, With(hs, g, h), junk, upTo)
BY DEF Kept, With

LEMMA LaterKeeps ==
    ASSUME NEW c, NEW files, NEW hs, NEW junk, NEW upTo \in Nat, NEW later \in Nat,
           Kept(c, files, hs, junk, upTo), upTo <= later
    PROVE  Kept(c, files, hs, junk, later)
BY DEF Kept, IsCatalog

-----------------------------------------------------------------------------
(***************************************************************************)
(* Mutations.                                                              *)
(***************************************************************************)

(* Reaping outside of a publication, perhaps with a sync. *)
LEMMA ReapFiles ==
    ASSUME IInv, Reap, ~Publishing, durable' \in Nat, durable <= durable',
           UNCHANGED <<manifest, settled, status, catalog, heads>>
    PROVE  /\ KeptNow(manifest)' /\ KeptNow(settled)' /\ KeptNow(catalog)'
           /\ GarbageOld' /\ HeadsOK'
<1>1. PICK gone \in Reapable : /\ unitFiles' = UnitsWithout(gone)
                               /\ headFiles' = HeadsWithout(gone)
                               /\ garbage' = garbage \ gone
  BY DEF Reap
<1>2. durable \in Nat
  BY DEF IInv, LogOK
<1>3. ASSUME NEW c, KeptNow(c)
      PROVE  Kept(c, unitFiles', headFiles', garbage', durable')
  <2>1. Kept(c, UnitsWithout(gone), HeadsWithout(gone), garbage \ gone, durable)
    BY <1>3, ReapKeeps
  <2> QED
    BY <1>1, <1>2, <2>1, LaterKeeps
<1>4. /\ KeptNow(manifest)' /\ KeptNow(settled)' /\ KeptNow(catalog)'
  BY <1>3 DEF IInv, CatalogsKept, KeptNow
<1>5. GarbageOld'
  BY <1>1 DEF IInv, GarbageOld
<1>6. HeadsOK'
  BY <1>1, ReapKeepsHeads DEF IInv, CatalogsKept, HeadsOK
<1> QED
  BY <1>4, <1>5, <1>6

LEMMA MutateKeeps ==
    ASSUME IInv, NEW r \in Rec, Mutate(r)
    PROVE  IInv'
<1>1. /\ status = "open" /\ pc = "idle" /\ ~poison /\ ~Publishing
  BY DEF Mutate, Healthy, Locked, Publishing
<1>2. durable' = durable /\ durable \in Nat
  BY DEF Mutate, IInv, LogOK
<1>3. /\ KeptNow(manifest)' /\ KeptNow(settled)' /\ KeptNow(catalog)'
      /\ GarbageOld' /\ HeadsOK'
  BY <1>1, <1>2, ReapFiles DEF Mutate
<1>4. ~Publishing'
  BY <1>1 DEF Mutate, Publishing
<1>5. Control'
  BY <1>1, <1>4 DEF Mutate, IInv, Control
<1>6. LogOK'
  BY <1>2 DEF Mutate, IInv, LogOK
<1>7. OneCatalog'
  BY <1>1, <1>4 DEF Mutate, IInv, OneCatalog
<1>8. VisibleFresh'
  BY DEF Mutate, IInv, VisibleFresh, Fresh, Snapshot
<1> QED
  BY <1>3, <1>4, <1>5, <1>6, <1>7, <1>8 DEF IInv, CatalogsKept, JobOK

LEMMA TidyKeeps ==
    ASSUME IInv, Tidy \/ Sync \/ FinishMaintenance
    PROVE  IInv'
<1>1. /\ pc \in {"idle", "reap"} /\ pc' = "idle" /\ ~Publishing /\ ~Publishing'
      /\ Reap
      /\ UNCHANGED <<manifest, settled, records, status, poison, engine, visible, crashes>>
  BY DEF Tidy, Sync, FinishMaintenance, Healthy, Locked, Publishing, log
<1>2. /\ durable \in Nat /\ durable' \in Nat /\ durable <= durable'
      /\ durable' \in 0 .. Len(records)
  <2>1. durable \in 0 .. Len(records) /\ Len(records) \in Nat
    BY DEF IInv, LogOK
  <2>2. durable' \in {durable, Len(records)}
    BY DEF Tidy, Sync, FinishMaintenance, log
  <2> QED
    BY <2>1, <2>2
<1>3. /\ KeptNow(manifest)' /\ KeptNow(settled)' /\ KeptNow(catalog)'
      /\ GarbageOld' /\ HeadsOK'
  BY <1>1, <1>2, ReapFiles DEF engine
<1>4. Control'
  <2>1. status = "open"
    BY DEF Tidy, Sync, FinishMaintenance, Healthy, Locked, IInv, Control
  <2> QED
    BY <1>1, <2>1 DEF IInv, Control
<1>5. LogOK'
  BY <1>1, <1>2 DEF IInv, LogOK
<1>6. OneCatalog'
  BY <1>1 DEF IInv, OneCatalog, engine
<1>7. VisibleFresh'
  BY <1>1 DEF IInv, VisibleFresh, Fresh, Snapshot, engine
<1> QED
  BY <1>1, <1>3, <1>4, <1>5, <1>6, <1>7 DEF IInv, CatalogsKept, JobOK

(* Batches hold the engine's mutex between their records. *)
LEMMA BatchKeeps ==
    ASSUME IInv,
           \/ \E recs \in Seq(Rec) : recs # <<>> /\ BeginBatch(recs)
           \/ BatchRecord
           \/ BatchFails
    PROVE  IInv'
<1>1. /\ status = "open" /\ pc \in {"idle", "batch"} /\ pc' \in {"idle", "batch"}
      /\ UNCHANGED <<disk, durable, status, catalog, heads, generation, garbage, crashes>>
  BY DEF BeginBatch, BatchRecord, BatchFails, Healthy, Locked, log, engine, IInv, Control
<1>2. Control' /\ LogOK'
  <2>1. CASE \E recs \in Seq(Rec) : recs # <<>> /\ BeginBatch(recs)
    <3>1. PICK recs \in Seq(Rec) : recs # <<>> /\ BeginBatch(recs)
      BY <2>1
    <3>2. /\ pc' = "batch" /\ job' = [kind |-> "batch", all |-> recs, left |-> recs]
          /\ UNCHANGED <<records, poison, visible>>
      BY <3>1 DEF BeginBatch, log
    <3> QED
      BY <1>1, <3>1, <3>2 DEF IInv, Control, LogOK, Publishing
  <2>2. CASE BatchRecord
    <3>1. /\ job = [kind |-> "batch", all |-> job.all, left |-> job.left]
          /\ job.left \in Seq(Rec) /\ job.left # <<>>
      BY <2>2 DEF BatchRecord, IInv, Control
    <3>2. Head(job.left) \in Rec /\ Tail(job.left) \in Seq(Rec) /\ Len(job.left) \in Nat
      BY <3>1
    <3>3. records' \in Seq(Rec) /\ Len(records') = Len(records) + 1
      BY <2>2, <3>2 DEF BatchRecord, IInv, LogOK
    <3>4. LogOK'
      BY <1>1, <3>3 DEF IInv, LogOK
    <3>5. Control'
      <4>1. CASE Len(job.left) = 1
        <5>1. pc' = "idle" /\ poison' = poison
          BY <2>2, <4>1 DEF BatchRecord
        <5> QED
          BY <1>1, <5>1 DEF IInv, Control, Publishing
      <4>2. CASE Len(job.left) # 1
        <5>1. pc' = pc /\ pc = "batch" /\ poison' = poison
              /\ job' = [job EXCEPT !.left = Tail(job.left)]
          BY <2>2, <4>2 DEF BatchRecord
        <5>2. job' = [kind |-> "batch", all |-> job.all, left |-> Tail(job.left)]
          <6> DEFINE all == job.all
                     left == job.left
          <6>1. job = [kind |-> "batch", all |-> all, left |-> left]
            BY <3>1
          <6>2. job' = [job EXCEPT !.left = Tail(left)]
            BY <5>1
          <6> HIDE DEF all, left
          <6>3. job' = [kind |-> "batch", all |-> all, left |-> Tail(left)]
            BY <6>1, <6>2
          <6> QED
            BY <6>3 DEF all, left
        <5>3. Tail(job.left) # <<>>
          <6>1. Len(Tail(job.left)) = Len(job.left) - 1
            BY <3>1, HeadTailProperties
          <6>2. Len(Tail(job.left)) # 0
            BY <3>2, <4>2, <6>1
          <6> QED
            BY <3>2, <6>2, EmptySeq
        <5> QED
          BY <1>1, <3>2, <5>1, <5>2, <5>3 DEF IInv, Control, Publishing
      <4> QED
        BY <4>1, <4>2
    <3> QED
      BY <3>4, <3>5
  <2>3. CASE BatchFails
    BY <1>1, <2>3 DEF BatchFails, IInv, Control, LogOK, Publishing, log
  <2> QED
    BY <2>1, <2>2, <2>3 DEF BeginBatch
<1>3. OneCatalog'
  <2>1. poison \in BOOLEAN /\ (poison' = poison \/ poison' = TRUE)
    BY DEF BeginBatch, BatchRecord, BatchFails, IInv, Control
  <2> QED
    BY <1>1, <2>1 DEF IInv, OneCatalog, disk, Publishing
<1>4. VisibleFresh'
  <2>1. visible' = NoSnapshot \/ UNCHANGED <<visible, tail>>
    BY DEF BeginBatch, BatchRecord, BatchFails, engine
  <2> QED
    BY <1>1, <2>1 DEF IInv, VisibleFresh, Fresh, Snapshot
<1> QED
  BY <1>1, <1>2, <1>3, <1>4
  DEF IInv, CatalogsKept, KeptNow, JobOK, GarbageOld, HeadsOK, disk, Publishing

-----------------------------------------------------------------------------
(***************************************************************************)
(* Maintenance.                                                            *)
(***************************************************************************)

(* The successors of a catalog, field by field. *)
Fields(g, h, t, p, f, n, k, us) ==
    [generation : {g}, unitHigh : {h}, tableHigh : {t}, checkpoint : {p}, floor : {f},
     headsGeneration : {n}, clocks : {k}, units : {us}]

LEMMA Successors ==
    ASSUME NEW c, IsCatalog(c),
           NEW g, NEW h, NEW t, NEW p, NEW f, NEW k, NEW us
    PROVE  /\ [c EXCEPT !.generation = g] \in
                  Fields(g, c.unitHigh, c.tableHigh, c.checkpoint, c.floor,
                         c.headsGeneration, c.clocks, c.units)
           /\ [c EXCEPT !.generation = g, !.unitHigh = h, !.tableHigh = t,
                        !.checkpoint = p, !.clocks = k, !.units = us] \in
                  Fields(g, h, t, p, c.floor, c.headsGeneration, k, us)
           /\ [c EXCEPT !.generation = g, !.unitHigh = h, !.units = us] \in
                  Fields(g, h, c.tableHigh, c.checkpoint, c.floor,
                         c.headsGeneration, c.clocks, us)
           /\ [c EXCEPT !.generation = g, !.floor = f, !.headsGeneration = h,
                        !.units = us] \in
                  Fields(g, c.unitHigh, c.tableHigh, c.checkpoint, f, h, c.clocks, us)
BY DEF IsCatalog, Fields

(* What a publication writes before its first step may be loaded next. *)
LEMMA SealKeeps ==
    ASSUME IInv, Seal
    PROVE  IInv'
<1>1. /\ status = "open" /\ pc = "idle" /\ ~poison /\ ~Publishing
      /\ manifest = catalog /\ settled = catalog /\ KeptNow(catalog)
      /\ catalog.checkpoint < Len(records)
  BY DEF Seal, SealDurably, Healthy, Locked, Publishing, IInv, OneCatalog, CatalogsKept
<1>2. PICK gone \in Reapable : /\ unitFiles' = AddUnits(UnitsWithout(gone), SealedUnits)
                               /\ headFiles' = HeadsWithout(gone)
                               /\ garbage' = garbage \ gone
  BY DEF Seal, SealDurably
<1>3. /\ durable' = Len(records) /\ pc' = "publish"
      /\ job' = [kind |-> "seal", next |-> SealedCatalog,
                 tail |-> ReplayTarget(SealedCatalog), heads |-> heads, obsolete |-> {}]
      /\ UNCHANGED <<manifest, settled, records, status, poison, catalog, tail, heads,
                     generation, visible, crashes>>
  BY DEF Seal, SealDurably, engine
<1>4. /\ Len(records) \in Nat /\ durable \in Nat /\ durable <= Len(records)
      /\ records \in Seq(Rec) /\ crashes \in Nat
  BY DEF IInv, LogOK
<1>5. /\ IsCatalog(catalog) /\ NextUnit \in Nat /\ NextUnit \notin 1 .. catalog.unitHigh
      /\ UnitHigh \in Nat /\ UnitHigh >= catalog.unitHigh
      /\ NextGeneration \in Nat /\ NextGeneration >= catalog.generation
  BY <1>1 DEF KeptNow, Kept, IsCatalog, NextUnit, UnitHigh, NextGeneration
<1>6. SealedCatalog \in
          Fields(NextGeneration, UnitHigh, tail.high, Len(records), catalog.floor,
                 catalog.headsGeneration, Clocks, catalog.units \cup SealedUnits)
  BY <1>5, Successors DEF SealedCatalog, CatalogAfterSeal
<1>7. /\ Kept(catalog, UnitsWithout(gone), HeadsWithout(gone), garbage \ gone, durable)
      /\ gone \subseteq garbage
  BY <1>1, ReapKeeps
<1>8. \A u \in SealedUnits : u.id = NextUnit /\ UnitHigh = NextUnit /\ SealedUnits = {u}
  BY DEF SealedUnits, UnitHigh
<1>9. /\ \A u \in SealedUnits : u.id \in DOMAIN unitFiles' /\ unitFiles'[u.id] = u
      /\ \A i \in DOMAIN UnitsWithout(gone) :
             (\A u \in SealedUnits : i # u.id) =>
                 i \in DOMAIN unitFiles' /\ unitFiles'[i] = UnitsWithout(gone)[i]
  BY <1>2, <1>8 DEF AddUnits
<1>10. Kept(catalog, unitFiles', headFiles', garbage', durable')
  <2>1. \A u \in catalog.units : u.id \in DOMAIN unitFiles' /\ unitFiles'[u.id] = u
    BY <1>5, <1>7, <1>8, <1>9 DEF Kept, IsCatalog
  <2> QED
    BY <1>2, <1>3, <1>4, <1>7, <2>1 DEF Kept, IsCatalog
<1>11. Kept(SealedCatalog, unitFiles', headFiles', garbage', durable')
  <2>1. IsCatalog(SealedCatalog)
    <3>1. \A u \in catalog.units \cup SealedUnits : u.id \in 1 .. UnitHigh
      <4>1. \A u \in SealedUnits : u.id = UnitHigh /\ UnitHigh >= 1
        BY <1>5, <1>8 DEF NextUnit, IsCatalog
      <4> QED
        BY <1>5, <4>1 DEF IsCatalog
    <3>2. catalog.headsGeneration \in 0 .. NextGeneration
      BY <1>5 DEF IsCatalog
    <3> QED
      BY <1>4, <1>5, <1>6, <3>1, <3>2 DEF IsCatalog, Fields
  <2>2. \A g \in garbage' : g.area = "units" => g.id \in 1 .. catalog.unitHigh
    BY <1>2 DEF IInv, GarbageOld
  <2>3. \A u \in SealedCatalog.units :
            /\ u.id \in DOMAIN unitFiles' /\ unitFiles'[u.id] = u
            /\ \A g \in garbage' : g.area = "units" => u.id # g.id
    BY <1>5, <1>6, <1>8, <1>9, <1>10, <2>2 DEF Kept, Fields
  <2> QED
    BY <1>3, <1>6, <1>10, <2>1, <2>3, <1>4 DEF Kept, Fields
<1>12. CatalogsKept'
  BY <1>1, <1>3, <1>10, <1>11 DEF CatalogsKept, KeptNow
<1>13. Control' /\ LogOK' /\ OneCatalog'
  BY <1>1, <1>3, <1>4 DEF IInv, Control, LogOK, OneCatalog, Publishing
<1>14. GarbageOld'
  BY <1>2, <1>3 DEF IInv, GarbageOld
<1>15. HeadsOK'
  BY <1>1, <1>2, <1>3, ReapKeepsHeads DEF IInv, HeadsOK
<1>16. JobOK'
  <2>1. job'.next.headsGeneration = catalog.headsGeneration /\ job'.heads = heads
    BY <1>3, <1>6 DEF Fields
  <2>2. catalog'.headsGeneration # 0 => headFiles'[catalog'.headsGeneration] = heads'
    BY <1>1, <1>3, <1>15 DEF HeadsOK
  <2> QED
    BY <1>3, <1>5, <1>6, <2>1, <2>2 DEF JobOK, Fields
<1>17. VisibleFresh'
  BY <1>3 DEF IInv, VisibleFresh, Fresh, Snapshot
<1> QED
  BY <1>12, <1>13, <1>14, <1>15, <1>16, <1>17 DEF IInv

(* compact_locked, with the files that its caller has left. *)
LEMMA CompactKeeps ==
    ASSUME IInv, Healthy, NEW inputs, inputs \subseteq catalog.units, NEW files,
           Compact(inputs, files), garbage' \subseteq garbage,
           Kept(catalog, files, headFiles', garbage', durable),
           catalog.headsGeneration # 0 =>
               headFiles'[catalog.headsGeneration] = headFiles[catalog.headsGeneration]
    PROVE  IInv'
<1> DEFINE merged == [id |-> NextUnit, level |-> First(inputs).level + 1,
                      rows |-> UNION {u.rows : u \in inputs}]
           next == [catalog EXCEPT !.generation = NextGeneration, !.unitHigh = NextUnit,
                                   !.units = (@ \ inputs) \cup {merged}]
<1>1. /\ status = "open" /\ pc = "idle" /\ ~poison /\ ~Publishing
      /\ manifest = catalog /\ settled = catalog
  BY DEF Healthy, Locked, Publishing, IInv, OneCatalog
<1>2. /\ unitFiles' = AddUnits(files, {merged}) /\ pc' = "publish"
      /\ job' = [kind |-> "compact", next |-> next, tail |-> tail, heads |-> heads,
                 obsolete |-> {[area |-> "units", id |-> u.id] : u \in inputs}]
      /\ UNCHANGED <<manifest, settled, records, durable, status, poison, catalog, tail,
                     heads, generation, visible, crashes>>
  BY DEF Compact, engine, log
<1>3. /\ IsCatalog(catalog) /\ NextUnit \in Nat /\ NextUnit \notin 1 .. catalog.unitHigh
      /\ NextUnit >= catalog.unitHigh /\ NextUnit >= 1
      /\ NextGeneration \in Nat /\ NextGeneration >= catalog.generation
  BY DEF Kept, IsCatalog, NextUnit, NextGeneration
<1>4. merged.id = NextUnit
  OBVIOUS
<1>5. next \in Fields(NextGeneration, NextUnit, catalog.tableHigh, catalog.checkpoint,
                      catalog.floor, catalog.headsGeneration, catalog.clocks,
                      (catalog.units \ inputs) \cup {merged})
  BY <1>3, Successors
<1> HIDE DEF merged, next
<1>6. Kept(catalog, unitFiles', headFiles', garbage', durable')
  BY <1>2, <1>3, <1>4, NewUnitKeeps
<1>7. Kept(next, unitFiles', headFiles', garbage', durable')
  <2>1. IsCatalog(next)
    <3>1. \A u \in (catalog.units \ inputs) \cup {merged} : u.id \in 1 .. NextUnit
      BY <1>3, <1>4 DEF IsCatalog
    <3>2. catalog.headsGeneration \in 0 .. NextGeneration
      BY <1>3 DEF IsCatalog
    <3> QED
      BY <1>3, <1>5, <3>1, <3>2 DEF IsCatalog, Fields
  <2>2. merged.id \in DOMAIN unitFiles' /\ unitFiles'[merged.id] = merged
    BY <1>2 DEF AddUnits
  <2>3. \A g \in garbage' : g.area = "units" => merged.id # g.id
    BY <1>3, <1>4 DEF IInv, GarbageOld
  <2> QED
    BY <1>5, <1>6, <2>1, <2>2, <2>3 DEF Kept, Fields
<1>8. CatalogsKept'
  BY <1>1, <1>2, <1>6, <1>7 DEF CatalogsKept, KeptNow
<1>9. Control' /\ LogOK' /\ OneCatalog'
  BY <1>1, <1>2 DEF IInv, Control, LogOK, OneCatalog, Publishing
<1>10. GarbageOld'
  BY <1>2 DEF IInv, GarbageOld
<1>11. HeadsOK'
  BY <1>2 DEF IInv, HeadsOK
<1>12. JobOK'
  <2>1. \A u \in inputs : u.id \in 1 .. catalog.unitHigh
    BY <1>3 DEF IsCatalog
  <2>2. \A u \in inputs, v \in next.units : v.id # u.id
    <3>1. \A u \in inputs, v \in catalog.units : v.id = u.id => v = u
      BY DEF Kept
    <3> QED
      BY <1>3, <1>4, <1>5, <2>1, <3>1 DEF Fields
  <2>3. \A o \in job'.obsolete : o.area = "units" /\ \E u \in inputs : o.id = u.id
    BY <1>2
  <2>4. job'.next = next /\ job'.kind = "compact" /\ job'.heads = heads
    BY <1>2
  <2>5. /\ next.unitHigh >= catalog.unitHigh /\ next.generation >= catalog.generation
        /\ next.headsGeneration = catalog.headsGeneration
    BY <1>3, <1>5 DEF Fields
  <2>6. catalog.headsGeneration # 0 => headFiles'[catalog.headsGeneration] = heads
    BY <1>1 DEF IInv, HeadsOK
  <2> QED
    BY <1>2, <2>1, <2>2, <2>3, <2>4, <2>5, <2>6 DEF JobOK
<1>13. VisibleFresh'
  BY <1>2 DEF IInv, VisibleFresh, Fresh, Snapshot
<1> QED
  BY <1>8, <1>9, <1>10, <1>11, <1>12, <1>13 DEF IInv

LEMMA CompactLevelKeeps ==
    ASSUME IInv, NEW level, CompactLevel(level)
    PROVE  IInv'
<1>1. Healthy /\ KeptNow(catalog)
  BY DEF CompactLevel, IInv, CatalogsKept
<1>2. SelectRun(level) \subseteq catalog.units
  BY DEF SelectRun, RunFrom
<1>3. PICK gone \in Reapable : /\ Compact(SelectRun(level), UnitsWithout(gone))
                               /\ headFiles' = HeadsWithout(gone)
                               /\ garbage' = garbage \ gone
  BY DEF CompactLevel
<1>4. Kept(catalog, UnitsWithout(gone), headFiles', garbage', durable)
  BY <1>1, <1>3, ReapKeeps
<1>5. catalog.headsGeneration # 0 =>
          headFiles'[catalog.headsGeneration] = headFiles[catalog.headsGeneration]
  BY <1>1, <1>3, ReapKeepsHeads
<1> QED
  BY <1>1, <1>2, <1>3, <1>4, <1>5, CompactKeeps

LEMMA CompactWindowKeeps ==
    ASSUME IInv, NEW level, NEW width, CompactWindow(level, width)
    PROVE  IInv'
<1>1. Healthy /\ KeptNow(catalog)
  BY DEF CompactWindow, IInv, CatalogsKept
<1>2. ClosedWindow(level, width) \subseteq catalog.units
  BY DEF ClosedWindow, RunFrom
<1>3. /\ Compact(ClosedWindow(level, width), unitFiles)
      /\ headFiles' = headFiles /\ garbage' = garbage
  BY DEF CompactWindow
<1> QED
  BY <1>1, <1>2, <1>3, CompactKeeps DEF KeptNow

LEMMA RetainKeeps ==
    ASSUME IInv, NEW cutoff, Retain(cutoff)
    PROVE  IInv'
<1> DEFINE expired == Expired(cutoff)
           floor == FloorAfter(expired)
           next == [catalog EXCEPT !.generation = NextGeneration, !.floor = floor,
                        !.headsGeneration = NextGeneration, !.units = @ \ expired]
           retired == {[area |-> "units", id |-> u.id] : u \in expired}
                      \cup {[area |-> "heads", id |-> g] :
                               g \in {catalog.headsGeneration} \ {0}}
<1>1. /\ status = "open" /\ pc = "idle" /\ ~poison /\ ~Publishing
      /\ manifest = catalog /\ settled = catalog /\ KeptNow(catalog)
  BY DEF Retain, Healthy, Locked, Publishing, IInv, OneCatalog, CatalogsKept
<1>2. PICK gone \in Reapable :
          /\ unitFiles' = UnitsWithout(gone)
          /\ headFiles' = With(HeadsWithout(gone), NextGeneration, Folded(expired))
          /\ garbage' = garbage \ gone
  BY DEF Retain
<1>3. /\ pc' = "publish"
      /\ job' = [kind |-> "retain", next |-> next, tail |-> tail,
                 heads |-> Folded(expired), obsolete |-> retired]
      /\ UNCHANGED <<manifest, settled, records, durable, status, poison, catalog, tail,
                     heads, generation, visible, crashes>>
  BY DEF Retain, engine, log
<1>4. expired \subseteq catalog.units
  BY DEF Expired
<1>5. /\ IsCatalog(catalog) /\ NextGeneration \in Nat /\ NextGeneration >= 1
      /\ NextGeneration >= catalog.generation
      /\ NextGeneration \notin 0 .. catalog.generation
  BY <1>1 DEF KeptNow, Kept, IsCatalog, NextGeneration
<1>6. next \in Fields(NextGeneration, catalog.unitHigh, catalog.tableHigh,
                      catalog.checkpoint, floor, NextGeneration, catalog.clocks,
                      catalog.units \ expired)
  BY <1>5, Successors
<1> HIDE DEF next, expired, floor, retired
<1>7. Kept(catalog, unitFiles', HeadsWithout(gone), garbage', durable')
  BY <1>1, <1>2, <1>3, ReapKeeps
<1>8. Kept(catalog, unitFiles', headFiles', garbage', durable')
  BY <1>2, <1>7, NewHeadsKeep
<1>9. /\ NextGeneration \in DOMAIN headFiles'
      /\ headFiles'[NextGeneration] = Folded(expired)
      /\ \A g \in DOMAIN HeadsWithout(gone) :
             g # NextGeneration => headFiles'[g] = HeadsWithout(gone)[g]
  BY <1>2 DEF With
<1>10. Kept(next, unitFiles', headFiles', garbage', durable')
  <2>1. IsCatalog(next)
    BY <1>5, <1>6 DEF IsCatalog, Fields
  <2>2. \A g \in garbage' : g.area = "heads" => NextGeneration # g.id
    BY <1>2, <1>5 DEF IInv, GarbageOld
  <2> QED
    BY <1>6, <1>8, <1>9, <2>1, <2>2 DEF Kept, Fields
<1>11. CatalogsKept'
  BY <1>1, <1>3, <1>8, <1>10 DEF CatalogsKept, KeptNow
<1>12. Control' /\ LogOK' /\ OneCatalog'
  BY <1>1, <1>3 DEF IInv, Control, LogOK, OneCatalog, Publishing
<1>13. GarbageOld'
  BY <1>2, <1>3 DEF IInv, GarbageOld
<1>14. HeadsOK'
  <2>1. ASSUME catalog.headsGeneration # 0
        PROVE  headFiles'[catalog.headsGeneration] = headFiles[catalog.headsGeneration]
    <3>1. HeadsWithout(gone)[catalog.headsGeneration] = headFiles[catalog.headsGeneration]
      BY <1>1, <2>1, ReapKeepsHeads
    <3>2. /\ catalog.headsGeneration \in DOMAIN HeadsWithout(gone)
          /\ catalog.headsGeneration # NextGeneration
      BY <1>5, <1>7, <2>1 DEF Kept, IsCatalog
    <3> QED
      BY <1>9, <3>1, <3>2
  <2> QED
    BY <1>3, <2>1 DEF IInv, HeadsOK
<1>15. JobOK'
  <2>1. \A u \in expired : u.id \in 1 .. catalog.unitHigh
    BY <1>4, <1>5 DEF IsCatalog
  <2>2. \A u \in expired, v \in next.units : v.id # u.id
    BY <1>4, <1>6, <1>7 DEF Kept, Fields
  <2>3. \A o \in retired : \/ o.area = "units" /\ \E u \in expired : o.id = u.id
                           \/ /\ o.area = "heads" /\ o.id = catalog.headsGeneration
                              /\ o.id # 0
    BY DEF retired
  <2>4. job'.next = next /\ job'.kind = "retain" /\ job'.heads = Folded(expired)
        /\ job'.obsolete = retired
    BY <1>3
  <2>5. /\ next.unitHigh >= catalog.unitHigh /\ next.generation >= catalog.generation
        /\ next.headsGeneration = NextGeneration
    BY <1>5, <1>6 DEF Fields, IsCatalog
  <2>6. catalog.headsGeneration # 0 =>
            /\ catalog.headsGeneration \in 1 .. catalog.generation
            /\ catalog.headsGeneration # NextGeneration
    BY <1>5 DEF IsCatalog
  <2>7. \A o \in retired :
            /\ o.area = "units" => /\ o.id \in 1 .. catalog.unitHigh
                                   /\ \A v \in next.units : v.id # o.id
            /\ o.area = "heads" => /\ o.id \in 1 .. catalog.generation
                                   /\ o.id # next.headsGeneration
    BY <2>1, <2>2, <2>3, <2>5, <2>6
  <2> QED
    BY <1>3, <1>9, <2>4, <2>5, <2>7 DEF JobOK
<1>16. VisibleFresh'
  BY <1>3 DEF IInv, VisibleFresh, Fresh, Snapshot
<1> QED
  BY <1>11, <1>12, <1>13, <1>14, <1>15, <1>16 DEF IInv

LEMMA PublishKeeps ==
    ASSUME IInv, Publish \/ PublishFails
    PROVE  IInv'
<1>1. CASE Publish
  <2>1. /\ pc = "publish" /\ pc' = "settle" /\ manifest' = job.next
        /\ UNCHANGED <<unitFiles, headFiles, settled, records, durable, status, poison,
                       catalog, tail, heads, generation, garbage, visible, job, crashes>>
    BY <1>1 DEF Publish, log, engine
  <2>2. CatalogsKept'
    BY <2>1 DEF IInv, CatalogsKept, KeptNow, Publishing
  <2>3. Control' /\ LogOK' /\ OneCatalog'
    BY <2>1 DEF IInv, Control, LogOK, OneCatalog, Publishing
  <2>4. GarbageOld' /\ HeadsOK' /\ JobOK' /\ VisibleFresh'
    BY <2>1 DEF IInv, GarbageOld, HeadsOK, JobOK, Publishing, VisibleFresh, Fresh, Snapshot
  <2> QED
    BY <2>2, <2>3, <2>4 DEF IInv
<1>2. CASE PublishFails
  <2>1. /\ pc \in {"publish", "settle"} /\ pc' = "idle"
        /\ UNCHANGED <<unitFiles, headFiles, manifest, settled, records, durable, status,
                       catalog, tail, heads, generation, garbage, visible, crashes>>
    BY <1>2 DEF PublishFails, disk, log, engine
  <2>2. poison' \in BOOLEAN /\ (poison' = TRUE \/ pc = "publish")
    <3>1. CASE pc = "publish"
      BY <1>2, <3>1 DEF PublishFails
    <3>2. CASE pc # "publish"
      BY <1>2, <3>2 DEF PublishFails
    <3> QED
      BY <3>1, <3>2
  <2>3. CatalogsKept'
    BY <2>1 DEF IInv, CatalogsKept, KeptNow, Publishing
  <2>4. Control' /\ LogOK' /\ OneCatalog'
    BY <2>1, <2>2 DEF IInv, Control, LogOK, OneCatalog, Publishing
  <2>5. GarbageOld' /\ HeadsOK' /\ JobOK' /\ VisibleFresh'
    BY <2>1 DEF IInv, GarbageOld, HeadsOK, JobOK, Publishing, VisibleFresh, Fresh, Snapshot
  <2> QED
    BY <2>3, <2>4, <2>5 DEF IInv
<1> QED
  BY <1>1, <1>2

(* What is installed becomes the only catalog; what it has replaced joins  *)
(* the deferred deletes.                                                   *)
LEMMA InstallKeeps ==
    ASSUME IInv, Install
    PROVE  IInv'
<1>1. /\ pc = "settle" /\ pc' \in {"idle", "reap"} /\ status = "open"
      /\ manifest = job.next /\ settled' = job.next /\ catalog' = job.next
      /\ UNCHANGED <<unitFiles, headFiles, manifest, records, durable, status, poison,
                     crashes>>
      /\ KeptNow(job.next)
      /\ JobOK /\ Publishing /\ ~Publishing'
  BY DEF Install, IInv, OneCatalog, Control, CatalogsKept, Publishing, log
<1>2. /\ job.next.unitHigh >= catalog.unitHigh
      /\ job.next.generation >= catalog.generation
      /\ IsCatalog(job.next) /\ IsCatalog(catalog)
  BY <1>1 DEF JobOK, KeptNow, Kept, IInv, CatalogsKept
<1>3. ASSUME NEW low \in Nat, NEW high \in Nat, high >= low, NEW i \in 1 .. low
      PROVE  i \in 1 .. high
  BY <1>3
<1>4. Control' /\ LogOK' /\ OneCatalog'
  BY <1>1 DEF IInv, Control, LogOK, OneCatalog, Publishing
<1>5. JobOK'
  BY <1>1 DEF JobOK
<1>6. CASE job.kind = "takeover"
  <2>1. UNCHANGED <<tail, heads, generation, garbage, visible>>
    BY <1>6 DEF Install
  <2>2. job.next \in Fields(catalog.generation + 1, catalog.unitHigh, catalog.tableHigh,
                            catalog.checkpoint, catalog.floor, catalog.headsGeneration,
                            catalog.clocks, catalog.units)
    <3>1. job.next = [catalog EXCEPT !.generation = catalog.generation + 1]
      BY <1>1, <1>6 DEF JobOK
    <3>2. [catalog EXCEPT !.generation = catalog.generation + 1]
          \in Fields(catalog.generation + 1, catalog.unitHigh, catalog.tableHigh,
                     catalog.checkpoint, catalog.floor, catalog.headsGeneration,
                     catalog.clocks, catalog.units)
      BY <1>2 DEF IsCatalog, Fields
    <3> QED
      BY <3>1, <3>2
  <2>3. CatalogsKept'
    BY <1>1, <2>1 DEF CatalogsKept, KeptNow
  <2>4. GarbageOld'
    BY <1>1, <1>2, <2>1 DEF IInv, GarbageOld, IsCatalog
  <2>5. HeadsOK'
    BY <1>1, <2>1, <2>2 DEF IInv, HeadsOK, Fields
  <2>6. VisibleFresh'
    BY <1>1, <2>1, <2>2 DEF IInv, VisibleFresh, Fresh, Snapshot, Fields
  <2> QED
    BY <1>4, <1>5, <2>3, <2>4, <2>5, <2>6 DEF IInv
<1>7. CASE job.kind # "takeover"
  <2>1. /\ heads' = job.heads /\ garbage' = garbage \cup Retired
        /\ visible' = Refreshed
    BY <1>7 DEF Install
  <2>2. \A g \in Retired : \E o \in job.obsolete : g.area = o.area /\ g.id = o.id
    BY DEF Retired
  <2>3. Kept(job.next, unitFiles, headFiles, garbage', durable)
    BY <1>1, <1>7, <2>1, <2>2 DEF JobOK, KeptNow, Kept
  <2>4. CatalogsKept'
    BY <1>1, <2>3 DEF CatalogsKept, KeptNow
  <2>5. GarbageOld'
    <3>1. \A g \in garbage' : /\ g.area = "units" => g.id \in 1 .. catalog.unitHigh
                              /\ g.area = "heads" => g.id \in 1 .. catalog.generation
      BY <1>1, <1>7, <2>1, <2>2 DEF IInv, GarbageOld, JobOK
    <3> QED
      BY <1>1, <1>2, <3>1 DEF GarbageOld, IsCatalog
  <2>6. HeadsOK'
    BY <1>1, <1>7, <2>1 DEF HeadsOK, JobOK
  <2>7. VisibleFresh'
    BY <2>1 DEF VisibleFresh, Refreshed, Fresh
  <2> QED
    BY <1>4, <1>5, <2>4, <2>5, <2>6, <2>7 DEF IInv
<1> QED
  BY <1>6, <1>7

-----------------------------------------------------------------------------
(***************************************************************************)
(* Snapshots, and the end and the beginning of a process.                  *)
(***************************************************************************)
LEMMA ReadingKeeps ==
    ASSUME IInv, NEW r, TakeSnapshot(r) \/ DropSnapshot(r)
    PROVE  IInv'
<1>1. UNCHANGED <<unitFiles, headFiles, manifest, settled, records, durable, status,
                  poison, catalog, tail, heads, generation, garbage, pc, job, crashes>>
  BY DEF TakeSnapshot, DropSnapshot, disk, log, engine
<1>2. \/ visible' = visible
      \/ visible' = Fresh /\ status = "open"
  BY DEF TakeSnapshot, DropSnapshot
<1>3. VisibleFresh' /\ Control'
  BY <1>1, <1>2 DEF IInv, VisibleFresh, Fresh, Snapshot, Control, Publishing
<1> QED
  BY <1>1, <1>3
  DEF IInv, CatalogsKept, KeptNow, LogOK, OneCatalog, GarbageOld, HeadsOK, JobOK, Publishing

(* The catalog of an empty directory needs no file. *)
LEMMA InitialKept ==
    ASSUME NEW files, NEW hs, NEW upTo \in Nat
    PROVE  Kept(InitialCatalog, files, hs, {}, upTo)
BY DEF Kept, IsCatalog, InitialCatalog

(* Whatever ends the process, the directory holds one of two catalogs that *)
(* were kept, and the log no less than its durable prefix.                 *)
LEMMA GoneKeeps ==
    ASSUME IInv, Gone, UNCHANGED <<unitFiles, headFiles>>,
           manifest' \in {manifest, settled}, settled' \in {manifest, settled},
           records' \in Seq(Rec), durable' \in 0 .. Len(records'), durable <= durable'
    PROVE  IInv'
<1>1. /\ catalog' = InitialCatalog /\ garbage' = {} /\ visible' = NoSnapshot
      /\ pc' = "idle" /\ status' = "closed" /\ poison' = FALSE /\ crashes' = crashes + 1
  BY DEF Gone
<1>2. durable \in Nat /\ durable' \in Nat
  BY DEF IInv, LogOK
<1>3. ASSUME NEW c \in {manifest, settled}
      PROVE  Kept(c, unitFiles', headFiles', garbage', durable')
  <2>1. Kept(c, unitFiles, headFiles, garbage, durable')
    BY <1>2, <1>3, LaterKeeps DEF IInv, CatalogsKept, KeptNow
  <2> QED
    BY <1>1, <2>1 DEF Kept
<1>4. CatalogsKept'
  <2>1. Kept(catalog', unitFiles', headFiles', garbage', durable')
    BY <1>1, <1>2, InitialKept
  <2> QED
    BY <1>1, <1>3, <2>1 DEF CatalogsKept, KeptNow, Publishing
<1>5. LogOK'
  BY <1>1 DEF IInv, LogOK
<1>6. Control' /\ OneCatalog'
  BY <1>1 DEF Control, OneCatalog, Publishing
<1>7. GarbageOld' /\ HeadsOK' /\ JobOK' /\ VisibleFresh'
  BY <1>1 DEF GarbageOld, HeadsOK, JobOK, Publishing, VisibleFresh
<1> QED
  BY <1>4, <1>5, <1>6, <1>7 DEF IInv

LEMMA CrashKeeps ==
    ASSUME IInv, TakeoverFails \/ Close \/ \E power \in BOOLEAN : Crash(power)
    PROVE  IInv'
<1>1. /\ Gone /\ UNCHANGED <<unitFiles, headFiles>>
      /\ manifest' \in {manifest, settled} /\ settled' \in {manifest, settled}
  BY DEF TakeoverFails, Close, Crash, disk
<1>2. records \in Seq(Rec) /\ durable \in 0 .. Len(records)
  BY DEF IInv, LogOK
<1>3. records' \in Seq(Rec) /\ durable' \in 0 .. Len(records') /\ durable <= durable'
  <2>1. CASE TakeoverFails
    BY <1>2, <2>1 DEF TakeoverFails, log
  <2>2. CASE ~TakeoverFails
    <3>1. PICK cut \in durable .. Len(records) :
              records' = SubSeq(records, 1, cut) /\ durable' = cut
      BY <2>2 DEF Close, Crash, CutLog
    <3>2. cut \in Nat /\ \A i \in 1 .. cut : records[i] \in Rec
      BY <1>2
    <3>3. /\ SubSeq(records, 1, cut) \in Seq(Rec)
          /\ Len(SubSeq(records, 1, cut)) = IF 1 <= cut THEN cut - 1 + 1 ELSE 0
      BY <3>2, SubSeqProperties
    <3> QED
      BY <1>2, <3>1, <3>2, <3>3
  <2> QED
    BY <2>1, <2>2
<1> QED
  BY <1>1, <1>3, GoneKeeps

(* An open finds what the MANIFEST lists, and removes nothing of it. *)
LEMMA OpenKeeps ==
    ASSUME IInv, Open
    PROVE  IInv'
<1>1. /\ status = "closed" /\ pc = "idle" /\ garbage = {} /\ poison = FALSE
      /\ KeptNow(manifest)
  BY DEF Open, OpenSettling, IInv, Control, CatalogsKept
<1>2. /\ Len(records) \in Nat /\ durable \in Nat /\ durable <= Len(records)
      /\ records \in Seq(Rec) /\ crashes \in Nat
  BY DEF IInv, LogOK
<1>3. Loadable
  BY <1>1, <1>2 DEF Loadable, KeptNow, Kept, IsCatalog
<1> DEFINE strangers == DOMAIN unitFiles \ {u.id : u \in manifest.units}
           oldHeads == DOMAIN headFiles \ {manifest.headsGeneration}
           next == [manifest EXCEPT !.generation = @ + 1]
<1>4. /\ \E left \in SUBSET strangers : unitFiles' = Without(unitFiles, strangers \ left)
      /\ \E left \in SUBSET oldHeads : headFiles' = Without(headFiles, oldHeads \ left)
      /\ status' = "open" /\ catalog' = manifest /\ settled' = manifest
      /\ heads' = LoadedHeads(manifest) /\ durable' = Len(records) /\ visible' = Refreshed
      /\ UNCHANGED <<manifest, records, poison, garbage, crashes>>
      /\ \/ UNCHANGED <<pc, job>>
         \/ pc' = "publish" /\ job' = [kind |-> "takeover", next |-> next]
  BY <1>3 DEF Open, OpenSettling
<1>5. Kept(manifest, unitFiles', headFiles', garbage', durable')
  <2>1. \A u \in manifest.units : u.id \in DOMAIN unitFiles' /\ unitFiles'[u.id] = u
    BY <1>1, <1>4 DEF KeptNow, Kept, Without, Restrict
  <2>2. manifest.headsGeneration \in DOMAIN headFiles' \cup {0}
    BY <1>1, <1>4 DEF KeptNow, Kept, Without, Restrict
  <2>3. manifest.checkpoint <= durable'
    BY <1>1, <1>2, <1>4 DEF KeptNow, Kept, IsCatalog
  <2> QED
    BY <1>1, <1>4, <2>1, <2>2, <2>3 DEF KeptNow, Kept
<1>6. next \in Fields(manifest.generation + 1, manifest.unitHigh, manifest.tableHigh,
                      manifest.checkpoint, manifest.floor, manifest.headsGeneration,
                      manifest.clocks, manifest.units)
  BY <1>1, Successors DEF KeptNow, Kept
<1> HIDE DEF strangers, oldHeads
<1>7. Kept(next, unitFiles', headFiles', garbage', durable')
  <2> HIDE DEF next
  <2>1. IsCatalog(next)
    BY <1>1, <1>6 DEF KeptNow, Kept, IsCatalog, Fields
  <2> QED
    BY <1>5, <1>6, <2>1 DEF Kept, Fields
<1>8. CatalogsKept'
  BY <1>1, <1>4, <1>5, <1>7 DEF CatalogsKept, KeptNow, Publishing
<1>9. Control' /\ LogOK'
  BY <1>1, <1>2, <1>4 DEF IInv, Control, LogOK, Publishing
<1>10. OneCatalog' /\ GarbageOld'
  BY <1>1, <1>4 DEF OneCatalog, GarbageOld, Publishing
<1>11. HeadsOK'
  BY <1>1, <1>4 DEF HeadsOK, LoadedHeads, KeptNow, Kept, Without, Restrict, oldHeads
<1>12. JobOK'
  <2>1. CASE UNCHANGED <<pc, job>>
    BY <1>1, <2>1 DEF JobOK, Publishing
  <2>2. CASE pc' = "publish" /\ job' = [kind |-> "takeover", next |-> next]
    <3>1. next = [catalog' EXCEPT !.generation = @ + 1]
      BY <1>4
    <3>2. /\ next.unitHigh = catalog'.unitHigh /\ next.generation = catalog'.generation + 1
          /\ catalog'.unitHigh \in Nat /\ catalog'.generation \in Nat
      BY <1>1, <1>4, <1>6 DEF Fields, KeptNow, Kept, IsCatalog
    <3> HIDE DEF next
    <3>3. job'.kind = "takeover" /\ job'.next = next
      BY <2>2
    <3> QED
      BY <3>1, <3>2, <3>3 DEF JobOK
  <2> QED
    BY <1>4, <2>1, <2>2
<1>13. VisibleFresh'
  BY <1>4 DEF VisibleFresh, Refreshed, Fresh
<1> QED
  BY <1>8, <1>9, <1>10, <1>11, <1>12, <1>13 DEF IInv

-----------------------------------------------------------------------------
(***************************************************************************)
(* The theorems.                                                           *)
(***************************************************************************)
LEMMA InitKeeps == Init => IInv
<1> SUFFICES ASSUME Init PROVE IInv
  OBVIOUS
<1>1. /\ manifest = InitialCatalog /\ settled = InitialCatalog /\ catalog = InitialCatalog
      /\ garbage = {} /\ durable = 0 /\ crashes = 0 /\ status = "open" /\ poison = FALSE
      /\ pc = "idle" /\ visible = NoSnapshot
  BY DEF Init
<1>2. records \in Seq(Rec) /\ Len(records) \in Nat
  <2>1. Founded \in Nat /\ \A t \in 1 .. Founded : t \in Tables
    BY TablesAssumption, FS_CardinalityType
  <2>2. \A t \in 1 .. Founded : Record("create", t, 0) \in Rec
    BY <1>1, <2>1 DEF Record, Rec
  <2> QED
    BY <2>1, <2>2 DEF Init
<1>3. CatalogsKept
  BY <1>1, InitialKept DEF CatalogsKept, KeptNow, Publishing
<1>4. LogOK
  BY <1>1, <1>2 DEF LogOK
<1>5. Control /\ OneCatalog
  BY <1>1 DEF Control, OneCatalog, Publishing
<1>6. GarbageOld /\ HeadsOK /\ JobOK /\ VisibleFresh
  BY <1>1 DEF GarbageOld, HeadsOK, JobOK, Publishing, VisibleFresh, InitialCatalog
<1> QED
  BY <1>3, <1>4, <1>5, <1>6 DEF IInv

LEMMA MutationKeeps ==
    ASSUME IInv, Mutation
    PROVE  IInv'
<1>1. \A op \in {"create", "drop", "append"}, t \in Tables, at \in Timestamps \cup {0} :
          Record(op, t, at) \in Rec
  BY DEF Record, Rec, IInv, LogOK
<1>2. CASE AppendRow
  BY <1>1, <1>2, MutateKeeps DEF AppendRow
<1>3. CASE CreateTable
  BY <1>1, <1>3, MutateKeeps DEF CreateTable
<1>4. CASE DropTable
  BY <1>1, <1>4, MutateKeeps, TablesAssumption DEF DropTable
<1>5. CASE AppendRows
  <2>1. PICK t \in Tables, n \in 1 .. MaxBatch : \E ats \in [1 .. n -> Timestamps] :
            BeginBatch([i \in 1 .. n |-> Record("append", t, ats[i])])
    BY <1>5 DEF AppendRows
  <2>2. PICK ats \in [1 .. n -> Timestamps] :
            BeginBatch([i \in 1 .. n |-> Record("append", t, ats[i])])
    BY <2>1
  <2>3. n \in Nat /\ n >= 1
    BY BoundsAssumption
  <2>4. \A i \in 1 .. n : Record("append", t, ats[i]) \in Rec
    BY <1>1, <2>2
  <2> DEFINE recs == [i \in 1 .. n |-> Record("append", t, ats[i])]
  <2>5. recs \in Seq(Rec) /\ Len(recs) = n
    BY <2>3, <2>4
  <2>6. recs # <<>>
    BY <2>3, <2>5
  <2> QED
    BY <2>2, <2>5, <2>6, BatchKeeps
<1>6. CASE BatchRecord \/ BatchFails
  BY <1>6, BatchKeeps
<1>7. CASE Sync \/ Tidy
  BY <1>7, TidyKeeps
<1> QED
  BY <1>2, <1>3, <1>4, <1>5, <1>6, <1>7 DEF Mutation

LEMMA MaintenanceKeeps ==
    ASSUME IInv, Maintenance
    PROVE  IInv'
<1>1. CASE Seal
  BY <1>1, SealKeeps
<1>2. CASE \E level \in 0 .. 1 : CompactLevel(level)
  BY <1>2, CompactLevelKeeps
<1>3. CASE CompactWindow(0, L1Window) \/ CompactWindow(1, L2Window)
  BY <1>3, CompactWindowKeeps
<1>4. CASE \E cutoff \in {at + 1 : at \in Timestamps} : Retain(cutoff)
  BY <1>4, RetainKeeps
<1>5. CASE Publish \/ PublishFails
  BY <1>5, PublishKeeps
<1>6. CASE Install
  BY <1>6, InstallKeeps
<1>7. CASE FinishMaintenance
  BY <1>7, TidyKeeps
<1> QED
  BY <1>1, <1>2, <1>3, <1>4, <1>5, <1>6, <1>7 DEF Maintenance

LEMMA StutterKeeps == IInv /\ UNCHANGED vars => IInv'
BY DEF vars, disk, log, engine, IInv, CatalogsKept, KeptNow, Control, LogOK, OneCatalog,
       GarbageOld, HeadsOK, JobOK, Publishing, VisibleFresh, Fresh, Snapshot

LEMMA Inductive == Spec => []IInv
<1>1. IInv /\ [Next]_vars => IInv'
  <2>1. IInv /\ Next => IInv'
    BY MutationKeeps, MaintenanceKeeps, ReadingKeeps, CrashKeeps, OpenKeeps
    DEF Next, Reading
  <2> QED
    BY <2>1, StutterKeeps
<1> QED
  BY <1>1, InitKeeps, PTL DEF Spec

(* The unit files and the heads that the MANIFEST lists, the one in the    *)
(* directory, the one a power failure brings back and the one in memory,   *)
(* exist with their content after every step of every operation, crash and *)
(* reopening (lifecycle_gc.rs, maintenance.rs, open.rs).                   *)
THEOREM FilesStay == Spec => []FilesPresent
BY Inductive, IInvMeans, PTL

(* No sequence of operations, failures and crashes leaves a directory that *)
(* the next open refuses or a MANIFEST ahead of the log (open.rs).         *)
THEOREM OpensAlways == Spec => []AlwaysOpens
BY Inductive, IInvMeans, PTL

(* The snapshot handed out without the engine's mutex is the one that      *)
(* would be made under it, whatever has been accepted, published or failed *)
(* since it was stored (Db::snapshot and refresh_visible).                 *)
THEOREM SnapshotsFresh == Spec => []VisibleFresh
BY Inductive, IInvMeans, PTL

-----------------------------------------------------------------------------
(***************************************************************************)
(* A snapshot that callers hold keeps the files of its units until files   *)
(* have been replaced twice since it was taken, for all tables, times,     *)
(* readers and bounds of Database.                                         *)
(*                                                                         *)
(* A replaced file is tagged with the generation that ends.  A snapshot of *)
(* that generation keeps the tag alive; so what has to be known is that no *)
(* delete waiting under another generation's tag names one of its units.   *)
(***************************************************************************)

(* A snapshot of the current generation lists nothing but live units, and  *)
(* of the units of one taken a generation ago those that were replaced     *)
(* since are tagged with that generation, hence with its token.            *)
Covered(s) ==
    /\ s.token \in 0 .. generation
    /\ s.token >= generation - 1 =>
           /\ SnapshotComplete(s)
           /\ status = "open" =>
                  /\ \A u \in s.units :
                         /\ u.id \in 1 .. catalog.unitHigh
                         /\ \A g \in garbage :
                                g.area = "units" /\ g.id = u.id => g.owner = s.token
                  /\ s.token = generation => s.units \subseteq catalog.units

(* A seal does not start a generation, so it must not replace anything. *)
SealOnlyAdds ==
    Publishing /\ job.kind = "seal" =>
        job.obsolete = {} /\ catalog.units \subseteq job.next.units

SnapInv ==
    /\ generation \in Nat /\ DOMAIN readers = Readers
    /\ SealOnlyAdds
    /\ \A r \in Readers : readers[r] # NoSnapshot => Covered(readers[r])

LEMMA SnapInvMeans == SnapInv => SnapshotSurvivesOneReplacement
BY DEF SnapInv, Covered, SnapshotSurvivesOneReplacement

-----------------------------------------------------------------------------
(***************************************************************************)
(* What happens to files and deferred deletes within a generation.         *)
(***************************************************************************)

(* A reader's own token keeps what it can still see. *)
LEMMA ReapSparesSeen ==
    ASSUME NEW r \in Readers, readers[r] # NoSnapshot, Covered(readers[r]),
           readers[r].token >= generation - 1, status = "open",
           NEW gone \in Reapable, NEW u \in readers[r].units
    PROVE  u.id \in DOMAIN UnitsWithout(gone) /\ UnitsWithout(gone)[u.id] = u
<1>1. \A g \in gone : g \in garbage /\ g.owner # readers[r].token
  BY DEF Reapable, Dead, Alive
<1>2. u.id \notin Named("units", gone)
  BY <1>1 DEF Named, Covered
<1>3. u.id \in DOMAIN unitFiles /\ unitFiles[u.id] = u
  BY DEF Covered, SnapshotComplete
<1> QED
  BY <1>2, <1>3 DEF UnitsWithout, Without, Restrict

(* A new unit takes no identifier that a snapshot knows. *)
LEMMA NewUnitSpares ==
    ASSUME NEW files, NEW added, NEW u, IsCatalog(catalog),
           \A n \in added : n.id = NextUnit,
           u.id \in 1 .. catalog.unitHigh, u.id \in DOMAIN files, files[u.id] = u
    PROVE  u.id \in DOMAIN AddUnits(files, added) /\ AddUnits(files, added)[u.id] = u
<1>1. \A n \in added : n.id # u.id
  BY DEF NextUnit, IsCatalog
<1> QED
  BY <1>1 DEF AddUnits

(* Steps that leave the catalog's units, the generation and the readers    *)
(* alone, add no deferred delete and spare the readers' files.             *)
LEMMA StillCovered ==
    ASSUME SnapInv, status = "open",
           UNCHANGED <<generation, catalog, readers, status>>,
           garbage' \subseteq garbage, SealOnlyAdds',
           \A r \in Readers : \A u \in readers[r].units :
               readers[r] # NoSnapshot /\ readers[r].token >= generation - 1 =>
                   u.id \in DOMAIN unitFiles' /\ unitFiles'[u.id] = u
    PROVE  SnapInv'
BY DEF SnapInv, Covered, SnapshotComplete

-----------------------------------------------------------------------------
(***************************************************************************)
(* The steps.                                                              *)
(***************************************************************************)
LEMMA ReapingCovers ==
    ASSUME SnapInv, status = "open", Reap, ~Publishing',
           UNCHANGED <<generation, catalog, readers, status>>
    PROVE  SnapInv'
<1>1. PICK gone \in Reapable : /\ unitFiles' = UnitsWithout(gone)
                               /\ garbage' = garbage \ gone
  BY DEF Reap
<1>2. SealOnlyAdds'
  BY DEF SealOnlyAdds
<1>3. ASSUME NEW r \in Readers, NEW u \in readers[r].units, readers[r] # NoSnapshot,
             readers[r].token >= generation - 1
      PROVE  u.id \in DOMAIN unitFiles' /\ unitFiles'[u.id] = u
  BY <1>1, <1>3, ReapSparesSeen DEF SnapInv
<1> QED
  BY <1>1, <1>2, <1>3, StillCovered

(* Steps that touch none of it. *)
LEMMA IdleCovers ==
    ASSUME SnapInv, SealOnlyAdds',
           UNCHANGED <<unitFiles, catalog, generation, garbage, readers, status>>
    PROVE  SnapInv'
BY DEF SnapInv, Covered, SnapshotComplete

LEMMA MutationCovers ==
    ASSUME IInv, SnapInv, Mutation
    PROVE  SnapInv'
<1>1. ASSUME NEW r, Mutate(r)
      PROVE  SnapInv'
  <2>1. /\ status = "open" /\ pc' = "idle" /\ Reap
        /\ UNCHANGED <<generation, catalog, readers, status>>
    BY <1>1 DEF Mutate, Healthy, Locked
  <2> QED
    BY <2>1, ReapingCovers DEF Publishing
<1>2. ASSUME Sync \/ Tidy
      PROVE  SnapInv'
  <2>1. /\ status = "open" /\ pc' = "idle" /\ Reap
        /\ UNCHANGED <<generation, catalog, readers, status>>
    BY <1>2 DEF Sync, Tidy, Healthy, Locked, engine
  <2> QED
    BY <2>1, ReapingCovers DEF Publishing
<1>3. ASSUME \/ \E recs : BeginBatch(recs)
             \/ BatchRecord \/ BatchFails
      PROVE  SnapInv'
  <2>1. /\ pc' \in {"idle", "batch"}
        /\ UNCHANGED <<unitFiles, catalog, generation, garbage, readers, status>>
    BY <1>3 DEF BeginBatch, BatchRecord, BatchFails, disk, engine
  <2> QED
    BY <2>1, IdleCovers DEF SealOnlyAdds, Publishing
<1> QED
  BY <1>1, <1>2, <1>3 DEF Mutation, AppendRow, CreateTable, DropTable, AppendRows

(* A seal writes one more unit, or none. *)
LEMMA SealCovers ==
    ASSUME IInv, SnapInv, Seal
    PROVE  SnapInv'
<1>1. /\ status = "open" /\ UNCHANGED <<generation, catalog, readers, status>>
      /\ job' = [kind |-> "seal", next |-> SealedCatalog,
                 tail |-> ReplayTarget(SealedCatalog), heads |-> heads, obsolete |-> {}]
  BY DEF Seal, SealDurably, Healthy, Locked, engine
<1>2. PICK gone \in Reapable : /\ unitFiles' = AddUnits(UnitsWithout(gone), SealedUnits)
                               /\ garbage' = garbage \ gone
  BY DEF Seal, SealDurably
<1>3. IsCatalog(catalog)
  BY DEF IInv, CatalogsKept, KeptNow, Kept
<1>4. SealOnlyAdds'
  <2>1. SealedCatalog \in
            Fields(NextGeneration, UnitHigh, tail.high, Len(records), catalog.floor,
                   catalog.headsGeneration, Clocks, catalog.units \cup SealedUnits)
    BY <1>3, Successors DEF SealedCatalog, CatalogAfterSeal
  <2>2. catalog.units \subseteq SealedCatalog.units
    BY <2>1 DEF Fields
  <2> QED
    BY <1>1, <2>2 DEF SealOnlyAdds
<1>5. ASSUME NEW r \in Readers, NEW u \in readers[r].units, readers[r] # NoSnapshot,
             readers[r].token >= generation - 1
      PROVE  u.id \in DOMAIN unitFiles' /\ unitFiles'[u.id] = u
  <2>1. u.id \in DOMAIN UnitsWithout(gone) /\ UnitsWithout(gone)[u.id] = u
    BY <1>1, <1>5, ReapSparesSeen DEF SnapInv
  <2>2. u.id \in 1 .. catalog.unitHigh
    BY <1>1, <1>5 DEF SnapInv, Covered
  <2>3. \A n \in SealedUnits : n.id = NextUnit
    BY DEF SealedUnits
  <2> QED
    BY <1>2, <1>3, <2>1, <2>2, <2>3, NewUnitSpares
<1> QED
  BY <1>1, <1>2, <1>4, <1>5, StillCovered

(* A compaction writes one more unit, after reaping or without. *)
LEMMA CompactCovers ==
    ASSUME IInv, SnapInv, Healthy, NEW inputs, NEW gone \in SUBSET garbage,
           NEW files, Compact(inputs, files), garbage' = garbage \ gone,
           \A r \in Readers : \A u \in readers[r].units :
               readers[r] # NoSnapshot /\ readers[r].token >= generation - 1 =>
                   u.id \in DOMAIN files /\ files[u.id] = u
    PROVE  SnapInv'
<1> DEFINE merged == [id |-> NextUnit, level |-> First(inputs).level + 1,
                      rows |-> UNION {u.rows : u \in inputs}]
<1>1. /\ status = "open" /\ UNCHANGED <<generation, catalog, readers, status>>
      /\ unitFiles' = AddUnits(files, {merged}) /\ job'.kind = "compact"
  BY DEF Compact, Healthy, Locked, engine
<1>2. merged.id = NextUnit
  OBVIOUS
<1>3. IsCatalog(catalog)
  BY DEF IInv, CatalogsKept, KeptNow, Kept
<1> HIDE DEF merged
<1>4. SealOnlyAdds'
  BY <1>1 DEF SealOnlyAdds
<1>5. ASSUME NEW r \in Readers, NEW u \in readers[r].units, readers[r] # NoSnapshot,
             readers[r].token >= generation - 1
      PROVE  u.id \in DOMAIN unitFiles' /\ unitFiles'[u.id] = u
  <2>1. u.id \in 1 .. catalog.unitHigh
    BY <1>1, <1>5 DEF SnapInv, Covered
  <2>2. u.id \in DOMAIN files /\ files[u.id] = u
    BY <1>5
  <2>3. \A n \in {merged} : n.id = NextUnit
    BY <1>2
  <2> QED
    BY <1>1, <1>3, <2>1, <2>2, <2>3, NewUnitSpares
<1> QED
  BY <1>1, <1>4, <1>5, StillCovered

LEMMA CompactionCovers ==
    ASSUME IInv, SnapInv,
           \/ \E level \in 0 .. 1 : CompactLevel(level)
           \/ CompactWindow(0, L1Window) \/ CompactWindow(1, L2Window)
    PROVE  SnapInv'
<1>1. ASSUME NEW level, CompactLevel(level)
      PROVE  SnapInv'
  <2>1. PICK gone \in Reapable : /\ Compact(SelectRun(level), UnitsWithout(gone))
                                 /\ garbage' = garbage \ gone
    BY <1>1 DEF CompactLevel
  <2>2. Healthy /\ status = "open" /\ gone \in SUBSET garbage
    BY <1>1 DEF CompactLevel, Healthy, Locked, Reapable, Dead
  <2>3. ASSUME NEW r \in Readers, NEW u \in readers[r].units, readers[r] # NoSnapshot,
               readers[r].token >= generation - 1
        PROVE  u.id \in DOMAIN UnitsWithout(gone) /\ UnitsWithout(gone)[u.id] = u
    BY <2>2, <2>3, ReapSparesSeen DEF SnapInv
  <2> QED
    BY <2>1, <2>2, <2>3, CompactCovers
<1>2. ASSUME NEW level, NEW width, CompactWindow(level, width)
      PROVE  SnapInv'
  <2>1. /\ Compact(ClosedWindow(level, width), unitFiles)
        /\ garbage' = garbage \ {} /\ Healthy
    BY <1>2 DEF CompactWindow
  <2>2. \A r \in Readers : \A u \in readers[r].units :
            readers[r] # NoSnapshot /\ readers[r].token >= generation - 1 =>
                u.id \in DOMAIN unitFiles /\ unitFiles[u.id] = u
    BY DEF SnapInv, Covered, SnapshotComplete
  <2> QED
    BY <2>1, <2>2, CompactCovers
<1> QED
  BY <1>1, <1>2

(* A retention writes heads, and no unit. *)
LEMMA RetainCovers ==
    ASSUME IInv, SnapInv, NEW cutoff, Retain(cutoff)
    PROVE  SnapInv'
<1>1. /\ status = "open" /\ job'.kind = "retain"
      /\ UNCHANGED <<generation, catalog, readers, status>>
  BY DEF Retain, Healthy, Locked, engine
<1>2. PICK gone \in Reapable : /\ unitFiles' = UnitsWithout(gone)
                               /\ garbage' = garbage \ gone
  BY DEF Retain
<1>3. SealOnlyAdds'
  BY <1>1 DEF SealOnlyAdds
<1>4. ASSUME NEW r \in Readers, NEW u \in readers[r].units, readers[r] # NoSnapshot,
             readers[r].token >= generation - 1
      PROVE  u.id \in DOMAIN unitFiles' /\ unitFiles'[u.id] = u
  BY <1>1, <1>2, <1>4, ReapSparesSeen DEF SnapInv
<1> QED
  BY <1>1, <1>2, <1>3, <1>4, StillCovered

(* What an installation replaces was live until now, so it was not waiting *)
(* to be deleted; its tag is the token of the snapshots that still list it. *)
LEMMA InstallCovers ==
    ASSUME IInv, SnapInv, Install
    PROVE  SnapInv'
<1>1. /\ pc = "settle" /\ Publishing /\ ~Publishing' /\ status = "open"
      /\ catalog' = job.next
      /\ UNCHANGED <<unitFiles, readers, status>>
      /\ job.kind \in {"seal", "compact", "retain", "takeover"}
  BY DEF Install, IInv, Control, Publishing
<1>2. /\ job.next.unitHigh >= catalog.unitHigh
      /\ IsCatalog(job.next) /\ IsCatalog(catalog)
      /\ \A u \in catalog.units : \A g \in garbage : g.area = "units" => u.id # g.id
  BY <1>1 DEF IInv, JobOK, CatalogsKept, KeptNow, Kept
<1>3. SealOnlyAdds' /\ generation \in Nat
  BY <1>1 DEF SealOnlyAdds, SnapInv
<1>4. ASSUME NEW r \in Readers, readers[r] # NoSnapshot
      PROVE  Covered(readers[r])'
  <2> DEFINE s == readers[r]
  <2>1. Covered(s) /\ s' = s
    BY <1>1, <1>4 DEF SnapInv
  <2>2. ASSUME s.token >= generation - 1, NEW u \in s.units
        PROVE  u.id \in 1 .. catalog'.unitHigh
    BY <1>1, <1>2, <2>1, <2>2 DEF Covered, IsCatalog
  <2>3. SnapshotComplete(s)' <=> SnapshotComplete(s)
    BY <1>1, <2>1 DEF SnapshotComplete
  <2>4. CASE job.kind \in {"seal", "takeover"}
    <3>1. generation' = generation /\ garbage' = garbage
      BY <2>4 DEF Install, Retired, SealOnlyAdds, SnapInv, Publishing
    <3>2. catalog.units \subseteq catalog'.units
      <4>1. CASE job.kind = "seal"
        BY <1>1, <4>1 DEF SealOnlyAdds, SnapInv
      <4>2. CASE job.kind = "takeover"
        <5>1. job.next = [catalog EXCEPT !.generation = catalog.generation + 1]
          BY <1>1, <4>2 DEF IInv, JobOK
        <5>2. job.next.units = catalog.units
          BY <1>2, <5>1 DEF IsCatalog
        <5> QED
          BY <1>1, <5>2
      <4> QED
        BY <2>4, <4>1, <4>2
    <3> QED
      BY <1>1, <2>1, <2>2, <2>3, <3>1, <3>2 DEF Covered
  <2>5. CASE job.kind \in {"compact", "retain"}
    <3>1. generation' = generation + 1 /\ garbage' = garbage \cup Retired
      BY <2>5 DEF Install
    <3>2. ASSUME s.token >= generation' - 1
          PROVE  s.token = generation /\ s.units \subseteq catalog.units
      BY <1>1, <1>3, <2>1, <3>1, <3>2 DEF Covered
    <3>3. ASSUME s.token >= generation' - 1, NEW u \in s.units, NEW g \in garbage',
                 g.area = "units", g.id = u.id
          PROVE  g.owner = s.token
      <4>1. s.token = generation /\ u \in catalog.units
        BY <3>2, <3>3
      <4>2. g \in Retired
        BY <1>2, <3>1, <3>3, <4>1
      <4> QED
        BY <4>1, <4>2 DEF Retired
    <3>4. s.token \in 0 .. generation' /\ s.token # generation'
      BY <1>3, <2>1, <3>1 DEF Covered
    <3>5. s.token >= generation' - 1 => s.token >= generation - 1
      BY <1>3, <3>1, <3>4
    <3> QED
      BY <2>1, <2>2, <2>3, <3>3, <3>4, <3>5 DEF Covered
  <2> QED
    BY <1>1, <2>4, <2>5
<1>5. generation' \in Nat
  BY <1>3 DEF Install
<1> QED
  BY <1>1, <1>3, <1>4, <1>5 DEF SnapInv

LEMMA MaintenanceCovers ==
    ASSUME IInv, SnapInv, Maintenance
    PROVE  SnapInv'
<1>1. CASE Publish \/ PublishFails
  <2>1. UNCHANGED <<unitFiles, catalog, generation, garbage, readers, status>>
    BY <1>1 DEF Publish, PublishFails, disk, engine
  <2>2. SealOnlyAdds'
    BY <1>1, <2>1 DEF Publish, PublishFails, SealOnlyAdds, SnapInv, Publishing
  <2> QED
    BY <2>1, <2>2, IdleCovers
<1>2. CASE FinishMaintenance
  <2>1. /\ pc = "reap" /\ pc' = "idle" /\ Reap
        /\ UNCHANGED <<generation, catalog, readers, status>>
    BY <1>2 DEF FinishMaintenance, engine
  <2>2. status = "open"
    BY <2>1 DEF IInv, Control
  <2> QED
    BY <2>1, <2>2, ReapingCovers DEF Publishing
<1> QED
  BY <1>1, <1>2, SealCovers, CompactionCovers, RetainCovers, InstallCovers DEF Maintenance

(* A snapshot is taken of what is live, and nothing live waits for its     *)
(* deletion.                                                               *)
LEMMA ReadingCovers ==
    ASSUME IInv, SnapInv, Reading
    PROVE  SnapInv'
<1>1. PICK r \in Readers : TakeSnapshot(r) \/ DropSnapshot(r)
  BY DEF Reading
<1>2. /\ UNCHANGED <<unitFiles, catalog, generation, garbage, status, pc, job>>
      /\ readers' \in {[readers EXCEPT ![r] = NoSnapshot], [readers EXCEPT ![r] = visible']}
  BY <1>1 DEF TakeSnapshot, DropSnapshot, disk, engine
<1>3. SealOnlyAdds' /\ generation \in Nat
  BY <1>2 DEF SealOnlyAdds, SnapInv, Publishing
<1>4. Covered(Fresh)
  <2>1. KeptNow(catalog) /\ IsCatalog(catalog)
    BY DEF IInv, CatalogsKept, KeptNow, Kept
  <2>2. Fresh.units = catalog.units /\ Fresh.token = generation
    BY DEF Fresh, Snapshot
  <2>3. \A u \in catalog.units : /\ u.id \in DOMAIN unitFiles /\ unitFiles[u.id] = u
                                 /\ u.id \in 1 .. catalog.unitHigh
                                 /\ \A g \in garbage : g.area = "units" => u.id # g.id
    BY <2>1 DEF KeptNow, Kept, IsCatalog
  <2> QED
    BY <1>3, <2>2, <2>3 DEF Covered, SnapshotComplete
<1>5. ASSUME NEW q \in Readers, readers'[q] # NoSnapshot
      PROVE  readers'[q] = readers[q] \/ readers'[q] = Fresh
  <2>1. visible' # NoSnapshot => visible' = Fresh
    BY <1>1 DEF TakeSnapshot, DropSnapshot, IInv, VisibleFresh
  <2>2. DOMAIN readers = Readers
    BY DEF SnapInv
  <2>3. CASE readers' = [readers EXCEPT ![r] = NoSnapshot]
    BY <1>5, <2>2, <2>3
  <2>4. CASE readers' = [readers EXCEPT ![r] = visible']
    BY <1>5, <2>1, <2>2, <2>4
  <2> QED
    BY <1>2, <2>3, <2>4
<1>6. DOMAIN readers' = Readers
  BY <1>2 DEF SnapInv
<1> QED
  BY <1>2, <1>3, <1>4, <1>5, <1>6 DEF SnapInv, Covered, SnapshotComplete

(* The files stay when a process ends, and snapshots with them; an open    *)
(* waits until there are none.                                             *)
LEMMA LifecycleCovers ==
    ASSUME IInv, SnapInv,
           TakeoverFails \/ Close \/ Open \/ \E power \in BOOLEAN : Crash(power)
    PROVE  SnapInv'
<1>1. CASE TakeoverFails \/ Close \/ \E power \in BOOLEAN : Crash(power)
  <2>1. /\ status' = "closed" /\ pc' = "idle" /\ UNCHANGED <<unitFiles, generation>>
        /\ readers' \in {readers, [r \in Readers |-> NoSnapshot]}
    BY <1>1 DEF TakeoverFails, Close, Crash, Gone, disk
  <2>2. SealOnlyAdds'
    BY <2>1 DEF SealOnlyAdds, Publishing
  <2> QED
    BY <2>1, <2>2 DEF SnapInv, Covered, SnapshotComplete
<1>2. CASE Open
  <2>1. /\ readers' = readers /\ \A r \in Readers : readers[r] = NoSnapshot
        /\ pc = "idle"
    BY <1>2 DEF Open, OpenSettling, IInv, Control
  <2>2. generation' \in {0, generation}
    BY <1>2 DEF Open, OpenSettling
  <2>3. SealOnlyAdds'
    <3>1. UNCHANGED <<pc, job>> \/ job'.kind = "takeover"
      BY <1>2 DEF Open, OpenSettling
    <3> QED
      BY <2>1, <3>1 DEF SealOnlyAdds, Publishing
  <2> QED
    BY <2>1, <2>2, <2>3 DEF SnapInv
<1> QED
  BY <1>1, <1>2

-----------------------------------------------------------------------------
LEMMA InitCovers == Init => SnapInv
BY DEF Init, SnapInv, SealOnlyAdds, Publishing

LEMMA StutterCovers == SnapInv /\ UNCHANGED vars => SnapInv'
BY DEF vars, disk, engine, SnapInv, SealOnlyAdds, Publishing, Covered, SnapshotComplete

(* A snapshot that callers hold finds every unit file it lists as long as  *)
(* files have been replaced at most once since it was taken, whatever was  *)
(* sealed, reaped, failed, closed and opened meanwhile (Engine::retire of  *)
(* maintenance.rs, reap of lifecycle_gc.rs).                               *)
THEOREM SnapshotsSurvive == Spec => []SnapshotSurvivesOneReplacement
<1>1. IInv /\ SnapInv /\ [Next]_vars => SnapInv'
  <2>1. IInv /\ SnapInv /\ Next => SnapInv'
    BY MutationCovers, MaintenanceCovers, ReadingCovers, LifecycleCovers DEF Next
  <2> QED
    BY <2>1, StutterCovers
<1> QED
  BY <1>1, InitCovers, Inductive, SnapInvMeans, PTL DEF Spec

-----------------------------------------------------------------------------
(***************************************************************************)
(* No file is left behind: as long as no file operation fails, every file  *)
(* is listed by the engine's catalog or waits for its delete, for all      *)
(* tables, times, readers and bounds of Database.                          *)
(*                                                                         *)
(* While a publication is under way, what it writes and what it replaces   *)
(* is counted with it.  A crash there leaves files that nobody counts, and *)
(* the next open removes them.                                             *)
(***************************************************************************)
Ids(units) == {u.id : u \in units}

(* What is going to be listed, and what the publication replaces. *)
Current == IF Publishing THEN job.next ELSE catalog
Replaced(area) ==
    IF Publishing /\ job.kind # "takeover"
    THEN Named(area, job.obsolete) ELSE {}

(* Every file is listed, about to be replaced, or waits for its delete.    *)
Accounted ==
    /\ DOMAIN unitFiles = Ids(Current.units) \cup Replaced("units") \cup Named("units", garbage)
    /\ DOMAIN headFiles = ({Current.headsGeneration} \ {0}) \cup Replaced("heads")
                          \cup Named("heads", garbage)

(* A file waits under one tag, that of a generation that has ended: then a *)
(* delete that was carried out leaves no other one behind.                 *)
DeletesOnce ==
    /\ garbage \subseteq [owner : Nat, area : {"units", "heads"}, id : Nat]
    /\ \A g \in garbage : g.owner < generation
    /\ \A g, h \in garbage : g.area = h.area /\ g.id = h.id => g = h

ReplacedListed ==
    Publishing /\ job.kind # "takeover" =>
        /\ job.obsolete \subseteq [area : {"units", "heads"}, id : Nat]
        /\ \A o \in job.obsolete :
               IF o.area = "units" THEN \E u \in catalog.units : u.id = o.id
               ELSE o.id = catalog.headsGeneration

FilesInv ==
    /\ DeletesOnce /\ ReplacedListed /\ 0 \notin DOMAIN headFiles
    /\ status = "open" /\ ~IoErrors => Accounted

LEMMA NamedIs ==
    ASSUME NEW area, NEW files
    PROVE  \A i : i \in Named(area, files) <=> \E g \in files : g.area = area /\ g.id = i
BY DEF Named

LEMMA FilesInvMeans == SnapInv /\ FilesInv => NothingLeftBehind
BY DEF FilesInv, DeletesOnce, Accounted, NothingLeftBehind, Current, Replaced, Publishing, Ids

-----------------------------------------------------------------------------
(***************************************************************************)
(* What happens to files and deferred deletes between publications.        *)
(***************************************************************************)

(* The files that are left are those of the catalog and of the deletes     *)
(* that are left.                                                          *)
LEMMA ReapLeaves ==
    ASSUME IInv, FilesInv, status = "open", ~Publishing, NEW gone, gone \subseteq garbage
    PROVE  /\ ~IoErrors =>
                  /\ DOMAIN UnitsWithout(gone)
                     = Ids(catalog.units) \cup Named("units", garbage \ gone)
                  /\ DOMAIN HeadsWithout(gone)
                     = ({catalog.headsGeneration} \ {0}) \cup Named("heads", garbage \ gone)
           /\ 0 \notin DOMAIN HeadsWithout(gone)
           /\ garbage' = garbage \ gone /\ generation' = generation => DeletesOnce'
<1>1. /\ DOMAIN UnitsWithout(gone) = DOMAIN unitFiles \ Named("units", gone)
      /\ DOMAIN HeadsWithout(gone) = DOMAIN headFiles \ Named("heads", gone)
  BY DEF UnitsWithout, HeadsWithout, Without, Restrict
<1>2. \A area : Named(area, garbage) \ Named(area, gone) = Named(area, garbage \ gone)
  BY DEF FilesInv, DeletesOnce, Named
<1>3. /\ Ids(catalog.units) \cap Named("units", garbage) = {}
      /\ catalog.headsGeneration \notin Named("heads", garbage)
  BY DEF IInv, CatalogsKept, KeptNow, Kept, Named, Ids
<1>4. /\ Named("units", gone) \subseteq Named("units", garbage)
      /\ Named("heads", gone) \subseteq Named("heads", garbage)
  BY DEF Named
<1>5. ASSUME ~IoErrors
      PROVE  /\ DOMAIN unitFiles = Ids(catalog.units) \cup Named("units", garbage)
             /\ DOMAIN headFiles = ({catalog.headsGeneration} \ {0})
                                   \cup Named("heads", garbage)
  BY <1>5 DEF FilesInv, Accounted, Current, Replaced
<1>6. ASSUME ~IoErrors
      PROVE  /\ DOMAIN UnitsWithout(gone)
                = Ids(catalog.units) \cup Named("units", garbage \ gone)
             /\ DOMAIN HeadsWithout(gone)
                = ({catalog.headsGeneration} \ {0}) \cup Named("heads", garbage \ gone)
  <2> DEFINE u == Named("units", garbage)
             ug == Named("units", gone)
             ul == Named("units", garbage \ gone)
             h == Named("heads", garbage)
             hg == Named("heads", gone)
             hl == Named("heads", garbage \ gone)
  <2>1. u \ ug = ul /\ h \ hg = hl
    BY <1>2
  <2> HIDE DEF u, ug, ul, h, hg, hl
  <2>2. (Ids(catalog.units) \cup u) \ ug = Ids(catalog.units) \cup ul
    BY <1>3, <1>4, <2>1 DEF u, ug
  <2>3. (({catalog.headsGeneration} \ {0}) \cup h) \ hg
        = ({catalog.headsGeneration} \ {0}) \cup hl
    BY <1>3, <1>4, <2>1 DEF h, hg
  <2> QED
    BY <1>1, <1>5, <1>6, <2>2, <2>3 DEF u, ug, ul, h, hg, hl
<1>7. garbage' = garbage \ gone /\ generation' = generation => DeletesOnce'
  BY DEF FilesInv, DeletesOnce
<1> QED
  BY <1>1, <1>6, <1>7 DEF FilesInv

LEMMA ReapingLeaves ==
    ASSUME IInv, FilesInv, status = "open", Reap, ~Publishing, ~Publishing',
           UNCHANGED <<generation, catalog, status>>
    PROVE  FilesInv'
<1>1. PICK gone \in Reapable : /\ unitFiles' = UnitsWithout(gone)
                               /\ headFiles' = HeadsWithout(gone)
                               /\ garbage' = garbage \ gone
  BY DEF Reap
<1>2. gone \subseteq garbage
  BY DEF Reapable, Dead
<1>3. ReplacedListed'
  BY DEF ReplacedListed
<1>4. ~IoErrors => Accounted'
  BY <1>1, <1>2, ReapLeaves DEF Accounted, Current, Replaced
<1> QED
  BY <1>1, <1>2, <1>3, <1>4, ReapLeaves DEF FilesInv

(* Steps that touch none of it. *)
LEMMA IdleLeaves ==
    ASSUME FilesInv,
           UNCHANGED <<unitFiles, headFiles, catalog, generation, garbage, status>>,
           \/ ~Publishing /\ ~Publishing'
           \/ UNCHANGED <<job, Publishing>>
    PROVE  FilesInv'
<1>1. Current' = Current /\ \A area : Replaced(area)' = Replaced(area)
  BY DEF Current, Replaced
<1>2. DeletesOnce' /\ ReplacedListed'
  BY DEF FilesInv, DeletesOnce, ReplacedListed
<1>3. Accounted => Accounted'
  BY <1>1 DEF Accounted
<1> QED
  BY <1>2, <1>3 DEF FilesInv

(* A publication writes what it lists anew, and replaces the rest.         *)
LEMMA BeginningLeaves ==
    ASSUME IInv, FilesInv, status = "open", ~Publishing, Publishing',
           UNCHANGED <<generation, catalog, status>>, job'.kind # "takeover",
           ReplacedListed', NEW gone, gone \subseteq garbage, garbage' = garbage \ gone,
           NEW written, DOMAIN unitFiles' = DOMAIN UnitsWithout(gone) \cup written,
           NEW heads1, DOMAIN headFiles' = DOMAIN HeadsWithout(gone) \cup heads1,
           0 \notin heads1,
           Ids(catalog.units) \cup written = Ids(job'.next.units) \cup Replaced("units")',
           ({catalog.headsGeneration} \ {0}) \cup heads1
           = ({job'.next.headsGeneration} \ {0}) \cup Replaced("heads")'
    PROVE  FilesInv'
<1>1. DeletesOnce' /\ 0 \notin DOMAIN headFiles'
  BY ReapLeaves
<1>2. ASSUME ~IoErrors
      PROVE  Accounted'
  <2>1. /\ DOMAIN UnitsWithout(gone) = Ids(catalog.units) \cup Named("units", garbage')
        /\ DOMAIN HeadsWithout(gone)
           = ({catalog.headsGeneration} \ {0}) \cup Named("heads", garbage')
    BY <1>2, ReapLeaves
  <2>2. Current' = job'.next
    BY DEF Current
  <2>3. DOMAIN unitFiles'
        = Ids(job'.next.units) \cup Replaced("units")' \cup Named("units", garbage')
    BY <2>1
  <2>4. DOMAIN headFiles'
        = ({job'.next.headsGeneration} \ {0}) \cup Replaced("heads")'
          \cup Named("heads", garbage')
    BY <2>1
  <2> QED
    BY <2>2, <2>3, <2>4 DEF Accounted, Ids, Named
<1> QED
  BY <1>1, <1>2 DEF FilesInv

LEMMA SealLeaves ==
    ASSUME IInv, FilesInv, Seal
    PROVE  FilesInv'
<1>1. /\ status = "open" /\ ~Publishing /\ Publishing' /\ IsCatalog(catalog)
      /\ UNCHANGED <<generation, catalog, status>>
      /\ job' = [kind |-> "seal", next |-> SealedCatalog,
                 tail |-> ReplayTarget(SealedCatalog), heads |-> heads, obsolete |-> {}]
  BY DEF Seal, SealDurably, Healthy, Locked, Publishing, engine, IInv, CatalogsKept,
         KeptNow, Kept
<1>2. PICK gone \in Reapable : /\ unitFiles' = AddUnits(UnitsWithout(gone), SealedUnits)
                               /\ headFiles' = HeadsWithout(gone)
                               /\ garbage' = garbage \ gone
  BY DEF Seal, SealDurably
<1>3. gone \subseteq garbage
  BY DEF Reapable, Dead
<1>4. SealedCatalog \in
          Fields(NextGeneration, UnitHigh, tail.high, Len(records), catalog.floor,
                 catalog.headsGeneration, Clocks, catalog.units \cup SealedUnits)
  BY <1>1, Successors DEF SealedCatalog, CatalogAfterSeal
<1>5. /\ job'.next.units = catalog.units \cup SealedUnits
      /\ job'.next.headsGeneration = catalog.headsGeneration
      /\ job'.kind = "seal" /\ job'.obsolete = {}
  BY <1>1, <1>4 DEF Fields
<1>6. ReplacedListed'
  BY <1>5 DEF ReplacedListed
<1>7. Replaced("units")' = {} /\ Replaced("heads")' = {}
  BY <1>5 DEF Replaced, Named
<1>8. /\ DOMAIN unitFiles' = DOMAIN UnitsWithout(gone) \cup Ids(SealedUnits)
      /\ DOMAIN headFiles' = DOMAIN HeadsWithout(gone) \cup {}
  BY <1>2 DEF AddUnits, Ids
<1>9. Ids(catalog.units) \cup Ids(SealedUnits) = Ids(job'.next.units) \cup Replaced("units")'
  BY <1>5, <1>7 DEF Ids
<1>10. ({catalog.headsGeneration} \ {0}) \cup {}
       = ({job'.next.headsGeneration} \ {0}) \cup Replaced("heads")'
  BY <1>5, <1>7
<1>11. 0 \notin {} /\ job'.kind # "takeover"
  BY <1>5
<1> QED
  BY <1>1, <1>2, <1>3, <1>6, <1>8, <1>9, <1>10, <1>11, BeginningLeaves

(* A compaction, with the files its caller has left.                       *)
LEMMA CompactLeaves ==
    ASSUME IInv, FilesInv, Healthy, NEW inputs, inputs \subseteq catalog.units,
           NEW gone, gone \subseteq garbage, garbage' = garbage \ gone,
           NEW files, Compact(inputs, files), DOMAIN files = DOMAIN UnitsWithout(gone),
           DOMAIN headFiles' = DOMAIN HeadsWithout(gone)
    PROVE  FilesInv'
<1> DEFINE merged == [id |-> NextUnit, level |-> First(inputs).level + 1,
                      rows |-> UNION {u.rows : u \in inputs}]
           next == [catalog EXCEPT !.generation = NextGeneration, !.unitHigh = NextUnit,
                                   !.units = (@ \ inputs) \cup {merged}]
           replaced == {[area |-> "units", id |-> u.id] : u \in inputs}
<1>1. /\ status = "open" /\ ~Publishing /\ Publishing' /\ IsCatalog(catalog)
      /\ UNCHANGED <<generation, catalog, status>>
      /\ unitFiles' = AddUnits(files, {merged})
      /\ job' = [kind |-> "compact", next |-> next, tail |-> tail, heads |-> heads,
                 obsolete |-> replaced]
  BY DEF Compact, Healthy, Locked, Publishing, engine, IInv, CatalogsKept, KeptNow, Kept
<1>2. next \in Fields(NextGeneration, NextUnit, catalog.tableHigh, catalog.checkpoint,
                      catalog.floor, catalog.headsGeneration, catalog.clocks,
                      (catalog.units \ inputs) \cup {merged})
  BY <1>1, Successors
<1>3. \A u \in inputs : u.id \in Nat
  BY <1>1 DEF IsCatalog
<1> HIDE DEF merged, next
<1>4. /\ job'.next.units = (catalog.units \ inputs) \cup {merged}
      /\ job'.next.headsGeneration = catalog.headsGeneration
      /\ job'.kind = "compact" /\ job'.obsolete = replaced
  BY <1>1, <1>2 DEF Fields
<1>5. /\ replaced \subseteq [area : {"units", "heads"}, id : Nat]
      /\ \A o \in replaced : o.area = "units" /\ \E u \in catalog.units : u.id = o.id
  BY <1>3
<1>6. ReplacedListed'
  BY <1>1, <1>4, <1>5 DEF ReplacedListed
<1>7. Replaced("units")' = Ids(inputs) /\ Replaced("heads")' = {}
  <2>1. Named("units", replaced) = Ids(inputs) /\ Named("heads", replaced) = {}
    <3>1. /\ \A u \in inputs : \E o \in replaced : o.area = "units" /\ o.id = u.id
          /\ \A o \in replaced : o.area = "units" /\ \E u \in inputs : o.id = u.id
      <4>1. \A u \in inputs : [area |-> "units", id |-> u.id] \in replaced
        OBVIOUS
      <4>2. \A o \in replaced : \E u \in inputs : o = [area |-> "units", id |-> u.id]
        OBVIOUS
      <4>3. \A i : /\ [area |-> "units", id |-> i].area = "units"
                   /\ [area |-> "units", id |-> i].id = i
        OBVIOUS
      <4> HIDE DEF replaced
      <4>4. \A u \in inputs : \E o \in replaced : o.area = "units" /\ o.id = u.id
        BY <4>1, <4>3
      <4>5. \A o \in replaced : o.area = "units" /\ \E u \in inputs : o.id = u.id
        BY <4>2, <4>3
      <4> QED
        BY <4>4, <4>5
    <3> HIDE DEF replaced
    <3>2. \A i : i \in Named("units", replaced) <=> i \in Ids(inputs)
      BY <3>1, NamedIs DEF Ids
    <3>3. \A i : i \notin Named("heads", replaced)
      BY <3>1, NamedIs
    <3> QED
      BY <3>2, <3>3
  <2> HIDE DEF replaced
  <2> QED
    BY <1>1, <1>4, <2>1 DEF Replaced
<1>8. /\ DOMAIN unitFiles' = DOMAIN UnitsWithout(gone) \cup {merged.id}
      /\ DOMAIN headFiles' = DOMAIN HeadsWithout(gone) \cup {}
  BY <1>1 DEF AddUnits
<1>9. Ids(catalog.units) \cup {merged.id} = Ids(job'.next.units) \cup Replaced("units")'
  BY <1>4, <1>7 DEF Ids
<1>10. ({catalog.headsGeneration} \ {0}) \cup {}
       = ({job'.next.headsGeneration} \ {0}) \cup Replaced("heads")'
  BY <1>4, <1>7
<1>11. 0 \notin {} /\ job'.kind # "takeover"
  BY <1>4
<1> QED
  BY <1>1, <1>6, <1>8, <1>9, <1>10, <1>11, BeginningLeaves

LEMMA CompactionLeaves ==
    ASSUME IInv, FilesInv,
           \/ \E level \in 0 .. 1 : CompactLevel(level)
           \/ CompactWindow(0, L1Window) \/ CompactWindow(1, L2Window)
    PROVE  FilesInv'
<1>1. ASSUME NEW level, CompactLevel(level)
      PROVE  FilesInv'
  <2>1. PICK gone \in Reapable : /\ Compact(SelectRun(level), UnitsWithout(gone))
                                 /\ headFiles' = HeadsWithout(gone)
                                 /\ garbage' = garbage \ gone
    BY <1>1 DEF CompactLevel
  <2>2. Healthy /\ gone \subseteq garbage /\ SelectRun(level) \subseteq catalog.units
    BY <1>1 DEF CompactLevel, Reapable, Dead, SelectRun, RunFrom
  <2> QED
    BY <2>1, <2>2, CompactLeaves
<1>2. ASSUME NEW level, NEW width, CompactWindow(level, width)
      PROVE  FilesInv'
  <2>1. /\ Compact(ClosedWindow(level, width), unitFiles) /\ Healthy
        /\ headFiles' = headFiles /\ garbage' = garbage
        /\ ClosedWindow(level, width) \subseteq catalog.units
    BY <1>2 DEF CompactWindow, ClosedWindow, RunFrom
  <2>2. /\ DOMAIN unitFiles = DOMAIN UnitsWithout({}) /\ garbage = garbage \ {}
        /\ DOMAIN headFiles = DOMAIN HeadsWithout({})
    BY DEF UnitsWithout, HeadsWithout, Without, Restrict, Named
  <2>3. {} \subseteq garbage
    OBVIOUS
  <2> QED
    BY <2>1, <2>2, <2>3, CompactLeaves
<1> QED
  BY <1>1, <1>2

(* A retention replaces the units that expire and the heads before.        *)
LEMMA RetainLeaves ==
    ASSUME IInv, FilesInv, NEW cutoff, Retain(cutoff)
    PROVE  FilesInv'
<1> DEFINE expired == Expired(cutoff)
           floor == FloorAfter(expired)
           next == [catalog EXCEPT !.generation = NextGeneration, !.floor = floor,
                        !.headsGeneration = NextGeneration, !.units = @ \ expired]
           replaced == {[area |-> "units", id |-> u.id] : u \in expired}
                       \cup {[area |-> "heads", id |-> g] :
                                g \in {catalog.headsGeneration} \ {0}}
<1>1. /\ status = "open" /\ ~Publishing /\ Publishing' /\ IsCatalog(catalog)
      /\ UNCHANGED <<generation, catalog, status>>
      /\ job' = [kind |-> "retain", next |-> next, tail |-> tail,
                 heads |-> Folded(expired), obsolete |-> replaced]
  BY DEF Retain, Healthy, Locked, Publishing, engine, IInv, CatalogsKept, KeptNow, Kept
<1>2. PICK gone \in Reapable :
          /\ unitFiles' = UnitsWithout(gone)
          /\ headFiles' = With(HeadsWithout(gone), NextGeneration, Folded(expired))
          /\ garbage' = garbage \ gone
  BY DEF Retain
<1>3. gone \subseteq garbage /\ expired \subseteq catalog.units
  BY DEF Reapable, Dead, Expired
<1>4. next \in Fields(NextGeneration, catalog.unitHigh, catalog.tableHigh,
                      catalog.checkpoint, floor, NextGeneration, catalog.clocks,
                      catalog.units \ expired)
  BY <1>1, Successors
<1>5. /\ NextGeneration # 0 /\ catalog.headsGeneration \in Nat
      /\ \A u \in expired : u.id \in Nat
  BY <1>1, <1>3 DEF IsCatalog, NextGeneration
<1> HIDE DEF next, expired, floor
<1>6. /\ job'.next.units = catalog.units \ expired
      /\ job'.next.headsGeneration = NextGeneration
      /\ job'.kind = "retain" /\ job'.obsolete = replaced
  BY <1>1, <1>4 DEF Fields
<1>7. /\ replaced \subseteq [area : {"units", "heads"}, id : Nat]
      /\ \A o \in replaced : \/ o.area = "units" /\ \E u \in catalog.units : u.id = o.id
                             \/ o.area = "heads" /\ o.id = catalog.headsGeneration
  <2>1. ASSUME NEW o \in replaced
        PROVE  /\ o \in [area : {"units", "heads"}, id : Nat]
               /\ \/ o.area = "units" /\ \E u \in catalog.units : u.id = o.id
                  \/ o.area = "heads" /\ o.id = catalog.headsGeneration
    <3>1. CASE \E u \in expired : o = [area |-> "units", id |-> u.id]
      BY <1>3, <1>5, <3>1
    <3>2. CASE o = [area |-> "heads", id |-> catalog.headsGeneration]
      BY <1>5, <3>2
    <3> QED
      BY <3>1, <3>2
  <2> HIDE DEF replaced
  <2>2. replaced \subseteq [area : {"units", "heads"}, id : Nat]
    BY <2>1
  <2>3. \A o \in replaced : \/ o.area = "units" /\ \E u \in catalog.units : u.id = o.id
                            \/ o.area = "heads" /\ o.id = catalog.headsGeneration
    BY <2>1, Zenon
  <2> QED
    BY <2>2, <2>3
<1>8. ReplacedListed'
  <2> HIDE DEF replaced
  <2> QED
    BY <1>1, <1>6, <1>7 DEF ReplacedListed
<1>9. /\ Replaced("units")' = Ids(expired)
      /\ Replaced("heads")' = {catalog.headsGeneration} \ {0}
  <2> DEFINE hg == {catalog.headsGeneration} \ {0}
  <2>1. /\ \A u \in expired : \E o \in replaced : o.area = "units" /\ o.id = u.id
        /\ \A i \in hg : \E o \in replaced : o.area = "heads" /\ o.id = i
        /\ \A o \in replaced : \/ o.area = "units" /\ \E u \in expired : o.id = u.id
                               \/ o.area = "heads" /\ o.id \in hg
    <3>1. /\ \A u \in expired : [area |-> "units", id |-> u.id] \in replaced
          /\ \A i \in hg : [area |-> "heads", id |-> i] \in replaced
      OBVIOUS
    <3>2. \A o \in replaced : \/ \E u \in expired : o = [area |-> "units", id |-> u.id]
                              \/ \E i \in hg : o = [area |-> "heads", id |-> i]
      OBVIOUS
    <3>3. \A a, i : [area |-> a, id |-> i].area = a /\ [area |-> a, id |-> i].id = i
      OBVIOUS
    <3> HIDE DEF replaced, hg
    <3>4. \A u \in expired : \E o \in replaced : o.area = "units" /\ o.id = u.id
      BY <3>1, <3>3
    <3>5. \A i \in hg : \E o \in replaced : o.area = "heads" /\ o.id = i
      BY <3>1, <3>3
    <3>6. \A o \in replaced : \/ o.area = "units" /\ \E u \in expired : o.id = u.id
                              \/ o.area = "heads" /\ o.id \in hg
      BY <3>2, <3>3
    <3> QED
      BY <3>4, <3>5, <3>6
  <2> HIDE DEF replaced, hg
  <2>2. \A i : i \in Named("units", replaced) <=> i \in Ids(expired)
    BY <2>1, NamedIs DEF Ids
  <2>3. \A i : i \in Named("heads", replaced) <=> i \in hg
    BY <2>1, NamedIs
  <2>4. Named("units", replaced) = Ids(expired) /\ Named("heads", replaced) = hg
    BY <2>2, <2>3
  <2> QED
    BY <1>1, <1>6, <2>4 DEF Replaced, hg
<1>10. /\ DOMAIN unitFiles' = DOMAIN UnitsWithout(gone) \cup {}
       /\ DOMAIN headFiles' = DOMAIN HeadsWithout(gone) \cup {NextGeneration}
  BY <1>2 DEF With
<1>11. Ids(catalog.units) \cup {} = Ids(job'.next.units) \cup Replaced("units")'
  BY <1>3, <1>6, <1>9 DEF Ids
<1>12. ({catalog.headsGeneration} \ {0}) \cup {NextGeneration}
       = ({job'.next.headsGeneration} \ {0}) \cup Replaced("heads")'
  BY <1>5, <1>6, <1>9
<1>13. 0 \notin {NextGeneration} /\ job'.kind # "takeover"
  BY <1>5, <1>6
<1> HIDE DEF replaced
<1> QED
  BY <1>1, <1>2, <1>3, <1>8, <1>10, <1>11, <1>12, <1>13, BeginningLeaves

(* An installation makes deletes of what it replaced.  None of it was      *)
(* waiting yet, since it was listed until now.                             *)
LEMMA InstallLeaves ==
    ASSUME IInv, SnapInv, FilesInv, Install
    PROVE  FilesInv'
<1>1. /\ pc = "settle" /\ Publishing /\ ~Publishing' /\ catalog' = job.next
      /\ UNCHANGED <<unitFiles, headFiles, status>>
      /\ job.kind \in {"seal", "compact", "retain", "takeover"}
  BY DEF Install, IInv, Control, Publishing
<1>2. Current' = Current /\ Replaced("units")' = {} /\ Replaced("heads")' = {}
  BY <1>1 DEF Current, Replaced
<1>3. ReplacedListed' /\ 0 \notin DOMAIN headFiles'
  BY <1>1 DEF ReplacedListed, FilesInv
<1>4. generation \in Nat
  BY DEF SnapInv
<1>5. CASE job.kind = "takeover"
  <2>1. garbage' = garbage /\ generation' = generation
    BY <1>5 DEF Install
  <2>2. Replaced("units") = {} /\ Replaced("heads") = {}
    BY <1>5 DEF Replaced
  <2>3. DeletesOnce'
    BY <2>1 DEF FilesInv, DeletesOnce
  <2>4. Accounted => Accounted'
    BY <1>1, <1>2, <2>1, <2>2 DEF Accounted
  <2> QED
    BY <1>1, <1>3, <2>3, <2>4 DEF FilesInv
<1>6. CASE job.kind # "takeover"
  <2>1. /\ garbage' = garbage \cup Retired
        /\ generation' = IF job.kind = "seal" THEN generation ELSE generation + 1
    BY <1>6 DEF Install
  <2>2. /\ job.obsolete \subseteq [area : {"units", "heads"}, id : Nat]
        /\ \A o \in job.obsolete :
               IF o.area = "units" THEN \E u \in catalog.units : u.id = o.id
               ELSE o.id = catalog.headsGeneration
    BY <1>1, <1>6 DEF FilesInv, ReplacedListed
  <2>3. \A r \in Retired : \E o \in job.obsolete :
            r = [owner |-> generation, area |-> o.area, id |-> o.id]
    BY DEF Retired
  <2>4. \A r \in Retired :
            /\ r \in [owner : Nat, area : {"units", "heads"}, id : Nat]
            /\ r.owner = generation /\ generation < generation'
    <3>1. Retired # {} => generation < generation'
      BY <1>1, <1>4, <1>6, <2>1 DEF Retired, SnapInv, SealOnlyAdds
    <3> QED
      BY <1>4, <2>2, <2>3, <3>1
  <2>5. \A g \in garbage, r \in Retired : g.area # r.area \/ g.id # r.id
    <3>1. \A g \in garbage : /\ g.area = "units" => \A u \in catalog.units : u.id # g.id
                             /\ g.area = "heads" => g.id # catalog.headsGeneration
      BY DEF IInv, CatalogsKept, KeptNow, Kept
    <3>2. \A r \in Retired : \/ r.area = "units" /\ \E u \in catalog.units : u.id = r.id
                             \/ r.area = "heads" /\ r.id = catalog.headsGeneration
      <4> TAKE r \in Retired
      <4>1. PICK o \in job.obsolete :
                r = [owner |-> generation, area |-> o.area, id |-> o.id]
        BY <2>3
      <4>2. r.area = o.area /\ r.id = o.id /\ o.area \in {"units", "heads"}
        BY <2>2, <4>1
      <4> QED
        BY <2>2, <4>2
    <3> QED
      BY <3>1, <3>2
  <2>6. DeletesOnce'
    <3>1. garbage' \subseteq [owner : Nat, area : {"units", "heads"}, id : Nat]
      BY <2>1, <2>4 DEF FilesInv, DeletesOnce
    <3>2. \A g \in garbage' : g.owner < generation'
      <4>1. \A g \in garbage : g.owner \in Nat /\ g.owner < generation
        BY DEF FilesInv, DeletesOnce
      <4>2. generation' \in Nat /\ generation <= generation'
        BY <1>4, <2>1
      <4> QED
        BY <1>4, <2>1, <2>4, <4>1, <4>2
    <3>3. \A g, h \in Retired : g.area = h.area /\ g.id = h.id => g = h
      BY <2>4
    <3>4. \A g, h \in garbage : g.area = h.area /\ g.id = h.id => g = h
      BY DEF FilesInv, DeletesOnce
    <3>5. \A g, h \in garbage' : g.area = h.area /\ g.id = h.id => g = h
      BY <2>1, <2>5, <3>3, <3>4
    <3> QED
      BY <3>1, <3>2, <3>5 DEF DeletesOnce
  <2>7. \A area : Named(area, garbage') = Named(area, garbage) \cup Replaced(area)
    <3> TAKE area
    <3>1. Named(area, garbage') = Named(area, garbage) \cup Named(area, Retired)
      BY <2>1 DEF Named
    <3>2. Replaced(area) = Named(area, job.obsolete)
      BY <1>1, <1>6 DEF Replaced
    <3>3. /\ \A o \in job.obsolete : \E r \in Retired : r.area = o.area /\ r.id = o.id
          /\ \A r \in Retired : \E o \in job.obsolete : r.area = o.area /\ r.id = o.id
      <4>1. \A o \in job.obsolete : [owner |-> generation, area |-> o.area, id |-> o.id]
                                    \in Retired
        BY DEF Retired
      <4>2. \A a, i : /\ [owner |-> generation, area |-> a, id |-> i].area = a
                      /\ [owner |-> generation, area |-> a, id |-> i].id = i
        OBVIOUS
      <4>3. \A o \in job.obsolete : \E r \in Retired : r.area = o.area /\ r.id = o.id
        BY <4>1, <4>2
      <4>4. \A r \in Retired : \E o \in job.obsolete : r.area = o.area /\ r.id = o.id
        BY <2>3, <4>2
      <4> QED
        BY <4>3, <4>4
    <3>4. \A i : i \in Named(area, Retired) <=> i \in Named(area, job.obsolete)
      BY <3>3, NamedIs
    <3> QED
      BY <3>1, <3>2, <3>4
  <2>8. Accounted => Accounted'
    <3>1. /\ Named("units", garbage') = Named("units", garbage) \cup Replaced("units")
          /\ Named("heads", garbage') = Named("heads", garbage) \cup Replaced("heads")
      BY <2>7
    <3>2. Named("units", garbage)' = Named("units", garbage')
          /\ Named("heads", garbage)' = Named("heads", garbage')
      BY DEF Named
    <3> QED
      BY <1>1, <1>2, <3>1, <3>2 DEF Accounted
  <2> QED
    BY <1>1, <1>3, <2>6, <2>8 DEF FilesInv
<1> QED
  BY <1>5, <1>6

(* What a crash leaves uncounted, the next open removes.                   *)
LEMMA OpenLeaves ==
    ASSUME IInv, FilesInv, Open
    PROVE  FilesInv'
<1>1. /\ status = "closed" /\ pc = "idle" /\ garbage = {} /\ garbage' = {}
      /\ IsCatalog(manifest) /\ Loadable
  <2>1. status = "closed" /\ garbage' = garbage /\ KeptNow(manifest)
    BY DEF Open, OpenSettling, IInv, CatalogsKept
  <2>2. Loadable
    <3>1. manifest.checkpoint <= Len(records)
      BY <2>1 DEF KeptNow, Kept, IsCatalog, IInv, LogOK
    <3> QED
      BY <2>1, <3>1 DEF KeptNow, Kept, Loadable
  <2> QED
    BY <2>1, <2>2 DEF IInv, Control, KeptNow, Kept
<1>2. /\ DOMAIN headFiles' \subseteq DOMAIN headFiles
      /\ status' = "open" /\ catalog' = manifest
      /\ \/ UNCHANGED <<pc, job>>
         \/ /\ pc' = "publish"
            /\ job' = [kind |-> "takeover",
                       next |-> [manifest EXCEPT !.generation = manifest.generation + 1]]
  BY <1>1 DEF Open, OpenSettling, Without, Restrict
<1>3. DeletesOnce'
  BY <1>1 DEF DeletesOnce
<1>4. /\ ReplacedListed' /\ Replaced("units")' = {} /\ Replaced("heads")' = {}
      /\ Current'.units = manifest.units
      /\ Current'.headsGeneration = manifest.headsGeneration
  <2>1. CASE UNCHANGED <<pc, job>>
    BY <1>1, <1>2, <2>1 DEF ReplacedListed, Replaced, Current, Publishing
  <2>2. CASE ~ UNCHANGED <<pc, job>>
    <3>1. [manifest EXCEPT !.generation = manifest.generation + 1] \in
              Fields(manifest.generation + 1, manifest.unitHigh, manifest.tableHigh,
                     manifest.checkpoint, manifest.floor, manifest.headsGeneration,
                     manifest.clocks, manifest.units)
      BY <1>1, Successors
    <3>2. /\ job'.next.units = manifest.units
          /\ job'.next.headsGeneration = manifest.headsGeneration
          /\ job'.kind = "takeover" /\ Publishing'
      BY <1>2, <2>2, <3>1 DEF Fields, Publishing
    <3> QED
      BY <3>2 DEF ReplacedListed, Replaced, Current
  <2> QED
    BY <2>1, <2>2
<1>5. ASSUME ~IoErrors
      PROVE  /\ DOMAIN unitFiles' = Ids(manifest.units)
             /\ DOMAIN headFiles' = {manifest.headsGeneration} \ {0}
  <2> DEFINE strangers == DOMAIN unitFiles \ {u.id : u \in manifest.units}
             oldHeads == DOMAIN headFiles \ {manifest.headsGeneration}
  <2>1. /\ unitFiles' = Without(unitFiles, strangers)
        /\ headFiles' = Without(headFiles, oldHeads)
    BY <1>1, <1>5 DEF Open, OpenSettling
  <2>2. /\ DOMAIN unitFiles' = DOMAIN unitFiles \ strangers
        /\ DOMAIN headFiles' = DOMAIN headFiles \ oldHeads
    BY <2>1 DEF Without, Restrict
  <2>3. /\ \A u \in manifest.units : u.id \in DOMAIN unitFiles
        /\ manifest.headsGeneration \in DOMAIN headFiles \cup {0}
        /\ 0 \notin DOMAIN headFiles
    BY <1>1 DEF Loadable, FilesInv
  <2>4. DOMAIN unitFiles' = Ids(manifest.units)
    BY <2>2, <2>3 DEF Ids
  <2>5. DOMAIN headFiles' = {manifest.headsGeneration} \ {0}
    BY <2>2, <2>3
  <2> QED
    BY <2>4, <2>5
<1>6. Named("units", garbage') = {} /\ Named("heads", garbage') = {}
  BY <1>1 DEF Named
<1>7. ~IoErrors => Accounted'
  BY <1>4, <1>5, <1>6 DEF Accounted, Ids, Named
<1> QED
  BY <1>2, <1>3, <1>4, <1>7 DEF FilesInv

LEMMA LifecycleLeaves ==
    ASSUME IInv, FilesInv,
           TakeoverFails \/ Close \/ Open \/ \E power \in BOOLEAN : Crash(power)
    PROVE  FilesInv'
<1>1. CASE TakeoverFails \/ Close \/ \E power \in BOOLEAN : Crash(power)
  <2>1. /\ status' = "closed" /\ pc' = "idle" /\ garbage' = {}
        /\ headFiles' = headFiles
    BY <1>1 DEF TakeoverFails, Close, Crash, Gone, disk
  <2> QED
    BY <2>1 DEF FilesInv, DeletesOnce, ReplacedListed, Publishing
<1> QED
  BY <1>1, OpenLeaves

LEMMA MutationLeaves ==
    ASSUME IInv, FilesInv, Mutation
    PROVE  FilesInv'
<1>1. ASSUME NEW r, Mutate(r)
      PROVE  FilesInv'
  <2>1. /\ status = "open" /\ ~Publishing /\ ~Publishing' /\ Reap
        /\ UNCHANGED <<generation, catalog, status>>
    BY <1>1 DEF Mutate, Healthy, Locked, Publishing
  <2> QED
    BY <2>1, ReapingLeaves
<1>2. ASSUME Sync \/ Tidy
      PROVE  FilesInv'
  <2>1. /\ status = "open" /\ ~Publishing /\ ~Publishing' /\ Reap
        /\ UNCHANGED <<generation, catalog, status>>
    BY <1>2 DEF Sync, Tidy, Healthy, Locked, engine, Publishing
  <2> QED
    BY <2>1, ReapingLeaves
<1>3. ASSUME \/ \E recs : BeginBatch(recs)
             \/ BatchRecord \/ BatchFails
      PROVE  FilesInv'
  <2>1. /\ ~Publishing /\ ~Publishing'
        /\ UNCHANGED <<unitFiles, headFiles, catalog, generation, garbage, status>>
    BY <1>3 DEF BeginBatch, BatchRecord, BatchFails, disk, engine, Publishing, Healthy, Locked
  <2> QED
    BY <2>1, IdleLeaves
<1> QED
  BY <1>1, <1>2, <1>3 DEF Mutation, AppendRow, CreateTable, DropTable, AppendRows

LEMMA MaintenanceLeaves ==
    ASSUME IInv, SnapInv, FilesInv, Maintenance
    PROVE  FilesInv'
<1>1. CASE Publish
  <2>1. /\ UNCHANGED <<unitFiles, headFiles, catalog, generation, garbage, status, job>>
        /\ Publishing' = Publishing
    BY <1>1 DEF Publish, engine, Publishing
  <2> QED
    BY <2>1, IdleLeaves
<1>2. CASE PublishFails
  BY <1>2 DEF PublishFails, FilesInv, DeletesOnce, ReplacedListed, Publishing, disk, engine
<1>3. CASE FinishMaintenance
  <2>1. /\ ~Publishing /\ ~Publishing' /\ Reap
        /\ UNCHANGED <<generation, catalog, status>>
    BY <1>3 DEF FinishMaintenance, engine, Publishing
  <2>2. status = "open"
    BY <1>3 DEF FinishMaintenance, IInv, Control
  <2> QED
    BY <2>1, <2>2, ReapingLeaves
<1> QED
  BY <1>1, <1>2, <1>3, SealLeaves, CompactionLeaves, RetainLeaves, InstallLeaves
  DEF Maintenance

LEMMA QuietLeaves ==
    ASSUME FilesInv, Reading \/ UNCHANGED vars
    PROVE  FilesInv'
<1>1. UNCHANGED <<unitFiles, headFiles, catalog, generation, garbage, status, pc, job>>
  BY DEF Reading, TakeSnapshot, DropSnapshot, vars, disk, engine
<1>2. Publishing' = Publishing
  BY <1>1 DEF Publishing
<1> QED
  BY <1>1, <1>2, IdleLeaves

LEMMA InitLeaves == Init => FilesInv
BY DEF Init, InitialCatalog, FilesInv, DeletesOnce, ReplacedListed, Accounted, Current,
       Replaced, Publishing, Ids, Named

(* As long as file operations succeed no unit or head file stays that      *)
(* nothing refers to: what is replaced waits for its last reader, what a   *)
(* crash has left is removed by the next open, and no delete is kept for a *)
(* file that is gone (Engine::retire of maintenance.rs, reap and           *)
(* cleanup_unreferenced of lifecycle_gc.rs).                               *)
THEOREM NothingStaysBehind == Spec => []NothingLeftBehind
<1>1. IInv /\ SnapInv /\ [Next]_vars => SnapInv'
  <2>1. IInv /\ SnapInv /\ Next => SnapInv'
    BY MutationCovers, MaintenanceCovers, ReadingCovers, LifecycleCovers DEF Next
  <2> QED
    BY <2>1, StutterCovers
<1>2. IInv /\ SnapInv /\ FilesInv /\ [Next]_vars => FilesInv'
  <2> SUFFICES ASSUME IInv, SnapInv, FilesInv, [Next]_vars
               PROVE  FilesInv'
    OBVIOUS
  <2> QED
    BY MutationLeaves, MaintenanceLeaves, LifecycleLeaves, QuietLeaves DEF Next
<1> QED
  BY <1>1, <1>2, InitCovers, InitLeaves, Inductive, FilesInvMeans, PTL DEF Spec

-----------------------------------------------------------------------------
(***************************************************************************)
(* Appends and the records of batches are accepted, syncs and seals        *)
(* persist, a MANIFEST that settles is a checkpoint, and the end of a      *)
(* process is a crash of the log.                                          *)
(*                                                                         *)
(* What has to be known is that a MANIFEST is ahead of the one a power     *)
(* failure leaves only while the whole log is durable: then even a power   *)
(* failure that keeps the newer one loses no record, and is a checkpoint   *)
(* rather than a crash.                                                    *)
(***************************************************************************)
BatchFits ==
    pc = "batch" =>
        /\ ~poison /\ \A i \in DOMAIN job.left : job.left[i] \in Bodies
        /\ Len(records) + Len(job.left) <= MaxRecords

Ahead ==
    /\ manifest.checkpoint # settled.checkpoint =>
           manifest.checkpoint = Len(records) /\ durable = Len(records)
    /\ Publishing =>
           IF job.kind = "seal"
           THEN job.next.checkpoint = Len(records) /\ durable = Len(records)
           ELSE job.next.checkpoint = settled.checkpoint
    /\ Publishing /\ job.kind = "takeover" => durable = Len(records)

LogInv ==
    /\ crashes \in 0 .. MaxCrashes
    /\ status = "closed" => durable = Len(records)
    /\ BatchFits /\ Ahead

LogStep == [Log!Next]_(Log!vars)

-----------------------------------------------------------------------------
(***************************************************************************)
(* Steps of the log.                                                       *)
(***************************************************************************)
LEMMA Accepting ==
    ASSUME IInv, NEW r \in Bodies, Len(records) < MaxRecords,
           records' = Append(records, r), UNCHANGED <<durable, settled>>
    PROVE  LogStep
<1>1. /\ records \in Seq(Rec) /\ Len(records) \in Nat
      /\ Len(records') = Len(records) + 1 /\ DOMAIN records' = DOMAIN records \cup {Len(records) + 1}
      /\ records'[Len(records) + 1] = r
      /\ \A l \in DOMAIN records : records'[l] = records[l] /\ l # Len(records) + 1
  BY DEF IInv, LogOK
<1> DEFINE entry(l) == [id |-> Self, seq |-> l, value |-> records[l]]
           entries == [l \in DOMAIN records |-> entry(l)]
<1>2. [l \in DOMAIN records' |-> [id |-> Self, seq |-> l, value |-> records'[l]]]
      = [l \in DOMAIN entries \cup {Len(records) + 1} |->
            IF l = Len(records) + 1
            THEN [id |-> Self, seq |-> Len(records) + 1, value |-> r] ELSE entries[l]]
  BY <1>1
<1>3. Log!Accept(Self, r)
  BY <1>1, <1>2 DEF Log!Accept
<1> QED
  BY <1>3 DEF LogStep, Log!Next

LEMMA Persisting ==
    ASSUME IInv, durable' \in durable .. Len(records), UNCHANGED <<records, settled>>
    PROVE  LogStep
BY DEF LogStep, Log!Next, Log!Persist

LEMMA CheckpointSettles ==
    ASSUME IInv, durable = Len(records), settled'.checkpoint = Len(records),
           UNCHANGED <<records, durable>>
    PROVE  LogStep
<1>1. Log!Checkpoint(Self)
  BY DEF Log!Checkpoint, IInv, LogOK
<1> QED
  BY <1>1 DEF LogStep, Log!Next

LEMMA NothingLogged ==
    ASSUME UNCHANGED <<records, durable>>, settled'.checkpoint = settled.checkpoint
    PROVE  LogStep
BY DEF LogStep, Log!vars

(* The last number in the log up to a cut that keeps what is durable.      *)
LEMMA LastAtCut ==
    ASSUME IInv, NEW cut \in durable .. Len(records)
    PROVE  Log!SeqAt(Self, cut) = cut
<1> DEFINE entries == [l \in DOMAIN records |->
                          [id |-> Self, seq |-> l, value |-> records[l]]]
           held == {entries[l].seq : l \in {k \in DOMAIN entries :
                                               k <= cut /\ entries[k].id = Self}}
                   \cup {settled.checkpoint}
<1>1. /\ records \in Seq(Rec) /\ Len(records) \in Nat /\ cut \in Nat /\ durable \in Nat
      /\ settled.checkpoint \in Nat /\ settled.checkpoint <= cut /\ cut <= Len(records)
  BY DEF IInv, LogOK, CatalogsKept, KeptNow, Kept, IsCatalog
<1>2. held = (1 .. cut) \cup {settled.checkpoint}
  <2>1. {k \in DOMAIN entries : k <= cut /\ entries[k].id = Self} = 1 .. cut
    BY <1>1
  <2>2. \A l \in 1 .. cut : entries[l].seq = l
    BY <1>1
  <2>3. {entries[l].seq : l \in 1 .. cut} = 1 .. cut
    BY <2>2
  <2> QED
    BY <2>1, <2>3
<1>3. Log!SeqAt(Self, cut) = CHOOSE s \in held : \A r \in held : r <= s
  BY DEF Log!SeqAt
<1> HIDE DEF held
<1>4. cut \in held
  <2>1. cut \in 1 .. cut \/ settled.checkpoint = cut
    BY <1>1
  <2> QED
    BY <1>2, <2>1
<1>5. \A s \in held : s \in Nat /\ s <= cut
  BY <1>1, <1>2
<1>6. \A s \in held : (\A r \in held : r <= s) => s = cut
  BY <1>1, <1>4, <1>5
<1> QED
  BY <1>3, <1>4, <1>5, <1>6

LEMMA Cutting ==
    ASSUME IInv, CutLog, settled'.checkpoint = settled.checkpoint
    PROVE  LogStep
<1>1. PICK cut \in durable .. Len(records) :
          records' = SubSeq(records, 1, cut) /\ durable' = cut
  BY DEF CutLog
<1>2. /\ records \in Seq(Rec) /\ Len(records) \in Nat /\ cut \in Nat /\ durable \in Nat
      /\ settled.checkpoint \in Nat /\ settled.checkpoint <= durable
      /\ durable <= Len(records)
  BY <1>1 DEF IInv, LogOK, CatalogsKept, KeptNow, Kept, IsCatalog
<1>3. /\ Len(records') = cut /\ DOMAIN records' = 1 .. cut
      /\ \A l \in 1 .. cut : records'[l] = records[l]
  BY <1>1, <1>2
<1> DEFINE entries == [l \in DOMAIN records |->
                          [id |-> Self, seq |-> l, value |-> records[l]]]
<1>4. [l \in DOMAIN records' |-> [id |-> Self, seq |-> l, value |-> records'[l]]]
      = [l \in DOMAIN entries \cap (1 .. cut) |-> entries[l]]
  BY <1>1, <1>2, <1>3
<1>5. Log!SeqAt(Self, cut) = cut
  BY <1>1, LastAtCut
<1>6. settled'.checkpoint \in settled.checkpoint .. Log!SeqAt(Self, durable)
  <2>1. durable \in durable .. Len(records)
    BY <1>2
  <2>2. Log!SeqAt(Self, durable) = durable
    BY <2>1, LastAtCut
  <2> QED
    BY <1>2, <2>2
<1>7. Log!Crash
  BY <1>1, <1>2, <1>3, <1>4, <1>5, <1>6 DEF Log!Crash
<1> QED
  BY <1>7 DEF LogStep, Log!Next

-----------------------------------------------------------------------------
(***************************************************************************)
(* Steps of the database.                                                  *)
(***************************************************************************)
LEMMA MutateLogs ==
    ASSUME IInv, LogInv, NEW r \in Bodies, Mutate(r)
    PROVE  LogInv' /\ LogStep
<1>1. /\ status = "open" /\ ~poison /\ pc = "idle" /\ ~Publishing
      /\ Len(records) < MaxRecords
      /\ UNCHANGED <<manifest, settled, durable, status, pc, job, crashes>>
      /\ records' = Append(records, r) \/ records' = records
  BY DEF Mutate, Healthy, Locked, Publishing
<1>2. manifest = settled
  BY <1>1 DEF IInv, OneCatalog
<1>3. LogInv'
  BY <1>1, <1>2 DEF LogInv, BatchFits, Ahead, Publishing
<1>4. LogStep
  BY <1>1, Accepting, NothingLogged
<1> QED
  BY <1>3, <1>4

LEMMA ReapLogs ==
    ASSUME IInv, LogInv, Sync \/ Tidy \/ FinishMaintenance
    PROVE  LogInv' /\ LogStep
<1>1. /\ UNCHANGED <<manifest, settled, records, status, poison, job, crashes>>
      /\ pc' = "idle" /\ ~Publishing /\ ~Publishing'
      /\ status = "open"
  BY DEF Sync, Tidy, FinishMaintenance, Locked, Healthy, log, Publishing, IInv, Control
<1>2. /\ durable' \in {durable, Len(records)} /\ durable \in 0 .. Len(records)
      /\ Len(records) \in Nat
  BY DEF Sync, Tidy, FinishMaintenance, log, IInv, LogOK
<1>3. durable' \in durable .. Len(records) /\ (durable = Len(records) => durable' = durable)
  BY <1>2
<1>4. LogInv'
  BY <1>1, <1>3 DEF LogInv, BatchFits, Ahead
<1> QED
  BY <1>1, <1>3, <1>4, Persisting

LEMMA BatchLogs ==
    ASSUME IInv, LogInv,
           \/ \E recs \in Seq(Bodies) : BeginBatch(recs)
           \/ BatchRecord
           \/ BatchFails
    PROVE  LogInv' /\ LogStep
<1>1. /\ status = "open" /\ ~Publishing /\ ~Publishing' /\ ~poison /\ manifest = settled
      /\ UNCHANGED <<manifest, settled, durable, status, crashes>>
  BY DEF BeginBatch, BatchRecord, BatchFails, Healthy, Locked, disk, log, Publishing,
         IInv, Control, OneCatalog, LogInv, BatchFits
<1>2. Ahead'
  BY <1>1 DEF Ahead
<1>3. CASE \E recs \in Seq(Bodies) : BeginBatch(recs)
  <2>1. PICK recs \in Seq(Bodies) : BeginBatch(recs)
    BY <1>3
  <2>2. /\ job'.left = recs /\ records' = records /\ poison' = poison
        /\ Len(records) + Len(recs) <= MaxRecords
    BY <2>1 DEF BeginBatch, log
  <2>3. BatchFits'
    BY <1>1, <2>2 DEF BatchFits
  <2> QED
    BY <1>1, <1>2, <2>2, <2>3, NothingLogged DEF LogInv
<1>4. CASE BatchRecord
  <2>1. /\ pc = "batch" /\ job.left \in Seq(Rec) /\ job.left # <<>>
        /\ records' = Append(records, Head(job.left))
        /\ records \in Seq(Rec) /\ Len(records) \in Nat /\ Len(job.left) \in Nat
    BY <1>4 DEF BatchRecord, IInv, Control, LogOK
  <2>2. Len(job.left) >= 1
    BY <2>1
  <2>3. /\ Head(job.left) \in Bodies /\ Len(records) + Len(job.left) <= MaxRecords
        /\ \A i \in DOMAIN job.left : job.left[i] \in Bodies
    BY <2>1, <2>2 DEF LogInv, BatchFits
  <2>4. Len(records) < MaxRecords
    BY <2>1, <2>2, <2>3, BoundsAssumption
  <2>5. LogStep
    BY <1>1, <2>1, <2>3, <2>4, Accepting
  <2>6. BatchFits'
    <3>1. CASE pc' = "batch"
      <4>1. job' = [job EXCEPT !.left = Tail(job.left)] /\ poison' = poison
        BY <1>4, <3>1 DEF BatchRecord
      <4>2. "left" \in DOMAIN job
        <5>1. job = [kind |-> "batch", all |-> job.all, left |-> job.left]
          BY <2>1 DEF IInv, Control
        <5>2. "left" \in DOMAIN [kind |-> "batch", all |-> job.all, left |-> job.left]
          OBVIOUS
        <5> QED
          BY <5>1, <5>2
      <4>3. job'.left = Tail(job.left)
        BY <4>1, <4>2
      <4>4. Len(records') = Len(records) + 1
        BY <2>1
      <4>5. /\ Len(Tail(job.left)) = Len(job.left) - 1
            /\ \A i \in DOMAIN Tail(job.left) : Tail(job.left)[i] \in Bodies
        BY <2>1, <2>2, <2>3, HeadTailProperties
      <4>6. Len(records') + Len(job'.left) <= MaxRecords
        <5>1. Len(job'.left) = Len(job.left) - 1
          BY <4>3, <4>5
        <5>2. Len(records) \in Nat /\ Len(job.left) \in Nat /\ MaxRecords \in Nat
          BY <2>1, BoundsAssumption
        <5>3. \A n, k, max \in Nat : n + k <= max => (n + 1) + (k - 1) <= max
          OBVIOUS
        <5> QED
          BY <2>3, <4>4, <5>1, <5>2, <5>3
      <4>7. \A i \in DOMAIN job'.left : job'.left[i] \in Bodies
        BY <4>3, <4>5
      <4>8. ~poison'
        BY <1>1, <4>1
      <4> QED
        BY <4>6, <4>7, <4>8 DEF BatchFits, Bodies
    <3>2. CASE pc' # "batch"
      BY <3>2 DEF BatchFits
    <3> QED
      BY <3>1, <3>2
  <2> QED
    BY <1>1, <1>2, <2>5, <2>6 DEF LogInv
<1>5. CASE BatchFails
  <2>1. pc' = "idle" /\ records' = records
    BY <1>5 DEF BatchFails, log
  <2> QED
    BY <1>1, <1>2, <2>1, NothingLogged DEF LogInv, BatchFits
<1> QED
  BY <1>3, <1>4, <1>5

LEMMA MutationLogs ==
    ASSUME IInv, LogInv, Mutation
    PROVE  LogInv' /\ LogStep
<1>1. \A op \in {"create", "drop", "append"}, t \in Tables, at \in Timestamps \cup {0} :
          Record(op, t, at) \in Bodies
  BY DEF Record, Bodies, LogInv
<1>2. CASE AppendRow \/ CreateTable \/ DropTable
  BY <1>1, <1>2, MutateLogs, TablesAssumption DEF AppendRow, CreateTable, DropTable
<1>3. CASE AppendRows
  <2>1. PICK t \in Tables, n \in 1 .. MaxBatch : \E ats \in [1 .. n -> Timestamps] :
            BeginBatch([i \in 1 .. n |-> Record("append", t, ats[i])])
    BY <1>3 DEF AppendRows
  <2>2. PICK ats \in [1 .. n -> Timestamps] :
            BeginBatch([i \in 1 .. n |-> Record("append", t, ats[i])])
    BY <2>1
  <2>3. n \in Nat /\ \A i \in 1 .. n : Record("append", t, ats[i]) \in Bodies
    BY <1>1, <2>2, BoundsAssumption
  <2>4. [i \in 1 .. n |-> Record("append", t, ats[i])] \in Seq(Bodies)
    BY <2>3
  <2> QED
    BY <2>2, <2>4, BatchLogs
<1> QED
  BY <1>2, <1>3, BatchLogs, ReapLogs DEF Mutation

-----------------------------------------------------------------------------
(* A seal persists the log, the other publications leave it alone. *)
LEMMA BeginPublicationLogs ==
    ASSUME IInv, LogInv,
           \/ Seal
           \/ \E level \in 0 .. 1 : CompactLevel(level)
           \/ CompactWindow(0, L1Window) \/ CompactWindow(1, L2Window)
           \/ \E cutoff \in {at + 1 : at \in Timestamps} : Retain(cutoff)
    PROVE  LogInv' /\ LogStep
<1>1. /\ status = "open" /\ manifest = catalog /\ settled = catalog
      /\ pc' = "publish" /\ Publishing'
      /\ UNCHANGED <<manifest, settled, records, status, crashes>>
  BY DEF Seal, SealDurably, CompactLevel, CompactWindow, Compact, Retain, Healthy, Locked,
         log, Publishing, IInv, OneCatalog
<1>2. IsCatalog(catalog) /\ Len(records) \in Nat /\ durable \in 0 .. Len(records)
  BY DEF IInv, CatalogsKept, KeptNow, Kept, LogOK
<1>3. CASE Seal
  <2>1. /\ durable' = Len(records) /\ job'.kind = "seal" /\ job'.next = SealedCatalog
    BY <1>3 DEF Seal, SealDurably
  <2>2. SealedCatalog.checkpoint = Len(records)
    <3>1. SealedCatalog \in
              Fields(NextGeneration, UnitHigh, tail.high, Len(records), catalog.floor,
                     catalog.headsGeneration, Clocks, catalog.units \cup SealedUnits)
      BY <1>2, Successors DEF SealedCatalog, CatalogAfterSeal
    <3> QED
      BY <3>1 DEF Fields
  <2>3. LogInv'
    BY <1>1, <2>1, <2>2 DEF LogInv, BatchFits, Ahead
  <2>4. durable' \in durable .. Len(records)
    BY <1>2, <2>1
  <2> QED
    BY <1>1, <2>3, <2>4, Persisting
<1>4. ASSUME durable' = durable, job'.kind \in {"compact", "retain"},
             job'.next.checkpoint = catalog.checkpoint
      PROVE  LogInv' /\ LogStep
  BY <1>1, <1>4, NothingLogged DEF LogInv, BatchFits, Ahead
<1>5. ASSUME NEW inputs, NEW files, Compact(inputs, files)
      PROVE  LogInv' /\ LogStep
  <2> DEFINE units == (catalog.units \ inputs)
                      \cup {[id |-> NextUnit, level |-> First(inputs).level + 1,
                             rows |-> UNION {u.rows : u \in inputs}]}
             next == [catalog EXCEPT !.generation = NextGeneration, !.unitHigh = NextUnit,
                                     !.units = units]
  <2>1. job'.kind = "compact" /\ job'.next = next /\ durable' = durable
    BY <1>5 DEF Compact, log
  <2> HIDE DEF units
  <2>2. next \in Fields(NextGeneration, NextUnit, catalog.tableHigh, catalog.checkpoint,
                        catalog.floor, catalog.headsGeneration, catalog.clocks, units)
    BY <1>2, Successors
  <2>3. job'.next.checkpoint = catalog.checkpoint
    BY <2>1, <2>2 DEF Fields
  <2> QED
    BY <1>4, <2>1, <2>3
<1>6. ASSUME NEW cutoff, Retain(cutoff)
      PROVE  LogInv' /\ LogStep
  <2> DEFINE floor == FloorAfter(Expired(cutoff))
             units == catalog.units \ Expired(cutoff)
             next == [catalog EXCEPT !.generation = NextGeneration, !.floor = floor,
                                     !.headsGeneration = NextGeneration, !.units = units]
  <2>1. job'.kind = "retain" /\ job'.next = next /\ durable' = durable
    BY <1>6 DEF Retain, log
  <2> HIDE DEF units, floor
  <2>2. next \in Fields(NextGeneration, catalog.unitHigh, catalog.tableHigh,
                        catalog.checkpoint, floor, NextGeneration, catalog.clocks, units)
    BY <1>2, Successors
  <2>3. job'.next.checkpoint = catalog.checkpoint
    BY <2>1, <2>2 DEF Fields
  <2> QED
    BY <1>4, <2>1, <2>3
<1> QED
  BY <1>3, <1>5, <1>6 DEF CompactLevel, CompactWindow

(* The rename decides nothing yet, the sync of the directory does. *)
LEMMA PublicationLogs ==
    ASSUME IInv, LogInv, Publish \/ PublishFails \/ Install
    PROVE  LogInv' /\ LogStep
<1>1. /\ Publishing /\ status = "open"
      /\ UNCHANGED <<records, durable, status, crashes>>
  BY DEF Publish, PublishFails, Install, Publishing, log, IInv, Control
<1>2. CASE Publish
  <2>1. /\ manifest' = job.next /\ settled' = settled /\ pc' = "settle" /\ job' = job
    BY <1>2 DEF Publish
  <2>2. LogInv'
    BY <1>1, <2>1 DEF LogInv, BatchFits, Ahead, Publishing
  <2> QED
    BY <1>1, <2>1, <2>2, NothingLogged
<1>3. CASE PublishFails
  <2>1. UNCHANGED <<manifest, settled>> /\ pc' = "idle"
    BY <1>3 DEF PublishFails, disk
  <2>2. LogInv'
    BY <1>1, <2>1 DEF LogInv, BatchFits, Ahead, Publishing
  <2> QED
    BY <1>1, <2>1, <2>2, NothingLogged
<1>4. CASE Install
  <2>1. /\ manifest = job.next /\ manifest' = manifest /\ settled' = manifest
        /\ pc' \in {"idle", "reap"}
    BY <1>4 DEF Install, IInv, OneCatalog
  <2>2. LogInv'
    BY <1>1, <2>1 DEF LogInv, BatchFits, Ahead, Publishing
  <2>3. LogStep
    BY <1>1, <2>1, CheckpointSettles, NothingLogged DEF LogInv, Ahead
  <2> QED
    BY <2>2, <2>3
<1> QED
  BY <1>2, <1>3, <1>4

(* Cutting the log at its durable end, when that is all of it. *)
LEMMA CutNothing ==
    ASSUME IInv, CutLog, durable = Len(records)
    PROVE  UNCHANGED <<records, durable>>
<1>1. records \in Seq(Rec) /\ Len(records) \in Nat
  BY DEF IInv, LogOK
<1>2. records' = SubSeq(records, 1, Len(records)) /\ durable' = Len(records)
  BY <1>1 DEF CutLog
<1> QED
  BY <1>1, <1>2

LEMMA LifecycleLogs ==
    ASSUME IInv, LogInv,
           TakeoverFails \/ Close \/ Open \/ \E power \in BOOLEAN : Crash(power)
    PROVE  LogInv' /\ LogStep
<1>1. records \in Seq(Rec) /\ Len(records) \in Nat /\ durable \in 0 .. Len(records)
  BY DEF IInv, LogOK
<1>2. ASSUME CutLog
      PROVE  durable' = Len(records')
  <2>1. PICK cut \in durable .. Len(records) :
            records' = SubSeq(records, 1, cut) /\ durable' = cut
    BY <1>2 DEF CutLog
  <2> QED
    BY <1>1, <2>1
<1>3. CASE TakeoverFails
  <2>1. /\ UNCHANGED <<manifest, settled, records, durable>> /\ pc' = "idle"
        /\ crashes' = crashes + 1 /\ crashes < MaxCrashes
        /\ Publishing /\ job.kind = "takeover" /\ status' = "closed"
    BY <1>3 DEF TakeoverFails, Gone, disk, log, Publishing
  <2>2. crashes' \in 0 .. MaxCrashes
    BY <2>1, BoundsAssumption DEF LogInv
  <2>3. durable = Len(records) /\ ~Publishing'
    BY <2>1 DEF LogInv, Ahead, Publishing
  <2>4. LogInv'
    BY <2>1, <2>2, <2>3 DEF LogInv, BatchFits, Ahead
  <2> QED
    BY <2>1, <2>4, NothingLogged
<1>4. CASE Close \/ \E power \in BOOLEAN : Crash(power)
  <2>1. /\ CutLog /\ pc' = "idle" /\ status' = "closed"
        /\ crashes' = crashes + 1 /\ crashes < MaxCrashes
        /\ \/ UNCHANGED <<manifest, settled>>
           \/ manifest' \in {manifest, settled} /\ settled' = manifest'
    BY <1>4 DEF Close, Crash, Gone, disk
  <2>2. crashes' \in 0 .. MaxCrashes
    BY <2>1, BoundsAssumption DEF LogInv
  <2>3. durable' = Len(records') /\ ~Publishing'
    BY <1>2, <2>1 DEF Publishing
  <2>4. CASE manifest.checkpoint = settled.checkpoint
    <3>1. /\ settled'.checkpoint = settled.checkpoint
          /\ manifest'.checkpoint = settled'.checkpoint
      BY <2>1, <2>4
    <3>2. LogInv'
      BY <2>1, <2>2, <2>3, <3>1 DEF LogInv, BatchFits, Ahead
    <3> QED
      BY <2>1, <3>1, <3>2, Cutting
  <2>5. CASE manifest.checkpoint # settled.checkpoint
    <3>1. manifest.checkpoint = Len(records) /\ durable = Len(records)
      BY <2>5 DEF LogInv, Ahead
    <3>2. UNCHANGED <<records, durable>>
      BY <2>1, <3>1, CutNothing
    <3>3. \/ settled'.checkpoint = settled.checkpoint
          \/ settled'.checkpoint = Len(records)
      BY <2>1, <3>1
    <3>4. LogInv'
      BY <2>1, <2>2, <2>3, <3>1, <3>2 DEF LogInv, BatchFits, Ahead
    <3> QED
      BY <3>1, <3>2, <3>3, <3>4, NothingLogged, CheckpointSettles
  <2> QED
    BY <2>4, <2>5
<1>5. CASE Open
  <2>1. status = "closed" /\ durable = Len(records) /\ pc = "idle"
    BY <1>5 DEF Open, OpenSettling, LogInv, IInv, Control
  <2>2. /\ UNCHANGED <<records, durable, manifest, crashes>> /\ settled' = manifest
        /\ \/ UNCHANGED <<pc, job>>
           \/ /\ pc' = "publish"
              /\ job' = [kind |-> "takeover",
                         next |-> [manifest EXCEPT !.generation = @ + 1]]
        /\ status' # "closed"
    BY <1>5, <2>1 DEF Open, OpenSettling
  <2>3. [manifest EXCEPT !.generation = @ + 1].checkpoint = manifest.checkpoint
    <3>1. IsCatalog(manifest)
      BY DEF IInv, CatalogsKept, KeptNow, Kept
    <3>2. [manifest EXCEPT !.generation = manifest.generation + 1] \in
              Fields(manifest.generation + 1, manifest.unitHigh, manifest.tableHigh,
                     manifest.checkpoint, manifest.floor, manifest.headsGeneration,
                     manifest.clocks, manifest.units)
      BY <3>1, Successors
    <3> QED
      BY <3>2 DEF Fields
  <2>4. LogInv'
    <3>1. Ahead'
      <4>1. CASE UNCHANGED <<pc, job>>
        BY <2>1, <2>2, <4>1 DEF Ahead, Publishing
      <4>2. CASE job' = [kind |-> "takeover", next |-> [manifest EXCEPT !.generation = @ + 1]]
        <5>1. job'.kind = "takeover" /\ job'.next.checkpoint = manifest.checkpoint
          BY <2>3, <4>2
        <5> QED
          BY <2>1, <2>2, <5>1 DEF Ahead
      <4> QED
        BY <2>2, <4>1, <4>2
    <3>2. pc' # "batch"
      BY <2>1, <2>2
    <3> QED
      BY <2>2, <3>1, <3>2 DEF LogInv, BatchFits
  <2>5. LogStep
    <3>1. CASE manifest.checkpoint = settled.checkpoint
      BY <2>2, <3>1, NothingLogged
    <3>2. CASE manifest.checkpoint # settled.checkpoint
      BY <2>1, <2>2, <3>2, CheckpointSettles DEF LogInv, Ahead
    <3> QED
      BY <3>1, <3>2
  <2> QED
    BY <2>4, <2>5
<1> QED
  BY <1>3, <1>4, <1>5

LEMMA QuietLogs ==
    ASSUME IInv, LogInv, Reading \/ UNCHANGED vars
    PROVE  LogInv' /\ LogStep
<1>1. UNCHANGED <<manifest, settled, records, durable, status, poison, pc, job, crashes>>
  BY DEF Reading, TakeSnapshot, DropSnapshot, vars, disk, log
<1> QED
  BY <1>1, NothingLogged DEF LogInv, BatchFits, Ahead, Publishing

-----------------------------------------------------------------------------
LEMMA InitLogs ==
    ASSUME Founded = 0, Init
    PROVE  LogInv /\ Log!Init
<1>1. records = <<>>
  BY DEF Init
<1>2. /\ crashes = 0 /\ durable = 0 /\ pc = "idle" /\ status = "open"
      /\ manifest = InitialCatalog /\ settled = InitialCatalog
  BY DEF Init
<1>3. LogInv
  BY <1>2, BoundsAssumption DEF LogInv, BatchFits, Ahead, Publishing
<1>4. Log!Init
  BY <1>1, <1>2 DEF Log!Init, InitialCatalog
<1> QED
  BY <1>3, <1>4

(* A database that starts with nothing in its log uses it as MemberLogs    *)
(* allows: it never gives up a record that is not durable, never accepts   *)
(* one twice, and whatever ends the process takes only what was not synced *)
(* (append, sync, seal and open of db.rs, maintenance.rs and db_open.rs).  *)
THEOREM DatabaseImplements ==
    ASSUME Founded = 0
    PROVE  Spec => ImplementsMemberLogs
<1>1. Init => LogInv /\ Log!Init
  BY InitLogs
<1>2. IInv /\ LogInv /\ [Next]_vars => LogInv' /\ [Log!Next]_(Log!vars)
  <2> SUFFICES ASSUME IInv, LogInv, [Next]_vars
               PROVE  LogInv' /\ LogStep
    BY DEF LogStep
  <2> QED
    BY MutationLogs, ReapLogs, BeginPublicationLogs, PublicationLogs, LifecycleLogs, QuietLogs
    DEF Next, Maintenance
<1> QED
  BY <1>1, <1>2, Inductive, PTL DEF Spec, ImplementsMemberLogs, Log!Spec

-----------------------------------------------------------------------------
(***************************************************************************)
(* What the engine holds is the log of what was accepted: every row is in  *)
(* one unit or in the tail or has expired below the floor, clocks are      *)
(* those of the last rows, and heads are the last of the rows that         *)
(* expired.                                                                *)
(*                                                                         *)
(* The invariant says of each of the four catalogs that an open may find   *)
(* what it means: a checkpoint, the clocks and the number of tables there, *)
(* units with rows of the log in front of it, a floor above the rows that  *)
(* are in none, and heads among those.  The tail is what a replay of the   *)
(* log behind the checkpoint gives, so a catalog and a log that outlives   *)
(* it are all that an open needs.  The last parts are about the order of   *)
(* the units, which compaction and retention rely on, and about scans and  *)
(* lookups.                                                                *)
(***************************************************************************)

-----------------------------------------------------------------------------
(***************************************************************************)
(* Numbers, and the tail after some records as a run of Apply.             *)
(***************************************************************************)
Applies == INSTANCE Folding WITH Step <- Apply

(* A finite set of numbers that is not empty has a largest element: the one *)
(* Max chooses.                                                             *)
LEMMA MaxOfFinite ==
    ASSUME NEW S, S \subseteq Nat, S # {}, IsFiniteSet(S)
    PROVE  Max(S) \in S /\ \A x \in S : x <= Max(S)
<1>1. S \subseteq Int /\ Applies!IsFiniteSet(S)
  BY DEF Applies!IsFiniteSet, IsFiniteSet
<1>2. Applies!Max(S) \in S /\ \A x \in S : x <= Applies!Max(S)
  BY <1>1, Applies!MaxOfFinite
<1>3. Applies!Max(S) = Max(S)
  BY DEF Applies!Max, Max
<1> QED
  BY <1>2, <1>3

(* A tail after the records of s, which is where a run of Apply along them *)
(* ends.                                                                   *)
ApplyAll(base, s) == FoldLeft(Apply, base, s)

LEMMA ApplySteps ==
    ASSUME NEW base, NEW s, NEW n \in Nat, NEW f, Applies!Run(f, base, s, n)
    PROVE  ApplyAll(base, s) = f[n]
<1>1. ApplyAll(base, s) = Applies!Fold(base, s)
  BY DEF ApplyAll, Applies!Fold, FoldLeft, MapThenFoldSet, Applies!FoldLeft,
         Applies!MapThenFoldSet, Max, Applies!Max
<1> QED
  BY <1>1, Applies!FoldSteps

-----------------------------------------------------------------------------
(***************************************************************************)
(* What a log means.                                                       *)
(***************************************************************************)
(* Rows accepted by the records behind `from` up to `to`, all of them and  *)
(* those of a table.                                                       *)
Rows(recs, from, to) ==
    {RowOf(recs[i]) : i \in {j \in from + 1 .. to : recs[j].op = "append"}}
RowsOf(recs, from, to, t) == {r \in Rows(recs, from, to) : r.table = t}

(* Tables created and dropped by the first n records: how many there have  *)
(* been, which are live, and the time of each one's last row.              *)
Creations(recs, n) == {i \in 1 .. n : recs[i].op = "create"}
Drops(recs, n) == {i \in 1 .. n : recs[i].op = "drop"}
TablesOf(recs, S) == {recs[i].table : i \in S}
HighAt(recs, n) == Cardinality(Creations(recs, n))
LiveAt(recs, n) == TablesOf(recs, Creations(recs, n)) \ TablesOf(recs, Drops(recs, n))
LastAt(recs, n, t) == Max(Times(RowsOf(recs, 0, n, t)) \cup {0})

(* What the tail is that an open makes of n records behind a checkpoint. *)
TailAt(recs, from, n) ==
    [tables |-> [t \in LiveAt(recs, n) |-> [last |-> LastAt(recs, n, t),
                                            rows |-> RowsOf(recs, from, n, t)]],
     high |-> HighAt(recs, n)]

(* A log in which every record was valid when it was accepted. *)
Legal(recs) ==
    \A i \in 1 .. Len(recs) : /\ Valid(TailAt(recs, 0, i - 1), recs[i])
                              /\ recs[i].table \in 1 .. HighAt(recs, i)

(* The image of a finite set is finite. *)
LEMMA ImageFinite ==
    ASSUME NEW S, IsFiniteSet(S), NEW f
    PROVE  IsFiniteSet({f[x] : x \in S})
<1> DEFINE T == {f[x] : x \in S}
           g == [x \in S |-> f[x]]
<1>1. g \in Surjection(S, T)
  BY DEF Surjection
<1> QED
  BY <1>1, FS_Surjection

(* The largest number of a set is its Max. *)
LEMMA MaxIs ==
    ASSUME NEW S, S \subseteq Nat, NEW m \in S, \A x \in S : x <= m
    PROVE  Max(S) = m
<1>1. Max(S) \in S /\ \A x \in S : Max(S) >= x
  BY DEF Max
<1>2. m \in Nat /\ Max(S) \in Nat
  BY <1>1
<1> QED
  BY <1>1, <1>2

(* The types of a record's parts. *)
LEMMA RecTypes ==
    ASSUME NEW r \in Rec
    PROVE  r.at \in Nat /\ r.table \in Nat /\ r.op \in {"create", "drop", "append"}
<1>1. Cardinality(Tables) \in Nat /\ r.table \in Tables
  BY TablesAssumption, FS_CardinalityType DEF Rec
<1>2. r.table \in Nat
  BY <1>1, TablesAssumption
<1>3. r.at \in Nat
  <2>1. r.at \in Timestamps \cup {0}
    BY DEF Rec
  <2>2. \A at \in Timestamps : at \in Nat
    BY TimesAssumption
  <2> QED
    BY <2>1, <2>2
<1> QED
  BY <1>2, <1>3 DEF Rec

(* Two logs that agree on their first n records. *)
LEMMA Agreeing ==
    ASSUME NEW recs, NEW other, NEW n \in Nat, \A i \in 1 .. n : recs[i] = other[i],
           NEW m \in 0 .. n, NEW from \in Nat
    PROVE  /\ Rows(recs, from, m) = Rows(other, from, m)
           /\ Creations(recs, m) = Creations(other, m)
           /\ HighAt(recs, m) = HighAt(other, m)
           /\ LiveAt(recs, m) = LiveAt(other, m)
           /\ \A t : LastAt(recs, m, t) = LastAt(other, m, t)
           /\ TailAt(recs, from, m) = TailAt(other, from, m)
<1>1. \A i \in 1 .. m : recs[i] = other[i]
  OBVIOUS
<1>2. /\ \A i \in from + 1 .. m : recs[i] = other[i]
      /\ \A i \in 0 + 1 .. m : recs[i] = other[i]
  OBVIOUS
<1>3. ASSUME NEW k \in Nat, \A i \in k + 1 .. m : recs[i] = other[i]
      PROVE  Rows(recs, k, m) = Rows(other, k, m)
  BY <1>3 DEF Rows
<1>4. Rows(recs, from, m) = Rows(other, from, m) /\ Rows(recs, 0, m) = Rows(other, 0, m)
  BY <1>2, <1>3
<1>5. Creations(recs, m) = Creations(other, m) /\ Drops(recs, m) = Drops(other, m)
  BY <1>1 DEF Creations, Drops
<1>6. LiveAt(recs, m) = LiveAt(other, m)
  <2>1. \A S : S \subseteq 1 .. m => TablesOf(recs, S) = TablesOf(other, S)
    BY <1>1 DEF TablesOf
  <2>2. Creations(recs, m) \subseteq 1 .. m /\ Drops(recs, m) \subseteq 1 .. m
    BY DEF Creations, Drops
  <2> QED
    BY <1>5, <2>1, <2>2 DEF LiveAt
<1>7. \A t : /\ RowsOf(recs, from, m, t) = RowsOf(other, from, m, t)
             /\ RowsOf(recs, 0, m, t) = RowsOf(other, 0, m, t)
  BY <1>4 DEF RowsOf
<1>8. \A t : LastAt(recs, m, t) = LastAt(other, m, t)
  BY <1>7 DEF LastAt
<1>9. HighAt(recs, m) = HighAt(other, m)
  BY <1>5 DEF HighAt
<1> QED
  BY <1>4, <1>5, <1>6, <1>7, <1>8, <1>9 DEF TailAt

(* One record more. *)
LEMMA OneMore ==
    ASSUME NEW recs, NEW n \in Nat, NEW from \in 0 .. n
    PROVE  /\ Rows(recs, from, n + 1) =
                  Rows(recs, from, n)
                  \cup {RowOf(r) : r \in {q \in {recs[n + 1]} : q.op = "append"}}
           /\ Creations(recs, n + 1) =
                  Creations(recs, n)
                  \cup {i \in {n + 1} : recs[i].op = "create"}
           /\ Drops(recs, n + 1) =
                  Drops(recs, n) \cup {i \in {n + 1} : recs[i].op = "drop"}
<1>1. from + 1 .. n + 1 = (from + 1 .. n) \cup {n + 1}
  OBVIOUS
<1>2. 1 .. n + 1 = (1 .. n) \cup {n + 1}
  OBVIOUS
<1>3. Rows(recs, from, n + 1) =
          Rows(recs, from, n)
          \cup {RowOf(r) : r \in {q \in {recs[n + 1]} : q.op = "append"}}
  BY <1>1 DEF Rows
<1>4. /\ Creations(recs, n + 1) =
             Creations(recs, n) \cup {i \in {n + 1} : recs[i].op = "create"}
      /\ Drops(recs, n + 1) =
             Drops(recs, n) \cup {i \in {n + 1} : recs[i].op = "drop"}
  BY <1>2 DEF Creations, Drops
<1> QED
  BY <1>3, <1>4

(* Table numbers grow with every creation and with nothing else. *)
LEMMA HighGrows ==
    ASSUME NEW recs, NEW n \in Nat
    PROVE  /\ IsFiniteSet(Creations(recs, n)) /\ HighAt(recs, n) \in Nat
           /\ \A m \in 0 .. n : HighAt(recs, m) <= HighAt(recs, n)
           /\ HighAt(recs, n + 1) = HighAt(recs, n)
                                    + IF recs[n + 1].op = "create" THEN 1 ELSE 0
<1>1. \A k \in Nat : IsFiniteSet(Creations(recs, k))
  <2> TAKE k \in Nat
  <2>1. IsFiniteSet(1 .. k)
    BY FS_Interval
  <2> QED
    BY <2>1, FS_Subset DEF Creations
<1>2. HighAt(recs, n) \in Nat
  BY <1>1, FS_CardinalityType DEF HighAt
<1>3. ASSUME NEW m \in 0 .. n
      PROVE  HighAt(recs, m) <= HighAt(recs, n)
  <2>1. \A i \in 1 .. m : i \in 1 .. n
    OBVIOUS
  <2>2. Creations(recs, m) \subseteq Creations(recs, n)
    BY <2>1 DEF Creations
  <2> QED
    BY <1>1, <2>2, FS_Subset DEF HighAt
<1>4. HighAt(recs, n + 1) = HighAt(recs, n)
                            + IF recs[n + 1].op = "create" THEN 1 ELSE 0
  <2>1. n + 1 \notin Creations(recs, n)
    BY DEF Creations
  <2>2. Creations(recs, n + 1) =
            Creations(recs, n) \cup {i \in {n + 1} : recs[i].op = "create"}
    <3>1. 0 \in 0 .. n
      OBVIOUS
    <3> QED
      BY <3>1, OneMore
  <2>3. CASE recs[n + 1].op = "create"
    <3>1. Creations(recs, n + 1) = Creations(recs, n) \cup {n + 1}
      BY <2>2, <2>3
    <3>2. Cardinality(Creations(recs, n) \cup {n + 1}) = Cardinality(Creations(recs, n)) + 1
      BY <1>1, <2>1, FS_AddElement
    <3> QED
      BY <2>3, <3>1, <3>2 DEF HighAt
  <2>4. CASE recs[n + 1].op # "create"
    <3>1. Creations(recs, n + 1) = Creations(recs, n)
      BY <2>2, <2>4
    <3> QED
      BY <1>2, <2>4, <3>1 DEF HighAt
  <2> QED
    BY <2>3, <2>4
<1> QED
  BY <1>1, <1>2, <1>3, <1>4

(* There are finitely many rows, with times that can be compared. *)
LEMMA RowsFinite ==
    ASSUME NEW recs \in Seq(Rec), NEW n \in 0 .. Len(recs), NEW from \in Nat
    PROVE  /\ IsFiniteSet(Rows(recs, from, n))
           /\ \A r \in Rows(recs, from, n) : r.at \in Nat
           /\ \A rows \in SUBSET Rows(recs, from, n) :
                  IsFiniteSet(Times(rows)) /\ Times(rows) \subseteq Nat
<1> DEFINE appends == {j \in from + 1 .. n : recs[j].op = "append"}
           f == [i \in appends |-> RowOf(recs[i])]
<1>1. IsFiniteSet(appends)
  <2>1. IsFiniteSet(from + 1 .. n)
    BY FS_Interval
  <2> QED
    BY <2>1, FS_Subset
<1>2. Rows(recs, from, n) = {f[i] : i \in appends}
  BY DEF Rows
<1>3. IsFiniteSet(Rows(recs, from, n))
  <2> HIDE DEF appends, f
  <2> QED
    BY <1>1, <1>2, ImageFinite
<1>4. \A r \in Rows(recs, from, n) : r.at \in Nat
  BY RecTypes DEF Rows, RowOf
<1>5. ASSUME NEW rows \in SUBSET Rows(recs, from, n)
      PROVE  IsFiniteSet(Times(rows)) /\ Times(rows) \subseteq Nat
  <2>1. IsFiniteSet(rows)
    BY <1>3, FS_Subset
  <2> DEFINE at == [r \in rows |-> r.at]
  <2>2. Times(rows) = {at[r] : r \in rows}
    BY DEF Times
  <2>3. IsFiniteSet(Times(rows))
    <3> HIDE DEF at
    <3> QED
      BY <2>1, <2>2, ImageFinite
  <2>4. Times(rows) \subseteq Nat
    BY <1>4 DEF Times
  <2> QED
    BY <2>3, <2>4
<1> QED
  BY <1>3, <1>4, <1>5

(* The clock of a table is the time of one of its rows, or zero. *)
LEMMA LastIs ==
    ASSUME NEW recs \in Seq(Rec), NEW n \in 0 .. Len(recs), NEW t
    PROVE  /\ LastAt(recs, n, t) \in Nat
           /\ \A r \in RowsOf(recs, 0, n, t) : r.at <= LastAt(recs, n, t)
           /\ LastAt(recs, n, t) \in Times(RowsOf(recs, 0, n, t)) \cup {0}
<1> DEFINE S == Times(RowsOf(recs, 0, n, t)) \cup {0}
<1>1. IsFiniteSet(S) /\ S \subseteq Nat /\ S # {}
  <2>1. RowsOf(recs, 0, n, t) \in SUBSET Rows(recs, 0, n)
    BY DEF RowsOf
  <2>2. /\ IsFiniteSet(Times(RowsOf(recs, 0, n, t)))
        /\ Times(RowsOf(recs, 0, n, t)) \subseteq Nat
    BY <2>1, RowsFinite
  <2> QED
    BY <2>2, FS_AddElement
<1>2. Max(S) \in S /\ \A x \in S : x <= Max(S)
  BY <1>1, MaxOfFinite
<1> QED
  BY <1>1, <1>2 DEF LastAt, Times

-----------------------------------------------------------------------------
(***************************************************************************)
(* What a legal log says of its records.                                   *)
(***************************************************************************)
(* When a record is valid for a tail that mirrors n records. *)
LEMMA ValidIs ==
    ASSUME NEW recs, NEW from, NEW n, NEW r, r.op \in {"create", "drop", "append"}
    PROVE  Valid(TailAt(recs, from, n), r) <=>
               /\ r.op = "create" => r.table = HighAt(recs, n) + 1
               /\ r.op = "drop" => r.table \in LiveAt(recs, n)
               /\ r.op = "append" =>
                      r.table \in LiveAt(recs, n) /\ r.at > LastAt(recs, n, r.table)
<1> DEFINE target == TailAt(recs, from, n)
<1>1. /\ target.high = HighAt(recs, n)
      /\ DOMAIN target.tables = LiveAt(recs, n)
      /\ \A t \in LiveAt(recs, n) : target.tables[t].last = LastAt(recs, n, t)
  BY DEF TailAt
<1> SUFFICES Valid(target, r) <=>
                 /\ r.op = "create" => r.table = HighAt(recs, n) + 1
                 /\ r.op = "drop" => r.table \in LiveAt(recs, n)
                 /\ r.op = "append" =>
                        r.table \in LiveAt(recs, n) /\ r.at > LastAt(recs, n, r.table)
  OBVIOUS
<1> HIDE DEF target
<1>2. CASE r.op = "create"
  BY <1>1, <1>2 DEF Valid
<1>3. CASE r.op = "drop"
  BY <1>1, <1>3 DEF Valid
<1>4. CASE r.op = "append"
  BY <1>1, <1>4 DEF Valid
<1> QED
  BY <1>2, <1>3, <1>4

(* What a legal log says of one record. *)
LEMMA LegalMeans ==
    ASSUME NEW recs \in Seq(Rec), Legal(recs), NEW i \in 1 .. Len(recs)
    PROVE  /\ recs[i].table \in 1 .. HighAt(recs, i)
           /\ recs[i].op = "create" => recs[i].table = HighAt(recs, i - 1) + 1
           /\ recs[i].op = "drop" => recs[i].table \in LiveAt(recs, i - 1)
           /\ recs[i].op = "append" =>
                  /\ recs[i].table \in LiveAt(recs, i - 1)
                  /\ recs[i].at > LastAt(recs, i - 1, recs[i].table)
<1>1. Valid(TailAt(recs, 0, i - 1), recs[i]) /\ recs[i].table \in 1 .. HighAt(recs, i)
  BY DEF Legal
<1>2. recs[i].op \in {"create", "drop", "append"}
  BY RecTypes
<1> QED
  BY <1>1, <1>2, ValidIs

(* Records name tables that have been created. *)
LEMMA TablesNumbered ==
    ASSUME NEW recs \in Seq(Rec), Legal(recs), NEW n \in 0 .. Len(recs)
    PROVE  \A i \in 1 .. n : recs[i].table \in 1 .. HighAt(recs, n)
<1> TAKE i \in 1 .. n
<1>1. /\ i \in 1 .. Len(recs) /\ i \in Nat /\ i \in 0 .. n /\ n \in Nat
  OBVIOUS
<1>2. recs[i].table \in 1 .. HighAt(recs, i)
  BY <1>1, LegalMeans
<1>3. HighAt(recs, i) <= HighAt(recs, n) /\ HighAt(recs, n) \in Nat /\ HighAt(recs, i) \in Nat
  BY <1>1, HighGrows
<1> QED
  BY <1>2, <1>3

(* An append is a row of its table. *)
LEMMA RowIsKept ==
    ASSUME NEW recs, NEW n, NEW from, NEW i \in from + 1 .. n, recs[i].op = "append"
    PROVE  /\ RowOf(recs[i]) \in Rows(recs, from, n)
           /\ RowOf(recs[i]) \in RowsOf(recs, from, n, recs[i].table)
           /\ RowOf(recs[i]).at = recs[i].at /\ RowOf(recs[i]).table = recs[i].table
BY DEF Rows, RowsOf, RowOf

(* Rows of a table are accepted in the order of their times. *)
LEMMA TimesIncrease ==
    ASSUME NEW recs \in Seq(Rec), Legal(recs),
           NEW i \in 1 .. Len(recs), NEW j \in 1 .. Len(recs), i < j,
           recs[i].op = "append", recs[j].op = "append", recs[i].table = recs[j].table
    PROVE  recs[i].at < recs[j].at
<1>1. j - 1 \in 0 .. Len(recs) /\ i \in 1 .. j - 1
  OBVIOUS
<1>2. recs[i].at \in Nat /\ recs[j].at \in Nat
  BY RecTypes
<1>3. i \in 0 + 1 .. j - 1
  BY <1>1
<1>4. RowOf(recs[i]) \in RowsOf(recs, 0, j - 1, recs[j].table) /\ RowOf(recs[i]).at = recs[i].at
  BY <1>3, RowIsKept
<1>5. recs[i].at <= LastAt(recs, j - 1, recs[j].table) /\ LastAt(recs, j - 1, recs[j].table) \in Nat
  BY <1>1, <1>4, LastIs
<1>6. recs[j].at > LastAt(recs, j - 1, recs[j].table)
  BY LegalMeans
<1> QED
  BY <1>2, <1>5, <1>6

(* A checkpoint parts the rows in two: no row is on both sides. *)
LEMMA RowsSplit ==
    ASSUME NEW recs \in Seq(Rec), Legal(recs), NEW n \in 0 .. Len(recs), NEW m \in 0 .. n
    PROVE  /\ Rows(recs, 0, n) = Rows(recs, 0, m) \cup Rows(recs, m, n)
           /\ Rows(recs, 0, m) \cap Rows(recs, m, n) = {}
<1>1. 0 + 1 .. n = (0 + 1 .. m) \cup (m + 1 .. n)
  OBVIOUS
<1>2. Rows(recs, 0, n) = Rows(recs, 0, m) \cup Rows(recs, m, n)
  BY <1>1 DEF Rows
<1>3. ASSUME NEW r \in Rows(recs, 0, m), r \in Rows(recs, m, n)
      PROVE  FALSE
  <2>1. PICK i \in 0 + 1 .. m : recs[i].op = "append" /\ r = RowOf(recs[i])
    BY <1>3 DEF Rows
  <2>2. PICK j \in m + 1 .. n : recs[j].op = "append" /\ r = RowOf(recs[j])
    BY <1>3 DEF Rows
  <2>3. /\ i \in 1 .. Len(recs) /\ j \in 1 .. Len(recs) /\ i < j
    OBVIOUS
  <2>4. recs[i].table = recs[j].table /\ recs[i].at = recs[j].at
    BY <2>1, <2>2 DEF RowOf
  <2>5. recs[i].at < recs[j].at /\ recs[i].at \in Nat
    BY <2>1, <2>2, <2>3, <2>4, TimesIncrease, RecTypes
  <2> QED
    BY <2>4, <2>5
<1> QED
  BY <1>2, <1>3

(* A live table with rows was live when they were accepted. *)
LEMMA LiveBefore ==
    ASSUME NEW recs \in Seq(Rec), Legal(recs), NEW n \in 0 .. Len(recs), NEW m \in 0 .. n
    PROVE  \A t \in LiveAt(recs, n) : RowsOf(recs, 0, m, t) # {} => t \in LiveAt(recs, m)
<1> SUFFICES ASSUME NEW t \in LiveAt(recs, n), NEW r \in RowsOf(recs, 0, m, t)
             PROVE  t \in LiveAt(recs, m)
  OBVIOUS
<1>1. PICK i \in 1 .. m : recs[i].op = "append" /\ recs[i].table = t
  BY DEF RowsOf, Rows, RowOf
<1>2. i \in 1 .. Len(recs)
  OBVIOUS
<1>3. t \in LiveAt(recs, i - 1)
  BY <1>1, <1>2, LegalMeans
<1>4. PICK k \in 1 .. i - 1 : recs[k].op = "create" /\ recs[k].table = t
  BY <1>3 DEF LiveAt, TablesOf, Creations
<1>5. k \in 1 .. m /\ \A j \in 1 .. m : j \in 1 .. n
  OBVIOUS
<1> QED
  BY <1>4, <1>5 DEF LiveAt, TablesOf, Creations, Drops

(* The step of a replay. *)
LEMMA OneStep ==
    ASSUME NEW recs \in Seq(Rec), Legal(recs), NEW n \in Nat, n < Len(recs),
           NEW from \in 0 .. n
    PROVE  Apply(TailAt(recs, from, n), recs[n + 1]) = TailAt(recs, from, n + 1)
<1> DEFINE r == recs[n + 1]
           before == TailAt(recs, from, n)
           after == TailAt(recs, from, n + 1)
<1>1. n + 1 \in 1 .. Len(recs) /\ r \in Rec /\ n \in 0 .. Len(recs) /\ n + 1 - 1 = n
      /\ n + 1 \in 0 .. Len(recs)
  OBVIOUS
<1>2. r.op \in {"create", "drop", "append"}
  BY <1>1, RecTypes
<1>3. HighAt(recs, n + 1) = HighAt(recs, n) + IF r.op = "create" THEN 1 ELSE 0
  BY HighGrows
<1>4. 0 \in 0 .. n
  OBVIOUS
<1>5. /\ Creations(recs, n + 1) = Creations(recs, n) \cup {i \in {n + 1} : recs[i].op = "create"}
      /\ Drops(recs, n + 1) = Drops(recs, n) \cup {i \in {n + 1} : recs[i].op = "drop"}
      /\ \A k \in {0, from} :
             Rows(recs, k, n + 1) = Rows(recs, k, n)
                                    \cup {RowOf(q) : q \in {p \in {r} : p.op = "append"}}
  BY <1>4, OneMore
<1>6. \A i \in 1 .. n : recs[i].table \in 1 .. HighAt(recs, n)
  BY <1>1, TablesNumbered
<1>7. /\ r.op = "create" => r.table = HighAt(recs, n) + 1
      /\ r.op = "drop" => r.table \in LiveAt(recs, n)
      /\ r.op = "append" => r.table \in LiveAt(recs, n) /\ r.at > LastAt(recs, n, r.table)
  BY <1>1, LegalMeans
<1>8. HighAt(recs, n) \in Nat
  BY HighGrows
<1>9. \A i \in Creations(recs, n) \cup Drops(recs, n) : i \in 1 .. n
  BY DEF Creations, Drops
<1> HIDE DEF r
<1>10. CASE r.op = "create"
  <2>1. r.table = HighAt(recs, n) + 1 /\ \A i \in 1 .. n : recs[i].table # r.table
    BY <1>6, <1>7, <1>8, <1>10
  <2>2. Creations(recs, n + 1) = Creations(recs, n) \cup {n + 1}
        /\ Drops(recs, n + 1) = Drops(recs, n)
    BY <1>5, <1>10 DEF r
  <2>3. LiveAt(recs, n + 1) = LiveAt(recs, n) \cup {r.table}
    BY <1>9, <2>1, <2>2 DEF LiveAt, TablesOf, r
  <2>4. \A k \in {0, from} : Rows(recs, k, n + 1) = Rows(recs, k, n)
    BY <1>5, <1>10
  <2>5. \A k \in {0, from} : RowsOf(recs, k, n, r.table) = {}
    <3> SUFFICES ASSUME NEW k \in {0, from}, NEW q \in RowsOf(recs, k, n, r.table)
                 PROVE  FALSE
      OBVIOUS
    <3>1. PICK i \in k + 1 .. n : recs[i].table = r.table
      BY DEF RowsOf, Rows, RowOf
    <3>2. i \in 1 .. n
      OBVIOUS
    <3> QED
      BY <2>1, <3>1, <3>2
  <2>6. LastAt(recs, n + 1, r.table) = 0
    <3>1. Times(RowsOf(recs, 0, n + 1, r.table)) \cup {0} = {0}
      BY <2>4, <2>5 DEF Times, RowsOf
    <3>2. Max({0}) = 0
      <4>1. {0} \subseteq Nat /\ 0 \in {0} /\ \A x \in {0} : x <= 0
        OBVIOUS
      <4> QED
        BY <4>1, MaxIs
    <3> QED
      BY <3>1, <3>2 DEF LastAt
  <2>7. \A t : /\ RowsOf(recs, from, n + 1, t) = RowsOf(recs, from, n, t)
               /\ LastAt(recs, n + 1, t) = LastAt(recs, n, t)
    BY <2>4 DEF RowsOf, LastAt
  <2>8. r.table \notin LiveAt(recs, n)
    BY <1>9, <2>1 DEF LiveAt, TablesOf
  <2>9. after.tables = With(before.tables, r.table, [last |-> 0, rows |-> {}])
    BY <2>3, <2>5, <2>6, <2>7, <2>8 DEF TailAt, With
  <2>10. after.high = r.table
    BY <1>3, <1>10, <2>1 DEF TailAt
  <2>11. after = [tables |-> after.tables, high |-> after.high]
    BY DEF TailAt
  <2> HIDE DEF before, after
  <2>12. Apply(before, r) = after
    BY <1>10, <2>9, <2>10, <2>11 DEF Apply
  <2> QED
    BY <2>12 DEF before, after, r
<1>11. CASE r.op = "drop"
  <2>1. Creations(recs, n + 1) = Creations(recs, n)
        /\ Drops(recs, n + 1) = Drops(recs, n) \cup {n + 1}
    BY <1>5, <1>11 DEF r
  <2>2. LiveAt(recs, n + 1) = LiveAt(recs, n) \ {r.table}
    BY <2>1 DEF LiveAt, TablesOf, r
  <2>3. \A k \in {0, from} : Rows(recs, k, n + 1) = Rows(recs, k, n)
    BY <1>5, <1>11
  <2>4. \A t : /\ RowsOf(recs, from, n + 1, t) = RowsOf(recs, from, n, t)
               /\ LastAt(recs, n + 1, t) = LastAt(recs, n, t)
    BY <2>3 DEF RowsOf, LastAt
  <2>5. after.tables = Without(before.tables, {r.table})
    BY <2>2, <2>4 DEF TailAt, Without, Restrict
  <2>6. after.high = before.high
    BY <1>3, <1>8, <1>11 DEF TailAt
  <2>7. /\ after = [tables |-> after.tables, high |-> after.high]
        /\ before = [tables |-> before.tables, high |-> before.high]
    BY DEF TailAt
  <2> HIDE DEF before, after
  <2>8. Apply(before, r) = [before EXCEPT !.tables = Without(before.tables, {r.table})]
    BY <1>11 DEF Apply
  <2>9. Apply(before, r) = after
    BY <2>5, <2>6, <2>7, <2>8
  <2> QED
    BY <2>9 DEF before, after, r
<1>12. CASE r.op = "append"
  <2>1. Creations(recs, n + 1) = Creations(recs, n)
        /\ Drops(recs, n + 1) = Drops(recs, n)
    BY <1>5, <1>12 DEF r
  <2>2. LiveAt(recs, n + 1) = LiveAt(recs, n)
    BY <2>1 DEF LiveAt
  <2>3. \A k \in {0, from} : Rows(recs, k, n + 1) = Rows(recs, k, n) \cup {RowOf(r)}
    BY <1>5, <1>12
  <2>4. RowOf(r).table = r.table /\ RowOf(r).at = r.at
    BY DEF RowOf
  <2>5. \A k \in {0, from} :
            /\ RowsOf(recs, k, n + 1, r.table) = RowsOf(recs, k, n, r.table) \cup {RowOf(r)}
            /\ \A t : t # r.table => RowsOf(recs, k, n + 1, t) = RowsOf(recs, k, n, t)
    BY <2>3, <2>4 DEF RowsOf
  <2>6. \A t : t # r.table => LastAt(recs, n + 1, t) = LastAt(recs, n, t)
    BY <2>5 DEF LastAt
  <2>7. LastAt(recs, n + 1, r.table) = r.at
    <3> DEFINE S == Times(RowsOf(recs, 0, n + 1, r.table)) \cup {0}
    <3>1. S = Times(RowsOf(recs, 0, n, r.table)) \cup {r.at, 0}
      BY <2>4, <2>5 DEF Times
    <3>2. /\ \A q \in RowsOf(recs, 0, n, r.table) : q.at <= LastAt(recs, n, r.table)
          /\ LastAt(recs, n, r.table) \in Nat /\ r.at > LastAt(recs, n, r.table)
      BY <1>1, <1>7, <1>12, LastIs
    <3>3. r.at \in Nat
      BY <1>1, RecTypes DEF r
    <3>4. \A q \in RowsOf(recs, 0, n, r.table) : q.at \in Nat
      BY <1>1, RowsFinite DEF RowsOf
    <3>5. S \subseteq Nat /\ r.at \in S /\ \A x \in S : x <= r.at
      <4>1. \A q \in RowsOf(recs, 0, n, r.table) : q.at \in Nat /\ q.at <= r.at
        BY <3>2, <3>3, <3>4
      <4>2. r.at >= 0
        BY <3>3
      <4>3. ASSUME NEW x \in S
            PROVE  x \in Nat /\ x <= r.at
        <5>1. x = r.at \/ x = 0 \/ \E q \in RowsOf(recs, 0, n, r.table) : x = q.at
          BY <3>1, <4>3 DEF Times
        <5> QED
          BY <3>3, <4>1, <4>2, <5>1
      <4>4. r.at \in S
        BY <3>1
      <4> QED
        BY <4>3, <4>4
    <3>6. Max(S) = r.at
      <4> HIDE DEF S
      <4> QED
        BY <3>5, MaxIs
    <3> QED
      BY <3>6 DEF LastAt
  <2>8. r.table \in LiveAt(recs, n)
    BY <1>7, <1>12
  <2>9. /\ DOMAIN before.tables = LiveAt(recs, n) /\ DOMAIN after.tables = LiveAt(recs, n)
        /\ after.tables[r.table] =
               [last |-> r.at, rows |-> before.tables[r.table].rows \cup {RowOf(r)}]
        /\ \A t \in LiveAt(recs, n) : t # r.table => after.tables[t] = before.tables[t]
        /\ after.tables = [t \in LiveAt(recs, n) |-> after.tables[t]]
        /\ before.tables = [t \in LiveAt(recs, n) |-> before.tables[t]]
    BY <2>2, <2>5, <2>6, <2>7, <2>8 DEF TailAt
  <2>10. after.high = before.high
    BY <1>3, <1>8, <1>12 DEF TailAt
  <2>11. /\ after = [tables |-> after.tables, high |-> after.high]
         /\ before = [tables |-> before.tables, high |-> before.high]
    BY DEF TailAt
  <2> HIDE DEF before, after
  <2>12. Apply(before, r) =
            [before EXCEPT !.tables[r.table] =
                [last |-> r.at, rows |-> @.rows \cup {RowOf(r)}]]
    BY <1>12 DEF Apply
  <2>13. [before.tables EXCEPT ![r.table] =
             [last |-> r.at, rows |-> @.rows \cup {RowOf(r)}]] = after.tables
    BY <2>8, <2>9
  <2>14. Apply(before, r) = after
    BY <2>10, <2>11, <2>12, <2>13
  <2> QED
    BY <2>14 DEF before, after, r
<1> QED
  BY <1>2, <1>10, <1>11, <1>12

-----------------------------------------------------------------------------
(***************************************************************************)
(* Longer logs, shorter logs, and the replay of a log.                     *)
(***************************************************************************)
(* A valid record keeps a log legal, and brings no dropped table back. *)
LEMMA AppendLegal ==
    ASSUME NEW recs \in Seq(Rec), Legal(recs), NEW r \in Rec, NEW from,
           Valid(TailAt(recs, from, Len(recs)), r)
    PROVE  /\ Legal(Append(recs, r))
           /\ \A t : RowsOf(recs, 0, Len(recs), t) # {}
                     /\ t \in LiveAt(Append(recs, r), Len(recs) + 1) => t \in LiveAt(recs, Len(recs))
<1> DEFINE n == Len(recs)
           more == Append(recs, r)
<1>1. /\ n \in Nat /\ more \in Seq(Rec) /\ Len(more) = n + 1 /\ more[n + 1] = r
      /\ \A i \in 1 .. n : more[i] = recs[i]
  OBVIOUS
<1> HIDE DEF n, more
<1>2. ASSUME NEW i \in 1 .. n
      PROVE  Valid(TailAt(more, 0, i - 1), more[i]) /\ more[i].table \in 1 .. HighAt(more, i)
  <2>1. i \in 0 .. n /\ i - 1 \in 0 .. n /\ 0 \in Nat
    BY <1>1
  <2>2. TailAt(more, 0, i - 1) = TailAt(recs, 0, i - 1) /\ HighAt(more, i) = HighAt(recs, i)
    BY <1>1, <2>1, Agreeing
  <2>3. Valid(TailAt(recs, 0, i - 1), recs[i]) /\ recs[i].table \in 1 .. HighAt(recs, i)
    BY DEF Legal, n
  <2> QED
    BY <1>1, <2>2, <2>3
<1>3. /\ r.op = "create" => r.table = HighAt(recs, n) + 1
      /\ r.op = "drop" => r.table \in LiveAt(recs, n)
      /\ r.op = "append" => r.table \in LiveAt(recs, n) /\ r.at > LastAt(recs, n, r.table)
  <2>1. r.op \in {"create", "drop", "append"} /\ Valid(TailAt(recs, from, n), r)
    BY RecTypes DEF n
  <2> QED
    BY <2>1, ValidIs
<1>4. /\ HighAt(more, n) = HighAt(recs, n) /\ LiveAt(more, n) = LiveAt(recs, n)
      /\ \A t : LastAt(more, n, t) = LastAt(recs, n, t)
  <2>1. n \in 0 .. n /\ 0 \in Nat
    BY <1>1
  <2> QED
    BY <1>1, <2>1, Agreeing
<1>5. Valid(TailAt(more, 0, n), more[n + 1])
  <2>1. r.op \in {"create", "drop", "append"}
    BY RecTypes
  <2>2. Valid(TailAt(more, 0, n), r)
    BY <1>3, <1>4, <2>1, ValidIs
  <2> QED
    BY <1>1, <2>2
<1>6. r.table \in 1 .. HighAt(more, n + 1)
  <2>1. HighAt(more, n + 1) = HighAt(more, n) + IF r.op = "create" THEN 1 ELSE 0
    BY <1>1, HighGrows
  <2>2. HighAt(recs, n) \in Nat
    BY <1>1, HighGrows
  <2>3. CASE r.op = "create"
    BY <1>3, <1>4, <2>1, <2>2, <2>3
  <2>4. CASE r.op # "create"
    <3>1. r.table \in LiveAt(recs, n)
      BY <1>3, <2>4, RecTypes
    <3>2. PICK k \in 1 .. n : recs[k].table = r.table
      BY <3>1 DEF LiveAt, TablesOf, Creations
    <3>3. n \in 0 .. Len(recs)
      BY <1>1 DEF n
    <3>4. r.table \in 1 .. HighAt(recs, n)
      BY <3>2, <3>3, TablesNumbered
    <3> QED
      BY <1>4, <2>1, <2>2, <2>4, <3>4
  <2> QED
    BY <2>3, <2>4
<1>7. Legal(more)
  <2> SUFFICES ASSUME NEW i \in 1 .. n + 1
               PROVE  /\ Valid(TailAt(more, 0, i - 1), more[i])
                      /\ more[i].table \in 1 .. HighAt(more, i)
    BY <1>1 DEF Legal
  <2>1. CASE i = n + 1
    <3>1. i - 1 = n
      BY <1>1, <2>1
    <3> QED
      BY <1>1, <1>5, <1>6, <2>1, <3>1
  <2>2. CASE i # n + 1
    <3>1. i \in 1 .. n
      BY <1>1, <2>2
    <3> QED
      BY <1>2, <3>1
  <2> QED
    BY <2>1, <2>2
<1>8. ASSUME NEW t, RowsOf(recs, 0, n, t) # {}, t \in LiveAt(more, n + 1)
      PROVE  t \in LiveAt(recs, n)
  <2>1. RowsOf(more, 0, n, t) # {}
    <3>1. n \in 0 .. n /\ 0 \in Nat
      BY <1>1
    <3>2. Rows(recs, 0, n) = Rows(more, 0, n)
      BY <1>1, <3>1, Agreeing
    <3> QED
      BY <1>8, <3>2 DEF RowsOf
  <2>2. n + 1 \in 0 .. Len(more) /\ n \in 0 .. n + 1
    BY <1>1
  <2> QED
    BY <1>1, <1>4, <1>7, <1>8, <2>1, <2>2, LiveBefore
<1> QED
  BY <1>7, <1>8 DEF n, more

(* The same said of a whole prefix at once. *)
Agrees(recs, other, n) == \A i \in 1 .. n : recs[i] = other[i]

LEMMA AgreeingPrefix ==
    ASSUME NEW recs, NEW other, NEW n \in Nat, Agrees(recs, other, n), NEW m \in 0 .. n
    PROVE  TailAt(recs, 0, m) = TailAt(other, 0, m) /\ HighAt(recs, m) = HighAt(other, m)
<1>1. 0 \in Nat /\ \A i \in 1 .. n : recs[i] = other[i]
  BY DEF Agrees
<1> QED
  BY <1>1, Agreeing

(* A log that has lost its end is legal. *)
LEMMA CutLegal ==
    ASSUME NEW recs \in Seq(Rec), Legal(recs), NEW cut \in 0 .. Len(recs), NEW less \in Seq(Rec),
           Len(less) = cut, \A i \in 1 .. cut : less[i] = recs[i]
    PROVE  Legal(less)
<1> SUFFICES ASSUME NEW i \in 1 .. cut
             PROVE  /\ Valid(TailAt(less, 0, i - 1), less[i])
                    /\ less[i].table \in 1 .. HighAt(less, i)
  BY DEF Legal
<1>1. i \in 0 .. cut /\ i - 1 \in 0 .. cut /\ 0 \in Nat /\ i \in 1 .. Len(recs) /\ cut \in Nat
  OBVIOUS
<1>2. TailAt(less, 0, i - 1) = TailAt(recs, 0, i - 1) /\ HighAt(less, i) = HighAt(recs, i)
  <2>1. Agrees(less, recs, cut)
    BY DEF Agrees
  <2> QED
    BY <1>1, <2>1, AgreeingPrefix
<1>3. Valid(TailAt(recs, 0, i - 1), recs[i]) /\ recs[i].table \in 1 .. HighAt(recs, i)
  BY <1>1 DEF Legal
<1> QED
  BY <1>2, <1>3

(* A run of records applied to the tail they follow. *)
LEMMA Applying ==
    ASSUME NEW recs \in Seq(Rec), Legal(recs), NEW n \in 0 .. Len(recs), NEW from \in 0 .. n,
           NEW s, NEW k \in Nat, DOMAIN s = 1 .. k, n + k <= Len(recs),
           \A i \in 1 .. k : s[i] = recs[n + i]
    PROVE  ApplyAll(TailAt(recs, from, n), s) = TailAt(recs, from, n + k)
<1> DEFINE f == [i \in 0 .. k |-> TailAt(recs, from, n + i)]
<1>1. f[0] = TailAt(recs, from, n) /\ f[k] = TailAt(recs, from, n + k)
  <2>1. n + 0 = n /\ 0 \in 0 .. k /\ k \in 0 .. k
    OBVIOUS
  <2> QED
    BY <2>1
<1>2. ASSUME NEW i \in 1 .. k
      PROVE  f[i] = Apply(f[i - 1], s[i])
  <2>1. /\ n + (i - 1) \in Nat /\ n + (i - 1) < Len(recs) /\ from \in 0 .. n + (i - 1)
        /\ n + (i - 1) + 1 = n + i /\ i - 1 \in 0 .. k /\ i \in 0 .. k
    OBVIOUS
  <2>2. Apply(TailAt(recs, from, n + (i - 1)), recs[n + (i - 1) + 1]) = TailAt(recs, from, n + (i - 1) + 1)
    BY <2>1, OneStep
  <2> QED
    BY <2>1, <2>2
<1> HIDE DEF f
<1>3. Applies!Run(f, f[0], s, k)
  BY <1>2 DEF Applies!Run
<1>4. ApplyAll(f[0], s) = f[k]
  BY <1>3, ApplySteps
<1> QED
  BY <1>1, <1>4

(* What an open rebuilds behind a checkpoint, from the catalog and the log. *)
LEMMA Replaying ==
    ASSUME NEW recs \in Seq(Rec), Legal(recs), NEW c, c.checkpoint \in 0 .. Len(recs),
           c.tableHigh = HighAt(recs, c.checkpoint),
           c.clocks = [t \in LiveAt(recs, c.checkpoint) |-> LastAt(recs, c.checkpoint, t)]
    PROVE  /\ ReplayTarget(c) = TailAt(recs, c.checkpoint, c.checkpoint)
           /\ Replay(c, recs) = TailAt(recs, c.checkpoint, Len(recs))
<1> DEFINE m == c.checkpoint
           s == SubSeq(recs, m + 1, Len(recs))
<1>1. ReplayTarget(c) = TailAt(recs, m, m)
  <2>1. \A t : RowsOf(recs, m, m, t) = {}
    <3>1. m + 1 .. m = {}
      OBVIOUS
    <3> QED
      BY <3>1 DEF RowsOf, Rows
  <2> QED
    BY <2>1 DEF ReplayTarget, TailAt
<1>2. /\ DOMAIN s = 1 .. Len(recs) - m
      /\ \A i \in 1 .. Len(recs) - m : s[i] = recs[m + i]
  OBVIOUS
<1>3. /\ Len(recs) - m \in Nat /\ m \in 0 .. Len(recs) /\ m \in 0 .. m
      /\ m + (Len(recs) - m) = Len(recs)
  OBVIOUS
<1> HIDE DEF s
<1>4. ApplyAll(TailAt(recs, m, m), s) = TailAt(recs, m, m + (Len(recs) - m))
  <2> DEFINE k == Len(recs) - m
  <2>1. k \in Nat /\ DOMAIN s = 1 .. k /\ m + k <= Len(recs)
        /\ \A i \in 1 .. k : s[i] = recs[m + i]
    BY <1>2, <1>3
  <2> HIDE DEF k
  <2>2. ApplyAll(TailAt(recs, m, m), s) = TailAt(recs, m, m + k)
    <3> DEFINE p == m
    <3>1. p \in 0 .. Len(recs) /\ p \in 0 .. p
      BY <1>3
    <3>2. /\ DOMAIN s = 1 .. k /\ p + k <= Len(recs)
          /\ \A i \in 1 .. k : s[i] = recs[p + i]
      BY <2>1
    <3> HIDE DEF p
    <3>3. ApplyAll(TailAt(recs, p, p), s) = TailAt(recs, p, p + k)
      BY <2>1, <3>1, <3>2, Applying
    <3> QED
      BY <3>3 DEF p
  <2> QED
    BY <2>2 DEF k
<1> QED
  BY <1>1, <1>3, <1>4 DEF Replay, s, ApplyAll

-----------------------------------------------------------------------------
(***************************************************************************)
(* The invariant: what each catalog and the engine mean.                   *)
(***************************************************************************)
(* The rows in the units a catalog lists. *)
Listed(c) == UNION {u.rows : u \in c.units}

(* What a catalog and its heads say of the log: the clocks and the number of *)
(* tables at its checkpoint, rows of the log in one unit each, rows that   *)
(* are in none below the floor, and heads among those.                     *)
CatalogFacts(c, hd, recs) ==
    /\ c.tableHigh = HighAt(recs, c.checkpoint)
    /\ c.clocks = [t \in LiveAt(recs, c.checkpoint) |-> LastAt(recs, c.checkpoint, t)]
    /\ c.floor \in Nat /\ IsFiniteSet(c.units)
    /\ \A u \in c.units : u.rows # {} /\ u.rows \subseteq Rows(recs, 0, c.checkpoint)
    /\ \A u, v \in c.units : u = v \/ u.rows \cap v.rows = {}
    /\ \A t \in LiveAt(recs, c.checkpoint) :
           \A r \in RowsOf(recs, 0, c.checkpoint, t) \ Listed(c) : r.at < c.floor
    /\ \A t \in DOMAIN hd : hd[t] \in RowsOf(recs, 0, c.checkpoint, t) \ Listed(c)

(* Of a table that is live now, the head is the latest row that expired.   *)
(* Tables that are back are excepted: a crash has taken back their drop,   *)
(* and a retention before it has forgotten their heads.                    *)
HeadsCover(c, hd, recs, back) ==
    \A t \in LiveAt(recs, Len(recs)) \ back :
        \A r \in RowsOf(recs, 0, c.checkpoint, t) \ Listed(c) :
            t \in DOMAIN hd /\ r.at <= hd[t].at

(* The heads a catalog means, and all that a catalog must mean. *)
HeadsIn(c, hf) == IF c.headsGeneration = 0 THEN NoHeads ELSE hf[c.headsGeneration]
Meant(c, hd, recs, back) == CatalogFacts(c, hd, recs) /\ HeadsCover(c, hd, recs, back)

(* The log is legal. *)
LogFacts == Legal(records)

(* Each of the four catalogs means the log, and may be loaded. *)
CatalogsMeant ==
    /\ Meant(manifest, HeadsIn(manifest, headFiles), records, revived)
    /\ Meant(settled, HeadsIn(settled, headFiles), records, revived)
    /\ Meant(catalog, HeadsIn(catalog, headFiles), records, revived)
    /\ Publishing => Meant(job.next, HeadsIn(job.next, headFiles), records, revived)

(* Of the records in the log, those the tail does not yet hold. *)
Appended == IF pc = "batch" THEN Len(job.all) - Len(job.left) ELSE 0
Applied == Len(records) - Appended

(* The engine's tail is what a replay of the log behind the checkpoint gives. *)
EngineFacts ==
    status = "open" =>
        /\ heads = HeadsIn(catalog, headFiles)
        /\ ~poison => tail = TailAt(records, catalog.checkpoint, Applied)

(* So is the tail that a publication is about to install. *)
JobFacts ==
    Publishing /\ job.kind # "takeover" =>
        /\ job.heads = HeadsIn(job.next, headFiles)
        /\ job.tail = TailAt(records, job.next.checkpoint, Len(records))

(* A batch is between two records: the ones before are in the log, the ones *)
(* to come are valid behind it.                                            *)
BatchFacts ==
    pc = "batch" =>
        /\ job.all \in Seq(Rec) /\ Len(job.left) <= Len(job.all) /\ Applied >= catalog.checkpoint
        /\ \A i \in 1 .. Len(job.left) : job.left[i] = job.all[Appended + i]
        /\ \A i \in 1 .. Appended : records[Applied + i] = job.all[i]
        /\ \A i \in 1 .. Len(job.left) :
               /\ job.left[i].op = "append"
               /\ job.left[i].table \in LiveAt(records, Len(records))
               /\ job.left[i].at > LastAt(records, Len(records), job.left[i].table)
               /\ \A j \in 1 .. Len(job.left) : i < j => job.left[i].at < job.left[j].at

(* The invariant. *)
FInv == LogFacts /\ CatalogsMeant /\ EngineFacts /\ JobFacts /\ BatchFacts

(* A catalog says nothing of the records behind its checkpoint ... *)
LEMMA FactsAgree ==
    ASSUME NEW c, NEW hd, NEW recs, NEW other, c.checkpoint \in Nat,
           \A i \in 1 .. c.checkpoint : recs[i] = other[i],
           CatalogFacts(c, hd, recs)
    PROVE  /\ CatalogFacts(c, hd, other)
           /\ \A t : RowsOf(recs, 0, c.checkpoint, t) = RowsOf(other, 0, c.checkpoint, t)
<1> DEFINE m == c.checkpoint
<1>1. m \in Nat /\ m \in 0 .. m /\ 0 \in Nat /\ \A i \in 1 .. m : recs[i] = other[i]
  OBVIOUS
<1>2. /\ Rows(recs, 0, m) = Rows(other, 0, m)
      /\ HighAt(recs, m) = HighAt(other, m)
      /\ LiveAt(recs, m) = LiveAt(other, m)
      /\ \A t : LastAt(recs, m, t) = LastAt(other, m, t)
  <2> HIDE DEF m
  <2> QED
    BY <1>1, Agreeing
<1>3. \A t : RowsOf(recs, 0, m, t) = RowsOf(other, 0, m, t)
  BY <1>2 DEF RowsOf
<1> QED
  BY <1>2, <1>3 DEF CatalogFacts

(* ... so it means every log with the same beginning and no more live tables *)
(* but those that are back.                                                *)
LEMMA MeantAgree ==
    ASSUME NEW c, NEW hd, NEW recs, NEW other, NEW back, NEW more, c.checkpoint \in Nat,
           \A i \in 1 .. c.checkpoint : recs[i] = other[i],
           Meant(c, hd, recs, back),
           \A t \in LiveAt(other, Len(other)) \ more :
               RowsOf(recs, 0, c.checkpoint, t) # {} => t \in LiveAt(recs, Len(recs)) \ back
    PROVE  Meant(c, hd, other, more)
<1>1. CatalogFacts(c, hd, other)
  BY FactsAgree DEF Meant
<1>2. CatalogFacts(c, hd, recs)
  BY DEF Meant
<1>3. ASSUME CatalogFacts(c, hd, other)
      PROVE  \A t : RowsOf(recs, 0, c.checkpoint, t) = RowsOf(other, 0, c.checkpoint, t)
  BY <1>2, <1>3, FactsAgree
<1>4. HeadsCover(c, hd, other, more)
  BY <1>1, <1>3 DEF Meant, HeadsCover
<1> QED
  BY <1>1, <1>4 DEF Meant

(* A record more does not change what a catalog means ... *)
LEMMA RecordAdded ==
    ASSUME NEW c, NEW hd, NEW recs \in Seq(Rec), Legal(recs), NEW r \in Rec, NEW from, NEW back,
           Valid(TailAt(recs, from, Len(recs)), r),
           c.checkpoint \in 0 .. Len(recs), Meant(c, hd, recs, back)
    PROVE  Meant(c, hd, Append(recs, r), back)
<1> DEFINE m == c.checkpoint
<1> SUFFICES ASSUME NEW more, \A i \in 1 .. m : recs[i] = more[i], Len(more) = Len(recs) + 1,
                    \A t : RowsOf(recs, 0, Len(recs), t) # {}
                               /\ t \in LiveAt(more, Len(more)) => t \in LiveAt(recs, Len(recs))
             PROVE  Meant(c, hd, more, back)
  <2>1. Len(Append(recs, r)) = Len(recs) + 1
    OBVIOUS
  <2>2. \A i \in 1 .. m : recs[i] = Append(recs, r)[i]
    OBVIOUS
  <2> HIDE DEF m
  <2> QED
    BY <2>1, <2>2, AppendLegal
<1>3. \A t \in LiveAt(more, Len(more)) \ back :
          RowsOf(recs, 0, m, t) # {} => t \in LiveAt(recs, Len(recs)) \ back
  <2> TAKE t \in LiveAt(more, Len(more)) \ back
  <2>1. Rows(recs, 0, m) \subseteq Rows(recs, 0, Len(recs))
    <3>1. \A i \in 0 + 1 .. m : i \in 0 + 1 .. Len(recs)
      OBVIOUS
    <3> QED
      BY <3>1 DEF Rows
  <2>2. RowsOf(recs, 0, m, t) # {} => RowsOf(recs, 0, Len(recs), t) # {}
    BY <2>1 DEF RowsOf
  <2> QED
    BY <2>2
<1> QED
  BY <1>3, MeantAgree

(* ... nor do records fewer, behind the checkpoint, when the tables whose  *)
(* drops are lost are counted as back.                                     *)
LEMMA RecordsCut ==
    ASSUME NEW c, NEW hd, NEW recs \in Seq(Rec), NEW less \in Seq(Rec), NEW back, NEW more,
           Len(less) <= Len(recs), \A i \in 1 .. Len(less) : less[i] = recs[i],
           c.checkpoint \in 0 .. Len(less), Meant(c, hd, recs, back), back \subseteq more,
           \A i \in Len(less) + 1 .. Len(recs) : recs[i].op = "drop" => recs[i].table \in more
    PROVE  Meant(c, hd, less, more)
<1> DEFINE m == c.checkpoint
<1>1. m \in Nat /\ \A i \in 1 .. m : recs[i] = less[i]
  OBVIOUS
<1>2. ASSUME NEW t \in LiveAt(less, Len(less)) \ more
      PROVE  t \in LiveAt(recs, Len(recs)) \ back
  <2>1. PICK i \in 1 .. Len(less) : less[i].op = "create" /\ less[i].table = t
    BY <1>2 DEF LiveAt, TablesOf, Creations
  <2>2. i \in 1 .. Len(recs) /\ recs[i] = less[i]
    OBVIOUS
  <2>3. ASSUME NEW j \in 1 .. Len(recs), recs[j].op = "drop"
        PROVE  recs[j].table # t
    <3>1. CASE j \in 1 .. Len(less)
      BY <1>2, <2>3, <3>1 DEF LiveAt, TablesOf, Drops
    <3>2. CASE j \in Len(less) + 1 .. Len(recs)
      BY <1>2, <2>3, <3>2
    <3> QED
      BY <3>1, <3>2
  <2> QED
    BY <1>2, <2>1, <2>2, <2>3 DEF LiveAt, TablesOf, Creations, Drops
<1> QED
  BY <1>1, <1>2, MeantAgree

(* The meaning of a catalog does not depend on its generation. *)
LEMMA SameMeaning ==
    ASSUME NEW c, NEW d, NEW hd, NEW recs, NEW back, Meant(c, hd, recs, back),
           d.tableHigh = c.tableHigh, d.checkpoint = c.checkpoint, d.clocks = c.clocks,
           d.floor = c.floor, d.units = c.units
    PROVE  Meant(d, hd, recs, back)
BY DEF Meant, CatalogFacts, HeadsCover, Listed

(* The catalog of an empty directory means any log. *)
LEMMA NothingMeant ==
    ASSUME NEW recs, NEW hf, NEW back
    PROVE  Meant(InitialCatalog, HeadsIn(InitialCatalog, hf), recs, back)
<1>1. /\ InitialCatalog.checkpoint = 0 /\ InitialCatalog.tableHigh = 0
      /\ InitialCatalog.floor = 0 /\ InitialCatalog.units = {}
      /\ InitialCatalog.clocks = <<>> /\ InitialCatalog.headsGeneration = 0
  BY DEF InitialCatalog
<1>2. 0 + 1 .. 0 = {} /\ 1 .. 0 = {}
  OBVIOUS
<1>3. Creations(recs, 0) = {} /\ Rows(recs, 0, 0) = {}
  BY <1>2 DEF Creations, Rows
<1>4. HighAt(recs, 0) = 0
  BY <1>3, FS_EmptySet DEF HighAt
<1>5. LiveAt(recs, 0) = {}
  BY <1>3 DEF LiveAt, TablesOf
<1>6. <<>> = [t \in LiveAt(recs, 0) |-> LastAt(recs, 0, t)]
  BY <1>5
<1>7. HeadsIn(InitialCatalog, hf) = <<>> /\ DOMAIN <<>> = {}
  BY <1>1 DEF HeadsIn, NoHeads
<1>8. IsFiniteSet({})
  BY FS_EmptySet
<1> HIDE DEF InitialCatalog
<1> QED
  BY <1>1, <1>3, <1>4, <1>5, <1>6, <1>7, <1>8 DEF Meant, CatalogFacts, HeadsCover, Listed, RowsOf

(* Reaping spares the heads of a catalog that is kept. *)
LEMMA HeadsSpared ==
    ASSUME NEW c, NEW gone \in Reapable, KeptNow(c)
    PROVE  HeadsIn(c, HeadsWithout(gone)) = HeadsIn(c, headFiles)
BY ReapKeepsHeads DEF HeadsIn

-----------------------------------------------------------------------------
(***************************************************************************)
(* Seals, compactions and retentions of a catalog.                         *)
(***************************************************************************)
(* The catalog d seals what c left in the log. *)
Seals(c, d, recs, rows, added) ==
    LET n == Len(recs)
    IN  /\ rows = {r \in Rows(recs, c.checkpoint, n) : r.table \in LiveAt(recs, n)}
        /\ IF rows = {} THEN added = {} ELSE \E u : added = {u} /\ u.rows = rows
        /\ d.checkpoint = n /\ d.tableHigh = HighAt(recs, n)
        /\ d.clocks = [t \in LiveAt(recs, n) |-> LastAt(recs, n, t)]
        /\ d.floor = c.floor /\ d.units = c.units \cup added

(* A seal moves the tail's rows of live tables to a unit: nothing of a live *)
(* table is lost, since a table without them was not there before either.  *)
LEMMA SealMeans ==
    ASSUME NEW c, NEW hd, NEW recs \in Seq(Rec), Legal(recs), NEW back,
           c.checkpoint \in 0 .. Len(recs), Meant(c, hd, recs, back),
           NEW d, NEW rows, NEW added, Seals(c, d, recs, rows, added)
    PROVE  Meant(d, hd, recs, back)
<1> SUFFICES ASSUME NEW n, n = Len(recs), c.checkpoint \in 0 .. n,
                    rows = {r \in Rows(recs, c.checkpoint, n) : r.table \in LiveAt(recs, n)},
                    IF rows = {} THEN added = {} ELSE \E u : added = {u} /\ u.rows = rows,
                    d.checkpoint = n, d.tableHigh = HighAt(recs, n),
                    d.clocks = [t \in LiveAt(recs, n) |-> LastAt(recs, n, t)],
                    d.floor = c.floor, d.units = c.units \cup added
             PROVE  Meant(d, hd, recs, back)
  BY DEF Seals
<1> DEFINE m == c.checkpoint
<1>1. n \in 0 .. Len(recs) /\ m \in 0 .. n /\ CatalogFacts(c, hd, recs)
  BY DEF Meant
<1>2. /\ Rows(recs, 0, n) = Rows(recs, 0, m) \cup Rows(recs, m, n)
      /\ Rows(recs, 0, m) \cap Rows(recs, m, n) = {}
  <2> HIDE DEF m
  <2> QED
    BY <1>1, RowsSplit
<1>3. \A t \in LiveAt(recs, n) : RowsOf(recs, 0, m, t) # {} => t \in LiveAt(recs, m)
  <2> HIDE DEF m
  <2> QED
    BY <1>1, LiveBefore
<1>4. \A u \in added : u.rows = rows /\ u.rows # {} /\ added = {u}
  OBVIOUS
<1>5. IsFiniteSet(d.units)
  <2>1. IsFiniteSet(c.units)
    BY <1>1 DEF CatalogFacts
  <2>2. CASE added = {}
    BY <2>1, <2>2
  <2>3. CASE \E u : added = {u}
    <3>1. PICK u : added = {u}
      BY <2>3
    <3>2. IsFiniteSet(c.units \cup {u})
      BY <2>1, FS_AddElement
    <3> QED
      BY <3>1, <3>2
  <2> QED
    BY <2>2, <2>3
<1>6. Listed(d) = Listed(c) \cup rows
  <2>1. rows # {} => \E u \in added : u.rows = rows
    OBVIOUS
  <2> QED
    BY <1>4, <2>1 DEF Listed
<1>7. rows \subseteq Rows(recs, m, n)
  OBVIOUS
<1>8. Listed(c) \subseteq Rows(recs, 0, m)
  BY <1>1 DEF CatalogFacts, Listed
<1>9. \A u \in d.units : u.rows # {} /\ u.rows \subseteq Rows(recs, 0, n)
  BY <1>1, <1>2, <1>4, <1>7 DEF CatalogFacts
<1>10. \A u, v \in d.units : u = v \/ u.rows \cap v.rows = {}
  <2>1. \A u \in c.units : u.rows \subseteq Rows(recs, 0, m)
    BY <1>1 DEF CatalogFacts
  <2>2. \A u, v \in c.units : u = v \/ u.rows \cap v.rows = {}
    BY <1>1 DEF CatalogFacts
  <2>3. \A u \in c.units, v \in added : u.rows \cap v.rows = {} /\ v.rows \cap u.rows = {}
    BY <1>2, <1>4, <1>7, <2>1
  <2>4. \A u, v \in added : u = v
    BY <1>4
  <2> QED
    BY <2>2, <2>3, <2>4
<1>11. ASSUME NEW t \in LiveAt(recs, n), NEW r \in RowsOf(recs, 0, n, t) \ Listed(d)
       PROVE  /\ t \in LiveAt(recs, m)
              /\ r \in RowsOf(recs, 0, m, t) \ Listed(c)
  <2>1. r \in Rows(recs, 0, m) /\ r.table = t /\ r \notin Listed(c)
    BY <1>2, <1>6 DEF RowsOf
  <2> QED
    BY <1>3, <2>1 DEF RowsOf
<1>12. ASSUME NEW t \in DOMAIN hd
       PROVE  hd[t] \in RowsOf(recs, 0, n, t) \ Listed(d)
  BY <1>1, <1>2, <1>6, <1>7 DEF CatalogFacts, RowsOf
<1>13. CatalogFacts(d, hd, recs)
  BY <1>1, <1>5, <1>9, <1>10, <1>11, <1>12 DEF CatalogFacts
<1>14. HeadsCover(d, hd, recs, back)
  BY <1>11 DEF Meant, HeadsCover
<1> QED
  BY <1>13, <1>14 DEF Meant

(* A compaction changes which unit has a row, and no more. *)
LEMMA CompactMeans ==
    ASSUME NEW c, NEW hd, NEW recs, NEW back, Meant(c, hd, recs, back),
           NEW inputs, inputs \subseteq c.units, inputs # {},
           NEW merged, merged.rows = UNION {u.rows : u \in inputs},
           NEW d, d.checkpoint = c.checkpoint, d.tableHigh = c.tableHigh, d.clocks = c.clocks,
           d.floor = c.floor, d.units = (c.units \ inputs) \cup {merged}
    PROVE  Meant(d, hd, recs, back)
<1>1. CatalogFacts(c, hd, recs)
  BY DEF Meant
<1>2. Listed(d) = Listed(c)
  BY DEF Listed
<1>3. \A u \in d.units : u.rows # {} /\ u.rows \subseteq Rows(recs, 0, c.checkpoint)
  BY <1>1 DEF CatalogFacts
<1>4. \A u, v \in d.units : u = v \/ u.rows \cap v.rows = {}
  <2>1. \A u \in c.units \ inputs : \A v \in inputs : u.rows \cap v.rows = {}
    BY <1>1 DEF CatalogFacts
  <2>2. \A u \in c.units \ inputs : u.rows \cap merged.rows = {}
    BY <2>1
  <2> QED
    BY <1>1, <2>2 DEF CatalogFacts
<1>5. IsFiniteSet(d.units)
  <2>1. IsFiniteSet(c.units \ inputs)
    BY <1>1, FS_Difference DEF CatalogFacts
  <2>2. IsFiniteSet((c.units \ inputs) \cup {merged})
    BY <2>1, FS_AddElement
  <2> QED
    BY <2>2
<1>6. CatalogFacts(d, hd, recs)
  BY <1>1, <1>2, <1>3, <1>4, <1>5 DEF CatalogFacts
<1> QED
  BY <1>2, <1>6 DEF Meant, HeadsCover

(* The floor of a retention is above every row that expires. *)
LEMMA ExpiredBefore ==
    ASSUME NEW recs \in Seq(Rec), NEW m \in 0 .. Len(recs), NEW units, IsFiniteSet(units), units # {},
           \A u \in units : u.rows # {} /\ u.rows \subseteq Rows(recs, 0, m)
    PROVE  /\ FloorAfter(units) \in Nat
           /\ \A u \in units : \A r \in u.rows : r.at < FloorAfter(units)
<1>1. ASSUME NEW u \in units
      PROVE  MaxTs(u) \in Nat /\ \A r \in u.rows : r.at <= MaxTs(u) /\ r.at \in Nat
  <2>1. IsFiniteSet(Times(u.rows)) /\ Times(u.rows) \subseteq Nat
    BY RowsFinite
  <2>2. Times(u.rows) # {}
    BY DEF Times
  <2>3. Max(Times(u.rows)) \in Times(u.rows) /\ \A x \in Times(u.rows) : x <= Max(Times(u.rows))
    BY <2>1, <2>2, MaxOfFinite
  <2> QED
    BY <2>1, <2>3 DEF MaxTs, Times
<1> DEFINE f == [u \in units |-> MaxTs(u)]
           ends == {MaxTs(u) : u \in units}
<1>2. IsFiniteSet(ends) /\ ends \subseteq Nat /\ ends # {}
  <2>1. ends = {f[u] : u \in units}
    OBVIOUS
  <2>2. IsFiniteSet(ends)
    <3> HIDE DEF f, ends
    <3> QED
      BY <2>1, ImageFinite
  <2> QED
    BY <1>1, <2>2
<1>3. Max(ends) \in Nat /\ \A x \in ends : x <= Max(ends)
  <2> HIDE DEF ends
  <2> QED
    BY <1>2, MaxOfFinite
<1>4. FloorAfter(units) = Max(ends) + 1
  BY DEF FloorAfter
<1> HIDE DEF ends
<1>5. ASSUME NEW u \in units, NEW r \in u.rows
      PROVE  r.at < FloorAfter(units)
  <2>1. MaxTs(u) <= Max(ends)
    BY <1>3 DEF ends
  <2> QED
    BY <1>1, <1>3, <1>4, <2>1
<1> QED
  BY <1>3, <1>4, <1>5

(* The facts a retention folds for a table, and the last of them. *)
ExpiredOf(expired, t) == UNION {Section(u, t) : u \in expired}
PriorOf(prior, t) == {prior[k] : k \in DOMAIN prior \cap {t}}
FactsOf(expired, prior, t) ==
    (UNION {Section(u, t) : u \in expired}) \cup {prior[k] : k \in DOMAIN prior \cap {t}}

(* What is among them. *)
LEMMA FactsOfIs ==
    ASSUME NEW expired, NEW prior, NEW t, NEW q
    PROVE  q \in FactsOf(expired, prior, t) <=>
               \/ \E u \in expired : q \in u.rows /\ q.table = t
               \/ t \in DOMAIN prior /\ q = prior[t]
<1>1. q \in ExpiredOf(expired, t) <=> \E u \in expired : q \in u.rows /\ q.table = t
  BY DEF Section, ExpiredOf
<1>2. q \in PriorOf(prior, t) <=> t \in DOMAIN prior /\ q = prior[t]
  BY DEF PriorOf
<1>3. FactsOf(expired, prior, t) = ExpiredOf(expired, t) \cup PriorOf(prior, t)
  BY DEF FactsOf, ExpiredOf, PriorOf
<1> QED
  BY <1>1, <1>2, <1>3

(* The fold picks the latest of them for every table that has any. *)
LEMMA FoldedHeads ==
    ASSUME NEW c, NEW hd, NEW recs \in Seq(Rec), c.checkpoint \in 0 .. Len(recs),
           CatalogFacts(c, hd, recs), NEW expired, expired \subseteq c.units
    PROVE  LET h == LastFacts(expired, hd)
           IN  /\ DOMAIN h = {k \in DOMAIN tail.tables : FactsOf(expired, hd, k) # {}}
               /\ \A t \in DOMAIN h : /\ h[t] \in FactsOf(expired, hd, t)
                                      /\ \A q \in FactsOf(expired, hd, t) : q.at <= h[t].at
<1> DEFINE h == LastFacts(expired, hd)
<1>1. h = [t \in {k \in DOMAIN tail.tables : FactsOf(expired, hd, k) # {}} |->
              CHOOSE r \in FactsOf(expired, hd, t) :
                  \A q \in FactsOf(expired, hd, t) : q.at <= r.at]
  BY DEF LastFacts, FactsOf
<1>2. ASSUME NEW t, FactsOf(expired, hd, t) # {}
      PROVE  \E r \in FactsOf(expired, hd, t) :
                 \A q \in FactsOf(expired, hd, t) : q.at <= r.at
  <2> DEFINE facts == FactsOf(expired, hd, t)
  <2>1. facts \in SUBSET Rows(recs, 0, c.checkpoint)
    <3>1. \A u \in expired : u.rows \subseteq Rows(recs, 0, c.checkpoint)
      BY DEF CatalogFacts
    <3>2. t \in DOMAIN hd => hd[t] \in Rows(recs, 0, c.checkpoint)
      BY DEF CatalogFacts, RowsOf
    <3>3. \A q \in facts : q \in Rows(recs, 0, c.checkpoint)
      BY <3>1, <3>2, FactsOfIs
    <3> QED
      BY <3>3
  <2>2. IsFiniteSet(Times(facts)) /\ Times(facts) \subseteq Nat
    <3> HIDE DEF facts
    <3> QED
      BY <2>1, RowsFinite
  <2>3. Times(facts) # {}
    BY <1>2 DEF Times
  <2>4. Max(Times(facts)) \in Times(facts) /\ \A x \in Times(facts) : x <= Max(Times(facts))
    <3> HIDE DEF facts
    <3> QED
      BY <2>2, <2>3, MaxOfFinite
  <2>5. PICK r \in facts : r.at = Max(Times(facts))
    BY <2>4 DEF Times
  <2>6. \A q \in facts : q.at \in Times(facts)
    BY DEF Times
  <2> QED
    BY <2>4, <2>5, <2>6
<1> HIDE DEF h
<1>3. ASSUME NEW t \in DOMAIN h
      PROVE  /\ h[t] \in FactsOf(expired, hd, t)
             /\ \A q \in FactsOf(expired, hd, t) : q.at <= h[t].at
  BY <1>1, <1>2, <1>3
<1> QED
  BY <1>1, <1>3 DEF h

(* A retention moves rows below the floor and keeps the last of each table. *)
LEMMA RetainMeans ==
    ASSUME NEW c, NEW hd, NEW recs \in Seq(Rec), c.checkpoint \in 0 .. Len(recs), NEW back,
           Meant(c, hd, recs, back), DOMAIN tail.tables = LiveAt(recs, Len(recs)),
           NEW expired, expired \subseteq c.units, expired # {}, FloorAfter(expired) > c.floor,
           NEW d, d.checkpoint = c.checkpoint, d.tableHigh = c.tableHigh, d.clocks = c.clocks,
           d.floor = FloorAfter(expired), d.units = c.units \ expired
    PROVE  Meant(d, LastFacts(expired, hd), recs, back)
<1> DEFINE h == LastFacts(expired, hd)
           m == c.checkpoint
<1>1. CatalogFacts(c, hd, recs)
  BY DEF Meant
<1>2. /\ DOMAIN h = {k \in DOMAIN tail.tables : FactsOf(expired, hd, k) # {}}
      /\ \A t \in DOMAIN h : /\ h[t] \in FactsOf(expired, hd, t)
                             /\ \A q \in FactsOf(expired, hd, t) : q.at <= h[t].at
  BY <1>1, FoldedHeads
<1>3. IsFiniteSet(expired) /\ IsFiniteSet(d.units)
  BY <1>1, FS_Subset, FS_Difference DEF CatalogFacts
<1>4. /\ FloorAfter(expired) \in Nat
      /\ \A u \in expired : \A r \in u.rows : r.at < FloorAfter(expired)
  <2>1. m \in 0 .. Len(recs) /\ \A u \in expired : u.rows # {} /\ u.rows \subseteq Rows(recs, 0, m)
    BY <1>1 DEF CatalogFacts
  <2> HIDE DEF m
  <2> QED
    BY <1>3, <2>1, ExpiredBefore
<1>5. ASSUME NEW r \in Rows(recs, 0, m), r \notin Listed(d)
      PROVE  r \notin Listed(c) \/ \E u \in expired : r \in u.rows
  BY <1>5 DEF Listed
<1>6. \A r \in Rows(recs, 0, m) : r.at \in Nat
  BY RowsFinite
<1>7. ASSUME NEW t \in LiveAt(recs, m), NEW r \in RowsOf(recs, 0, m, t) \ Listed(d)
      PROVE  r.at < FloorAfter(expired)
  <2>1. CASE \E u \in expired : r \in u.rows
    BY <1>4, <2>1
  <2>2. CASE r \notin Listed(c)
    <3>1. r.at < c.floor /\ c.floor \in Nat /\ r.at \in Nat
      BY <1>1, <1>6, <2>2 DEF CatalogFacts, RowsOf
    <3> QED
      BY <1>4, <3>1
  <2> QED
    BY <1>5, <2>1, <2>2 DEF RowsOf
<1>8. ASSUME NEW u \in expired, NEW r \in u.rows
      PROVE  r \in Rows(recs, 0, m) /\ r \notin Listed(d)
  <2>1. \A v \in d.units : v \in c.units /\ v # u
    OBVIOUS
  <2> QED
    BY <1>1, <2>1 DEF CatalogFacts, Listed
<1>9. ASSUME NEW t \in DOMAIN hd
      PROVE  hd[t] \in RowsOf(recs, 0, m, t) \ Listed(d)
  <2>1. Listed(d) \subseteq Listed(c)
    BY DEF Listed
  <2> QED
    BY <1>1, <2>1 DEF CatalogFacts
<1>10. ASSUME NEW t, NEW q \in FactsOf(expired, hd, t)
       PROVE  q \in RowsOf(recs, 0, m, t) \ Listed(d)
  <2>1. \/ \E u \in expired : q \in u.rows /\ q.table = t
        \/ t \in DOMAIN hd /\ q = hd[t]
    BY <1>10, FactsOfIs
  <2> QED
    BY <1>8, <1>9, <2>1 DEF RowsOf
<1>11. CatalogFacts(d, h, recs)
  <2>1. \A t \in DOMAIN h : h[t] \in RowsOf(recs, 0, m, t) \ Listed(d)
    BY <1>2, <1>10
  <2> HIDE DEF h
  <2> QED
    BY <1>1, <1>3, <1>4, <1>7, <2>1 DEF CatalogFacts
<1>12. ASSUME NEW t \in LiveAt(recs, Len(recs)) \ back,
              NEW r \in RowsOf(recs, 0, m, t) \ Listed(d)
       PROVE  t \in DOMAIN h /\ r.at <= h[t].at
  <2>1. CASE \E u \in expired : r \in u.rows
    <3>1. r \in FactsOf(expired, hd, t)
      BY <2>1, FactsOfIs DEF RowsOf
    <3> QED
      BY <1>2, <3>1
  <2>2. CASE r \notin Listed(c)
    <3>1. t \in DOMAIN hd /\ r.at <= hd[t].at
      BY <1>12, <2>2 DEF Meant, HeadsCover
    <3>2. hd[t] \in FactsOf(expired, hd, t)
      BY <3>1, FactsOfIs
    <3>3. t \in DOMAIN h /\ hd[t].at <= h[t].at
      BY <1>2, <3>2
    <3>4. r.at \in Nat /\ hd[t].at \in Nat /\ h[t].at \in Nat
      <4>1. h[t] \in FactsOf(expired, hd, t)
        BY <1>2, <3>3
      <4>2. r \in Rows(recs, 0, m) /\ hd[t] \in Rows(recs, 0, m) /\ h[t] \in Rows(recs, 0, m)
        BY <1>10, <3>2, <4>1 DEF RowsOf
      <4> QED
        BY <1>6, <4>2
    <3> QED
      BY <3>1, <3>3, <3>4
  <2> QED
    BY <1>5, <2>1, <2>2 DEF RowsOf
<1>13. HeadsCover(d, h, recs, back)
  BY <1>12 DEF HeadsCover
<1> QED
  BY <1>11, <1>13 DEF Meant

-----------------------------------------------------------------------------
(***************************************************************************)
(* Mutations.                                                              *)
(***************************************************************************)
(* The step leaves the heads of kept catalogs as they are. *)
SameHeads == \A c : KeptNow(c) => HeadsIn(c, headFiles') = HeadsIn(c, headFiles)

(* Reaping does. *)
LEMMA ReapSpares ==
    ASSUME Reap PROVE SameHeads
BY HeadsSpared DEF Reap, SameHeads

(* Checkpoints of kept catalogs are within the durable log. *)
LEMMA KeptBounds ==
    ASSUME IInv, NEW c, KeptNow(c)
    PROVE  /\ c.checkpoint \in 0 .. Len(records) /\ c.checkpoint \in 0 .. durable
           /\ Len(records) \in Nat /\ durable \in Nat
BY DEF IInv, LogOK, KeptNow, Kept, IsCatalog

(* Steps that leave the catalogs and the log alone. *)
LEMMA CatalogsStay ==
    ASSUME IInv, CatalogsMeant, SameHeads,
           UNCHANGED <<manifest, settled, catalog, records, revived>>,
           Publishing' => Publishing /\ job'.next = job.next
    PROVE  CatalogsMeant'
<1>1. /\ HeadsIn(manifest, headFiles') = HeadsIn(manifest, headFiles)
      /\ HeadsIn(settled, headFiles') = HeadsIn(settled, headFiles)
      /\ HeadsIn(catalog, headFiles') = HeadsIn(catalog, headFiles)
      /\ Publishing => HeadsIn(job.next, headFiles') = HeadsIn(job.next, headFiles)
  BY DEF SameHeads, IInv, CatalogsKept
<1> QED
  BY <1>1 DEF CatalogsMeant

(* Steps that append a record. *)
LEMMA CatalogsExtend ==
    ASSUME IInv, LogFacts, CatalogsMeant, SameHeads, ~Publishing',
           UNCHANGED <<manifest, settled, catalog, revived>>,
           NEW r \in Rec, NEW from, Valid(TailAt(records, from, Len(records)), r),
           records' = Append(records, r)
    PROVE  CatalogsMeant' /\ LogFacts'
<1>1. records \in Seq(Rec) /\ Legal(records)
  BY DEF IInv, LogOK, LogFacts
<1>2. ASSUME NEW c, KeptNow(c), Meant(c, HeadsIn(c, headFiles), records, revived)
      PROVE  Meant(c, HeadsIn(c, headFiles'), records', revived')
  <2>1. HeadsIn(c, headFiles') = HeadsIn(c, headFiles)
    BY <1>2 DEF SameHeads
  <2>2. c.checkpoint \in 0 .. Len(records)
    BY <1>2, KeptBounds
  <2> DEFINE hd == HeadsIn(c, headFiles)
  <2>3. Meant(c, hd, records, revived)
    BY <1>2
  <2> HIDE DEF hd
  <2>4. Meant(c, hd, Append(records, r), revived)
    BY <1>1, <2>2, <2>3, RecordAdded
  <2> QED
    BY <2>1, <2>4 DEF hd
<1>3. CatalogsMeant'
  BY <1>2 DEF CatalogsMeant, IInv, CatalogsKept
<1>4. Legal(records')
  BY <1>1, AppendLegal
<1> QED
  BY <1>3, <1>4 DEF LogFacts

(* A record more in the log and in the tail. *)
LEMMA TailGrows ==
    ASSUME NEW recs \in Seq(Rec), NEW r \in Rec, Legal(Append(recs, r)),
           NEW from \in 0 .. Len(recs)
    PROVE  Apply(TailAt(recs, from, Len(recs)), r) = TailAt(Append(recs, r), from, Len(recs) + 1)
<1> DEFINE more == Append(recs, r)
           n == Len(recs)
<1>1. /\ more \in Seq(Rec) /\ Len(more) = n + 1 /\ n \in Nat /\ n < Len(more)
      /\ more[n + 1] = r /\ from \in Nat /\ n \in 0 .. n
  OBVIOUS
<1>2. \A i \in 1 .. n : recs[i] = more[i]
  OBVIOUS
<1> HIDE DEF more, n
<1>3. TailAt(recs, from, n) = TailAt(more, from, n)
  BY <1>1, <1>2, Agreeing
<1>4. Apply(TailAt(more, from, n), more[n + 1]) = TailAt(more, from, n + 1)
  BY <1>1, OneStep DEF n, more
<1> QED
  BY <1>1, <1>3, <1>4 DEF n, more

(* Append, create and drop. *)
LEMMA MutateMeans ==
    ASSUME IInv, FInv, NEW r \in Rec, Mutate(r)
    PROVE  FInv'
<1>1. /\ status = "open" /\ pc = "idle" /\ ~poison /\ ~Publishing /\ ~Publishing'
      /\ pc' = "idle" /\ Valid(tail, r) /\ KeptNow(catalog) /\ SameHeads
      /\ UNCHANGED <<manifest, settled, catalog, heads, job, status, revived>>
  BY ReapSpares DEF Mutate, Healthy, Locked, Publishing, IInv, CatalogsKept
<1>2. /\ records \in Seq(Rec) /\ Len(records) \in Nat /\ catalog.checkpoint \in 0 .. Len(records)
      /\ Legal(records)
  BY <1>1, KeptBounds DEF IInv, LogOK, FInv, LogFacts
<1>3. Appended = 0 /\ Appended' = 0 /\ Applied = Len(records) /\ Applied' = Len(records')
  <2>1. Appended = 0 /\ Appended' = 0
    BY <1>1 DEF Appended
  <2>2. Len(records') \in Nat
    BY <1>2 DEF Mutate
  <2> QED
    BY <1>2, <2>1, <2>2 DEF Applied
<1>4. tail = TailAt(records, catalog.checkpoint, Len(records))
  BY <1>1, <1>3 DEF FInv, EngineFacts
<1>5. heads' = HeadsIn(catalog', headFiles')
  BY <1>1 DEF FInv, EngineFacts, SameHeads
<1>6. JobFacts' /\ BatchFacts'
  BY <1>1 DEF JobFacts, BatchFacts
<1>7. CASE records' = Append(records, r) /\ tail' = Apply(tail, r)
  <2>1. CatalogsMeant' /\ LogFacts'
    BY <1>1, <1>4, <1>7, CatalogsExtend DEF FInv
  <2>2. Len(records') = Len(records) + 1
    BY <1>2, <1>7
  <2>3. tail' = TailAt(records', catalog.checkpoint, Len(records) + 1)
    BY <1>2, <1>4, <1>7, <2>1, TailGrows DEF LogFacts
  <2>4. EngineFacts'
    BY <1>1, <1>3, <1>5, <2>2, <2>3 DEF EngineFacts
  <2> QED
    BY <1>6, <2>1, <2>4 DEF FInv
<1>8. CASE poison' = TRUE /\ UNCHANGED <<records, tail>>
  <2>1. CatalogsMeant' /\ LogFacts'
    BY <1>1, <1>8, CatalogsStay DEF FInv, LogFacts
  <2>2. EngineFacts'
    BY <1>5, <1>8 DEF EngineFacts
  <2> QED
    BY <1>6, <2>1, <2>2 DEF FInv
<1> QED
  BY <1>7, <1>8 DEF Mutate

(* Calls that only reap, and sync. *)
LEMMA TidyMeans ==
    ASSUME IInv, FInv, Tidy \/ Sync \/ FinishMaintenance
    PROVE  FInv'
<1>1. /\ pc \in {"idle", "reap"} /\ pc' = "idle" /\ ~Publishing /\ ~Publishing' /\ SameHeads
      /\ UNCHANGED <<manifest, settled, records, status, poison, catalog, tail, heads, revived>>
      /\ KeptNow(catalog)
  BY ReapSpares
  DEF Tidy, Sync, FinishMaintenance, Healthy, Locked, Publishing, log, engine, IInv, CatalogsKept
<1>2. Appended = 0 /\ Appended' = 0
  BY <1>1 DEF Appended
<1>3. Applied' = Applied
  BY <1>1, <1>2 DEF Applied
<1>4. CatalogsMeant' /\ LogFacts' /\ JobFacts' /\ BatchFacts'
  BY <1>1, CatalogsStay DEF FInv, LogFacts, JobFacts, BatchFacts
<1>5. EngineFacts'
  BY <1>1, <1>3 DEF FInv, EngineFacts, SameHeads
<1> QED
  BY <1>4, <1>5 DEF FInv

-----------------------------------------------------------------------------
(***************************************************************************)
(* Batches.                                                                *)
(***************************************************************************)
(* A batch is checked against the tail before its first record. *)
LEMMA BatchBegins ==
    ASSUME IInv, FInv, NEW recs \in Seq(Rec), BeginBatch(recs),
           \A i \in 1 .. Len(recs) : recs[i].op = "append"
    PROVE  FInv'
<1>1. /\ status = "open" /\ pc = "idle" /\ ~poison /\ ~Publishing /\ ~Publishing'
      /\ pc' = "batch" /\ job' = [kind |-> "batch", all |-> recs, left |-> recs]
      /\ KeptNow(catalog)
      /\ UNCHANGED <<unitFiles, headFiles, manifest, settled, records, status, poison,
                     catalog, tail, heads, revived>>
      /\ \A i \in 1 .. Len(recs) : Valid(tail, recs[i])
      /\ \A i, j \in 1 .. Len(recs) : i < j => recs[i].at < recs[j].at
  BY DEF BeginBatch, Healthy, Locked, Publishing, disk, log, engine, IInv, CatalogsKept
<1>2. Len(records) \in Nat /\ Len(recs) \in Nat /\ catalog.checkpoint \in 0 .. Len(records)
  BY <1>1, KeptBounds
<1>3. Appended = 0 /\ Appended' = 0 /\ Applied = Len(records) /\ Applied' = Len(records)
  <2>1. job'.all = recs /\ job'.left = recs
    BY <1>1
  <2>2. Appended = 0 /\ Appended' = 0
    BY <1>1, <1>2, <2>1 DEF Appended
  <2> QED
    BY <1>1, <1>2, <2>2 DEF Applied
<1>4. tail = TailAt(records, catalog.checkpoint, Len(records))
  BY <1>1, <1>3 DEF FInv, EngineFacts
<1>5. CatalogsMeant' /\ LogFacts' /\ JobFacts'
  BY <1>1, CatalogsStay DEF FInv, LogFacts, JobFacts, SameHeads
<1>6. EngineFacts'
  BY <1>1, <1>3 DEF FInv, EngineFacts
<1>7. ASSUME NEW i \in 1 .. Len(recs)
      PROVE  /\ recs[i].table \in LiveAt(records, Len(records))
             /\ recs[i].at > LastAt(records, Len(records), recs[i].table)
  <2>1. recs[i].op \in {"create", "drop", "append"} /\ recs[i].op = "append"
    OBVIOUS
  <2>2. Valid(TailAt(records, catalog.checkpoint, Len(records)), recs[i])
    BY <1>1, <1>4
  <2> QED
    BY <2>1, <2>2, ValidIs
<1>8. BatchFacts'
  <2>1. job'.all = recs /\ job'.left = recs
    BY <1>1
  <2> QED
    BY <1>1, <1>2, <1>3, <1>7, <2>1 DEF BatchFacts
<1> QED
  BY <1>5, <1>6, <1>8 DEF FInv

(* What a row does to the tables that are there and to their clocks. *)
LEMMA RowAdded ==
    ASSUME NEW recs \in Seq(Rec), NEW r \in Rec, r.op = "append", Legal(Append(recs, r))
    PROVE  LET n == Len(recs)
               more == Append(recs, r)
           IN  /\ LiveAt(more, n + 1) = LiveAt(recs, n)
               /\ \A t \in LiveAt(recs, n) :
                      LastAt(more, n + 1, t) = IF t = r.table THEN r.at ELSE LastAt(recs, n, t)
<1> DEFINE n == Len(recs)
           more == Append(recs, r)
           before == TailAt(recs, n, n)
           after == TailAt(more, n, n + 1)
<1>1. Apply(before, r) = after
  BY TailGrows
<1>2. Apply(before, r) =
          [before EXCEPT !.tables[r.table] =
              [last |-> r.at, rows |-> @.rows \cup {RowOf(r)}]]
  BY DEF Apply
<1>3. /\ DOMAIN before.tables = LiveAt(recs, n)
      /\ \A t \in LiveAt(recs, n) : before.tables[t].last = LastAt(recs, n, t)
      /\ before = [tables |-> before.tables, high |-> before.high]
  BY DEF TailAt
<1>4. /\ DOMAIN after.tables = LiveAt(more, n + 1)
      /\ \A t \in LiveAt(more, n + 1) : after.tables[t].last = LastAt(more, n + 1, t)
  BY DEF TailAt
<1> HIDE DEF before, after, n, more
<1>5. after.tables = [before.tables EXCEPT ![r.table] =
                         [last |-> r.at, rows |-> @.rows \cup {RowOf(r)}]]
  BY <1>1, <1>2, <1>3
<1>6. DOMAIN after.tables = DOMAIN before.tables
  BY <1>5
<1>7. \A t \in DOMAIN before.tables :
          after.tables[t].last = IF t = r.table THEN r.at ELSE before.tables[t].last
  BY <1>5
<1>8. /\ LiveAt(more, n + 1) = LiveAt(recs, n)
      /\ \A t \in LiveAt(recs, n) :
             LastAt(more, n + 1, t) = IF t = r.table THEN r.at ELSE LastAt(recs, n, t)
  BY <1>3, <1>4, <1>6, <1>7
<1> QED
  BY <1>8 DEF n, more

(* Its records go to the log one by one; with the last one the tail catches *)
(* up with all of them.                                                    *)
LEMMA BatchContinues ==
    ASSUME IInv, FInv, BatchRecord
    PROVE  FInv'
<1> DEFINE left == job.left
           all == job.all
<1>1. /\ pc = "batch" /\ status = "open" /\ ~Publishing /\ ~Publishing' /\ SameHeads
      /\ KeptNow(catalog)
      /\ UNCHANGED <<unitFiles, headFiles, manifest, settled, status, poison, catalog, heads,
                     revived>>
      /\ records' = Append(records, Head(left))
      /\ left \in Seq(Rec) /\ left # <<>> /\ BatchFacts
      /\ records \in Seq(Rec)
  BY DEF BatchRecord, Publishing, disk, IInv, CatalogsKept, Control, FInv, SameHeads, LogOK
<1>2. /\ Head(left) \in Rec /\ Head(left) = left[1] /\ Len(left) \in Nat \ {0}
      /\ Len(records) \in Nat
  BY <1>1
<1>3. PICK r \in Rec, n \in Nat, k \in Nat, cp \in Nat :
          /\ r = left[1] /\ n = Len(records) /\ k = Len(left) /\ cp = catalog.checkpoint
          /\ records' = Append(records, r) /\ k >= 1
  <2>1. catalog.checkpoint \in Nat
    BY <1>1, KeptBounds
  <2> HIDE DEF left
  <2> QED
    BY <1>1, <1>2, <2>1
<1>4. PICK a \in Nat, b \in Nat :
          /\ a = Appended /\ b = Applied /\ Len(all) = a + k /\ n = b + a /\ cp <= b
          /\ all \in Seq(Rec)
  <2>1. /\ Appended = Len(all) - Len(left) /\ Applied = Len(records) - Appended
        /\ all \in Seq(Rec) /\ Len(left) <= Len(all) /\ Applied >= catalog.checkpoint
    BY <1>1 DEF BatchFacts, Appended, Applied
  <2>2. Len(all) \in Nat
    BY <2>1
  <2> HIDE DEF all, left
  <2>3. Appended \in Nat /\ Len(all) = Appended + k
    BY <1>3, <2>1, <2>2
  <2> HIDE DEF Appended
  <2>4. Applied \in Nat /\ n = Applied + Appended /\ cp <= Applied
    <3>1. Applied = n - Appended
      BY <1>3, <2>1
    <3> QED
      BY <1>3, <2>1, <2>3, <3>1
  <2> QED
    BY <2>1, <2>3, <2>4
<1>5. /\ \A i \in 1 .. k : left[i] = all[a + i]
      /\ \A i \in 1 .. a : records[b + i] = all[i]
      /\ \A i \in 1 .. k :
             /\ left[i].op = "append" /\ left[i] \in Rec
             /\ left[i].table \in LiveAt(records, n)
             /\ left[i].at > LastAt(records, n, left[i].table)
             /\ \A j \in 1 .. k : i < j => left[i].at < left[j].at
  BY <1>1, <1>3, <1>4 DEF BatchFacts
<1>6. /\ r.op = "append" /\ r.table \in LiveAt(records, n) /\ r.at > LastAt(records, n, r.table)
      /\ r = all[a + 1]
  BY <1>3, <1>5
<1>7. CatalogsMeant' /\ LogFacts'
  <2> HIDE DEF left, all
  <2>1. Valid(TailAt(records, 0, n), r)
    BY <1>6, ValidIs
  <2> QED
    BY <1>1, <1>3, <1>6, <2>1, CatalogsExtend DEF FInv
<1>8. JobFacts'
  BY <1>1 DEF JobFacts
<1>9. heads' = HeadsIn(catalog', headFiles')
  BY <1>1 DEF FInv, EngineFacts, SameHeads
<1>10. PICK recs \in Seq(Rec) :
           /\ recs = records' /\ recs = Append(records, r) /\ Legal(recs)
           /\ Len(recs) = n + 1 /\ recs[n + 1] = r
           /\ \A i \in 1 .. n : recs[i] = records[i]
  <2>1. Append(records, r) \in Seq(Rec)
    BY <1>1
  <2>2. Legal(records')
    BY <1>7 DEF LogFacts
  <2>3. /\ Len(Append(records, r)) = n + 1 /\ Append(records, r)[n + 1] = r
        /\ \A i \in 1 .. n : Append(records, r)[i] = records[i]
    BY <1>1, <1>3
  <2>4. records' = Append(records, r)
    BY <1>3
  <2> QED
    BY <2>1, <2>2, <2>3, <2>4
<1> HIDE DEF left, all
<1>11. \A i \in 1 .. a + 1 : recs[b + i] = all[i]
  <2> TAKE i \in 1 .. a + 1
  <2>1. CASE i \in 1 .. a
    <3>1. b + i \in 1 .. n
      BY <1>4, <2>1
    <3> QED
      BY <1>5, <1>10, <2>1, <3>1
  <2>2. CASE i = a + 1
    <3>1. b + i = n + 1
      BY <1>4, <2>2
    <3> QED
      BY <1>6, <1>10, <2>2, <3>1
  <2> QED
    BY <2>1, <2>2
<1>12. ~poison => tail = TailAt(recs, cp, b)
  <2>1. ~poison => tail = TailAt(records, cp, b)
    BY <1>1, <1>3, <1>4 DEF FInv, EngineFacts
  <2>2. b \in 0 .. n /\ \A i \in 1 .. n : records[i] = recs[i]
    BY <1>4, <1>10
  <2>3. TailAt(records, cp, b) = TailAt(recs, cp, b)
    BY <2>2, Agreeing
  <2> QED
    BY <2>1, <2>3
<1>13. CASE k = 1
  <2>1. tail' = ApplyAll(tail, all) /\ pc' = "idle"
    BY <1>3, <1>13 DEF BatchRecord, ApplyAll, left, all
  <2>2. BatchFacts' /\ Appended' = 0
    BY <2>1 DEF BatchFacts, Appended
  <2>3. Applied' = n + 1
    BY <1>10, <2>2 DEF Applied
  <2>4. PICK len \in Nat : len = a + 1
    OBVIOUS
  <2>5. /\ b \in 0 .. Len(recs) /\ cp \in 0 .. b /\ b + len <= Len(recs) /\ b + len = n + 1
        /\ DOMAIN all = 1 .. len
    BY <1>4, <1>10, <1>13, <2>4
  <2>6. \A i \in 1 .. len : all[i] = recs[b + i]
    BY <1>11, <2>4
  <2>7. ApplyAll(TailAt(recs, cp, b), all) = TailAt(recs, cp, b + len)
    BY <1>10, <2>5, <2>6, Applying
  <2>8. EngineFacts'
    BY <1>1, <1>3, <1>9, <1>10, <1>12, <2>1, <2>3, <2>5, <2>7 DEF EngineFacts
  <2> QED
    BY <1>7, <1>8, <2>2, <2>8 DEF FInv
<1>14. CASE k # 1
  <2>1. pc' = "batch" /\ tail' = tail /\ job' = [job EXCEPT !.left = Tail(left)]
    BY <1>1, <1>3, <1>14 DEF BatchRecord, left
  <2>2. job'.all = all /\ job'.left = Tail(left)
    <3>1. job = [kind |-> "batch", all |-> all, left |-> left]
      BY <1>1 DEF IInv, Control, all, left
    <3> QED
      BY <2>1, <3>1
  <2>3. PICK rest \in Seq(Rec) : rest = Tail(left) /\ Len(rest) = k - 1
            /\ \A i \in 1 .. k - 1 : rest[i] = left[i + 1]
    <3>1. Tail(left) \in Seq(Rec)
      BY <1>1
    <3>2. Len(Tail(left)) = k - 1 /\ \A i \in 1 .. k - 1 : Tail(left)[i] = left[i + 1]
      BY <1>1, <1>3
    <3> QED
      BY <3>1, <3>2
  <2>4. Appended' = a + 1 /\ Applied' = b
    <3>1. Appended' = Len(all) - Len(rest)
      BY <2>1, <2>2, <2>3 DEF Appended
    <3>2. Appended' = a + 1
      BY <1>4, <2>3, <3>1
    <3>3. Applied' = (n + 1) - Appended'
      BY <1>10 DEF Applied
    <3> QED
      BY <1>4, <3>2, <3>3
  <2>5. EngineFacts'
    BY <1>1, <1>3, <1>9, <1>10, <1>12, <2>1, <2>4 DEF EngineFacts
  <2>6. /\ LiveAt(recs, n + 1) = LiveAt(records, n)
        /\ \A t \in LiveAt(records, n) :
               LastAt(recs, n + 1, t) = IF t = r.table THEN r.at ELSE LastAt(records, n, t)
    BY <1>1, <1>3, <1>6, <1>10, RowAdded
  <2>7. ASSUME NEW i \in 1 .. k - 1
        PROVE  /\ rest[i] = all[(a + 1) + i]
               /\ rest[i].op = "append"
               /\ rest[i].table \in LiveAt(recs, n + 1)
               /\ rest[i].at > LastAt(recs, n + 1, rest[i].table)
               /\ \A j \in 1 .. k - 1 : i < j => rest[i].at < rest[j].at
    <3>1. /\ i + 1 \in 1 .. k /\ 1 \in 1 .. k /\ 1 < i + 1 /\ (a + 1) + i = a + (i + 1)
          /\ \A j \in 1 .. k - 1 : j + 1 \in 1 .. k /\ (i < j => i + 1 < j + 1)
      OBVIOUS
    <3>2. PICK q : q = left[i + 1] /\ q = rest[i]
      BY <2>3
    <3>3. /\ q = all[(a + 1) + i] /\ q.op = "append" /\ q \in Rec
          /\ q.table \in LiveAt(records, n) /\ q.at > LastAt(records, n, q.table)
          /\ r.at < q.at
      BY <1>3, <1>5, <3>1, <3>2
    <3>4. \A j \in 1 .. k - 1 : i < j => rest[i].at < rest[j].at
      BY <1>5, <2>3, <3>1
    <3>5. q.at \in Nat /\ r.at \in Nat /\ LastAt(records, n, q.table) \in Nat
      <4>1. n \in 0 .. Len(records)
        BY <1>3
      <4> QED
        BY <1>1, <3>3, <4>1, RecTypes, LastIs
    <3>6. q.at > LastAt(recs, n + 1, q.table)
      BY <2>6, <3>3, <3>5
    <3> QED
      BY <2>6, <3>2, <3>3, <3>4, <3>6
  <2>8. Len(rest) <= Len(all) /\ b >= cp
    BY <1>4, <2>3
  <2>9. BatchFacts'
    <3>1. catalog' = catalog /\ job'.all = all /\ job'.left = rest
      BY <1>1, <2>2, <2>3
    <3>2. /\ Len(records') = n + 1 /\ Len(rest) = k - 1
          /\ records' = recs /\ Appended' = a + 1 /\ Applied' = b
      BY <1>10, <2>3, <2>4
    <3>3. \A i \in 1 .. a + 1 : recs[b + i] = all[i]
      BY <1>11
    <3>4. /\ \A i \in 1 .. Len(rest) : rest[i] = all[Appended' + i]
          /\ \A i \in 1 .. Appended' : records'[Applied' + i] = all[i]
      BY <2>7, <3>2, <3>3
    <3>5. \A i \in 1 .. Len(rest) :
              /\ rest[i].op = "append"
              /\ rest[i].table \in LiveAt(records', Len(records'))
              /\ rest[i].at > LastAt(records', Len(records'), rest[i].table)
              /\ \A j \in 1 .. Len(rest) : i < j => rest[i].at < rest[j].at
      BY <2>7, <3>2
    <3>6. all \in Seq(Rec) /\ Applied' >= catalog'.checkpoint
      BY <1>3, <1>4, <2>8, <3>1, <3>2
    <3> QED
      BY <2>8, <3>1, <3>4, <3>5, <3>6 DEF BatchFacts
  <2> QED
    BY <1>7, <1>8, <2>5, <2>9 DEF FInv
<1> QED
  BY <1>13, <1>14

(* A batch that fails half way poisons the engine: its tail is not asked. *)
LEMMA BatchStops ==
    ASSUME IInv, FInv, BatchFails
    PROVE  FInv'
<1>1. /\ pc = "batch" /\ pc' = "idle" /\ poison' = TRUE /\ ~Publishing' /\ SameHeads
      /\ KeptNow(catalog)
      /\ UNCHANGED <<headFiles, manifest, settled, records, status, catalog, tail, heads, revived>>
  BY DEF BatchFails, Publishing, disk, log, engine, SameHeads, IInv, CatalogsKept
<1>2. CatalogsMeant' /\ LogFacts' /\ JobFacts' /\ BatchFacts'
  BY <1>1, CatalogsStay DEF FInv, LogFacts, JobFacts, BatchFacts
<1>3. EngineFacts'
  BY <1>1 DEF FInv, EngineFacts
<1> QED
  BY <1>2, <1>3 DEF FInv

-----------------------------------------------------------------------------
(***************************************************************************)
(* Maintenance.                                                            *)
(***************************************************************************)
(* What holds when a call of maintenance gets the engine's mutex. *)
LEMMA Idle ==
    ASSUME IInv, FInv, Healthy
    PROVE  /\ status = "open" /\ pc = "idle" /\ ~poison /\ ~Publishing
           /\ manifest = catalog /\ settled = catalog /\ KeptNow(catalog)
           /\ heads = HeadsIn(catalog, headFiles)
           /\ Meant(catalog, heads, records, revived)
           /\ records \in Seq(Rec) /\ Legal(records) /\ Len(records) \in Nat
           /\ catalog.checkpoint \in 0 .. Len(records)
           /\ tail = TailAt(records, catalog.checkpoint, Len(records))
           /\ Appended = 0 /\ Applied = Len(records)
<1>1. /\ status = "open" /\ pc = "idle" /\ ~poison /\ ~Publishing
      /\ manifest = catalog /\ settled = catalog /\ KeptNow(catalog)
      /\ records \in Seq(Rec) /\ Legal(records)
  BY DEF Healthy, Locked, Publishing, IInv, OneCatalog, CatalogsKept, LogOK, FInv, LogFacts
<1>2. catalog.checkpoint \in 0 .. Len(records) /\ Len(records) \in Nat
  BY <1>1, KeptBounds
<1>3. Appended = 0 /\ Applied = Len(records)
  <2>1. Appended = 0
    BY <1>1 DEF Appended
  <2> QED
    BY <1>2, <2>1 DEF Applied
<1>4. heads = HeadsIn(catalog, headFiles) /\ tail = TailAt(records, catalog.checkpoint, Len(records))
  BY <1>1, <1>3 DEF FInv, EngineFacts
<1>5. Meant(catalog, heads, records, revived)
  BY <1>4 DEF FInv, CatalogsMeant
<1> QED
  BY <1>1, <1>2, <1>3, <1>4, <1>5

(* What a publication starts with. *)
LEMMA PreparationMeans ==
    ASSUME IInv, FInv, Healthy,
           UNCHANGED <<manifest, settled, catalog, records, status, poison, tail, heads, revived>>,
           pc' = "publish", job'.kind # "takeover",
           HeadsIn(catalog, headFiles') = HeadsIn(catalog, headFiles),
           Meant(job'.next, job'.heads, records, revived), job'.heads = HeadsIn(job'.next, headFiles'),
           job'.tail = TailAt(records, job'.next.checkpoint, Len(records))
    PROVE  FInv'
<1>1. /\ status = "open" /\ ~poison /\ manifest = catalog /\ settled = catalog
      /\ heads = HeadsIn(catalog, headFiles) /\ Meant(catalog, heads, records, revived)
      /\ tail = TailAt(records, catalog.checkpoint, Len(records)) /\ Len(records) \in Nat
  BY Idle
<1>2. CatalogsMeant'
  BY <1>1 DEF CatalogsMeant
<1>3. LogFacts' /\ JobFacts' /\ BatchFacts'
  BY DEF FInv, LogFacts, JobFacts, BatchFacts
<1>4. Applied' = Len(records)
  <2>1. Appended' = 0
    BY DEF Appended
  <2> QED
    BY <1>1, <2>1 DEF Applied
<1>5. EngineFacts'
  BY <1>1, <1>4 DEF EngineFacts
<1> QED
  BY <1>2, <1>3, <1>5 DEF FInv

(* What a seal takes from the tail. *)
LEMMA TailRowsAre ==
    ASSUME NEW cp, NEW n, tail = TailAt(records, cp, n)
    PROVE  /\ TailRows = {r \in Rows(records, cp, n) : r.table \in LiveAt(records, n)}
           /\ DOMAIN tail.tables = LiveAt(records, n) /\ tail.high = HighAt(records, n)
           /\ Clocks = [t \in LiveAt(records, n) |-> LastAt(records, n, t)]
<1>1. /\ DOMAIN tail.tables = LiveAt(records, n) /\ tail.high = HighAt(records, n)
      /\ \A t \in LiveAt(records, n) : /\ tail.tables[t].rows = RowsOf(records, cp, n, t)
                                       /\ tail.tables[t].last = LastAt(records, n, t)
  BY DEF TailAt
<1>2. TailRows = UNION {RowsOf(records, cp, n, t) : t \in LiveAt(records, n)}
  BY <1>1 DEF TailRows
<1>3. TailRows = {r \in Rows(records, cp, n) : r.table \in LiveAt(records, n)}
  BY <1>2 DEF RowsOf
<1>4. Clocks = [t \in LiveAt(records, n) |-> LastAt(records, n, t)]
  BY <1>1 DEF Clocks
<1> QED
  BY <1>1, <1>3, <1>4

(* What a seal makes of the catalog. *)
LEMMA SealedIs ==
    ASSUME IInv, FInv, Healthy
    PROVE  /\ \E rows, added : Seals(catalog, SealedCatalog, records, rows, added)
           /\ SealedCatalog.headsGeneration = catalog.headsGeneration
<1>1. /\ IsCatalog(catalog) /\ tail = TailAt(records, catalog.checkpoint, Len(records))
      /\ Len(records) \in Nat
  BY Idle DEF KeptNow, Kept
<1>2. SealedCatalog \in
          Fields(NextGeneration, UnitHigh, tail.high, Len(records), catalog.floor,
                 catalog.headsGeneration, Clocks, catalog.units \cup SealedUnits)
  BY <1>1, Successors DEF SealedCatalog, CatalogAfterSeal
<1>3. PICK d : d = SealedCatalog
  OBVIOUS
<1>4. /\ d.checkpoint = Len(records) /\ d.tableHigh = tail.high /\ d.clocks = Clocks
      /\ d.floor = catalog.floor /\ d.units = catalog.units \cup SealedUnits
      /\ d.headsGeneration = catalog.headsGeneration
  BY <1>2, <1>3 DEF Fields
<1>5. /\ TailRows = {r \in Rows(records, catalog.checkpoint, Len(records)) :
                        r.table \in LiveAt(records, Len(records))}
      /\ tail.high = HighAt(records, Len(records))
      /\ Clocks = [t \in LiveAt(records, Len(records)) |-> LastAt(records, Len(records), t)]
  BY <1>1, TailRowsAre
<1>6. PICK rows, added : /\ rows = TailRows /\ added = SealedUnits
                         /\ IF rows = {} THEN added = {} ELSE \E u : added = {u} /\ u.rows = rows
  <2> DEFINE unit == [id |-> NextUnit, level |-> 0, rows |-> TailRows]
  <2>1. SealedUnits = IF TailRows = {} THEN {} ELSE {unit}
    BY DEF SealedUnits
  <2>2. unit.rows = TailRows
    OBVIOUS
  <2> HIDE DEF unit
  <2> QED
    BY <2>1, <2>2
<1>7. Seals(catalog, d, records, rows, added)
  BY <1>4, <1>5, <1>6 DEF Seals
<1> QED
  BY <1>3, <1>4, <1>7

(* Seal. *)
LEMMA SealPrepares ==
    ASSUME IInv, FInv, Seal
    PROVE  FInv'
<1>1. Healthy
  BY DEF Seal, SealDurably
<1>2. PICK gone \in Reapable : headFiles' = HeadsWithout(gone)
  BY DEF Seal, SealDurably
<1>3. /\ pc' = "publish"
      /\ job' = [kind |-> "seal", next |-> SealedCatalog,
                 tail |-> ReplayTarget(SealedCatalog), heads |-> heads, obsolete |-> {}]
      /\ UNCHANGED <<manifest, settled, records, status, poison, catalog, tail, heads, revived>>
  BY DEF Seal, SealDurably, engine
<1>4. /\ KeptNow(catalog) /\ heads = HeadsIn(catalog, headFiles)
      /\ Meant(catalog, heads, records, revived) /\ records \in Seq(Rec) /\ Legal(records)
      /\ Len(records) \in Nat /\ catalog.checkpoint \in 0 .. Len(records)
  BY <1>1, Idle
<1>5. PICK d : d = SealedCatalog
  OBVIOUS
<1>6. PICK rows, added : Seals(catalog, d, records, rows, added)
  BY <1>1, <1>5, SealedIs
<1>7. Meant(d, heads, records, revived)
  BY <1>4, <1>6, SealMeans
<1>8. HeadsIn(catalog, headFiles') = heads
  BY <1>2, <1>4, HeadsSpared
<1>9. d.headsGeneration = catalog.headsGeneration
  BY <1>1, <1>5, SealedIs
<1>10. HeadsIn(d, headFiles') = heads
  BY <1>8, <1>9 DEF HeadsIn
<1>11. ReplayTarget(d) = TailAt(records, d.checkpoint, Len(records))
  <2>1. d.checkpoint = Len(records) /\ d.tableHigh = HighAt(records, Len(records))
        /\ d.clocks = [t \in LiveAt(records, Len(records)) |-> LastAt(records, Len(records), t)]
    BY <1>6 DEF Seals
  <2>2. d.checkpoint \in 0 .. Len(records) /\ d.tableHigh = HighAt(records, d.checkpoint)
        /\ d.clocks = [t \in LiveAt(records, d.checkpoint) |-> LastAt(records, d.checkpoint, t)]
    BY <1>4, <2>1
  <2>3. ReplayTarget(d) = TailAt(records, d.checkpoint, d.checkpoint)
    BY <1>4, <2>2, Replaying
  <2> QED
    BY <2>1, <2>3
<1>12. job'.kind = "seal" /\ job'.next = d /\ job'.heads = heads /\ job'.tail = ReplayTarget(d)
  BY <1>3, <1>5
<1> QED
  BY <1>1, <1>3, <1>4, <1>7, <1>8, <1>10, <1>11, <1>12, PreparationMeans

(* Compaction, for any units that are listed. *)
LEMMA CompactPrepares ==
    ASSUME IInv, FInv, Healthy, NEW inputs, NEW files, inputs \subseteq catalog.units, inputs # {},
           Compact(inputs, files),
           HeadsIn(catalog, headFiles') = HeadsIn(catalog, headFiles)
    PROVE  FInv'
<1> DEFINE merged == [id |-> NextUnit, level |-> First(inputs).level + 1,
                      rows |-> UNION {u.rows : u \in inputs}]
           next == [catalog EXCEPT !.generation = NextGeneration, !.unitHigh = NextUnit,
                                   !.units = (@ \ inputs) \cup {merged}]
<1>1. /\ KeptNow(catalog) /\ IsCatalog(catalog) /\ heads = HeadsIn(catalog, headFiles)
      /\ Meant(catalog, heads, records, revived)
      /\ tail = TailAt(records, catalog.checkpoint, Len(records))
  BY Idle DEF KeptNow, Kept
<1>2. /\ pc' = "publish"
      /\ job' = [kind |-> "compact", next |-> next, tail |-> tail, heads |-> heads,
                 obsolete |-> {[area |-> "units", id |-> u.id] : u \in inputs}]
      /\ UNCHANGED <<manifest, settled, records, status, poison, catalog, tail, heads, revived>>
  BY DEF Compact, engine, log
<1>3. merged.rows = UNION {u.rows : u \in inputs}
  OBVIOUS
<1>4. next \in Fields(NextGeneration, NextUnit, catalog.tableHigh, catalog.checkpoint,
                      catalog.floor, catalog.headsGeneration, catalog.clocks,
                      (catalog.units \ inputs) \cup {merged})
  <2> HIDE DEF merged
  <2> QED
    BY <1>1, Successors
<1> HIDE DEF next, merged
<1>5. /\ next.checkpoint = catalog.checkpoint /\ next.tableHigh = catalog.tableHigh
      /\ next.clocks = catalog.clocks /\ next.floor = catalog.floor
      /\ next.units = (catalog.units \ inputs) \cup {merged}
      /\ next.headsGeneration = catalog.headsGeneration
  BY <1>4 DEF Fields
<1>6. Meant(next, heads, records, revived)
  BY <1>1, <1>3, <1>5, CompactMeans
<1>7. HeadsIn(next, headFiles') = heads
  BY <1>1, <1>5 DEF HeadsIn
<1>8. job'.kind = "compact" /\ job'.next = next /\ job'.heads = heads /\ job'.tail = tail
  BY <1>2
<1> QED
  BY <1>1, <1>2, <1>5, <1>6, <1>7, <1>8, PreparationMeans

(* Compaction of a level and of a window. *)
LEMMA CompactionMeans ==
    ASSUME IInv, FInv,
           \/ \E level \in 0 .. 1 : CompactLevel(level)
           \/ \E level, width : CompactWindow(level, width)
    PROVE  FInv'
<1>1. CASE \E level \in 0 .. 1 : CompactLevel(level)
  <2>1. PICK level \in 0 .. 1 : CompactLevel(level)
    BY <1>1
  <2>2. PICK gone \in Reapable : /\ Compact(SelectRun(level), UnitsWithout(gone))
                                 /\ headFiles' = HeadsWithout(gone)
    BY <2>1 DEF CompactLevel
  <2>3. Healthy /\ SelectRun(level) # {} /\ SelectRun(level) \subseteq catalog.units
    BY <2>1 DEF CompactLevel, SelectRun, RunFrom
  <2>4. HeadsIn(catalog, headFiles') = HeadsIn(catalog, headFiles)
    BY <2>2, <2>3, Idle, HeadsSpared
  <2> QED
    BY <2>2, <2>3, <2>4, CompactPrepares
<1>2. CASE \E level, width : CompactWindow(level, width)
  <2>1. PICK level, width : CompactWindow(level, width)
    BY <1>2
  <2>2. /\ Healthy /\ Compact(ClosedWindow(level, width), unitFiles) /\ headFiles' = headFiles
        /\ ClosedWindow(level, width) # {} /\ ClosedWindow(level, width) \subseteq catalog.units
    BY <2>1 DEF CompactWindow, ClosedWindow, RunFrom
  <2> QED
    BY <2>2, CompactPrepares
<1> QED
  BY <1>1, <1>2

(* Retention. *)
LEMMA RetainPrepares ==
    ASSUME IInv, FInv, NEW cutoff, Retain(cutoff)
    PROVE  FInv'
<1> DEFINE expired == Expired(cutoff)
           floor == FloorAfter(expired)
           next == [catalog EXCEPT !.generation = NextGeneration, !.floor = floor,
                        !.headsGeneration = NextGeneration, !.units = @ \ expired]
<1>1. Healthy /\ expired # {} /\ floor > catalog.floor /\ expired \subseteq catalog.units
  BY DEF Retain, Expired
<1>2. PICK gone \in Reapable :
          headFiles' = With(HeadsWithout(gone), NextGeneration, Folded(expired))
  BY DEF Retain
<1>3. /\ pc' = "publish"
      /\ job'.kind = "retain" /\ job'.next = next /\ job'.tail = tail
      /\ job'.heads = Folded(expired)
      /\ UNCHANGED <<manifest, settled, records, status, poison, catalog, tail, heads, revived>>
  BY DEF Retain, engine, log
<1>4. /\ KeptNow(catalog) /\ IsCatalog(catalog) /\ heads = HeadsIn(catalog, headFiles)
      /\ Meant(catalog, heads, records, revived) /\ records \in Seq(Rec) /\ Legal(records)
      /\ Len(records) \in Nat /\ catalog.checkpoint \in 0 .. Len(records)
      /\ tail = TailAt(records, catalog.checkpoint, Len(records))
  BY <1>1, Idle DEF KeptNow, Kept
<1>5. /\ NextGeneration \in Nat /\ NextGeneration # 0
      /\ catalog.headsGeneration # NextGeneration
  BY <1>4 DEF IsCatalog, NextGeneration
<1>6. next \in Fields(NextGeneration, catalog.unitHigh, catalog.tableHigh,
                      catalog.checkpoint, floor, NextGeneration, catalog.clocks,
                      catalog.units \ expired)
  <2> HIDE DEF expired, floor
  <2> QED
    BY <1>4, Successors
<1> HIDE DEF next, expired
<1>7. /\ next.checkpoint = catalog.checkpoint /\ next.tableHigh = catalog.tableHigh
      /\ next.clocks = catalog.clocks /\ next.floor = FloorAfter(expired)
      /\ next.units = catalog.units \ expired /\ next.headsGeneration = NextGeneration
  BY <1>6 DEF Fields
<1>8. HeadsIn(next, headFiles') = Folded(expired)
  BY <1>2, <1>5, <1>7 DEF HeadsIn, With
<1>9. HeadsIn(catalog, headFiles') = HeadsIn(catalog, headFiles)
  <2>1. HeadsIn(catalog, HeadsWithout(gone)) = HeadsIn(catalog, headFiles)
    BY <1>4, HeadsSpared
  <2>2. ASSUME catalog.headsGeneration # 0
        PROVE  catalog.headsGeneration \in DOMAIN HeadsWithout(gone)
    <3>1. Kept(catalog, UnitsWithout(gone), HeadsWithout(gone), garbage \ gone, durable)
      BY <1>4, ReapKeeps
    <3> QED
      BY <2>2, <3>1 DEF Kept
  <2>3. ASSUME catalog.headsGeneration # 0
        PROVE  headFiles'[catalog.headsGeneration] = HeadsWithout(gone)[catalog.headsGeneration]
    BY <1>2, <1>5, <2>2, <2>3 DEF With
  <2> QED
    BY <2>1, <2>3 DEF HeadsIn
<1>10. DOMAIN tail.tables = LiveAt(records, Len(records))
  BY <1>4, TailRowsAre
<1>11. Meant(next, LastFacts(expired, heads), records, revived)
  BY <1>1, <1>4, <1>7, <1>10, RetainMeans
<1> QED
  BY <1>1, <1>3, <1>4, <1>7, <1>8, <1>9, <1>11, PreparationMeans DEF Folded

-----------------------------------------------------------------------------
(***************************************************************************)
(* Publication, readers, and the end and the beginning of a process.       *)
(***************************************************************************)
(* The MANIFEST that is renamed has been prepared. *)
LEMMA PublishMeans ==
    ASSUME IInv, FInv, Publish \/ PublishFails
    PROVE  FInv'
<1>1. /\ Publishing /\ pc # "batch" /\ pc' # "batch"
      /\ UNCHANGED <<headFiles, settled, records, status, catalog, tail, heads, revived>>
      /\ manifest' = manifest \/ manifest' = job.next
      /\ Publishing' => job' = job
      /\ poison' = poison \/ poison' = TRUE \/ poison' = FALSE
      /\ ~poison
  BY DEF Publish, PublishFails, Publishing, disk, log, engine, IInv, Control
<1>2. CatalogsMeant'
  BY <1>1 DEF FInv, CatalogsMeant
<1>3. LogFacts' /\ JobFacts' /\ BatchFacts'
  BY <1>1 DEF FInv, LogFacts, JobFacts, BatchFacts
<1>4. Applied' = Applied
  BY <1>1 DEF Applied, Appended
<1>5. EngineFacts'
  BY <1>1, <1>4 DEF FInv, EngineFacts
<1> QED
  BY <1>2, <1>3, <1>5 DEF FInv

(* What is installed is what has been published. *)
LEMMA InstallMeans ==
    ASSUME IInv, FInv, Install
    PROVE  FInv'
<1>1. /\ pc = "settle" /\ pc' \in {"idle", "reap"} /\ Publishing /\ ~Publishing'
      /\ manifest = job.next /\ settled' = job.next /\ catalog' = job.next
      /\ UNCHANGED <<headFiles, manifest, records, status, poison, revived>>
      /\ ~poison /\ status = "open" /\ KeptNow(catalog)
  BY DEF Install, IInv, OneCatalog, Control, CatalogsKept, Publishing, log
<1>2. CatalogsMeant' /\ LogFacts' /\ JobFacts' /\ BatchFacts'
  BY <1>1 DEF FInv, CatalogsMeant, LogFacts, JobFacts, BatchFacts
<1>3. Applied = Len(records) /\ Applied' = Len(records)
  <2>1. Appended = 0 /\ Appended' = 0
    BY <1>1 DEF Appended
  <2>2. Len(records) \in Nat
    BY DEF IInv, LogOK
  <2> QED
    BY <1>1, <2>1, <2>2 DEF Applied
<1>4. CASE job.kind = "takeover"
  <2>1. UNCHANGED <<tail, heads>>
    BY <1>4 DEF Install
  <2>2. job.next \in Fields(catalog.generation + 1, catalog.unitHigh, catalog.tableHigh,
                            catalog.checkpoint, catalog.floor, catalog.headsGeneration,
                            catalog.clocks, catalog.units)
    <3>1. job.next = [catalog EXCEPT !.generation = @ + 1] /\ IsCatalog(catalog)
      BY <1>1, <1>4 DEF IInv, JobOK, KeptNow, Kept
    <3> QED
      BY <3>1, Successors
  <2>3. /\ job.next.checkpoint = catalog.checkpoint
        /\ job.next.headsGeneration = catalog.headsGeneration
    BY <2>2 DEF Fields
  <2>4. heads = HeadsIn(catalog, headFiles) /\ tail = TailAt(records, catalog.checkpoint, Len(records))
    BY <1>1, <1>3 DEF FInv, EngineFacts
  <2>5. EngineFacts'
    BY <1>1, <1>3, <2>1, <2>3, <2>4 DEF EngineFacts, HeadsIn
  <2> QED
    BY <1>2, <2>5 DEF FInv
<1>5. CASE job.kind # "takeover"
  <2>1. tail' = job.tail /\ heads' = job.heads
    BY <1>5 DEF Install
  <2>2. EngineFacts'
    BY <1>1, <1>3, <1>5, <2>1 DEF FInv, JobFacts, EngineFacts
  <2> QED
    BY <1>2, <2>2 DEF FInv
<1> QED
  BY <1>4, <1>5

(* Readers change nothing here. *)
LEMMA ReadingMeans ==
    ASSUME FInv, \/ \E r \in Readers : TakeSnapshot(r) \/ DropSnapshot(r)
                 \/ UNCHANGED vars
    PROVE  FInv'
<1>1. UNCHANGED <<headFiles, manifest, settled, records, status, poison, catalog, tail,
                  heads, pc, job, revived>>
  BY DEF TakeSnapshot, DropSnapshot, vars, disk, log, engine
<1>2. Applied' = Applied /\ Appended' = Appended
  BY <1>1 DEF Applied, Appended
<1> QED
  BY <1>1, <1>2
  DEF FInv, LogFacts, CatalogsMeant, EngineFacts, JobFacts, BatchFacts, Publishing

(* The end of a process, by itself or not, leaves a catalog and a log that *)
(* belong together.                                                        *)
LEMMA GoneMeans ==
    ASSUME IInv, FInv, TakeoverFails \/ Close \/ \E power \in BOOLEAN : Crash(power)
    PROVE  FInv'
<1>1. /\ catalog' = InitialCatalog /\ pc' = "idle" /\ status' = "closed"
      /\ headFiles' = headFiles
      /\ manifest' \in {manifest, settled} /\ settled' \in {manifest, settled}
      /\ crashes < MaxCrashes
  BY DEF TakeoverFails, Close, Crash, disk, Gone
<1>2. /\ records \in Seq(Rec) /\ durable \in 0 .. Len(records) /\ Legal(records)
      /\ Len(records) \in Nat
  BY DEF IInv, LogOK, FInv, LogFacts
<1>3. PICK less \in Seq(Rec) :
          /\ records' = less /\ Len(less) \in durable .. Len(records)
          /\ \A i \in 1 .. Len(less) : less[i] = records[i]
          /\ revived \subseteq revived'
          /\ \A i \in Len(less) + 1 .. Len(records) :
                 records[i].op = "drop" => records[i].table \in revived'
  <2>1. CASE TakeoverFails
    BY <1>2, <2>1 DEF TakeoverFails, log
  <2>2. CASE ~TakeoverFails
    <3>1. PICK cut \in durable .. Len(records) :
              /\ records' = SubSeq(records, 1, cut)
              /\ revived' = revived \cup {records[i].table : i \in
                     {j \in cut + 1 .. Len(records) : records[j].op = "drop"}}
      BY <2>2 DEF Close, Crash, CutLog
    <3>2. /\ SubSeq(records, 1, cut) \in Seq(Rec) /\ Len(SubSeq(records, 1, cut)) = cut
          /\ \A i \in 1 .. cut : SubSeq(records, 1, cut)[i] = records[i]
      BY <1>2
    <3> QED
      BY <3>1, <3>2
  <2> QED
    BY <2>1, <2>2
<1>4. Len(less) \in 0 .. Len(records) /\ Len(less) <= Len(records) /\ Len(less) \in Nat
      /\ durable \in Nat
  BY <1>2, <1>3
<1>5. ASSUME NEW c, KeptNow(c), Meant(c, HeadsIn(c, headFiles), records, revived)
      PROVE  Meant(c, HeadsIn(c, headFiles'), records', revived')
  <2>1. PICK hd : hd = HeadsIn(c, headFiles)
    OBVIOUS
  <2>2. c.checkpoint \in 0 .. Len(less)
    <3>1. c.checkpoint \in 0 .. durable
      BY <1>5, KeptBounds
    <3> QED
      BY <1>2, <1>3, <1>4, <3>1
  <2>3. Meant(c, hd, less, revived')
    BY <1>2, <1>3, <1>4, <1>5, <2>1, <2>2, RecordsCut
  <2> QED
    BY <1>1, <1>3, <2>1, <2>3
<1>6. ~Publishing'
  BY <1>1 DEF Publishing
<1>7. Meant(catalog', HeadsIn(catalog', headFiles'), records', revived')
  BY <1>1, NothingMeant
<1>8. CatalogsMeant'
  BY <1>1, <1>5, <1>6, <1>7 DEF FInv, CatalogsMeant, IInv, CatalogsKept
<1>9. LogFacts'
  <2>1. Legal(less)
    BY <1>2, <1>3, <1>4, CutLegal
  <2> QED
    BY <1>3, <2>1 DEF LogFacts
<1>10. EngineFacts' /\ JobFacts' /\ BatchFacts'
  BY <1>1, <1>6 DEF EngineFacts, JobFacts, BatchFacts
<1> QED
  BY <1>8, <1>9, <1>10 DEF FInv

(* An open rebuilds the tail. *)
LEMMA OpenMeans ==
    ASSUME IInv, FInv, Open
    PROVE  FInv'
<1>1. /\ status = "closed" /\ pc = "idle" /\ KeptNow(manifest) /\ Loadable
      /\ records \in Seq(Rec) /\ Legal(records) /\ Len(records) \in Nat
      /\ manifest.checkpoint \in 0 .. Len(records)
      /\ Meant(manifest, HeadsIn(manifest, headFiles), records, revived)
  <2>1. status = "closed" /\ pc = "idle" /\ KeptNow(manifest)
    BY DEF Open, OpenSettling, IInv, Control, CatalogsKept
  <2>2. Len(records) \in Nat /\ manifest.checkpoint \in 0 .. Len(records)
    BY <2>1, KeptBounds
  <2>3. Loadable
    BY <2>1, <2>2 DEF Loadable, KeptNow, Kept
  <2> QED
    BY <2>1, <2>2, <2>3 DEF IInv, LogOK, FInv, LogFacts, CatalogsMeant
<1> DEFINE oldHeads == DOMAIN headFiles \ {manifest.headsGeneration}
           next == [manifest EXCEPT !.generation = @ + 1]
<1>2. /\ \E left \in SUBSET oldHeads : headFiles' = Without(headFiles, oldHeads \ left)
      /\ status' = "open" /\ catalog' = manifest /\ settled' = manifest
      /\ heads' = LoadedHeads(manifest) /\ tail' = Replay(manifest, records)
      /\ UNCHANGED <<manifest, records, poison, revived>>
      /\ \/ UNCHANGED <<pc, job>>
         \/ pc' = "publish" /\ job' = [kind |-> "takeover", next |-> next]
  BY <1>1 DEF Open, OpenSettling
<1>3. HeadsIn(manifest, headFiles') = HeadsIn(manifest, headFiles)
  BY <1>1, <1>2 DEF HeadsIn, KeptNow, Kept, Without, Restrict
<1>4. next \in Fields(manifest.generation + 1, manifest.unitHigh, manifest.tableHigh,
                      manifest.checkpoint, manifest.floor, manifest.headsGeneration,
                      manifest.clocks, manifest.units)
  BY <1>1, Successors DEF KeptNow, Kept
<1> HIDE DEF next, oldHeads
<1>5. Meant(next, HeadsIn(next, headFiles'), records, revived)
  <2>1. /\ next.checkpoint = manifest.checkpoint /\ next.tableHigh = manifest.tableHigh
        /\ next.clocks = manifest.clocks /\ next.floor = manifest.floor
        /\ next.units = manifest.units /\ next.headsGeneration = manifest.headsGeneration
    BY <1>4 DEF Fields
  <2>2. HeadsIn(next, headFiles') = HeadsIn(manifest, headFiles)
    BY <1>3, <2>1 DEF HeadsIn
  <2> QED
    BY <1>1, <2>1, <2>2, SameMeaning
<1>6. Publishing' => job'.next = next /\ job'.kind = "takeover"
  BY <1>1, <1>2 DEF Publishing
<1>7. CatalogsMeant'
  BY <1>1, <1>2, <1>3, <1>5, <1>6 DEF CatalogsMeant
<1>8. LogFacts' /\ JobFacts' /\ BatchFacts'
  BY <1>1, <1>2, <1>6 DEF FInv, LogFacts, JobFacts, BatchFacts
<1>9. Applied' = Len(records)
  <2>1. Appended' = 0
    BY <1>1, <1>2 DEF Appended
  <2> QED
    BY <1>1, <1>2, <2>1 DEF Applied
<1>10. Replay(manifest, records) = TailAt(records, manifest.checkpoint, Len(records))
  BY <1>1, Replaying DEF Meant, CatalogFacts
<1>11. heads' = HeadsIn(manifest, headFiles)
  BY <1>2 DEF LoadedHeads, HeadsIn
<1>12. EngineFacts'
  BY <1>2, <1>3, <1>9, <1>10, <1>11 DEF EngineFacts
<1> QED
  BY <1>7, <1>8, <1>12 DEF FInv

-----------------------------------------------------------------------------
(***************************************************************************)
(* The invariant is inductive.                                             *)
(***************************************************************************)
(* The beginning, with the tables founded. *)
LEMMA InitMeans == Init => FInv
<1> SUFFICES ASSUME Init PROVE FInv
  OBVIOUS
<1>1. /\ manifest = InitialCatalog /\ settled = InitialCatalog /\ catalog = InitialCatalog
      /\ status = "open" /\ poison = FALSE /\ pc = "idle" /\ ~Publishing
      /\ heads = NoHeads /\ tail = Replay(InitialCatalog, records)
      /\ InitialCatalog.headsGeneration = 0 /\ InitialCatalog.checkpoint = 0
  BY DEF Init, Publishing, InitialCatalog
<1>2. /\ records \in Seq(Rec) /\ Founded \in Nat /\ Len(records) = Founded
      /\ \A i \in 1 .. Founded : /\ records[i].op = "create" /\ records[i].table = i
  <2>1. Founded \in Nat
    BY TablesAssumption, FS_CardinalityType
  <2>2. IInv
    BY InitKeeps
  <2> QED
    BY <2>1, <2>2 DEF Init, Record, IInv, LogOK
<1>3. PICK recs \in Seq(Rec), m \in Nat :
          /\ recs = records /\ Len(recs) = m
          /\ \A i \in 1 .. m : recs[i].op = "create" /\ recs[i].table = i
  BY <1>2
<1>4. \A n \in 0 .. m : Creations(recs, n) = 1 .. n
  BY <1>3 DEF Creations
<1>5. \A n \in 0 .. m : HighAt(recs, n) = n
  <2> TAKE n \in 0 .. m
  <2>1. n \in Int /\ 1 \in Int /\ (IF 1 <= n THEN n - 1 + 1 ELSE 0) = n
    OBVIOUS
  <2>2. Cardinality(1 .. n) = n
    BY <2>1, FS_Interval
  <2> QED
    BY <1>4, <2>2 DEF HighAt
<1>6. Legal(recs)
  <2> SUFFICES ASSUME NEW i \in 1 .. m
               PROVE  Valid(TailAt(recs, 0, i - 1), recs[i]) /\ recs[i].table \in 1 .. HighAt(recs, i)
    BY <1>3 DEF Legal
  <2>1. i - 1 \in 0 .. m /\ i \in 0 .. m /\ i \in 1 .. i
    OBVIOUS
  <2>2. HighAt(recs, i - 1) = i - 1 /\ HighAt(recs, i) = i
    BY <1>5, <2>1
  <2>3. recs[i].op = "create" /\ recs[i].table = i
    BY <1>3
  <2>4. recs[i].op \in {"create", "drop", "append"} /\ recs[i].table = HighAt(recs, i - 1) + 1
    BY <2>2, <2>3
  <2> QED
    BY <2>1, <2>2, <2>3, <2>4, ValidIs
<1>7. LogFacts
  BY <1>3, <1>6 DEF LogFacts
<1>8. Meant(InitialCatalog, HeadsIn(InitialCatalog, headFiles), records, revived)
  BY NothingMeant
<1>9. CatalogsMeant
  BY <1>1, <1>8 DEF CatalogsMeant
<1>10. Replay(InitialCatalog, recs) = TailAt(recs, 0, Len(recs))
  <2>1. CatalogFacts(InitialCatalog, HeadsIn(InitialCatalog, headFiles), recs)
    BY <1>3, <1>8 DEF Meant
  <2>2. InitialCatalog.checkpoint \in 0 .. Len(recs)
    BY <1>1, <1>3
  <2> QED
    BY <1>1, <1>3, <1>6, <2>1, <2>2, Replaying DEF CatalogFacts
<1>11. Applied = Len(records)
  <2>1. Appended = 0
    BY <1>1 DEF Appended
  <2> QED
    BY <1>2, <2>1 DEF Applied
<1>12. EngineFacts
  BY <1>1, <1>3, <1>10, <1>11 DEF EngineFacts, HeadsIn
<1> QED
  BY <1>1, <1>7, <1>9, <1>12 DEF FInv, JobFacts, BatchFacts

(* All mutations. *)
LEMMA MutationMeans ==
    ASSUME IInv, FInv, Mutation
    PROVE  FInv'
<1>1. \A op \in {"create", "drop", "append"}, t \in Tables, at \in Timestamps \cup {0} :
          Record(op, t, at) \in Rec /\ Record(op, t, at).op = op
  BY DEF Record, Rec, IInv, LogOK
<1>2. CASE AppendRow
  <2>1. PICK t \in Tables, at \in Timestamps : Mutate(Record("append", t, at))
    BY <1>2 DEF AppendRow
  <2> QED
    BY <1>1, <2>1, MutateMeans
<1>3. CASE CreateTable
  BY <1>1, <1>3, MutateMeans DEF CreateTable
<1>4. CASE DropTable
  <2>1. PICK t \in Droppable : Mutate(Record("drop", t, 0))
    BY <1>4 DEF DropTable
  <2> QED
    BY <1>1, <2>1, MutateMeans, TablesAssumption
<1>5. CASE AppendRows
  <2>1. PICK t \in Tables, n \in 1 .. MaxBatch : \E ats \in [1 .. n -> Timestamps] :
            BeginBatch([i \in 1 .. n |-> Record("append", t, ats[i])])
    BY <1>5 DEF AppendRows
  <2>2. PICK ats \in [1 .. n -> Timestamps] :
            BeginBatch([i \in 1 .. n |-> Record("append", t, ats[i])])
    BY <2>1
  <2>3. n \in Nat
    BY BoundsAssumption
  <2>4. \A i \in 1 .. n : Record("append", t, ats[i]) \in Rec
                          /\ Record("append", t, ats[i]).op = "append"
    BY <1>1, <2>2
  <2> DEFINE recs == [i \in 1 .. n |-> Record("append", t, ats[i])]
  <2>5. recs \in Seq(Rec) /\ Len(recs) = n
    BY <2>3, <2>4
  <2>6. \A i \in 1 .. Len(recs) : recs[i].op = "append"
    BY <2>4, <2>5
  <2> QED
    BY <2>2, <2>5, <2>6, BatchBegins
<1>6. CASE BatchRecord
  BY <1>6, BatchContinues
<1>7. CASE BatchFails
  BY <1>7, BatchStops
<1>8. CASE Sync \/ Tidy
  BY <1>8, TidyMeans
<1> QED
  BY <1>2, <1>3, <1>4, <1>5, <1>6, <1>7, <1>8 DEF Mutation

(* All of maintenance. *)
LEMMA MaintenanceMeans ==
    ASSUME IInv, FInv, Maintenance
    PROVE  FInv'
<1>1. CASE Seal
  BY <1>1, SealPrepares
<1>2. CASE (\E level \in 0 .. 1 : CompactLevel(level))
           \/ CompactWindow(0, L1Window) \/ CompactWindow(1, L2Window)
  BY <1>2, CompactionMeans
<1>3. CASE \E cutoff \in {at + 1 : at \in Timestamps} : Retain(cutoff)
  BY <1>3, RetainPrepares
<1>4. CASE Publish \/ PublishFails
  BY <1>4, PublishMeans
<1>5. CASE Install
  BY <1>5, InstallMeans
<1>6. CASE FinishMaintenance
  BY <1>6, TidyMeans
<1> QED
  BY <1>1, <1>2, <1>3, <1>4, <1>5, <1>6 DEF Maintenance

(* The invariant holds. *)
LEMMA FactsInductive == Spec => []FInv
<1>1. IInv /\ FInv /\ [Next]_vars => FInv'
  <2> SUFFICES ASSUME IInv, FInv, [Next]_vars PROVE FInv'
    OBVIOUS
  <2>1. CASE Mutation
    BY <2>1, MutationMeans
  <2>2. CASE Maintenance
    BY <2>2, MaintenanceMeans
  <2>3. CASE Reading \/ UNCHANGED vars
    BY <2>3, ReadingMeans DEF Reading
  <2>4. CASE TakeoverFails \/ Close \/ \E power \in BOOLEAN : Crash(power)
    BY <2>4, GoneMeans
  <2>5. CASE Open
    BY <2>5, OpenMeans
  <2> QED
    BY <2>1, <2>2, <2>3, <2>4, <2>5 DEF Next
<1> QED
  BY <1>1, Inductive, InitMeans, PTL DEF Spec

-----------------------------------------------------------------------------
(***************************************************************************)
(* The theorems.                                                           *)
(***************************************************************************)
(* What the properties see of the engine, in the terms of the invariant. *)
LEMMA Views ==
    ASSUME IInv, FInv, Mirrored
    PROVE  /\ tail = TailAt(records, catalog.checkpoint, Len(records))
           /\ Meant(catalog, heads, records, revived)
           /\ records \in Seq(Rec) /\ Legal(records) /\ Len(records) \in Nat
           /\ catalog.checkpoint \in 0 .. Len(records)
           /\ \A t : Logged(t) = RowsOf(records, 0, Len(records), t)
<1>1. /\ status = "open" /\ ~poison /\ pc # "batch" /\ KeptNow(catalog)
      /\ records \in Seq(Rec) /\ Legal(records)
  BY DEF Mirrored, IInv, CatalogsKept, LogOK, FInv, LogFacts
<1>2. Len(records) \in Nat /\ catalog.checkpoint \in 0 .. Len(records)
  BY <1>1, KeptBounds
<1>3. Applied = Len(records)
  <2>1. Appended = 0
    BY <1>1 DEF Appended
  <2> QED
    BY <1>2, <2>1 DEF Applied
<1>4. /\ tail = TailAt(records, catalog.checkpoint, Len(records))
      /\ heads = HeadsIn(catalog, headFiles)
  BY <1>1, <1>3 DEF FInv, EngineFacts
<1>5. Meant(catalog, heads, records, revived)
  BY <1>4 DEF FInv, CatalogsMeant
<1>6. ASSUME NEW t
      PROVE  Logged(t) = RowsOf(records, 0, Len(records), t)
  <2>1. DOMAIN records = 1 .. Len(records) /\ 0 + 1 .. Len(records) = 1 .. Len(records)
    BY <1>1
  <2>2. \A i : RowOf(records[i]).table = records[i].table
    BY DEF RowOf
  <2>3. ASSUME NEW q \in Logged(t)
        PROVE  q \in RowsOf(records, 0, Len(records), t)
    <3>1. PICK i \in DOMAIN records :
              records[i].op = "append" /\ records[i].table = t /\ q = RowOf(records[i])
      BY <2>3 DEF Logged
    <3> QED
      BY <2>1, <2>2, <3>1 DEF RowsOf, Rows
  <2>4. ASSUME NEW q \in RowsOf(records, 0, Len(records), t)
        PROVE  q \in Logged(t)
    <3>1. PICK i \in 1 .. Len(records) : records[i].op = "append" /\ q = RowOf(records[i]) /\ q.table = t
      BY <2>1, <2>4 DEF RowsOf, Rows
    <3>2. records[i].table = t
      BY <2>2, <3>1
    <3> QED
      BY <2>1, <3>1, <3>2 DEF Logged
  <2> QED
    BY <2>3, <2>4
<1> QED
  BY <1>1, <1>2, <1>4, <1>5, <1>6

(* The rows that have expired are those in front of the checkpoint that no *)
(* unit lists.                                                             *)
LEMMA ExpiredAre ==
    ASSUME IInv, FInv, Mirrored, NEW t \in DOMAIN tail.tables
    PROVE  /\ t \in LiveAt(records, Len(records))
           /\ tail.tables[t].rows = RowsOf(records, catalog.checkpoint, Len(records), t)
           /\ tail.tables[t].last = LastAt(records, Len(records), t)
           /\ \A u \in catalog.units : Section(u, t) \subseteq RowsOf(records, 0, catalog.checkpoint, t)
           /\ RowsOf(records, 0, catalog.checkpoint, t)
                  \cap RowsOf(records, catalog.checkpoint, Len(records), t) = {}
           /\ Stored(t) \subseteq Logged(t)
           /\ Logged(t) \ Stored(t) = RowsOf(records, 0, catalog.checkpoint, t) \ Listed(catalog)
           /\ Logged(t) # Stored(t) => Logged(t) \ Stored(t) # {}
           /\ Logged(t) \ Stored(t) # {} => t \in LiveAt(records, catalog.checkpoint)
<1> DEFINE n == Len(records)
           cp == catalog.checkpoint
<1>1. /\ tail = TailAt(records, cp, n) /\ CatalogFacts(catalog, heads, records)
      /\ records \in Seq(Rec) /\ Legal(records) /\ n \in Nat /\ cp \in 0 .. n /\ n \in 0 .. n
      /\ Logged(t) = RowsOf(records, 0, n, t)
  BY Views DEF Meant
<1> HIDE DEF n, cp
<1>2. /\ t \in LiveAt(records, n) /\ tail.tables[t].rows = RowsOf(records, cp, n, t)
      /\ tail.tables[t].last = LastAt(records, n, t)
  BY <1>1 DEF TailAt
<1>3. n \in 0 .. Len(records)
  BY <1>1 DEF n
<1>4. /\ Rows(records, 0, n) = Rows(records, 0, cp) \cup Rows(records, cp, n)
      /\ Rows(records, 0, cp) \cap Rows(records, cp, n) = {}
  BY <1>1, <1>3, RowsSplit
<1>5. RowsOf(records, 0, cp, t) # {} => t \in LiveAt(records, cp)
  BY <1>1, <1>2, <1>3, LiveBefore
<1>6. \A u \in catalog.units : u.rows \subseteq Rows(records, 0, cp)
  BY <1>1 DEF CatalogFacts, cp
<1>7. \A q : q \in Stored(t) <=> \/ q \in Listed(catalog) /\ q.table = t
                                 \/ q \in RowsOf(records, cp, n, t)
  <2>1. \A q : q \in UNION {Section(u, t) : u \in catalog.units}
                   <=> q \in Listed(catalog) /\ q.table = t
    BY DEF Listed, Section
  <2> QED
    BY <1>2, <2>1 DEF Stored
<1>8. Listed(catalog) \subseteq Rows(records, 0, cp)
  BY <1>6 DEF Listed
<1>9. \A u \in catalog.units : Section(u, t) \subseteq RowsOf(records, 0, cp, t)
  BY <1>6 DEF Section, RowsOf
<1>10. RowsOf(records, 0, cp, t) \cap RowsOf(records, cp, n, t) = {}
  BY <1>4 DEF RowsOf
<1>11. /\ Stored(t) \subseteq Logged(t)
       /\ Logged(t) \ Stored(t) = RowsOf(records, 0, cp, t) \ Listed(catalog)
  <2>1. \A q : q \in Logged(t) <=> (q \in Rows(records, 0, cp) \/ q \in Rows(records, cp, n)) /\ q.table = t
    BY <1>1, <1>4 DEF RowsOf
  <2>2. \A q : q \in Stored(t) <=> /\ q \in Listed(catalog) \/ q \in Rows(records, cp, n)
                                   /\ q.table = t
    BY <1>7 DEF RowsOf
  <2>3. \A q : q \in RowsOf(records, 0, cp, t) <=> q \in Rows(records, 0, cp) /\ q.table = t
    BY DEF RowsOf
  <2> QED
    BY <1>4, <1>8, <2>1, <2>2, <2>3
<1> QED
  BY <1>2, <1>5, <1>9, <1>10, <1>11 DEF n, cp

(* The invariant has what is claimed. *)
LEMMA RowsMean ==
    ASSUME IInv, FInv
    PROVE  RowsOnce
<1> SUFFICES ASSUME Mirrored, NEW t \in DOMAIN tail.tables
             PROVE  /\ Stored(t) \subseteq Logged(t)
                    /\ \A u \in catalog.units :
                           /\ Section(u, t) \cap tail.tables[t].rows = {}
                           /\ \A v \in catalog.units : v = u \/ Section(u, t) \cap Section(v, t) = {}
                    /\ \A r \in Logged(t) \ Stored(t) : r.at < catalog.floor
  BY DEF RowsOnce
<1>1. CatalogFacts(catalog, heads, records)
  BY Views DEF Meant
<1>2. \A u, v \in catalog.units : v = u \/ Section(u, t) \cap Section(v, t) = {}
  BY <1>1 DEF CatalogFacts, Section
<1>3. \A u \in catalog.units : Section(u, t) \cap tail.tables[t].rows = {}
  BY ExpiredAre
<1>4. \A r \in Logged(t) \ Stored(t) : r.at < catalog.floor
  BY <1>1, ExpiredAre DEF CatalogFacts
<1> QED
  BY <1>2, <1>3, <1>4, ExpiredAre

LEMMA HeadsMean ==
    ASSUME IInv, FInv
    PROVE  HeadsLatest /\ HeadsKept
<1>1. ASSUME Mirrored
      PROVE  /\ CatalogFacts(catalog, heads, records) /\ HeadsCover(catalog, heads, records, revived)
  BY <1>1, Views DEF Meant
<1>2. HeadsLatest
  <2> SUFFICES ASSUME Mirrored, NEW t \in DOMAIN tail.tables, t \in DOMAIN heads
               PROVE  /\ heads[t] \in Logged(t) \ Stored(t)
                      /\ t \notin revived =>
                             \A r \in Logged(t) \ Stored(t) : r.at <= heads[t].at
    BY DEF HeadsLatest
  <2>1. heads[t] \in Logged(t) \ Stored(t)
    BY <1>1, ExpiredAre DEF CatalogFacts
  <2>2. t \notin revived => \A r \in Logged(t) \ Stored(t) : r.at <= heads[t].at
    BY <1>1, ExpiredAre DEF HeadsCover
  <2> QED
    BY <2>1, <2>2
<1>3. HeadsKept
  <2> SUFFICES ASSUME Mirrored, NEW t \in DOMAIN tail.tables \ revived, Logged(t) # Stored(t)
               PROVE  t \in DOMAIN heads
    BY DEF HeadsKept
  <2>1. PICK r : r \in Logged(t) \ Stored(t)
    BY ExpiredAre
  <2> QED
    BY <1>1, <2>1, ExpiredAre DEF HeadsCover
<1> QED
  BY <1>2, <1>3

LEMMA ClocksMean ==
    ASSUME IInv, FInv
    PROVE  ClocksExact
<1> SUFFICES ASSUME Mirrored
             PROVE  /\ \A t \in DOMAIN tail.tables :
                           tail.tables[t].last = Max({r.at : r \in Logged(t)} \cup {0})
                    /\ tail.high = Cardinality({i \in DOMAIN records : records[i].op = "create"})
  BY DEF ClocksExact
<1>1. ASSUME NEW t \in DOMAIN tail.tables
      PROVE  tail.tables[t].last = Max({r.at : r \in Logged(t)} \cup {0})
  BY <1>1, Views, ExpiredAre DEF LastAt, Times
<1>2. tail.high = HighAt(records, Len(records)) /\ DOMAIN records = 1 .. Len(records)
  BY Views DEF TailAt
<1>3. tail.high = Cardinality({i \in DOMAIN records : records[i].op = "create"})
  BY <1>2 DEF HighAt, Creations
<1> QED
  BY <1>1, <1>3

(* Every row accepted is held exactly once, in a unit or in the tail, or has *)
(* expired below the retention floor, through every order of seals,        *)
(* compactions, retentions, failures, crashes and reopenings, whatever tables *)
(* are created and dropped (maintenance.rs, retention/, open.rs).          *)
THEOREM RowsStay == Spec => []RowsOnce
BY Inductive, FactsInductive, RowsMean, PTL

(* The clock of a table is the time of its last row and tables are never   *)
(* numbered twice, across seals, retentions, crashes and reopenings        *)
(* (tail_validate.rs, Manifest::replay_target).                            *)
THEOREM ClocksStay == Spec => []ClocksExact
BY Inductive, FactsInductive, ClocksMean, PTL

(* A table whose rows have expired has its head, the only copy of its last *)
(* value, through every order of seals, compactions, retentions, drops,    *)
(* failures, crashes and reopenings, unless a crash has taken back its own *)
(* drop (retention/head.rs, db.rs).                                        *)
THEOREM HeadsStay == Spec => []HeadsKept
<1>1. IInv /\ FInv => HeadsKept
  BY HeadsMean
<1> QED
  BY <1>1, Inductive, FactsInductive, PTL

(* The rows, each once, and the heads, each of a row that has expired and  *)
(* the last of them, are the log of what was accepted; the head of a table *)
(* whose drop a crash has taken back need not be the last.                 *)
THEOREM FactsStay == Spec => []FactsAreTheLog
<1>1. IInv /\ FInv => FactsAreTheLog
  BY HeadsMean, RowsMean DEF FactsAreTheLog
<1> QED
  BY <1>1, Inductive, FactsInductive, PTL

-----------------------------------------------------------------------------
(***************************************************************************)
(* Compaction and retention stay possible while rows come in turn.         *)
(*                                                                         *)
(* Then the units of a catalog cover intervals of time that do not meet,   *)
(* whatever tables their rows are of, and everything that has expired is   *)
(* older than any of them.  A seal adds the latest interval; a compaction  *)
(* joins neighbours; what a retention takes away is the oldest.  A catalog *)
(* depends on the records behind its checkpoint only, which no crash takes *)
(* away, so this is said of each catalog and its part of the log.          *)
(***************************************************************************)
(* Every row of one set is older than every row of another. *)
Behind(rows, later) == \A r \in rows, q \in later : r.at < q.at

(* The rows of a table that have expired, for a catalog. *)
Lost(c, recs, t) == RowsOf(recs, 0, c.checkpoint, t) \ Listed(c)

(* The units of a catalog do not overlap, and what has expired is older. *)
Apart(c, recs) ==
    /\ \A u, v \in c.units : u = v \/ Behind(u.rows, v.rows) \/ Behind(v.rows, u.rows)
    /\ \A t \in LiveAt(recs, c.checkpoint) : \A u \in c.units :
           Behind(Lost(c, recs, t), u.rows)

(* The rows of the first n records came in turn. *)
Ascending(recs, n) ==
    \A i, j \in 1 .. n :
        i < j /\ recs[i].op = "append" /\ recs[j].op = "append" => recs[i].at < recs[j].at

(* If those behind its checkpoint did, a catalog is in order. *)
InOrder(c, recs) == Ascending(recs, c.checkpoint) => Apart(c, recs)

OrderInv ==
    /\ InOrder(manifest, records) /\ InOrder(settled, records) /\ InOrder(catalog, records)
    /\ Publishing => InOrder(job.next, records)

-----------------------------------------------------------------------------
(***************************************************************************)
(* The order of units that do not overlap.                                 *)
(***************************************************************************)
(* Units with identifiers and rows, one behind the other. *)
Timed(rows) == rows # {} /\ IsFiniteSet(Times(rows)) /\ \A r \in rows : r.at \in Nat
LinedUp(units) ==
    /\ \A u \in units : Timed(u.rows) /\ u.id \in Nat
    /\ \A u, v \in units : u = v \/ Behind(u.rows, v.rows) \/ Behind(v.rows, u.rows)

(* The first and the last time of rows. *)
LEMMA TimesOf ==
    ASSUME NEW rows, Timed(rows)
    PROVE  /\ Min(Times(rows)) \in Nat /\ Max(Times(rows)) \in Nat
           /\ \E r \in rows : r.at = Min(Times(rows))
           /\ \E r \in rows : r.at = Max(Times(rows))
           /\ \A r \in rows : Min(Times(rows)) <= r.at /\ r.at <= Max(Times(rows))
<1> DEFINE times == Times(rows)
<1>1. /\ times \subseteq Nat /\ times # {} /\ IsFiniteSet(times)
      /\ \A r \in rows : r.at \in times
      /\ \A x \in times : \E r \in rows : r.at = x
  BY DEF Timed, Times
<1> HIDE DEF times
<1>2. Max(times) \in times /\ \A x \in times : x <= Max(times)
  BY <1>1, MaxOfFinite
<1>3. Min(times) \in times /\ \A x \in times : Min(times) <= x
  BY <1>1, Applies!LeastNumber DEF Min
<1> QED
  BY <1>1, <1>2, <1>3 DEF times

(* Units in line are ordered as their rows are. *)
LEMMA LineOrder ==
    ASSUME NEW units, LinedUp(units)
    PROVE  /\ \A u, v \in units : /\ Precedes(u, v) <=> Behind(u.rows, v.rows)
                                  /\ u = v \/ Precedes(u, v) \/ Precedes(v, u)
                                  /\ ~(Precedes(u, v) /\ Precedes(v, u))
           /\ \A u, v, w \in units : Precedes(u, v) /\ Precedes(v, w) => Precedes(u, w)
<1>1. ASSUME NEW u \in units, NEW v \in units
      PROVE  Precedes(u, v) <=> Behind(u.rows, v.rows)
  <2>1. /\ MinTs(u) \in Nat /\ MinTs(v) \in Nat /\ u.id \in Nat /\ v.id \in Nat
        /\ \E r \in u.rows : r.at = MinTs(u)
        /\ \E q \in v.rows : q.at = MinTs(v)
    BY TimesOf DEF LinedUp, MinTs
  <2>2. CASE u = v
    BY <2>1, <2>2 DEF Precedes, Behind
  <2>3. CASE Behind(u.rows, v.rows)
    BY <2>1, <2>3 DEF Precedes, Behind
  <2>4. CASE Behind(v.rows, u.rows)
    <3>1. MinTs(v) < MinTs(u)
      BY <2>1, <2>4 DEF Behind
    <3>2. ~Precedes(u, v)
      BY <2>1, <3>1 DEF Precedes
    <3>3. ~Behind(u.rows, v.rows)
      <4>1. PICK r \in u.rows, q \in v.rows : r.at = MinTs(u) /\ q.at = MinTs(v)
        BY <2>1
      <4> QED
        BY <2>1, <3>1, <4>1 DEF Behind
    <3> QED
      BY <3>2, <3>3
  <2> QED
    BY <2>2, <2>3, <2>4 DEF LinedUp
<1>2. ASSUME NEW u \in units, NEW v \in units, Behind(u.rows, v.rows), Behind(v.rows, u.rows)
      PROVE  FALSE
  <2>1. PICK r \in u.rows, q \in v.rows : r.at \in Nat /\ q.at \in Nat
    BY DEF LinedUp, Timed
  <2> QED
    BY <1>2, <2>1 DEF Behind
<1>3. ASSUME NEW u \in units, NEW v \in units, NEW w \in units,
             Behind(u.rows, v.rows), Behind(v.rows, w.rows)
      PROVE  Behind(u.rows, w.rows)
  <2>1. PICK q \in v.rows : q.at \in Nat
    BY DEF LinedUp, Timed
  <2>2. \A r \in u.rows : r.at \in Nat /\ r.at < q.at
    BY <1>3 DEF LinedUp, Timed, Behind
  <2>3. \A r \in w.rows : r.at \in Nat /\ q.at < r.at
    BY <1>3 DEF LinedUp, Timed, Behind
  <2> QED
    BY <2>1, <2>2, <2>3 DEF Behind
<1>4. \A u, v \in units : u = v \/ Precedes(u, v) \/ Precedes(v, u)
  BY <1>1 DEF LinedUp
<1> QED
  BY <1>1, <1>2, <1>3, <1>4

(* Units that are not in a set follow or precede all of it. *)
Neighbours(units, inputs) ==
    \A w \in units \ inputs : \/ \A u \in inputs : Precedes(w, u)
                              \/ \A u \in inputs : Precedes(u, w)

(* The first unit is there. *)
LEMMA FirstIs ==
    ASSUME NEW units, LinedUp(units), units # {}
    PROVE  First(units) \in units
<1> DEFINE starts == {MinTs(u) : u \in units}
<1>1. \A u \in units : MinTs(u) \in Nat
  BY TimesOf DEF LinedUp, MinTs
<1>2. PICK m \in starts : \A k \in starts : m <= k
  <2>1. starts \subseteq Nat /\ starts # {}
    BY <1>1
  <2> HIDE DEF starts
  <2> QED
    BY <2>1, Applies!LeastNumber
<1>3. PICK u \in units : MinTs(u) = m
  BY <1>2
<1>4. ASSUME NEW v \in units, v # u
      PROVE  Precedes(u, v)
  <2>1. MinTs(u) <= MinTs(v) /\ MinTs(u) \in Nat /\ MinTs(v) \in Nat
    BY <1>1, <1>2, <1>3
  <2>2. ~Behind(v.rows, u.rows)
    <3>1. PICK r \in v.rows : r.at = MinTs(v)
      BY TimesOf DEF LinedUp, MinTs
    <3>2. PICK q \in u.rows : q.at = MinTs(u)
      BY TimesOf DEF LinedUp, MinTs
    <3> QED
      BY <2>1, <3>1, <3>2 DEF Behind
  <2> QED
    BY <1>4, <2>2, LineOrder
<1> QED
  BY <1>4 DEF First

(* A run has no stranger in it. *)
LEMMA RunIs ==
    ASSUME NEW units, LinedUp(units), NEW u \in units
    PROVE  RunFrom(u, units) \subseteq units /\ Neighbours(units, RunFrom(u, units))
<1> SUFFICES ASSUME NEW w \in units, w \notin RunFrom(u, units), ~Precedes(w, u)
             PROVE  \A v \in RunFrom(u, units) : Precedes(v, w)
  <2>1. RunFrom(u, units) \subseteq units
    BY DEF RunFrom
  <2>2. ASSUME NEW w \in units, Precedes(w, u), NEW v \in RunFrom(u, units)
        PROVE  Precedes(w, v)
    <3>1. v \in units /\ (v = u \/ Precedes(u, v))
      BY DEF RunFrom
    <3> QED
      BY <2>2, <3>1, LineOrder
  <2> QED
    BY <2>1, <2>2 DEF Neighbours
<1>1. w = u \/ Precedes(u, w)
  BY LineOrder
<1>2. PICK x \in units : ~Precedes(x, u) /\ ~Precedes(w, x) /\ x.level # u.level
  BY <1>1 DEF RunFrom
<1>3. Precedes(u, x) /\ (x = w \/ Precedes(x, w))
  BY <1>2, LineOrder
<1> TAKE v \in RunFrom(u, units)
<1>4. v \in units /\ (Precedes(x, u) \/ Precedes(v, x) \/ x.level = u.level)
  BY DEF RunFrom
<1>5. Precedes(v, x)
  BY <1>2, <1>4
<1> QED
  BY <1>3, <1>4, <1>5, LineOrder

(* What select_run takes are neighbours ... *)
LEMMA SelectedIs ==
    ASSUME LinedUp(catalog.units), NEW level
    PROVE  SelectRun(level) \subseteq catalog.units /\ Neighbours(catalog.units, SelectRun(level))
<1> DEFINE starts == {u \in catalog.units :
                        u.level = level /\ Cardinality(RunFrom(u, catalog.units)) >= 2}
<1>1. SelectRun(level) = IF starts = {} THEN {} ELSE RunFrom(First(starts), catalog.units)
  BY DEF SelectRun
<1>2. starts \subseteq catalog.units /\ LinedUp(starts)
  BY DEF LinedUp
<1> HIDE DEF starts
<1>3. starts # {} => First(starts) \in catalog.units
  BY <1>2, FirstIs
<1> QED
  BY <1>1, <1>3, RunIs DEF Neighbours

(* ... and so are those of a closed window. *)
LEMMA WindowIs ==
    ASSUME LinedUp(catalog.units), NEW level, NEW width \in Nat \ {0}
    PROVE  /\ ClosedWindow(level, width) \subseteq catalog.units
           /\ Neighbours(catalog.units, ClosedWindow(level, width))
<1> DEFINE candidates == {u \in catalog.units : u.level = level}
           first == MinTs(First(candidates))
           end == first - (first % width) + width
           run == RunFrom(First(candidates), catalog.units)
<1>1. CASE candidates = {} \/ HighWater < end
  <2>1. ClosedWindow(level, width) = {}
    BY <1>1 DEF ClosedWindow
  <2> QED
    BY <2>1 DEF Neighbours
<1>2. CASE ~(candidates = {} \/ HighWater < end)
  <2>1. ClosedWindow(level, width) = {u \in run : MinTs(u) < end}
    BY <1>2 DEF ClosedWindow
  <2>2. candidates \subseteq catalog.units /\ LinedUp(candidates)
    BY DEF LinedUp
  <2>3. First(candidates) \in catalog.units
    <3> HIDE DEF candidates
    <3> QED
      BY <1>2, <2>2, FirstIs
  <2>4. \A u \in catalog.units : MinTs(u) \in Nat
    BY TimesOf DEF LinedUp, MinTs
  <2>5. end \in Int
    <3>1. first \in Nat
      BY <2>3, <2>4
    <3> HIDE DEF first
    <3> QED
      BY <3>1
  <2>6. run \subseteq catalog.units /\ Neighbours(catalog.units, run)
    BY <2>3, RunIs
  <2> HIDE DEF run, end, first, candidates
  <2>7. ASSUME NEW w \in run, ~(MinTs(w) < end), NEW v \in run, MinTs(v) < end
        PROVE  Precedes(v, w)
    <3>1. MinTs(v) < MinTs(w)
      BY <2>4, <2>5, <2>6, <2>7
    <3> QED
      BY <3>1 DEF Precedes
  <2> QED
    BY <2>1, <2>6, <2>7 DEF Neighbours
<1> QED
  BY <1>1, <1>2

(* The units of a catalog that is meant are in line. *)
LEMMA MeantInLine ==
    ASSUME NEW c, NEW hd, NEW recs \in Seq(Rec), c.checkpoint \in 0 .. Len(recs), IsCatalog(c),
           CatalogFacts(c, hd, recs), Apart(c, recs)
    PROVE  LinedUp(c.units)
<1>1. ASSUME NEW u \in c.units
      PROVE  Timed(u.rows) /\ u.id \in Nat
  <2>1. u.rows # {} /\ u.rows \in SUBSET Rows(recs, 0, c.checkpoint)
    BY DEF CatalogFacts
  <2>2. IsFiniteSet(Times(u.rows)) /\ \A r \in u.rows : r.at \in Nat
    BY <2>1, RowsFinite
  <2>3. u.id \in Nat
    BY DEF IsCatalog
  <2> QED
    BY <2>1, <2>2, <2>3 DEF Timed
<1> QED
  BY <1>1 DEF LinedUp, Apart

-----------------------------------------------------------------------------
(***************************************************************************)
(* What maintenance finds is in order.                                     *)
(***************************************************************************)
(* A section and its times. *)
LEMMA SectionTimed ==
    ASSUME NEW u, Timed(u.rows), NEW t, Section(u, t) # {}
    PROVE  Timed(Section(u, t)) /\ Section(u, t) \subseteq u.rows
<1>1. Section(u, t) \subseteq u.rows
  BY DEF Section
<1>2. Times(Section(u, t)) \subseteq Times(u.rows)
  BY <1>1 DEF Times
<1> QED
  BY <1>1, <1>2, FS_Subset DEF Timed

(* The sections of units in line are in order. *)
LEMMA LineSections ==
    ASSUME NEW inputs, LinedUp(inputs), NEW t
    PROVE  SectionsOrdered(inputs, t)
<1> SUFFICES ASSUME NEW u \in inputs, NEW v \in inputs, Section(u, t) # {},
                    Section(v, t) # {}, Precedes(u, v)
             PROVE  Max(Times(Section(u, t))) < Min(Times(Section(v, t)))
  BY DEF SectionsOrdered
<1>1. ASSUME NEW w \in inputs, Section(w, t) # {}
      PROVE  Timed(Section(w, t)) /\ Section(w, t) \subseteq w.rows
  BY <1>1, SectionTimed DEF LinedUp
<1>2. Behind(Section(u, t), Section(v, t))
  BY <1>1, LineOrder DEF Behind
<1>3. PICK r \in Section(u, t) : r.at = Max(Times(Section(u, t)))
  BY <1>1, TimesOf
<1>4. PICK q \in Section(v, t) : q.at = Min(Times(Section(v, t)))
  BY <1>1, TimesOf
<1> QED
  BY <1>2, <1>3, <1>4 DEF Behind

(* Any units in line can be merged. *)
LEMMA LineMergeable ==
    ASSUME NEW inputs, LinedUp(inputs),
           \A u \in inputs : \A r \in u.rows : r.table \in DOMAIN tail.tables
    PROVE  Mergeable(inputs)
BY LineSections DEF Mergeable

(* What maintenance finds, and queries, when rows came in turn. *)
LEMMA FoundInLine ==
    ASSUME IInv, FInv, OrderInv, Healthy \/ Mirrored, Ascending(records, catalog.checkpoint)
    PROVE  LinedUp(catalog.units) /\ Apart(catalog, records)
<1>1. Healthy => Mirrored
  BY DEF Healthy, Locked, Mirrored
<1>2. /\ CatalogFacts(catalog, heads, records) /\ IsCatalog(catalog) /\ records \in Seq(Rec)
      /\ catalog.checkpoint \in 0 .. Len(records)
  BY <1>1, Views DEF Meant, IInv, CatalogsKept, KeptNow, Kept
<1>3. Apart(catalog, records)
  BY DEF OrderInv, InOrder
<1> QED
  BY <1>2, <1>3, MeantInLine

(* The sections of a table that is there are in line then. *)
LEMMA TurnInLine ==
    ASSUME IInv, FInv, OrderInv, Mirrored, InTurn, NEW t \in DOMAIN tail.tables
    PROVE  InLine(t)
<1>1. Ascending(records, catalog.checkpoint)
  BY DEF Ascending, InTurn
<1>2. LinedUp(catalog.units) /\ Apart(catalog, records)
  BY <1>1, FoundInLine
<1>3. /\ Logged(t) \ Stored(t) = Lost(catalog, records, t)
      /\ Logged(t) \ Stored(t) # {} => t \in LiveAt(records, catalog.checkpoint)
  BY ExpiredAre DEF Lost
<1>4. \A u \in catalog.units : \A r \in Section(u, t), q \in Logged(t) \ Stored(t) :
          q.at < r.at
  BY <1>2, <1>3 DEF Apart, Behind, Section
<1> QED
  BY <1>2, <1>4, LineSections DEF InLine

LEMMA OrderMeans ==
    ASSUME IInv, FInv, OrderInv
    PROVE  MaintenancePossible
<1> SUFFICES ASSUME Healthy, InTurn
             PROVE  /\ \A level \in 0 .. 1 : Possible(SelectRun(level))
                    /\ Possible(ClosedWindow(0, L1Window)) /\ Possible(ClosedWindow(1, L2Window))
                    /\ \A at \in Timestamps :
                           Expired(at + 1) # {} =>
                               HoldsDropped(Expired(at + 1)) \/ Foldable(Expired(at + 1))
  BY DEF MaintenancePossible
<1>1. Ascending(records, catalog.checkpoint)
  BY DEF Ascending, InTurn
<1>2. LinedUp(catalog.units) /\ Mirrored
  BY <1>1, FoundInLine DEF Healthy, Locked, Mirrored
<1>3. ASSUME NEW inputs, inputs \subseteq catalog.units, ~HoldsDropped(inputs)
      PROVE  Mergeable(inputs)
  <2>1. LinedUp(inputs)
    BY <1>2, <1>3 DEF LinedUp
  <2> QED
    BY <1>3, <2>1, LineMergeable DEF HoldsDropped
<1>4. \A level \in 0 .. 1 : Possible(SelectRun(level))
  BY <1>2, <1>3, SelectedIs DEF Possible
<1>5. Possible(ClosedWindow(0, L1Window)) /\ Possible(ClosedWindow(1, L2Window))
  BY <1>2, <1>3, WindowIs, TimesAssumption DEF Possible
<1>6. ASSUME NEW cutoff, ~HoldsDropped(Expired(cutoff))
      PROVE  Foldable(Expired(cutoff))
  <2>1. Expired(cutoff) \subseteq catalog.units
    BY DEF Expired
  <2>2. ASSUME NEW u \in Expired(cutoff), NEW t \in DOMAIN heads, NEW r \in Section(u, t)
        PROVE  r.at > heads[t].at
    <3>1. t \in DOMAIN tail.tables /\ u \in catalog.units
      BY <1>6, <2>1, <2>2 DEF HoldsDropped, Section
    <3>2. heads[t] \in Logged(t) \ Stored(t)
      BY <1>2, <3>1, HeadsMean DEF HeadsLatest
    <3>3. heads[t].at < r.at
      BY <1>2, <3>1, <3>2, TurnInLine DEF InLine
    <3>4. heads[t].at \in Nat /\ r.at \in Nat
      <4>1. \A q \in Rows(records, 0, Len(records)) : q.at \in Nat
        BY <1>2, Views, RowsFinite
      <4>2. Section(u, t) \subseteq Logged(t)
        BY <1>2, <3>1, ExpiredAre DEF Stored
      <4> QED
        BY <1>2, <3>2, <4>1, <4>2, Views DEF RowsOf
    <3> QED
      BY <3>3, <3>4
  <2> QED
    BY <1>3, <1>6, <2>1, <2>2 DEF Foldable
<1> QED
  BY <1>4, <1>5, <1>6

-----------------------------------------------------------------------------
(***************************************************************************)
(* What maintenance makes of the units.                                    *)
(***************************************************************************)
(* Rows in front of a position are older than those behind it. *)
LEMMA AscendingRows ==
    ASSUME NEW recs, NEW n \in Nat, Ascending(recs, n), NEW m \in 0 .. n
    PROVE  Behind(Rows(recs, 0, m), Rows(recs, m, n)) /\ Ascending(recs, m)
<1>1. ASSUME NEW r \in Rows(recs, 0, m), NEW q \in Rows(recs, m, n)
      PROVE  r.at < q.at
  <2>1. PICK i \in 1 .. m : recs[i].op = "append" /\ r = RowOf(recs[i])
    BY DEF Rows
  <2>2. PICK j \in m + 1 .. n : recs[j].op = "append" /\ q = RowOf(recs[j])
    BY DEF Rows
  <2>3. i \in 1 .. n /\ j \in 1 .. n /\ i < j
    OBVIOUS
  <2> QED
    BY <2>1, <2>2, <2>3 DEF Ascending, RowOf
<1>2. \A i \in 1 .. m : i \in 1 .. n
  OBVIOUS
<1> QED
  BY <1>1, <1>2 DEF Behind, Ascending

(* A seal adds a unit that is later than all. *)
LEMMA SealApart ==
    ASSUME NEW c, NEW hd, NEW recs \in Seq(Rec), Legal(recs), c.checkpoint \in 0 .. Len(recs),
           CatalogFacts(c, hd, recs), InOrder(c, recs),
           NEW d, NEW rows, NEW added, Seals(c, d, recs, rows, added)
    PROVE  InOrder(d, recs)
<1> SUFFICES ASSUME NEW n, n = Len(recs), n \in Nat, Ascending(recs, n), d.checkpoint = n,
                    NEW m, m = c.checkpoint, m \in 0 .. n
             PROVE  Apart(d, recs)
  BY DEF InOrder, Seals
<1>1. Behind(Rows(recs, 0, m), Rows(recs, m, n)) /\ Apart(c, recs)
  BY AscendingRows DEF InOrder
<1>2. /\ \A v \in added : v.rows = rows /\ added = {v}
      /\ rows \subseteq Rows(recs, m, n) /\ d.units = c.units \cup added
  BY DEF Seals
<1>3. \A u \in c.units : u.rows \subseteq Rows(recs, 0, m)
  BY DEF CatalogFacts
<1>4. \A u, v \in d.units : u = v \/ Behind(u.rows, v.rows) \/ Behind(v.rows, u.rows)
  <2>1. \A u \in c.units, v \in added : Behind(u.rows, v.rows)
    BY <1>1, <1>2, <1>3 DEF Behind
  <2>2. \A u, v \in c.units : u = v \/ Behind(u.rows, v.rows) \/ Behind(v.rows, u.rows)
    BY <1>1 DEF Apart
  <2>3. \A u, v \in added : u = v
    BY <1>2
  <2> QED
    BY <1>2, <2>1, <2>2, <2>3
<1>5. ASSUME NEW t \in LiveAt(recs, n), NEW r \in Lost(d, recs, t)
      PROVE  t \in LiveAt(recs, m) /\ r \in Lost(c, recs, t) /\ r \in Rows(recs, 0, m)
  <2>1. Rows(recs, 0, n) = Rows(recs, 0, m) \cup Rows(recs, m, n)
    BY RowsSplit
  <2>2. r \in Rows(recs, 0, n) /\ r.table = t /\ r \notin Listed(d)
    BY <1>5 DEF Lost, RowsOf
  <2>3. r \notin Listed(c) /\ (r \in Rows(recs, m, n) => r \in rows)
    BY <1>2, <2>2 DEF Listed, Seals
  <2>4. r \notin rows
    <3>1. rows # {} => \E u \in added : u.rows = rows
      BY DEF Seals
    <3> QED
      BY <1>2, <2>2, <3>1 DEF Listed
  <2>5. r \in RowsOf(recs, 0, m, t)
    BY <2>1, <2>2, <2>3, <2>4 DEF RowsOf
  <2>6. t \in LiveAt(recs, m)
    BY <2>5, LiveBefore
  <2> QED
    BY <2>3, <2>5, <2>6 DEF Lost, RowsOf
<1>6. ASSUME NEW t \in LiveAt(recs, n), NEW u \in d.units
      PROVE  Behind(Lost(d, recs, t), u.rows)
  <2>1. CASE u \in c.units
    BY <1>1, <1>5, <2>1 DEF Apart, Behind
  <2>2. CASE u \in added
    BY <1>1, <1>2, <1>5, <2>2 DEF Behind
  <2> QED
    BY <1>2, <2>1, <2>2
<1> QED
  BY <1>4, <1>6 DEF Apart

(* A compaction joins neighbours. *)
LEMMA CompactApart ==
    ASSUME NEW c, NEW recs, Apart(c, recs), LinedUp(c.units),
           NEW inputs, inputs \subseteq c.units, Neighbours(c.units, inputs),
           NEW merged, merged.rows = UNION {u.rows : u \in inputs},
           NEW d, d.units = (c.units \ inputs) \cup {merged}, d.checkpoint = c.checkpoint
    PROVE  Apart(d, recs)
<1>1. ASSUME NEW w \in c.units \ inputs
      PROVE  Behind(w.rows, merged.rows) \/ Behind(merged.rows, w.rows)
  <2>1. CASE \A u \in inputs : Precedes(w, u)
    <3>1. \A u \in inputs : Behind(w.rows, u.rows)
      BY <2>1, LineOrder
    <3> QED
      BY <3>1 DEF Behind
  <2>2. CASE \A u \in inputs : Precedes(u, w)
    <3>1. \A u \in inputs : Behind(u.rows, w.rows)
      BY <2>2, LineOrder
    <3> QED
      BY <3>1 DEF Behind
  <2> QED
    BY <2>1, <2>2 DEF Neighbours
<1>2. Listed(d) = Listed(c)
  BY DEF Listed
<1>3. \A t : Lost(d, recs, t) = Lost(c, recs, t)
  BY <1>2 DEF Lost
<1>4. \A t \in LiveAt(recs, c.checkpoint) : Behind(Lost(c, recs, t), merged.rows)
  BY DEF Apart, Behind
<1> QED
  BY <1>1, <1>3, <1>4 DEF Apart

(* A retention takes the oldest. *)
LEMMA RetainApart ==
    ASSUME NEW recs, Apart(catalog, recs), LinedUp(catalog.units), NEW cutoff,
           NEW d, d.units = catalog.units \ Expired(cutoff), d.checkpoint = catalog.checkpoint
    PROVE  Apart(d, recs)
<1> DEFINE expired == Expired(cutoff)
<1>1. expired \subseteq catalog.units
  BY DEF Expired
<1>2. ASSUME NEW w \in catalog.units \ expired, NEW u \in expired
      PROVE  Behind(u.rows, w.rows)
  <2>1. PICK x \in catalog.units : (x = w \/ Precedes(x, w)) /\ ~(MaxTs(x) < cutoff)
    BY DEF Expired
  <2>2. ~(x = u \/ Precedes(x, u))
    BY <2>1 DEF Expired
  <2>3. Precedes(u, x)
    BY <1>1, <2>2, LineOrder
  <2> QED
    BY <1>1, <2>1, <2>3, LineOrder
<1> HIDE DEF expired
<1>3. ASSUME NEW t \in LiveAt(recs, d.checkpoint), NEW r \in Lost(d, recs, t)
      PROVE  r \in Lost(catalog, recs, t) \/ \E u \in expired : r \in u.rows
  BY DEF Lost, Listed, expired
<1>4. ASSUME NEW t \in LiveAt(recs, d.checkpoint), NEW w \in d.units,
             NEW r \in Lost(d, recs, t), NEW q \in w.rows
      PROVE  r.at < q.at
  <2>1. w \in catalog.units \ expired
    BY DEF expired
  <2>2. CASE r \in Lost(catalog, recs, t)
    BY <2>1, <2>2 DEF Apart, Behind
  <2>3. CASE \E u \in expired : r \in u.rows
    BY <1>2, <2>1, <2>3 DEF Behind
  <2> QED
    BY <1>3, <2>2, <2>3
<1> QED
  BY <1>4 DEF Apart, Behind

-----------------------------------------------------------------------------
(***************************************************************************)
(* Steps.                                                                  *)
(***************************************************************************)
(* The catalogs that a step may leave without writing a new one. *)
Carried(c) == \/ c = manifest \/ c = settled \/ c = catalog \/ c = InitialCatalog
              \/ Publishing /\ c = job.next

(* A catalog knows nothing of the records behind its checkpoint. *)
LEMMA OrderAgrees ==
    ASSUME NEW c, NEW d, NEW recs, NEW other, c.checkpoint \in Nat, InOrder(c, recs),
           d.checkpoint = c.checkpoint, d.units = c.units,
           \A i \in 1 .. c.checkpoint : recs[i] = other[i]
    PROVE  InOrder(d, other)
<1> DEFINE m == c.checkpoint
<1>1. m \in Nat /\ m \in 0 .. m /\ 0 \in Nat /\ \A i \in 1 .. m : recs[i] = other[i]
  OBVIOUS
<1>2. Rows(recs, 0, m) = Rows(other, 0, m) /\ LiveAt(recs, m) = LiveAt(other, m)
  <2> HIDE DEF m
  <2> QED
    BY <1>1, Agreeing
<1>3. Ascending(other, m) => Ascending(recs, m)
  BY <1>1 DEF Ascending
<1>4. Listed(d) = Listed(c)
  BY DEF Listed
<1>5. \A t : Lost(d, other, t) = Lost(c, recs, t)
  BY <1>2, <1>4 DEF Lost, RowsOf
<1> QED
  BY <1>2, <1>3, <1>5 DEF InOrder, Apart

(* Steps that write no new catalog and leave the durable part of the log.  *)
LEMMA OrderCarried ==
    ASSUME IInv, OrderInv,
           Carried(manifest'), Carried(settled'), Carried(catalog'),
           Publishing' => Publishing /\ job'.next = job.next,
           \A i \in 1 .. durable : records[i] = records'[i]
    PROVE  OrderInv'
<1>1. ASSUME NEW c, KeptNow(c), InOrder(c, records)
      PROVE  InOrder(c, records')
  <2>1. c.checkpoint \in 0 .. durable /\ durable \in Nat
    BY <1>1, KeptBounds
  <2>2. \A i \in 1 .. c.checkpoint : records[i] = records'[i]
    BY <2>1
  <2>3. PICK recs, other : recs = records /\ other = records'
    OBVIOUS
  <2>4. InOrder(c, other)
    BY <1>1, <2>1, <2>2, <2>3, OrderAgrees
  <2> QED
    BY <2>3, <2>4
<1>2. InOrder(InitialCatalog, records')
  BY DEF InOrder, Apart, InitialCatalog
<1>3. \A c : Carried(c) => InOrder(c, records')
  BY <1>1, <1>2 DEF Carried, OrderInv, IInv, CatalogsKept
<1>4. Publishing' => InOrder(job'.next, records')
  BY <1>3 DEF Carried
<1> QED
  BY <1>3, <1>4 DEF OrderInv

(* Mutations add records behind all checkpoints. *)
LEMMA MutationOrders ==
    ASSUME IInv, OrderInv, Mutation
    PROVE  OrderInv'
<1>1. /\ UNCHANGED <<manifest, settled, catalog>> /\ ~Publishing'
      /\ records' = records \/ \E r : records' = Append(records, r)
  <2>1. ASSUME NEW r, Mutate(r)
        PROVE  /\ UNCHANGED <<manifest, settled, catalog>> /\ ~Publishing'
               /\ records' = records \/ \E q : records' = Append(records, q)
    BY <2>1 DEF Mutate, Healthy, Locked, Publishing
  <2>2. CASE AppendRow \/ CreateTable \/ DropTable
    BY <2>1, <2>2 DEF AppendRow, CreateTable, DropTable
  <2>3. CASE AppendRows
    BY <2>3 DEF AppendRows, BeginBatch, Publishing, disk, log, engine
  <2>4. CASE BatchRecord
    BY <2>4 DEF BatchRecord, Publishing, disk
  <2>5. CASE BatchFails \/ Sync \/ Tidy
    BY <2>5 DEF BatchFails, Sync, Tidy, Locked, Healthy, disk, log, engine, Publishing
  <2> QED
    BY <2>2, <2>3, <2>4, <2>5 DEF Mutation
<1>2. records \in Seq(Rec) /\ durable \in 0 .. Len(records) /\ Len(records) \in Nat
  BY DEF IInv, LogOK
<1>3. ASSUME NEW i \in 1 .. durable
      PROVE  records[i] = records'[i]
  <2>1. i \in 1 .. Len(records)
    BY <1>2
  <2> QED
    BY <1>1, <1>2, <2>1
<1> QED
  BY <1>1, <1>3, OrderCarried DEF Carried

(* A publication prepared. *)
LEMMA PreparationOrders ==
    ASSUME IInv, FInv, OrderInv, Healthy, UNCHANGED <<manifest, settled, catalog, records>>,
           InOrder(job'.next, records)
    PROVE  OrderInv'
BY Idle DEF OrderInv

LEMMA SealOrders ==
    ASSUME IInv, FInv, OrderInv, Seal
    PROVE  OrderInv'
<1>1. /\ Healthy /\ job'.next = SealedCatalog
      /\ UNCHANGED <<manifest, settled, catalog, records>>
  BY DEF Seal, SealDurably, engine
<1>2. /\ records \in Seq(Rec) /\ Legal(records) /\ catalog.checkpoint \in 0 .. Len(records)
      /\ CatalogFacts(catalog, heads, records) /\ InOrder(catalog, records)
  BY <1>1, Idle DEF Meant, OrderInv
<1>3. PICK d : d = SealedCatalog
  OBVIOUS
<1>4. PICK rows, added : Seals(catalog, d, records, rows, added)
  BY <1>1, <1>3, SealedIs
<1>5. InOrder(d, records)
  BY <1>2, <1>4, SealApart
<1> QED
  BY <1>1, <1>3, <1>5, PreparationOrders

LEMMA CompactOrders ==
    ASSUME IInv, FInv, OrderInv, Healthy, NEW inputs, NEW files, Compact(inputs, files),
           LinedUp(catalog.units) =>
               inputs \subseteq catalog.units /\ Neighbours(catalog.units, inputs)
    PROVE  OrderInv'
<1> DEFINE merged == [id |-> NextUnit, level |-> First(inputs).level + 1,
                      rows |-> UNION {u.rows : u \in inputs}]
           next == [catalog EXCEPT !.generation = NextGeneration, !.unitHigh = NextUnit,
                                   !.units = (@ \ inputs) \cup {merged}]
<1>1. job'.next = next /\ UNCHANGED <<manifest, settled, catalog, records>>
  BY DEF Compact, engine, log
<1>2. IsCatalog(catalog)
  BY Idle DEF KeptNow, Kept
<1>3. merged.rows = UNION {u.rows : u \in inputs}
  OBVIOUS
<1>4. next \in Fields(NextGeneration, NextUnit, catalog.tableHigh, catalog.checkpoint,
                      catalog.floor, catalog.headsGeneration, catalog.clocks,
                      (catalog.units \ inputs) \cup {merged})
  <2> HIDE DEF merged
  <2> QED
    BY <1>2, Successors
<1> HIDE DEF next, merged
<1>5. next.units = (catalog.units \ inputs) \cup {merged}
      /\ next.checkpoint = catalog.checkpoint
  BY <1>4 DEF Fields
<1>6. ASSUME Ascending(records, catalog.checkpoint)
      PROVE  Apart(next, records)
  <2>1. LinedUp(catalog.units) /\ Apart(catalog, records)
    BY <1>6, FoundInLine
  <2> QED
    BY <1>3, <1>5, <2>1, CompactApart
<1>7. InOrder(next, records)
  BY <1>5, <1>6 DEF InOrder
<1> QED
  BY <1>1, <1>7, PreparationOrders

LEMMA RetainOrders ==
    ASSUME IInv, FInv, OrderInv, NEW cutoff, Retain(cutoff)
    PROVE  OrderInv'
<1> DEFINE next == [catalog EXCEPT !.generation = NextGeneration,
                        !.floor = FloorAfter(Expired(cutoff)),
                        !.headsGeneration = NextGeneration, !.units = @ \ Expired(cutoff)]
<1>1. /\ Healthy /\ job'.next = next /\ UNCHANGED <<manifest, settled, catalog, records>>
  BY DEF Retain, engine, log
<1>2. IsCatalog(catalog)
  BY <1>1, Idle DEF KeptNow, Kept
<1>3. next \in Fields(NextGeneration, catalog.unitHigh, catalog.tableHigh,
                      catalog.checkpoint, FloorAfter(Expired(cutoff)), NextGeneration,
                      catalog.clocks, catalog.units \ Expired(cutoff))
  BY <1>2, Successors
<1> HIDE DEF next
<1>4. next.units = catalog.units \ Expired(cutoff) /\ next.checkpoint = catalog.checkpoint
  BY <1>3 DEF Fields
<1>5. ASSUME Ascending(records, catalog.checkpoint)
      PROVE  Apart(next, records)
  BY <1>1, <1>4, <1>5, FoundInLine, RetainApart
<1>6. InOrder(next, records)
  BY <1>4, <1>5 DEF InOrder
<1> QED
  BY <1>1, <1>6, PreparationOrders

(* All of maintenance. *)
LEMMA MaintenanceOrders ==
    ASSUME IInv, FInv, OrderInv, Maintenance
    PROVE  OrderInv'
<1>1. CASE Seal
  BY <1>1, SealOrders
<1>2. CASE \E level \in 0 .. 1 : CompactLevel(level)
  <2>1. PICK level \in 0 .. 1 :
            Healthy /\ \E gone : Compact(SelectRun(level), UnitsWithout(gone))
    BY <1>2 DEF CompactLevel
  <2> QED
    BY <2>1, SelectedIs, CompactOrders
<1>3. CASE CompactWindow(0, L1Window) \/ CompactWindow(1, L2Window)
  <2>1. ASSUME NEW level, NEW width \in Nat \ {0}, CompactWindow(level, width)
        PROVE  OrderInv'
    <3>1. Healthy /\ Compact(ClosedWindow(level, width), unitFiles)
      BY <2>1 DEF CompactWindow
    <3> QED
      BY <3>1, WindowIs, CompactOrders
  <2> QED
    BY <1>3, <2>1, TimesAssumption
<1>4. CASE \E cutoff \in {at + 1 : at \in Timestamps} : Retain(cutoff)
  BY <1>4, RetainOrders
<1>5. CASE Publish \/ PublishFails \/ Install \/ FinishMaintenance
  <2>1. records' = records /\ Carried(manifest') /\ Carried(settled') /\ Carried(catalog')
    BY <1>5 DEF Publish, PublishFails, Install, FinishMaintenance, Publishing, Carried,
                disk, log, engine
  <2>2. Publishing' => Publishing /\ job'.next = job.next
    BY <1>5 DEF Publish, PublishFails, Install, FinishMaintenance, Publishing
  <2> QED
    BY <2>1, <2>2, OrderCarried
<1> QED
  BY <1>1, <1>2, <1>3, <1>4, <1>5 DEF Maintenance

(* The end of a process leaves the durable part of the log. *)
LEMMA GoneOrders ==
    ASSUME IInv, OrderInv, TakeoverFails \/ Close \/ \E power \in BOOLEAN : Crash(power)
    PROVE  OrderInv'
<1>1. /\ catalog' = InitialCatalog /\ ~Publishing'
      /\ manifest' \in {manifest, settled} /\ settled' \in {manifest, settled}
  BY DEF TakeoverFails, Close, Crash, disk, Gone, Publishing
<1>2. \A i \in 1 .. durable : records[i] = records'[i]
  <2>1. CASE TakeoverFails
    BY <2>1 DEF TakeoverFails, log
  <2>2. CASE ~TakeoverFails
    <3>1. records \in Seq(Rec) /\ durable \in 0 .. Len(records) /\ Len(records) \in Nat
      BY DEF IInv, LogOK
    <3>2. PICK cut \in durable .. Len(records) : records' = SubSeq(records, 1, cut)
      BY <2>2 DEF Close, Crash, CutLog
    <3>3. \A i \in 1 .. cut : records'[i] = records[i]
      BY <3>1, <3>2
    <3> QED
      BY <3>1, <3>2, <3>3
  <2> QED
    BY <2>1, <2>2
<1> QED
  BY <1>1, <1>2, OrderCarried DEF Carried

(* An open. *)
LEMMA OpenOrders ==
    ASSUME IInv, OrderInv, Open
    PROVE  OrderInv'
<1> DEFINE next == [manifest EXCEPT !.generation = @ + 1]
<1>1. status = "closed" /\ pc = "idle" /\ KeptNow(manifest)
  BY DEF Open, OpenSettling, IInv, Control, CatalogsKept
<1>2. Len(records) \in Nat /\ manifest.checkpoint \in 0 .. Len(records)
  BY <1>1, KeptBounds
<1>3. Loadable
  BY <1>1, <1>2 DEF Loadable, KeptNow, Kept
<1>4. /\ catalog' = manifest /\ settled' = manifest /\ UNCHANGED <<manifest, records>>
      /\ \/ UNCHANGED <<pc, job>>
         \/ pc' = "publish" /\ job' = [kind |-> "takeover", next |-> next]
  BY <1>3 DEF Open, OpenSettling
<1>5. next \in Fields(manifest.generation + 1, manifest.unitHigh, manifest.tableHigh,
                      manifest.checkpoint, manifest.floor, manifest.headsGeneration,
                      manifest.clocks, manifest.units)
  BY <1>1, Successors DEF KeptNow, Kept
<1> HIDE DEF next
<1>6. next.units = manifest.units /\ next.checkpoint = manifest.checkpoint
  BY <1>5 DEF Fields
<1>7. InOrder(next, records)
  <2>1. InOrder(manifest, records) /\ manifest.checkpoint \in Nat
    BY <1>2 DEF OrderInv
  <2>2. PICK c, recs : c = manifest /\ recs = records
    OBVIOUS
  <2>3. InOrder(next, recs)
    BY <1>6, <2>1, <2>2, OrderAgrees
  <2> QED
    BY <2>2, <2>3
<1>8. Publishing' => job'.next = next
  BY <1>1, <1>4 DEF Publishing
<1> QED
  BY <1>4, <1>7, <1>8 DEF OrderInv

LEMMA InitOrders == Init => OrderInv
<1>1. InOrder(InitialCatalog, records)
  BY DEF InOrder, Apart, InitialCatalog
<1> QED
  BY <1>1 DEF Init, OrderInv, Publishing

LEMMA OrderStays == Spec => []OrderInv
<1>1. IInv /\ FInv /\ OrderInv /\ [Next]_vars => OrderInv'
  <2> SUFFICES ASSUME IInv, FInv, OrderInv, [Next]_vars PROVE OrderInv'
    OBVIOUS
  <2>1. CASE Mutation
    BY <2>1, MutationOrders
  <2>2. CASE Maintenance
    BY <2>2, MaintenanceOrders
  <2>3. CASE Reading \/ UNCHANGED vars
    <3>1. UNCHANGED <<manifest, settled, records, catalog, pc, job>>
      BY <2>3 DEF Reading, TakeSnapshot, DropSnapshot, vars, disk, log, engine
    <3> QED
      BY <3>1 DEF OrderInv, Publishing
  <2>4. CASE TakeoverFails \/ Close \/ \E power \in BOOLEAN : Crash(power)
    BY <2>4, GoneOrders
  <2>5. CASE Open
    BY <2>5, OpenOrders
  <2> QED
    BY <2>1, <2>2, <2>3, <2>4, <2>5 DEF Next
<1> QED
  BY <1>1, Inductive, FactsInductive, InitOrders, PTL DEF Spec

(* Compaction and retention never find units that they would call corrupt: *)
(* sections are in order, every row is newer than its table's head,        *)
(* whatever order seals, compactions of levels and windows, retentions,    *)
(* drops, failures, crashes and reopenings take, as long as the rows       *)
(* behind the checkpoint came in turn; what may stop them is a unit that   *)
(* holds a dropped table (merge of unit/compact.rs, select_run of          *)
(* maintenance.rs, select_closed_window of scheduler.rs, retention/fold.rs). *)
THEOREM MaintenanceStaysPossible == Spec => []MaintenancePossible
<1>1. IInv /\ FInv /\ OrderInv => MaintenancePossible
  BY OrderMeans
<1> QED
  BY <1>1, Inductive, FactsInductive, OrderStays, PTL

-----------------------------------------------------------------------------
(***************************************************************************)
(* What a snapshot answers.                                                *)
(*                                                                         *)
(* The rows of a table are in three kinds of places: expired, with the     *)
(* head as the last of them, in units, and in the tail, which is newer     *)
(* than all others.  Where the table's sections are in line, what is in    *)
(* each is newer than what is in the one before, so the walk from the      *)
(* newest place back finds the latest row there is.                        *)
(***************************************************************************)
(* The latest of some rows, when no other has its time. *)
LEMMA LatestIs ==
    ASSUME NEW rows, NEW r \in rows, \A q \in rows : q.at \in Nat,
           \A q \in rows : q = r \/ q.at < r.at
    PROVE  Latest(rows) = r
<1>1. \A q \in rows : q.at <= r.at
  OBVIOUS
<1>2. Latest(rows) \in rows /\ \A q \in rows : q.at <= Latest(rows).at
  BY <1>1 DEF Latest
<1>3. Latest(rows) = r \/ Latest(rows).at < r.at
  BY <1>2
<1>4. r.at <= Latest(rows).at /\ r.at \in Nat /\ Latest(rows).at \in Nat
  BY <1>2
<1> QED
  BY <1>3, <1>4

(* Units with rows and a number each. *)
Numbered(units) ==
    /\ \A u \in units : Timed(u.rows) /\ u.id \in Nat
    /\ \A u, v \in units : u.id = v.id => u = v

(* Of finitely many there is a newest one: of those that start last, the   *)
(* one numbered last.                                                      *)
LEMMA NewestIs ==
    ASSUME NEW units, Numbered(units), IsFiniteSet(units), units # {}
    PROVE  /\ Newest(units) \in units
           /\ \A u \in units : u = Newest(units) \/ Precedes(u, Newest(units))
<1>1. \A u \in units : MinTs(u) \in Nat
  BY TimesOf DEF Numbered, MinTs
<1>2. PICK m \in {MinTs(u) : u \in units} : \A u \in units : MinTs(u) <= m
  <2> DEFINE f == [u \in units |-> MinTs(u)]
             starts == {f[u] : u \in units}
  <2>1. starts = {MinTs(u) : u \in units} /\ starts \subseteq Nat /\ starts # {}
    BY <1>1
  <2>2. IsFiniteSet(starts)
    <3> HIDE DEF f
    <3> QED
      BY ImageFinite
  <2> HIDE DEF starts
  <2>3. PICK m \in starts : \A k \in starts : k <= m
    BY <2>1, <2>2, MaxOfFinite
  <2> QED
    BY <2>1, <2>3
<1> DEFINE late == {u \in units : MinTs(u) = m}
<1>3. PICK i \in {u.id : u \in late} : \A u \in late : u.id <= i
  <2> DEFINE f == [u \in late |-> u.id]
             ids == {f[u] : u \in late}
  <2>1. ids = {u.id : u \in late} /\ ids \subseteq Nat /\ ids # {}
    BY <1>2 DEF Numbered
  <2>2. IsFiniteSet(ids)
    <3>1. IsFiniteSet(late)
      BY FS_Subset
    <3> HIDE DEF f, late
    <3> QED
      BY <3>1, ImageFinite
  <2> HIDE DEF ids
  <2>3. PICK i \in ids : \A k \in ids : k <= i
    BY <2>1, <2>2, MaxOfFinite
  <2> QED
    BY <2>1, <2>3
<1>4. PICK u \in late : u.id = i
  BY <1>3
<1>5. ASSUME NEW v \in units, v # u
      PROVE  Precedes(v, u)
  <2>1. MinTs(v) <= MinTs(u) /\ MinTs(u) \in Nat /\ MinTs(v) \in Nat
    BY <1>1, <1>2
  <2>2. CASE MinTs(v) < MinTs(u)
    BY <2>2 DEF Precedes
  <2>3. CASE MinTs(v) = MinTs(u)
    <3>1. v.id <= u.id /\ v.id # u.id /\ v.id \in Nat /\ u.id \in Nat
      BY <1>3, <1>4, <1>5, <2>3 DEF Numbered
    <3> QED
      BY <2>3, <3>1 DEF Precedes
  <2> QED
    BY <2>1, <2>2, <2>3
<1> QED
  BY <1>5 DEF Newest

(* A table's rows behind a record are later than those in front of it. *)
LEMMA TableRows ==
    ASSUME NEW recs \in Seq(Rec), Legal(recs), NEW n \in 0 .. Len(recs), NEW m \in 0 .. n, NEW t
    PROVE  /\ Behind(RowsOf(recs, 0, m, t), RowsOf(recs, m, n, t))
           /\ \A r, q \in RowsOf(recs, 0, n, t) :
                  r.at \in Nat /\ (r = q \/ r.at < q.at \/ q.at < r.at)
<1>1. ASSUME NEW r \in RowsOf(recs, 0, m, t), NEW q \in RowsOf(recs, m, n, t)
      PROVE  r.at < q.at
  <2>1. PICK i \in 1 .. m : recs[i].op = "append" /\ r = RowOf(recs[i])
    BY DEF RowsOf, Rows
  <2>2. PICK j \in m + 1 .. n : recs[j].op = "append" /\ q = RowOf(recs[j])
    BY DEF RowsOf, Rows
  <2>3. i \in 1 .. Len(recs) /\ j \in 1 .. Len(recs) /\ i < j
    OBVIOUS
  <2>4. recs[i].table = recs[j].table /\ r.at = recs[i].at /\ q.at = recs[j].at
    BY <2>1, <2>2 DEF RowOf, RowsOf
  <2> QED
    BY <2>1, <2>2, <2>3, <2>4, TimesIncrease
<1>2. ASSUME NEW r \in RowsOf(recs, 0, n, t), NEW q \in RowsOf(recs, 0, n, t)
      PROVE  r.at \in Nat /\ (r = q \/ r.at < q.at \/ q.at < r.at)
  <2>1. PICK i \in 1 .. n : recs[i].op = "append" /\ r = RowOf(recs[i])
    BY DEF RowsOf, Rows
  <2>2. PICK j \in 1 .. n : recs[j].op = "append" /\ q = RowOf(recs[j])
    BY DEF RowsOf, Rows
  <2>3. /\ i \in 1 .. Len(recs) /\ j \in 1 .. Len(recs)
        /\ recs[i].table = recs[j].table /\ r.at = recs[i].at /\ q.at = recs[j].at
    BY <2>1, <2>2 DEF RowOf, RowsOf
  <2>4. r.at \in Nat
    BY <2>3, RecTypes
  <2>5. i < j => r.at < q.at
    BY <2>1, <2>2, <2>3, TimesIncrease
  <2>6. j < i => q.at < r.at
    BY <2>1, <2>2, <2>3, TimesIncrease
  <2>7. i = j \/ i < j \/ j < i
    OBVIOUS
  <2> QED
    BY <2>1, <2>2, <2>4, <2>5, <2>6, <2>7
<1> QED
  BY <1>1, <1>2 DEF Behind

(* Where the rows of a table are, and in which order. *)
Held(t) ==
    /\ Numbered(catalog.units) /\ IsFiniteSet(catalog.units) /\ catalog.floor \in Nat
    /\ tail.tables[t].rows \subseteq Logged(t) /\ Stored(t) \subseteq Logged(t)
    /\ \A u \in catalog.units : /\ Section(u, t) \subseteq Logged(t)
                                /\ Behind(Section(u, t), tail.tables[t].rows)
    /\ \A r, q \in Logged(t) : r.at \in Nat /\ (r = q \/ r.at < q.at \/ q.at < r.at)
    /\ \A r \in Logged(t) : \/ r \in tail.tables[t].rows
                            \/ \E u \in catalog.units : r \in Section(u, t)
                            \/ r \in Logged(t) \ Stored(t)
    /\ \A r \in Logged(t) \ Stored(t) : r.at < catalog.floor
    /\ Behind(Logged(t) \ Stored(t), tail.tables[t].rows) /\ IsFiniteSet(Times(Logged(t)))

LEMMA TableHeld ==
    ASSUME IInv, FInv, Mirrored, NEW t \in DOMAIN tail.tables
    PROVE  Held(t)
<1> DEFINE n == Len(records)
           cp == catalog.checkpoint
<1>1. /\ CatalogFacts(catalog, heads, records) /\ records \in Seq(Rec) /\ Legal(records)
      /\ n \in Nat /\ cp \in 0 .. n /\ n \in 0 .. Len(records)
      /\ Logged(t) = RowsOf(records, 0, n, t)
  BY Views DEF Meant
<1>2. /\ tail.tables[t].rows = RowsOf(records, cp, n, t)
      /\ \A u \in catalog.units : Section(u, t) \subseteq RowsOf(records, 0, cp, t)
      /\ Stored(t) \subseteq Logged(t)
      /\ Logged(t) \ Stored(t) \subseteq RowsOf(records, 0, cp, t)
  BY ExpiredAre
<1> HIDE DEF n, cp
<1>3. Numbered(catalog.units)
  <2>1. ASSUME NEW u \in catalog.units
        PROVE  Timed(u.rows)
    <3>1. u.rows # {} /\ u.rows \in SUBSET Rows(records, 0, cp) /\ cp \in 0 .. Len(records)
      BY <1>1 DEF CatalogFacts, cp, n
    <3>2. IsFiniteSet(Times(u.rows)) /\ \A r \in u.rows : r.at \in Nat
      BY <1>1, <3>1, RowsFinite
    <3> QED
      BY <3>1, <3>2 DEF Timed
  <2>2. \A u \in catalog.units : unitFiles[u.id] = u /\ u.id \in Nat
    BY DEF IInv, CatalogsKept, KeptNow, Kept, IsCatalog
  <2> QED
    BY <2>1, <2>2 DEF Numbered
<1>4. /\ Behind(RowsOf(records, 0, cp, t), RowsOf(records, cp, n, t))
      /\ \A r, q \in Logged(t) : r.at \in Nat /\ (r = q \/ r.at < q.at \/ q.at < r.at)
  BY <1>1, TableRows
<1>5. /\ \A u \in catalog.units : Behind(Section(u, t), tail.tables[t].rows)
      /\ Behind(Logged(t) \ Stored(t), tail.tables[t].rows)
  BY <1>2, <1>4 DEF Behind
<1>6. /\ tail.tables[t].rows \subseteq Logged(t)
      /\ \A u \in catalog.units : Section(u, t) \subseteq Logged(t)
  BY <1>2 DEF Stored
<1>7. \A r \in Logged(t) : \/ r \in tail.tables[t].rows
                           \/ \E u \in catalog.units : r \in Section(u, t)
                           \/ r \in Logged(t) \ Stored(t)
  BY DEF Stored
<1>8. \A r \in Logged(t) \ Stored(t) : r.at < catalog.floor
  BY RowsMean DEF RowsOnce
<1>9. IsFiniteSet(catalog.units) /\ catalog.floor \in Nat
  BY <1>1 DEF CatalogFacts
<1>10. IsFiniteSet(Times(Logged(t)))
  <2>1. Logged(t) \in SUBSET Rows(records, 0, n)
    BY <1>1 DEF RowsOf
  <2> QED
    BY <1>1, <2>1, RowsFinite
<1> QED
  BY <1>2, <1>3, <1>4, <1>5, <1>6, <1>7, <1>8, <1>9, <1>10 DEF Held

(* The tail joins behind whatever units a query has taken. *)
LEMMA TailFollows ==
    ASSUME NEW t, Held(t), NEW units, units \subseteq catalog.units, units # {},
           \A u \in units : Section(u, t) # {}
    PROVE  ~TailMeets(Fresh, t, Newest(units))
<1> DEFINE u == Newest(units)
<1>1. Numbered(units) /\ IsFiniteSet(units)
  BY FS_Subset DEF Held, Numbered
<1>2. u \in units
  BY <1>1, NewestIs
<1> HIDE DEF u
<1>3. Timed(Section(u, t))
  BY <1>1, <1>2, SectionTimed DEF Numbered
<1>4. PICK r \in Section(u, t) : r.at = Max(Times(Section(u, t))) /\ r.at \in Nat
  BY <1>3, TimesOf
<1>5. \A q \in tail.tables[t].rows : r.at < q.at /\ q.at \in Nat
  BY <1>2, <1>4 DEF Held, Behind
<1>6. \A q \in tail.tables[t].rows : ~(q.at <= Max(Times(Section(u, t))))
  BY <1>4, <1>5
<1>7. Fresh.tables[t].rows = tail.tables[t].rows
  BY DEF Fresh, Snapshot
<1> QED
  BY <1>6, <1>7 DEF TailMeets, u

(* A scan. *)
LEMMA ScansMean ==
    ASSUME IInv, FInv, OrderInv
    PROVE  ScansExact
<1> SUFFICES ASSUME Mirrored, NEW t \in DOMAIN tail.tables, NEW start \in Askable,
                    NEW end \in {at + 1 : at \in Timestamps}
             PROVE  \/ Scan(Fresh, t, start, end)
                          = [facts |-> {r \in Logged(t) : start <= r.at /\ r.at < end}]
                    \/ /\ ~(InTurn \/ SectionsOrdered(catalog.units, t))
                       /\ Scan(Fresh, t, start, end) = Corruption
  BY DEF ScansExact
<1> DEFINE planned == Planned(Fresh, t, start, end)
<1>1. Held(t)
  BY TableHeld
<1>2. /\ start \in Nat /\ catalog.floor <= start /\ end \in Nat
  BY TimesAssumption DEF Askable
<1>3. /\ Fresh.units = catalog.units /\ Fresh.tables = tail.tables
  BY DEF Fresh, Snapshot
<1>4. /\ planned \subseteq catalog.units
      /\ \A u \in planned : Section(u, t) # {}
  BY <1>3 DEF Planned, Times
<1>5. \/ Scan(Fresh, t, start, end)
             = [facts |-> {r \in (UNION {Section(u, t) : u \in planned}) \cup tail.tables[t].rows :
                              start <= r.at /\ r.at < end}]
      \/ ~SectionsOrdered(planned, t) /\ Scan(Fresh, t, start, end) = Corruption
  <2>1. planned # {} => ~TailMeets(Fresh, t, Newest(planned))
    BY <1>1, <1>4, TailFollows
  <2> QED
    BY <1>3, <2>1 DEF Scan, Joined
<1>6. ASSUME NEW r \in Logged(t), start <= r.at, r.at < end, r \notin tail.tables[t].rows
      PROVE  \E u \in planned : r \in Section(u, t)
  <2>1. r.at \in Nat /\ ~(r.at < catalog.floor)
    BY <1>1, <1>2, <1>6 DEF Held
  <2>2. PICK u \in catalog.units : r \in Section(u, t)
    BY <1>1, <1>6, <2>1 DEF Held
  <2>3. Timed(Section(u, t))
    BY <1>1, <2>2, SectionTimed DEF Held, Numbered
  <2>4. /\ Min(Times(Section(u, t))) \in Nat /\ Max(Times(Section(u, t))) \in Nat
        /\ Min(Times(Section(u, t))) <= r.at /\ r.at <= Max(Times(Section(u, t)))
        /\ Times(Section(u, t)) # {}
    BY <2>2, <2>3, TimesOf DEF Times
  <2>5. Min(Times(Section(u, t))) < end /\ Max(Times(Section(u, t))) >= start
    BY <1>2, <1>6, <2>1, <2>4
  <2> QED
    BY <1>3, <2>2, <2>4, <2>5 DEF Planned
<1>7. /\ \A u \in planned : Section(u, t) \subseteq Logged(t)
      /\ tail.tables[t].rows \subseteq Logged(t)
  BY <1>1, <1>4 DEF Held
<1> HIDE DEF planned
<1>8. {r \in (UNION {Section(u, t) : u \in planned}) \cup tail.tables[t].rows :
           start <= r.at /\ r.at < end}
      = {r \in Logged(t) : start <= r.at /\ r.at < end}
  BY <1>6, <1>7
<1>9. InTurn \/ SectionsOrdered(catalog.units, t) => SectionsOrdered(planned, t)
  BY <1>4, TurnInLine DEF InLine, SectionsOrdered
<1> QED
  BY <1>5, <1>8, <1>9

(* Some rows of a table have a latest one. *)
LEMMA LatestThere ==
    ASSUME NEW t, Held(t), NEW rows, rows \subseteq Logged(t), rows # {}
    PROVE  \E r \in rows : Latest(rows) = r /\ \A q \in rows : q = r \/ q.at < r.at
<1>1. Times(rows) \subseteq Times(Logged(t)) /\ \A r \in rows : r.at \in Nat
  BY DEF Times, Held
<1>2. Timed(rows)
  BY <1>1, FS_Subset DEF Timed, Held
<1>3. PICK r \in rows : \A q \in rows : q.at <= r.at
  BY <1>2, TimesOf
<1>4. \A q \in rows : q = r \/ q.at < r.at
  <2> SUFFICES ASSUME NEW q \in rows PROVE q = r \/ q.at < r.at
    OBVIOUS
  <2>1. q.at <= r.at /\ q.at \in Nat /\ r.at \in Nat
    BY <1>1, <1>3
  <2>2. q = r \/ q.at < r.at \/ r.at < q.at
    BY DEF Held
  <2> QED
    BY <2>1, <2>2
<1> QED
  BY <1>1, <1>4, LatestIs

(* The latest of some rows is the latest up to a time, if it is there and  *)
(* what else there is is older.                                            *)
LEMMA TruthIs ==
    ASSUME NEW t, Held(t), NEW at \in Nat, NEW r \in Logged(t), r.at <= at,
           \A q \in Logged(t) : q.at <= at => q = r \/ q.at < r.at
    PROVE  TrueFact(Logged(t), at) = Found(r)
<1>1. /\ r \in UpTo(Logged(t), at)
      /\ \A q \in UpTo(Logged(t), at) : q.at \in Nat /\ (q = r \/ q.at < r.at)
  BY DEF UpTo, Held
<1>2. Latest(UpTo(Logged(t), at)) = r
  BY <1>1, LatestIs
<1> QED
  BY <1>1, <1>2 DEF TrueFact

LEMMA FoundIsNotMissing == \A x : Found(x) # Missing
<1> TAKE x
<1>1. DOMAIN Found(x) = {"fact"} /\ DOMAIN Missing = {"missing"}
  BY DEF Found, Missing
<1>2. {"fact"} # {"missing"}
  OBVIOUS
<1> QED
  BY <1>1, <1>2

(* A head is the latest of the rows that have expired. *)
HeadCovers(t) ==
    /\ t \notin DOMAIN heads => Logged(t) \ Stored(t) = {}
    /\ t \in DOMAIN heads =>
           /\ heads[t] \in Logged(t) \ Stored(t)
           /\ \A r \in Logged(t) \ Stored(t) : r.at <= heads[t].at

LEMMA HeadThere ==
    ASSUME IInv, FInv, Mirrored, NEW t \in DOMAIN tail.tables, t \notin revived
    PROVE  HeadCovers(t)
BY HeadsMean DEF HeadsLatest, HeadsKept, HeadCovers

(* The walk from the newest section back finds the latest row. *)
LEMMA WalkFinds ==
    ASSUME NEW t, Held(t), InLine(t), NEW at \in Nat, catalog.floor <= at,
           HeadCovers(t) \/ UpTo(Stored(t), at) # {}
    PROVE  ValueAt(Fresh, t, at) = TrueFact(Logged(t), at)
<1> DEFINE recent == UpTo(tail.tables[t].rows, at)
           reach == {u \in catalog.units : Section(u, t) # {} /\ MinTs(u) <= at}
           hits == {u \in reach : UpTo(Section(u, t), at) # {}}
<1>1. /\ Fresh.units = catalog.units /\ Fresh.tables = tail.tables /\ Fresh.heads = heads
  BY DEF Fresh, Snapshot
<1>2. Predecessor(Fresh, t, at) = Walk(Fresh, t, at, recent, reach, hits)
  BY <1>1 DEF Predecessor
<1>3. ~ /\ reach # {}
        /\ \/ TailMeets(Fresh, t, Newest(reach))
           \/ ~SectionsOrdered(Visited(reach, recent, hits), t)
  <2>1. /\ reach \subseteq catalog.units /\ \A u \in reach : Section(u, t) # {}
        /\ Visited(reach, recent, hits) \subseteq reach
    BY DEF Visited
  <2> HIDE DEF recent, reach, hits
  <2>2. SectionsOrdered(Visited(reach, recent, hits), t)
    BY <2>1 DEF InLine, SectionsOrdered
  <2> QED
    BY <2>1, <2>2, TailFollows
<1>4. Predecessor(Fresh, t, at) =
          IF recent # {} THEN Found(Latest(recent))
          ELSE IF hits # {} THEN Found(Latest(UpTo(Section(Newest(hits), t), at)))
          ELSE Missing
  <2> HIDE DEF recent, reach, hits
  <2> QED
    BY <1>2, <1>3 DEF Walk
<1>5. ValueAt(Fresh, t, at) =
          IF Predecessor(Fresh, t, at) = Missing /\ t \in DOMAIN heads /\ heads[t].at <= at
          THEN Found(heads[t]) ELSE Predecessor(Fresh, t, at)
  BY <1>1 DEF ValueAt, OrHead
(* A row up to this time that is in a unit is one of a hit. *)
<1>6. ASSUME NEW q \in Logged(t), q.at <= at, NEW u \in catalog.units, q \in Section(u, t)
      PROVE  u \in hits
  <2>1. Numbered(catalog.units) /\ q.at \in Nat
    BY DEF Held
  <2>2. q \in u.rows /\ Timed(u.rows)
    BY <1>6, <2>1 DEF Section, Numbered
  <2>3. MinTs(u) \in Nat /\ MinTs(u) <= q.at
    BY <2>2, TimesOf DEF MinTs
  <2>4. MinTs(u) <= at /\ q \in UpTo(Section(u, t), at)
    BY <1>6, <2>1, <2>3 DEF UpTo
  <2> QED
    BY <1>6, <2>4
<1>7. /\ hits \subseteq catalog.units /\ recent \subseteq tail.tables[t].rows
      /\ \A u \in hits : UpTo(Section(u, t), at) # {}
      /\ \A r \in tail.tables[t].rows : r.at <= at <=> r \in recent
  BY DEF UpTo
<1> HIDE DEF recent, reach, hits
<1>8. CASE recent # {}
  <2>1. recent \subseteq Logged(t)
    BY <1>7 DEF Held
  <2>2. PICK r \in recent : Latest(recent) = r /\ \A q \in recent : q = r \/ q.at < r.at
    BY <1>8, <2>1, LatestThere
  <2>3. ASSUME NEW q \in Logged(t), q.at <= at
        PROVE  q = r \/ q.at < r.at
    <3>1. CASE q \in tail.tables[t].rows
      BY <1>7, <2>2, <2>3, <3>1
    <3>2. CASE q \notin tail.tables[t].rows
      BY <1>7, <3>2 DEF Held, Behind
    <3> QED
      BY <3>1, <3>2
  <2>4. r \in Logged(t) /\ r.at <= at
    BY <1>7, <2>1
  <2>5. TrueFact(Logged(t), at) = Found(r)
    BY <2>3, <2>4, TruthIs
  <2> QED
    BY <1>4, <1>5, <1>8, <2>2, <2>5, FoundIsNotMissing
<1>9. CASE recent = {} /\ hits # {}
  <2> DEFINE u == Newest(hits)
             there == UpTo(Section(u, t), at)
  <2>1. u \in hits /\ \A v \in hits : v = u \/ Precedes(v, u)
    <3>1. Numbered(hits) /\ IsFiniteSet(hits)
      BY <1>7, FS_Subset DEF Held, Numbered
    <3> QED
      BY <1>9, <3>1, NewestIs
  <2>2. there # {} /\ there \subseteq Section(u, t) /\ \A r \in there : r.at <= at
    BY <1>7, <2>1 DEF UpTo
  <2>3. \A q \in Section(u, t) : q.at <= at => q \in there
    BY DEF UpTo
  <2>4. Found(Latest(there)) = Predecessor(Fresh, t, at)
    BY <1>4, <1>9
  <2> HIDE DEF u, there
  <2>5. there \subseteq Logged(t) /\ u \in catalog.units
    BY <1>7, <2>1, <2>2 DEF Held
  <2>6. PICK r \in there : Latest(there) = r /\ \A q \in there : q = r \/ q.at < r.at
    BY <2>2, <2>5, LatestThere
  <2>7. ASSUME NEW q \in Logged(t), q.at <= at
        PROVE  q = r \/ q.at < r.at
    <3>1. q \notin tail.tables[t].rows
      BY <1>7, <1>9, <2>7
    <3>2. CASE \E v \in catalog.units : q \in Section(v, t)
      <4>1. PICK v \in hits : q \in Section(v, t)
        BY <1>6, <2>7, <3>2
      <4>2. CASE v = u
        BY <2>3, <2>6, <2>7, <4>1, <4>2
      <4>3. CASE v # u
        <5>1. /\ Precedes(v, u) /\ v \in catalog.units
              /\ Section(v, t) # {} /\ Section(u, t) # {}
          BY <1>7, <2>1, <2>2, <4>1, <4>3
        <5>2. Max(Times(Section(v, t))) < Min(Times(Section(u, t)))
          BY <2>5, <5>1 DEF InLine, SectionsOrdered
        <5>3. Timed(Section(v, t)) /\ Timed(Section(u, t))
          BY <2>5, <5>1, SectionTimed DEF Held, Numbered
        <5>4. /\ q.at <= Max(Times(Section(v, t))) /\ Max(Times(Section(v, t))) \in Nat
              /\ Min(Times(Section(u, t))) <= r.at /\ Min(Times(Section(u, t))) \in Nat
          BY <2>2, <2>6, <4>1, <5>3, TimesOf
        <5>5. q.at \in Nat /\ r.at \in Nat
          BY <2>5, <2>6, <2>7 DEF Held
        <5> QED
          BY <5>2, <5>4, <5>5
      <4> QED
        BY <4>2, <4>3
    <3>3. CASE q \in Logged(t) \ Stored(t)
      BY <2>2, <2>5, <3>3 DEF InLine
    <3> QED
      BY <3>1, <3>2, <3>3 DEF Held
  <2>8. TrueFact(Logged(t), at) = Found(r)
    BY <2>2, <2>5, <2>7, TruthIs
  <2> QED
    BY <1>5, <2>4, <2>6, <2>8, FoundIsNotMissing
<1>10. CASE recent = {} /\ hits = {}
  <2>1. ASSUME NEW q \in Logged(t), q.at <= at
        PROVE  q \in Logged(t) \ Stored(t)
    <3>1. q \notin tail.tables[t].rows
      BY <1>7, <1>10, <2>1
    <3>2. \A u \in catalog.units : q \notin Section(u, t)
      BY <1>6, <1>10, <2>1
    <3> QED
      BY <3>1, <3>2 DEF Held
  <2>2. Predecessor(Fresh, t, at) = Missing
    BY <1>4, <1>10
  <2> HeadCovers(t)
    BY <2>1 DEF Held, UpTo
  <2>3. CASE t \in DOMAIN heads
    <3> DEFINE h == heads[t]
    <3>1. h \in Logged(t) \ Stored(t) /\ \A r \in Logged(t) \ Stored(t) : r.at <= h.at
      BY <2>3 DEF HeadCovers
    <3> HIDE DEF h
    <3>2. h.at \in Nat /\ h.at <= at
      BY <3>1 DEF Held
    <3>3. \A q \in Logged(t) : q.at <= at => q = h \/ q.at < h.at
      <4> SUFFICES ASSUME NEW q \in Logged(t), q.at <= at PROVE q = h \/ q.at < h.at
        OBVIOUS
      <4>1. q.at <= h.at /\ q.at \in Nat
        BY <2>1, <3>1 DEF Held
      <4>2. q = h \/ q.at < h.at \/ h.at < q.at
        BY <3>1 DEF Held
      <4> QED
        BY <3>2, <4>1, <4>2
    <3>4. TrueFact(Logged(t), at) = Found(h)
      BY <3>1, <3>2, <3>3, TruthIs
    <3> QED
      BY <1>5, <2>2, <2>3, <3>2, <3>4 DEF h
  <2>4. CASE t \notin DOMAIN heads
    <3>1. UpTo(Logged(t), at) = {}
      BY <2>1, <2>4 DEF UpTo, HeadCovers
    <3> QED
      BY <1>5, <2>2, <2>4, <3>1 DEF TrueFact
  <2> QED
    BY <2>3, <2>4
<1> QED
  BY <1>8, <1>9, <1>10

LEMMA LookupsMean ==
    ASSUME IInv, FInv, OrderInv
    PROVE  LookupsExact
<1> SUFFICES ASSUME Mirrored, NEW t \in DOMAIN tail.tables, InTurn \/ InLine(t),
                    NEW at \in Askable, ~(t \in revived /\ UpTo(Stored(t), at) = {})
             PROVE  ValueAt(Fresh, t, at) = TrueFact(Logged(t), at)
  BY DEF LookupsExact
<1>1. at \in Nat /\ catalog.floor <= at
  BY TimesAssumption DEF Askable
<1>2. Held(t) /\ InLine(t)
  BY TableHeld, TurnInLine
<1>3. HeadCovers(t) \/ UpTo(Stored(t), at) # {}
  BY HeadThere
<1> QED
  BY <1>1, <1>2, <1>3, WalkFinds

(* A scan of any range above the floor returns the rows accepted there and *)
(* nothing else, through every order of mutations, seals, compactions,     *)
(* retentions, drops, failures, crashes and reopenings, or calls the units *)
(* corrupt where the sections of this table are out of order, which they   *)
(* never are when rows came in turn (query/plan.rs).                       *)
THEOREM ScansStayExact == Spec => []ScansExact
<1>1. IInv /\ FInv /\ OrderInv => ScansExact
  BY ScansMean
<1> QED
  BY <1>1, Inductive, FactsInductive, OrderStays, PTL

(* A lookup at any time above the floor finds the latest row accepted up   *)
(* to then, wherever it has been moved: in the tail, in the newest of the  *)
(* units that reach back far enough, or in the head that is left of rows   *)
(* that expired; of every table whose sections are in line, or when rows   *)
(* came in turn.  Only a head may be wrong, and only that of a table whose *)
(* drop a crash has taken back (query/batch.rs, query/primitives.rs).      *)
THEOREM LookupsStayExact == Spec => []LookupsExact
<1>1. IInv /\ FInv /\ OrderInv => LookupsExact
  BY LookupsMean
<1> QED
  BY <1>1, Inductive, FactsInductive, OrderStays, PTL
=============================================================================
