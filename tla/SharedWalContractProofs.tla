---------------------- MODULE SharedWalContractProofs ----------------------
(***************************************************************************)
(* What the shared log promises, for all members, sizes, limits and kinds  *)
(* of crash: its invariant LogInv holds, records stay reachable, reported  *)
(* positions are exact and survive; its budgets are exact, accept a batch  *)
(* whole and come back with the checkpoints; and every step of it is a     *)
(* step of the log of MemberLogs, or none.                                 *)
(***************************************************************************)
EXTENDS SharedWalRefinement, SharedWalProofs

-----------------------------------------------------------------------------
(***************************************************************************)
(* Opening the owner after a crash.                                        *)
(***************************************************************************)
(* The scan finds the last segment complete, or has frozen its torn tail:  *)
(* an owner may append to it, or behind it.                                *)
ReadyToOpen == owner' = "open" => segment' = LastFile'

(* The files stay as they are.                                             *)
LEMMA SameFiles ==
    ASSUME TypeOK, TypeOK', LogInv, owner # "open",
           UNCHANGED <<files, frames, lsn, durable, evidence, registered>>,
           ReadyToOpen,
           owner' = "open" => ~Torn(LastFile) /\ LastFile \notin DOMAIN evidence
    PROVE  /\ LogShape' /\ Boundaries' /\ DurableFrames' /\ LastFile' = LastFile
           /\ \A n : FramesIn(n)' = FramesIn(n)
<1>1. /\ LogShape' /\ LowestFile' = LowestFile /\ LastFile' = LastFile
      /\ \A n : FramesIn(n)' = FramesIn(n) /\ After(n)' = After(n)
  BY LogSame DEF LogInv
<1>2. /\ \A n : Empty(n)' = Empty(n) /\ FrameEnd(n)' = FrameEnd(n)
      /\ \A n : ScanEnd(n)' = ScanEnd(n) /\ Torn(n)' = Torn(n)
  <2>1. \A n : Empty(n)' = Empty(n) /\ FrameEnd(n)' = FrameEnd(n)
    BY DEF Empty, FrameEnd
  <2>2. \A n : ScanEnd(n)' = ScanEnd(n)
    BY <1>1, <2>1, ScanSame
  <2> QED
    BY <2>1, <2>2 DEF Torn
<1>3. Active = LastFile /\ Active' = LastFile /\ LastFile \in Nat
  BY <1>1, RowNumbers DEF Active, ReadyToOpen
<1>4. Boundaries'
  <2>1. ASSUME NEW n \in DOMAIN evidence'
        PROVE  /\ n \in Int /\ n <= Active' /\ (owner' = "open" => n < Active')
               /\ n \in DOMAIN files' => Frozen(n)'
    <3>1. n \in Int /\ n <= LastFile /\ (n \in DOMAIN files => Frozen(n))
      BY <1>3 DEF LogInv, Boundaries
    <3>2. owner' = "open" => n # LastFile
      OBVIOUS
    <3>3. n \in DOMAIN files' => Frozen(n)'
      BY <1>1, <1>2, <3>1 DEF Frozen
    <3> QED
      BY <1>3, <3>1, <3>2, <3>3
  <2>2. \A n \in DOMAIN files' : Empty(n)' => FramesIn(n)' = {}
    BY <1>1, <1>2 DEF LogInv, Boundaries
  <2>3. \A n \in DOMAIN files' :
            Empty(n)' => n \in DOMAIN evidence' \/ (n = LastFile' /\ n # LowestFile')
    BY <1>1, <1>2 DEF LogInv, Boundaries
  <2>4. \A n \in DOMAIN files' \ DOMAIN evidence' : n < Active' => ~Torn(n)'
    BY <1>2, <1>3 DEF LogInv, Boundaries
  <2>5. \A n \in DOMAIN files' : files'[n].synced <= files'[n].length
                                 /\ files'[n].synced = files'[n].length
    BY DEF LogInv, Boundaries
  <2> QED
    BY <2>1, <2>2, <2>3, <2>4, <2>5 DEF Boundaries
<1>5. DurableFrames'
  <2>1. durable = lsn /\ files[LastFile].first <= durable + 1
        /\ \A f \in frames : f.lsn <= durable /\ Synced(f)
    BY DEF LogInv, DurableFrames
  <2>2. \A f \in frames' : f.lsn <= durable' /\ Synced(f)'
    BY <1>2, <2>1 DEF Synced
  <2> QED
    BY <1>1, <2>1, <2>2 DEF DurableFrames
<1> QED
  BY <1>1, <1>4, <1>5

(* A file is added behind the last one, whose end is frozen.               *)
LEMMA NextFile ==
    ASSUME TypeOK, TypeOK', LogInv, owner # "open", LastFile \in DOMAIN evidence,
           UNCHANGED <<frames, lsn, durable, evidence, registered>>, ReadyToOpen,
           DOMAIN files' = DOMAIN files \cup {LastFile + 1},
           \A n \in DOMAIN files : files'[n] = files[n],
           files'[LastFile + 1].first = lsn + 1,
           files'[LastFile + 1].synced = files'[LastFile + 1].length
    PROVE  /\ LogShape' /\ Boundaries' /\ DurableFrames' /\ LastFile' = LastFile + 1
           /\ \A n : FramesIn(n)' = FramesIn(n) /\ FramesIn(LastFile + 1) = {}
           /\ LastFile + 1 \notin DOMAIN evidence
<1>1. /\ LogShape' /\ LowestFile' = LowestFile /\ LastFile' = LastFile + 1
      /\ \A n : FramesIn(n)' = FramesIn(n)
      /\ \A n \in DOMAIN files : After(n)' = After(n)
      /\ FramesIn(LastFile + 1) = {} /\ LastFile + 1 \notin DOMAIN files
  BY LogFileAdded DEF LogInv
<1> PICK last \in Nat : last = LastFile
  BY RowNumbers
<1>2. /\ \A n \in DOMAIN files : n \in Nat /\ n <= last /\ n # last + 1
      /\ LowestFile \in Nat /\ LowestFile <= last /\ lsn \in Nat
  BY RowNumbers
<1>3. Active = last /\ Active' \in {last + 1}
  BY <1>1 DEF Active, ReadyToOpen
<1>4. \A n \in DOMAIN evidence : n \in Int /\ n <= last /\ (n \in DOMAIN files => Frozen(n))
  BY <1>3 DEF LogInv, Boundaries
<1>5. last + 1 \notin DOMAIN evidence
  BY <1>4
<1>6. \A n \in DOMAIN files : /\ Empty(n)' = Empty(n) /\ ScanEnd(n)' = ScanEnd(n)
                              /\ Torn(n)' = Torn(n)
  <2>1. \A n \in DOMAIN files : Empty(n)' = Empty(n)
    BY DEF Empty
  <2>2. \A n \in DOMAIN files : ScanEnd(n)' = ScanEnd(n)
    BY <1>1, <2>1, ScanSame
  <2> QED
    BY <2>1, <2>2 DEF Torn
<1>7. Boundaries'
  <2>1. ASSUME NEW n \in DOMAIN evidence'
        PROVE  /\ n \in Int /\ n <= Active' /\ n < Active'
               /\ n \in DOMAIN files' => Frozen(n)'
    <3>1. n \in Int /\ n <= last /\ (n \in DOMAIN files => Frozen(n))
      BY <1>4
    <3>2. n \in DOMAIN files' => n \in DOMAIN files
      BY <3>1
    <3>3. n \in DOMAIN files' => Frozen(n)'
      BY <1>1, <1>6, <3>1, <3>2 DEF Frozen
    <3> QED
      BY <1>3, <3>1, <3>3
  <2>2. \A n \in DOMAIN files' : Empty(n)' => FramesIn(n)' = {}
    BY <1>1, <1>6 DEF LogInv, Boundaries
  <2>3. \A n \in DOMAIN files' :
            Empty(n)' => n \in DOMAIN evidence' \/ (n = LastFile' /\ n # LowestFile')
    BY <1>1, <1>2, <1>6 DEF LogInv, Boundaries
  <2>4. \A n \in DOMAIN files' \ DOMAIN evidence' : n < Active' => ~Torn(n)'
    <3> TAKE n \in DOMAIN files' \ DOMAIN evidence'
    <3>1. n < Active' => n \in DOMAIN files /\ n # last
      BY <1>3
    <3>2. n < Active' => n < Active
      BY <1>2, <1>3, <3>1
    <3> QED
      BY <1>6, <3>1, <3>2 DEF LogInv, Boundaries
  <2>5. \A n \in DOMAIN files' : files'[n].synced <= files'[n].length
                                 /\ files'[n].synced = files'[n].length
    <3>1. \A n \in DOMAIN files' : files'[n].length \in Nat
      BY DEF TypeOK, FilesOK
    <3>2. \A n \in DOMAIN files' : files'[n].synced = files'[n].length
      BY DEF LogInv, Boundaries
    <3> QED
      BY <3>1, <3>2
  <2> QED
    BY <2>1, <2>2, <2>3, <2>4, <2>5 DEF Boundaries
<1>8. DurableFrames'
  <2>1. durable = lsn /\ \A f \in frames : /\ f.lsn <= durable /\ Synced(f)
                                           /\ f.at.segment \in DOMAIN files
    BY DEF LogInv, DurableFrames, LogShape, FramesPlaced
  <2>2. \A f \in frames' : f.lsn <= durable' /\ Synced(f)'
    BY <2>1 DEF Synced, FrameEnd
  <2>3. files'[LastFile'].first <= durable' + 1
    BY <1>1, <1>2, <2>1
  <2> QED
    BY <1>1, <2>1, <2>2, <2>3 DEF DurableFrames
<1> QED
  BY <1>1, <1>5, <1>7, <1>8

(* The members' MANIFESTs and handles do not change.                       *)
LEMMA DownMembers ==
    ASSUME TypeOK, TypeOK', DurableInv, LogInv, owner # "open",
           UNCHANGED <<frames, durable, registered, retiredAt, manifest, settled,
                       opened, sealing>>
    PROVE  ManifestsKept' /\ HandlesTrue'
<1>1. \A m \in Members : FramesOf(m)' = FramesOf(m) /\ Live(m)' = Live(m)
  BY DEF FramesOf, Live
<1>2. ASSUME NEW m \in Members
      PROVE  ManifestKept(m)'
  <2>1. ManifestKept(m)
    BY DEF LogInv, ManifestsKept
  <2> QED
    BY <1>1, <2>1 DEF ManifestKept
<1>3. opened = {} /\ \A m \in Members : sealing[m] = "no"
  <2>1. opened = {}
    BY DEF DurableInv, CallersOpen
  <2> QED
    BY <2>1 DEF LogInv, HandlesTrue, HandleTrue
<1> QED
  BY <1>2, <1>3 DEF ManifestsKept, HandlesTrue, HandleTrue

(* The owner stays down.                                                   *)
LEMMA StaysDown ==
    ASSUME TypeOK, TypeOK', DurableInv, LogInv, owner # "open", owner' # "open",
           UNCHANGED <<frames, durable, registered, retiredAt, manifest, settled,
                       opened, sealing, promised, pc, poison>>,
           LogShape', Boundaries', DurableFrames'
    PROVE  LogInv'
<1>1. ManifestsKept' /\ HandlesTrue'
  BY DownMembers
<1>2. LeftBehind'
  <2>1. \A m : /\ FramesOf(m)' = FramesOf(m) /\ Live(m)' = Live(m)
               /\ ScanCheckpoint(m)' = ScanCheckpoint(m)
               /\ TakenBack(m)' = TakenBack(m)
    BY DEF FramesOf, Live, ScanCheckpoint, TakenBack
  <2>2. \A f : Predecessors(f)' = Predecessors(f)
    BY DEF FramesOf, Predecessors
  <2>3. \A m \in Members : Promised(m)' = Promised(m)
    BY <2>1, <2>2 DEF Promised
  <2> QED
    BY <2>1, <2>3 DEF LogInv, LeftBehind
<1>3. CursorTrue' /\ IndexTrue' /\ MembersTrue'
  BY DEF CursorTrue, IndexTrue, MembersTrue
<1>4. BusyHealthy'
  BY DEF LogInv, BusyHealthy
<1> QED
  BY <1>1, <1>2, <1>3, <1>4 DEF LogInv

(* The scan starts a new segment.                                          *)
LEMMA RotatedFiles ==
    ASSUME TypeOK, LogInv, ~Corrupt, NeedsRotate
    PROVE  /\ NextAfter(LastFile) = lsn + 1
           /\ Rotated = With(files, LastFile + 1, [first |-> lsn + 1,
                                 length |-> HeaderLen, synced |-> HeaderLen])
           /\ DOMAIN Rotated = DOMAIN files \cup {LastFile + 1}
           /\ \A n \in DOMAIN files : Rotated[n] = files[n]
           /\ Rotated[LastFile + 1] = [first |-> lsn + 1, length |-> HeaderLen,
                                       synced |-> HeaderLen]
<1>1. NextAfter(LastFile) = lsn + 1
  <2>1. After(LastFile) = lsn + 1
    <3>1. LastFile \in Nat /\ \A n \in DOMAIN files : n \in Nat /\ n <= LastFile
      BY RowNumbers
    <3>2. LastFile + 1 \notin DOMAIN files
      BY <3>1
    <3> QED
      BY <3>2 DEF After
  <2>2. NextAfter(LastFile) = After(LastFile)
    BY RowNumbers, AcceptedCounts DEF LogInv
  <2> QED
    BY <2>1, <2>2
<1>2. Rotated = With(files, LastFile + 1, [first |-> lsn + 1, length |-> HeaderLen,
                                           synced |-> HeaderLen])
  BY <1>1 DEF Rotated
<1>3. LastFile + 1 \notin DOMAIN files
  <2>1. LastFile \in Nat /\ \A n \in DOMAIN files : n \in Nat /\ n <= LastFile
    BY RowNumbers
  <2> QED
    BY <2>1
<1> QED
  BY <1>1, <1>2, <1>3 DEF With

LEMMA OpenRefusedLog ==
    ASSUME TypeOK, TypeOK', DurableInv, LogInv, OpenRefused
    PROVE  LogInv'
<1>1. /\ owner = "down" /\ owner' # "open"
      /\ UNCHANGED <<frames, lsn, durable, registered, retiredAt, manifest, settled,
                     evidence, opened, sealing, promised, pc, poison>>
      /\ files' = files \/ (files' = Rotated /\ ~Corrupt)
  BY DEF OpenRefused, cursor
<1>2. ReadyToOpen
  BY <1>1 DEF ReadyToOpen
<1>3. LogShape' /\ Boundaries' /\ DurableFrames'
  <2>1. CASE files' = files
    BY <1>1, <1>2, <2>1, SameFiles
  <2>2. CASE files' = Rotated /\ ~Corrupt /\ NeedsRotate
    <3>1. /\ DOMAIN files' = DOMAIN files \cup {LastFile + 1}
          /\ \A n \in DOMAIN files : files'[n] = files[n]
          /\ files'[LastFile + 1] = [first |-> lsn + 1, length |-> HeaderLen,
                                     synced |-> HeaderLen]
      BY <2>2, RotatedFiles
    <3>2. /\ files'[LastFile + 1].first = lsn + 1
          /\ files'[LastFile + 1].synced = files'[LastFile + 1].length
      BY <3>1
    <3>3. LastFile \in DOMAIN evidence
      BY <2>2 DEF NeedsRotate
    <3> QED
      BY <1>1, <1>2, <3>1, <3>2, <3>3, NextFile
  <2>3. CASE files' = Rotated /\ ~NeedsRotate
    BY <2>1, <2>3 DEF Rotated
  <2> QED
    BY <1>1, <2>1, <2>2, <2>3
<1> QED
  BY <1>1, <1>3, StaysDown

LEMMA CrashInOpenLog ==
    ASSUME TypeOK, TypeOK', DurableInv, LogInv, CrashInOpen
    PROVE  LogInv'
<1>1. /\ owner = "down" /\ owner' = owner /\ ~Corrupt /\ NeedsRotate
      /\ UNCHANGED <<frames, lsn, durable, registered, retiredAt, manifest, settled,
                     evidence, opened, sealing, promised, pc, poison>>
  BY DEF CrashInOpen, Scannable, cursor
<1>2. PICK header \in 0 .. HeaderLen :
          files' = [Rotated EXCEPT ![LastFile + 1].length = header,
                                   ![LastFile + 1].synced = header]
  BY DEF CrashInOpen
<1>3. /\ DOMAIN Rotated = DOMAIN files \cup {LastFile + 1}
      /\ \A n \in DOMAIN files : Rotated[n] = files[n]
      /\ Rotated[LastFile + 1] = [first |-> lsn + 1, length |-> HeaderLen,
                                  synced |-> HeaderLen]
  BY <1>1, RotatedFiles
<1>4. \A n \in DOMAIN files : n # LastFile + 1
  <2>1. LastFile \in Nat /\ \A n \in DOMAIN files : n \in Nat /\ n <= LastFile
    BY RowNumbers
  <2> QED
    BY <2>1
<1>5. /\ DOMAIN files' = DOMAIN files \cup {LastFile + 1}
      /\ \A n \in DOMAIN files : files'[n] = files[n]
      /\ files'[LastFile + 1].first = lsn + 1
      /\ files'[LastFile + 1].synced = files'[LastFile + 1].length
  BY <1>2, <1>3, <1>4
<1>6. LastFile \in DOMAIN evidence /\ ReadyToOpen
  BY <1>1 DEF NeedsRotate, ReadyToOpen
<1>7. LogShape' /\ Boundaries' /\ DurableFrames'
  BY <1>1, <1>5, <1>6, NextFile
<1> QED
  BY <1>1, <1>7, StaysDown

LEMMA PublishBoundaryLog ==
    ASSUME TypeOK, TypeOK', DurableInv, LogInv, PublishBoundary
    PROVE  LogInv'
<1>1. /\ owner = "down" /\ owner' = owner /\ ~Corrupt
      /\ Torn(LastFile) /\ LastFile \notin DOMAIN evidence
      /\ evidence' = With(evidence, LastFile,
                          [length |-> files[LastFile].length, end |-> ScanEnd(LastFile),
                           next |-> NextAfter(LastFile)])
      /\ UNCHANGED <<files, frames, lsn, durable, registered, retiredAt, manifest,
                     settled, opened, sealing, promised, pc, poison>>
  BY DEF PublishBoundary, NeedsBoundary, cursor
<1>2. /\ LogShape' /\ LowestFile' = LowestFile /\ LastFile' = LastFile
      /\ \A n : FramesIn(n)' = FramesIn(n) /\ After(n)' = After(n)
  BY <1>1, LogSame DEF LogInv
<1>3. LastFile \in Nat /\ LastFile \in DOMAIN files
  BY RowNumbers
<1>4. /\ DOMAIN evidence' = DOMAIN evidence \cup {LastFile}
      /\ \A n \in DOMAIN evidence : evidence'[n] = evidence[n]
      /\ evidence'[LastFile] = [length |-> files[LastFile].length,
                                end |-> ScanEnd(LastFile), next |-> After(LastFile)]
  <2>1. NextAfter(LastFile) = After(LastFile)
    BY <1>1, <1>3, AcceptedCounts DEF LogInv
  <2> QED
    BY <1>1, <2>1 DEF With
(* What was empty still is: the boundary of an empty segment ends at 0.    *)
<1>5. \A n \in DOMAIN files : Empty(n)' = Empty(n)
  <2> TAKE n \in DOMAIN files
  <2>1. CASE n # LastFile
    BY <1>1, <1>4, <2>1 DEF Empty
  <2>2. CASE n = LastFile
    <3>1. Empty(n) <=> ScanEnd(n) = 0
      BY EmptyEnd
    <3>2. /\ n \in DOMAIN evidence' /\ evidence'[n].end = ScanEnd(n) /\ files' = files
          /\ n \notin DOMAIN evidence
      BY <1>1, <1>4, <2>2
    <3>3. Empty(n)' <=> files[n].length < HeaderLen \/ ScanEnd(n) = 0
      BY <3>2 DEF Empty
    <3>4. Empty(n) <=> files[n].length < HeaderLen
      BY <3>2 DEF Empty
    <3>5. Empty(n)' <=> Empty(n)
      BY <3>1, <3>3, <3>4
    <3> QED
      BY <3>5 DEF Empty
  <2> QED
    BY <2>1, <2>2
<1>6. \A n \in DOMAIN files : ScanEnd(n)' = ScanEnd(n) /\ Torn(n)' = Torn(n)
  <2>1. \A n \in DOMAIN files : ScanEnd(n)' = ScanEnd(n)
    BY <1>2, <1>5, ScanSame
  <2> QED
    BY <1>1, <1>5, <2>1 DEF Torn
<1>7. Boundaries'
  <2>1. Active = LastFile /\ Active' = LastFile
    BY <1>1, <1>2 DEF Active
  <2>2. \A n \in DOMAIN files' : Empty(n)' => FramesIn(n)' = {}
    BY <1>1, <1>2, <1>5 DEF LogInv, Boundaries
  <2>3. \A n \in DOMAIN files' :
            Empty(n)' => n \in DOMAIN evidence' \/ (n = LastFile' /\ n # LowestFile')
    BY <1>1, <1>2, <1>4, <1>5 DEF LogInv, Boundaries
  <2>4. ASSUME NEW n \in DOMAIN evidence'
        PROVE  n \in Int /\ n <= Active' /\ (n \in DOMAIN files' => Frozen(n)')
    <3>1. CASE n = LastFile
      BY <1>1, <1>2, <1>3, <1>4, <1>6, <2>1, <3>1 DEF Frozen
    <3>2. CASE n # LastFile
      <4>1. n \in DOMAIN evidence /\ evidence'[n] = evidence[n]
        BY <1>4, <3>2
      <4>2. n \in Int /\ n <= LastFile /\ (n \in DOMAIN files => Frozen(n))
        BY <2>1, <4>1 DEF LogInv, Boundaries
      <4>3. n \in DOMAIN files' => Frozen(n)'
        BY <1>1, <1>2, <1>6, <4>1, <4>2 DEF Frozen
      <4> QED
        BY <2>1, <4>2, <4>3
    <3> QED
      BY <3>1, <3>2
  <2>5. \A n \in DOMAIN files' \ DOMAIN evidence' : n < Active' => ~Torn(n)'
    BY <1>1, <1>4, <1>6, <2>1 DEF LogInv, Boundaries
  <2>6. \A n \in DOMAIN files' : /\ files'[n].synced <= files'[n].length
                                 /\ files'[n].synced = files'[n].length
    BY <1>1 DEF LogInv, Boundaries
  <2> QED
    BY <1>1, <2>2, <2>3, <2>4, <2>5, <2>6 DEF Boundaries
<1>8. DurableFrames'
  <2>1. durable = lsn /\ files[LastFile].first <= durable + 1
        /\ \A f \in frames : f.lsn <= durable /\ Synced(f)
    BY <1>1 DEF LogInv, DurableFrames
  <2>2. \A f \in frames' : f.lsn <= durable' /\ Synced(f)'
    BY <1>1, <2>1 DEF Synced, FrameEnd
  <2> QED
    BY <1>1, <1>2, <2>1, <2>2 DEF DurableFrames
<1> QED
  BY <1>1, <1>2, <1>7, <1>8, StaysDown

(* A member with records has a last one.                                   *)
LEMMA HighestFrame ==
    ASSUME TypeOK, NEW own \in SUBSET frames, own # {}
    PROVE  \E f \in own : \A g \in own : g.lsn <= f.lsn
<1> DEFINE lsns == [f \in own |-> f.lsn]
           Lsns == {f.lsn : f \in own}
<1>1. IsFiniteSet(own)
  BY FS_Subset DEF TypeOK, FramesOK
<1>2. Lsns = {lsns[f] : f \in own}
  OBVIOUS
<1>3. IsFiniteSet(Lsns)
  <2> HIDE DEF lsns
  <2>1. IsFiniteSet({lsns[f] : f \in own})
    BY <1>1, ImageFinite
  <2> QED
    BY <1>2, <2>1
<1>4. Lsns \subseteq Int /\ Lsns # {}
  BY FrameParts
<1>5. Max(Lsns) \in Lsns /\ \A x \in Lsns : x <= Max(Lsns)
  <2> HIDE DEF Lsns
  <2> QED
    BY <1>3, <1>4, MaxOfFinite
<1> QED
  BY <1>5

(* The scan finds a living member's last record, which is not behind its   *)
(* MANIFEST, or no record at all.                                          *)
Scanned(m, s) ==
    /\ s.checkpoint = ScanCheckpoint(m) /\ ~s.retired
    /\ s.checkpoint <= s.seq /\ \A f \in FramesOf(m) : f.seq <= s.seq
    /\ \/ FramesOf(m) = {} /\ s.seq = s.checkpoint /\ s.latest = NoPointer /\ s.lsn = 0
       \/ \E f \in FramesOf(m) : /\ s.seq = f.seq /\ s.latest = f.at /\ s.lsn = f.lsn
                                 /\ \A g \in FramesOf(m) : g.lsn <= f.lsn

LEMMA ScannedLast ==
    ASSUME TypeOK, LogInv, NEW m \in Members, Live(m)
    PROVE  Scanned(m, ScannedMember(m))
<1> DEFINE own == FramesOf(m)
           cp == ScanCheckpoint(m)
           last == CHOOSE f \in own : \A g \in own : g.lsn <= f.lsn
           found == own # {} /\ last.seq >= cp
           s == ScannedMember(m)
<1>1. cp \in Nat /\ retiredAt[m] = None /\ manifest[m] \in Nat \cup {None}
  BY DEF TypeOK, RegistryOK, ScanCheckpoint, Live
<1>2. own # {} => last \in own /\ \A g \in own : g.lsn <= last.lsn
  <2>1. own \in SUBSET frames
    BY DEF FramesOf
  <2>2. own # {} => \E f \in own : \A g \in own : g.lsn <= f.lsn
    <3> HIDE DEF own
    <3> QED
      BY <2>1, HighestFrame
  <2> QED
    BY <2>2
<1>3. \A f \in own : f \in frames /\ f.id = m /\ f.seq \in Nat /\ f.lsn \in Nat
  BY FrameParts DEF FramesOf
<1>4. /\ s.checkpoint = cp /\ ~s.retired
      /\ s.seq = (IF found THEN last.seq ELSE cp)
      /\ s.latest = (IF found THEN last.at ELSE NoPointer)
      /\ s.lsn = (IF own = {} THEN 0 ELSE last.lsn)
  BY <1>1 DEF ScannedMember
<1> HIDE DEF last, s
<1>5. ASSUME own # {}, NEW f \in own
      PROVE  f.seq <= last.seq
  <2>1. last \in own /\ f.lsn <= last.lsn
    BY <1>2, <1>5
  <2>2. CASE f.lsn = last.lsn
    <3>1. f = last
      BY <1>3, <2>1, <2>2 DEF LogInv, LogShape, FramesApart
    <3> QED
      BY <1>3, <2>1, <3>1
  <2>3. CASE f.lsn < last.lsn
    <3>1. f.seq < last.seq
      BY <1>3, <2>1, <2>3 DEF LogInv, LogShape, SeqsRise
    <3> QED
      BY <1>3, <2>1, <3>1
  <2> QED
    BY <1>3, <2>1, <2>2, <2>3
<1>6. own # {} => found
  <2> SUFFICES ASSUME own # {}
               PROVE  last.seq >= cp
    OBVIOUS
  <2>1. last \in own /\ last.seq \in Nat
    BY <1>2, <1>3
  <2>2. CASE manifest[m] = None
    BY <1>1, <2>1, <2>2 DEF ScanCheckpoint
  <2>3. CASE manifest[m] # None
    <3>1. cp = manifest[m]
      BY <1>1, <2>3 DEF ScanCheckpoint
    <3>2. last.seq < manifest[m] => \E g \in own : g.seq >= manifest[m]
      <4>1. \A f \in own : f.seq <= manifest[m] => \E g \in own : g.seq >= manifest[m]
        BY DEF LogInv, ManifestsKept, ManifestKept
      <4>2. manifest[m] \in Nat \cup {None}
        BY DEF TypeOK, RegistryOK
      <4>3. last.seq < manifest[m] => last.seq <= manifest[m]
        BY <2>1, <2>3, <4>2
      <4> QED
        BY <2>1, <4>1, <4>3
    <3>3. ~(last.seq < manifest[m])
      <4> SUFFICES ASSUME last.seq < manifest[m]
                   PROVE  FALSE
        OBVIOUS
      <4>1. PICK g \in own : g.seq >= manifest[m]
        BY <3>2
      <4>2. g.seq <= last.seq /\ g.seq \in Nat
        BY <1>3, <1>5, <4>1
      <4> QED
        BY <1>1, <2>1, <2>3, <4>1, <4>2 DEF None
    <3> QED
      BY <1>1, <2>1, <3>1, <3>3
  <2> QED
    BY <2>2, <2>3
<1>7. CASE own = {}
  BY <1>1, <1>4, <1>7 DEF Scanned, s
<1>8. CASE own # {}
  <2>1. found /\ last \in own /\ last.seq \in Nat
    BY <1>2, <1>3, <1>6, <1>8
  <2>2. s.seq = last.seq /\ s.latest = last.at /\ s.lsn = last.lsn
    BY <1>4, <1>8, <2>1
  <2>3. s.checkpoint <= s.seq
    BY <1>1, <1>4, <2>1, <2>2
  <2>4. \A f \in own : f.seq <= s.seq
    BY <1>5, <1>8, <2>2
  <2>5. \A g \in own : g.lsn <= last.lsn
    BY <1>2, <1>8
  <2> QED
    BY <1>4, <2>1, <2>2, <2>3, <2>4, <2>5 DEF Scanned, s
<1> QED
  BY <1>7, <1>8

(* What the scan makes of a member is true of it.                          *)
LEMMA OpenedMember ==
    ASSUME TypeOK, TypeOK', LogInv, ~Corrupt, owner # "open", NEW m \in Members, Live(m)',
           UNCHANGED <<frames, retiredAt, manifest, registered>>,
           lsn' = lsn, durable' = lsn, member'[m] = ScannedMember(m),
           \A f \in frames : Before(f.at, [segment |-> segment', offset |-> offset'])
    PROVE  MemberTrue(m)'
<1>1. /\ Live(m) /\ FramesOf(m)' = FramesOf(m) /\ ScanCheckpoint(m)' = ScanCheckpoint(m)
      /\ \A f : Predecessors(f)' = Predecessors(f)
  BY DEF Live, FramesOf, ScanCheckpoint, Predecessors
<1> DEFINE s == ScannedMember(m)
<1>2. Scanned(m, s)
  BY <1>1, ScannedLast
<1>3. s \in MemberStates
  BY ScannedMemberType
<1> HIDE DEF s
<1>4. member'[m] = s
  BY DEF s
<1>5. s.checkpoint \in Nat /\ s.seq \in Nat /\ s.lsn \in Nat /\ lsn \in Nat
      /\ ScanCheckpoint(m) \in Nat
  BY <1>3, RowNumbers DEF MemberStates, TypeOK, RegistryOK, ScanCheckpoint
<1>6. \A f \in FramesOf(m) : /\ f \in frames /\ f.lsn \in Nat /\ f.lsn <= lsn
                             /\ f.seq \in Nat /\ f.id = m
  BY FrameParts DEF FramesOf, LogInv, LogShape, FramesPlaced
<1>7. s.lsn <= lsn
  BY <1>2, <1>5, <1>6 DEF Scanned
<1>8. FramesOf(m) # {} => \E f \in frames : /\ f \in FramesOf(m) /\ f.seq = s.seq
                                            /\ f.at = s.latest /\ f.lsn = s.lsn
  BY <1>2, <1>6 DEF Scanned
<1>9. \A f \in FramesOf(m) : f.lsn <= s.lsn
  BY <1>2 DEF Scanned
<1>10. s.seq > s.checkpoint => FramesOf(m) # {}
  BY <1>2, <1>5 DEF Scanned
<1>11. ASSUME NEW f \in FramesOf(m), f.seq > s.checkpoint + 1
       PROVE  Predecessors(f) # {}
  <2>1. s.checkpoint = ScanCheckpoint(f.id)
    BY <1>2, <1>6 DEF Scanned
  <2>2. ~CorruptFrame(f)
    BY <1>6 DEF Corrupt
  <2> QED
    BY <1>11, <2>1, <2>2 DEF CorruptFrame
<1>12. s.latest = NoPointer
       \/ Before(s.latest, [segment |-> segment', offset |-> offset'])
  BY <1>2, <1>6 DEF Scanned
<1>13. ~(s.lsn > lsn)
  BY <1>5, <1>7
<1>14. Positions(m)'
  BY <1>4, <1>13 DEF Positions
<1>15. s.checkpoint <= ScanCheckpoint(m) /\ ScanCheckpoint(m) <= s.seq /\ ~s.retired
  BY <1>2, <1>5 DEF Scanned
<1> QED
  BY <1>1, <1>4, <1>7, <1>8, <1>9, <1>10, <1>11, <1>12, <1>14, <1>15
     DEF MemberTrue, LastOf

(* The index the scan builds of the segments, and all together.            *)
LEMMA OpenEnds ==
    ASSUME TypeOK, TypeOK', DurableInv, LogInv, Open, LogShape', Boundaries', DurableFrames',
           CursorTrue', \A n : FramesIn(n)' = FramesIn(n), lsn' = lsn, durable' = durable,
           \A f \in frames : Before(f.at, [segment |-> segment', offset |-> offset'])
    PROVE  LogInv'
<1>1. /\ owner = "down" /\ owner' = "open" /\ ~Corrupt /\ files' = Rotated
      /\ segments' = ScannedSegments /\ segment' = Max(DOMAIN Rotated)
      /\ \A m \in Members : member'[m] = ScannedMember(m)
      /\ UNCHANGED <<frames, evidence, registered, retiredAt, manifest, settled, opened,
                     sealing, poison, pc>>
  BY DEF Open, Scannable
<1>2. DOMAIN segments' = DOMAIN Rotated
      /\ \A n \in DOMAIN Rotated :
             /\ DOMAIN segments'[n].members = {f.id : f \in FramesIn(n)}
             /\ \A m \in {f.id : f \in FramesIn(n)} :
                    segments'[n].members[m] = Max({f.seq : f \in FramesIn(n) \cap FramesOf(m)})
  BY <1>1 DEF ScannedSegments
<1>3. DOMAIN segments' = {n \in DOMAIN files' : n <= segment'}
  <2>1. \A n \in DOMAIN Rotated : n <= Max(DOMAIN Rotated)
    <3>1. DOMAIN Rotated \subseteq Int /\ DOMAIN Rotated # {} /\ IsFiniteSet(DOMAIN Rotated)
      BY RotatedType
    <3> QED
      BY <3>1, MaxOfFinite
  <2> QED
    BY <1>1, <1>2, <2>1
<1>4. ASSUME NEW n \in DOMAIN segments', NEW f \in FramesIn(n)
      PROVE  f.seq <= segments'[n].members[f.id]
  <2> DEFINE own == FramesIn(n) \cap FramesOf(f.id)
             seqs == [g \in own |-> g.seq]
             Seqs == {g.seq : g \in own}
  <2>1. own \subseteq frames /\ f \in own
    BY DEF FramesIn, FramesOf
  <2>2. IsFiniteSet(own)
    BY <2>1, FS_Subset DEF TypeOK, FramesOK
  <2>3. Seqs = {seqs[g] : g \in own}
    OBVIOUS
  <2>4. IsFiniteSet(Seqs)
    <3> HIDE DEF seqs, own
    <3>1. IsFiniteSet({seqs[g] : g \in own})
      BY <2>2, ImageFinite
    <3> QED
      BY <2>3, <3>1
  <2>5. Seqs \subseteq Int /\ f.seq \in Seqs
    BY <2>1, FrameParts
  <2>6. f.seq <= Max(Seqs)
    <3> HIDE DEF Seqs
    <3> QED
      BY <2>4, <2>5, MaxOfFinite
  <2>7. segments'[n].members[f.id] = Max(Seqs)
    BY <1>2
  <2> QED
    BY <2>6, <2>7
<1>5. IndexTrue'
  BY <1>2, <1>3, <1>4 DEF IndexTrue
<1>6. ManifestsKept' /\ HandlesTrue'
  BY <1>1, DownMembers
<1>7. MembersTrue'
  <2>1. durable' = lsn
    BY <1>1 DEF LogInv, DurableFrames
  <2>2. \A m \in Members : Live(m)' => MemberTrue(m)'
    BY <1>1, <2>1, OpenedMember
  <2> QED
    BY <2>2 DEF MembersTrue
<1>8. LeftBehind' /\ BusyHealthy'
  BY <1>1 DEF LogInv, LeftBehind, BusyHealthy
<1> QED
  BY <1>5, <1>6, <1>7, <1>8 DEF LogInv

LEMMA OpenLog ==
    ASSUME TypeOK, TypeOK', DurableInv, LogInv, Open
    PROVE  LogInv'
<1>1. /\ owner = "down" /\ owner' = "open" /\ ~Corrupt /\ ~NeedsBoundary
      /\ files' = Rotated /\ segments' = ScannedSegments
      /\ \A m \in Members : member'[m] = ScannedMember(m)
      /\ segment' = Max(DOMAIN Rotated) /\ offset' = Rotated[Max(DOMAIN Rotated)].length
      /\ lsn' = NextAfter(LastFile) - 1 /\ durable' = NextAfter(LastFile) - 1
      /\ UNCHANGED <<frames, evidence, registered, retiredAt, manifest, settled, opened,
                     sealing, poison, pc>>
  BY DEF Open, Scannable
<1> PICK last \in Nat : last = LastFile
  BY RowNumbers
<1>2. /\ durable = lsn /\ lsn \in Nat /\ last \in DOMAIN files
      /\ \A n \in DOMAIN files : n \in Nat /\ n <= last
  BY <1>1, RowNumbers DEF LogInv, DurableFrames
<1>3. lsn' = lsn /\ durable' = durable
  <2>1. last + 1 \notin DOMAIN files
    BY <1>2
  <2>2. After(last) = lsn + 1
    BY <2>1 DEF After
  <2>3. NextAfter(last) = After(last)
    BY <1>1, <1>2, AcceptedCounts DEF LogInv
  <2> QED
    BY <1>1, <1>2, <2>2, <2>3
<1>4. segment' = LastFile' /\ segment' \in DOMAIN files' /\ offset' = files'[segment'].length
  BY <1>1, RowNumbers DEF LastFile, TypeOK, CallOK
<1>5. ReadyToOpen
  BY <1>4 DEF ReadyToOpen
(* The owner appends behind the records of the last segment, ...           *)
<1>6. CASE ~NeedsRotate
  <2>1. files' = files /\ last \notin DOMAIN evidence /\ ~Torn(last)
    BY <1>1, <1>6 DEF Rotated, NeedsRotate, NeedsBoundary
  <2>2. /\ LogShape' /\ Boundaries' /\ DurableFrames' /\ LastFile' = LastFile
        /\ \A n : FramesIn(n)' = FramesIn(n)
    BY <1>1, <1>3, <1>5, <2>1, SameFiles
  <2>3. /\ segment' = last /\ offset' = files[last].length
        /\ files'[last].synced = files[last].length /\ files[last].length \in Nat
    BY <1>1, <1>2, <1>4, <2>1, <2>2, RowNumbers DEF LogInv, Boundaries
  <2>4. ~Empty(last) /\ ~(ScanEnd(last) < files[last].length)
    BY <2>1 DEF Torn
  <2>5. /\ ScanEnd(last) \in Nat /\ HeaderLen <= ScanEnd(last)
        /\ \A f \in FramesIn(last) : FrameEnd(f) <= ScanEnd(last)
        /\ ScanEnd(last) = HeaderLen \/ \E f \in FramesIn(last) : FrameEnd(f) = ScanEnd(last)
    BY <2>4, ScanEnds
  <2>6. \A f \in FramesIn(last) : f \in frames /\ FrameEnd(f) \in Nat
                                 /\ FrameEnd(f) <= files[last].length
    <3> TAKE f \in FramesIn(last)
    <3>1. f \in frames /\ f.at.segment = last
      BY DEF FramesIn
    <3>2. Synced(f)
      BY <1>1, <3>1 DEF LogInv, DurableFrames
    <3>3. FrameEnd(f) <= files[last].synced /\ files[last].synced = files[last].length
      BY <1>1, <1>2, <3>1, <3>2 DEF Synced, LogInv, Boundaries
    <3> QED
      BY <3>1, <3>3, FrameParts
  <2>7. HeaderLen <= files[last].length /\ HeaderLen \in Nat
    BY <2>3, <2>4, RowNumbers DEF Empty
  <2>8. ScanEnd(last) = files[last].length
    BY <2>3, <2>4, <2>5, <2>6, <2>7
  <2>9. CursorTrue'
    <3>1. FramesIn(segment)' = FramesIn(last)
      BY <2>2, <2>3 DEF FramesIn
    <3>2. \A f : FrameEnd(f)' = FrameEnd(f)
      BY DEF FrameEnd
    <3>3. \A f \in FramesIn(segment)' : FrameEnd(f)' <= offset'
      BY <2>3, <2>6, <3>1, <3>2
    <3>4. offset' = HeaderLen \/ \E f \in FramesIn(segment)' : FrameEnd(f)' = offset'
      BY <2>3, <2>5, <2>8, <3>1, <3>2
    <3>5. LastFile' # segment' + 1
      BY <1>4, <2>3
    <3>6. HeaderLen <= files'[segment'].synced /\ files'[segment'].length <= offset'
      BY <2>1, <2>3, <2>7
    <3>7. files'[segment'].synced = offset'
      BY <2>1, <2>3
    <3> QED
      BY <1>4, <3>3, <3>4, <3>5, <3>6, <3>7 DEF CursorTrue
  <2>10. \A f \in frames : Before(f.at, [segment |-> segment', offset |-> offset'])
    <3> TAKE f \in frames
    <3>1. f.at.segment \in Nat /\ f.at.segment <= last /\ f.at.offset \in Nat
          /\ f.length \in Nat \ {0} /\ FrameEnd(f) = f.at.offset + f.length
      BY <1>2, FrameParts DEF LogInv, LogShape, FramesPlaced
    <3>2. CASE f.at.segment = last
      <4>1. FrameEnd(f) <= files[last].length
        BY <2>6, <3>2 DEF FramesIn
      <4>2. f.at.offset < files[last].length
        BY <2>3, <3>1, <4>1
      <4> QED
        BY <2>3, <3>2, <4>2 DEF Before
    <3>3. CASE f.at.segment # last
      BY <2>3, <3>1, <3>3 DEF Before
    <3> QED
      BY <3>2, <3>3
  <2> QED
    BY <1>3, <2>2, <2>9, <2>10, OpenEnds
(* ... or starts a new one behind it.                                      *)
<1>7. CASE NeedsRotate
  <2>1. /\ DOMAIN files' = DOMAIN files \cup {last + 1}
        /\ \A n \in DOMAIN files : files'[n] = files[n]
        /\ files'[last + 1] = [first |-> lsn + 1, length |-> HeaderLen, synced |-> HeaderLen]
    BY <1>1, <1>7, RotatedFiles
  <2>2. last \in DOMAIN evidence
    BY <1>7 DEF NeedsRotate
  <2>3. /\ files'[last + 1].first = lsn + 1 /\ files'[last + 1].length = HeaderLen
        /\ files'[last + 1].synced = HeaderLen
    BY <2>1
  <2>4. /\ LogShape' /\ Boundaries' /\ DurableFrames' /\ LastFile' = last + 1
        /\ \A n : FramesIn(n)' = FramesIn(n) /\ FramesIn(last + 1) = {}
    BY <1>1, <1>3, <1>5, <2>1, <2>2, <2>3, NextFile
  <2>5. segment' = last + 1 /\ offset' = HeaderLen /\ HeaderLen \in Nat
    BY <1>4, <2>3, <2>4, RowNumbers
  <2>6. CursorTrue'
    <3>1. FramesIn(segment)' = {}
      BY <2>4, <2>5 DEF FramesIn
    <3>2. LastFile' # segment' + 1
      BY <2>4, <2>5
    <3>3. HeaderLen <= files'[segment'].synced /\ files'[segment'].length <= offset'
          /\ files'[segment'].synced = offset'
      BY <2>3, <2>5
    <3> QED
      BY <1>4, <2>5, <3>1, <3>2, <3>3 DEF CursorTrue
  <2>7. \A f \in frames : Before(f.at, [segment |-> segment', offset |-> offset'])
    <3> TAKE f \in frames
    <3>1. f.at.segment \in Nat /\ f.at.segment <= last
      BY <1>2, FrameParts DEF LogInv, LogShape, FramesPlaced
    <3> QED
      BY <2>5, <3>1 DEF Before
  <2> QED
    BY <1>3, <2>4, <2>6, <2>7, OpenEnds
<1> QED
  BY <1>6, <1>7

-----------------------------------------------------------------------------
(***************************************************************************)
(* Every step.                                                             *)
(***************************************************************************)
LEMMA StutterLog ==
    ASSUME TypeOK, TypeOK', LogInv, UNCHANGED vars
    PROVE  LogInv'
<1>1. UNCHANGED <<files, evidence, registered, retiredAt, manifest, settled, frames, owner,
                  poison, segment, offset, lsn, durable, storage, charged, member, segments,
                  pc, call, opened, sealing, promised, crashes>>
  BY DEF vars, disk, cursor, index
<1>2. /\ \A n : FramesIn(n)' = FramesIn(n) /\ FramesOf(n)' = FramesOf(n)
      /\ \A n : FrameEnd(n)' = FrameEnd(n) /\ Synced(n)' = Synced(n)
      /\ \A n : Empty(n)' = Empty(n) /\ Predecessors(n)' = Predecessors(n)
      /\ \A n : ScanCheckpoint(n)' = ScanCheckpoint(n) /\ Live(n)' = Live(n)
      /\ LastFile' = LastFile /\ LowestFile' = LowestFile
  BY <1>1 DEF FramesIn, FramesOf, FrameEnd, Synced, Empty, Predecessors, ScanCheckpoint, Live,
              LastFile, LowestFile
<1>3. /\ \A n : ScanEnd(n)' = ScanEnd(n) /\ After(n)' = After(n)
      /\ Active' = Active
  <2>1. \A n : ScanEnd(n)' = ScanEnd(n)
    BY <1>2, ScanSame
  <2> QED
    BY <1>1, <1>2, <2>1 DEF After, Active
<1>4. \A n : Torn(n)' = Torn(n) /\ Frozen(n)' = Frozen(n)
  BY <1>1, <1>2, <1>3 DEF Torn, Frozen
<1>5. LogShape'
  BY <1>1, LogSame DEF LogInv
<1>6. Boundaries'
  BY <1>1, <1>2, <1>3, <1>4 DEF LogInv, Boundaries
<1>7. DurableFrames' /\ BusyHealthy'
  BY <1>1, <1>2 DEF LogInv, DurableFrames, BusyHealthy
<1>8. CursorTrue'
  BY <1>1, <1>2 DEF LogInv, CursorTrue, FramesIn, FrameEnd
<1>9. IndexTrue'
  BY <1>1, <1>2 DEF LogInv, IndexTrue
<1>10. ManifestsKept'
  BY <1>1, <1>2 DEF LogInv, ManifestsKept, ManifestKept
<1>11. MembersTrue'
  BY <1>1, <1>2 DEF LogInv, MembersTrue, MemberTrue, LastOf, Positions
<1>12. HandlesTrue'
  BY <1>1, <1>2 DEF LogInv, HandlesTrue, HandleTrue
<1>13. LeftBehind'
  BY <1>1, <1>2 DEF LogInv, LeftBehind, TakenBack, Promised
<1> QED
  BY <1>5, <1>6, <1>7, <1>8, <1>9, <1>10, <1>11, <1>12, <1>13 DEF LogInv

LEMMA StepLog ==
    ASSUME TypeOK, TypeOK', DurableInv, LogInv, [Next]_vars
    PROVE  LogInv'
<1>1. CASE CallStep
  <2>1. CASE Preflight \/ AppendRefused \/ GcReturn
    BY <2>1, QuietStep
  <2>2. CASE Push \/ Roll \/ PushRolled
    BY <2>2, PushLog, RollLog, PushRolledLog
  <2>3. CASE GcUnlink \/ GcEvidence
    BY <2>3, GcUnlinkLog, GcEvidenceLog
  <2> QED
    BY <1>1, <2>1, <2>2, <2>3 DEF CallStep
<1>2. CASE Sync \/ IoError
  BY <1>2, QuietStep
<1>3. CASE \E m \in Members : \E raws \in Batches : BeginAppend(m, raws)
  BY <1>3, QuietStep
<1>4. CASE \E m \in Members : Register(m) \/ Close(m)
  BY <1>4, QuietStep
<1>5. CASE \E m \in Members : SyncMember(m) \/ SealSync(m)
  BY <1>5, SyncMemberLog
<1>6. CASE \E m \in Members : OpenMember(m) \/ PublishInitial(m)
  BY <1>6, OpenMemberLog, PublishInitialLog
<1>7. CASE \E m \in Members : SealPublish(m) \/ SealCheckpoint(m) \/ Retire(m)
  BY <1>7, SealPublishLog, SealCheckpointLog, RetireLog
<1>8. CASE \E power \in BOOLEAN : Crash(power)
  BY <1>8, CrashLog
<1>9. CASE OpenRefused \/ PublishBoundary \/ CrashInOpen \/ Open
  BY <1>9, OpenRefusedLog, PublishBoundaryLog, CrashInOpenLog, OpenLog
<1>10. CASE UNCHANGED vars
  BY <1>10, StutterLog
<1> QED
  BY <1>1, <1>2, <1>3, <1>4, <1>5, <1>6, <1>7, <1>8, <1>9, <1>10 DEF Next

(* The files are what they should be in every state: the frames lie in a   *)
(* row, each segment holds those its number says, what is torn is frozen   *)
(* or last, what is durable is synced, and the owner's memory describes it.*)
THEOREM LogHolds == Spec => []LogInv
<1>1. Init => DurableInv /\ LogInv
  BY InitDurable, InitLog
<1>2. TypeOK /\ TypeOK' /\ DurableInv /\ LogInv /\ [Next]_vars => DurableInv' /\ LogInv'
  BY StepDurable, StepLog
<1>3. Spec => []TypeOK
  BY TypeCorrect
<1> QED
  BY <1>1, <1>2, <1>3, PTL DEF Spec

-----------------------------------------------------------------------------
(***************************************************************************)
(* What follows for a member.                                              *)
(***************************************************************************)
LEMMA Reachable ==
    ASSUME TypeOK, LogInv
    PROVE  RecordsReachable
<1> SUFFICES ASSUME owner = "open", NEW m \in registered, retiredAt[m] = None
             PROVE  ChainIntact(m)
  BY DEF RecordsReachable
<1>1. m \in Members /\ MemberTrue(m)
  BY DEF TypeOK, RegistryOK, LogInv, MembersTrue, Live
<1>2. \A f \in frames : f.at.segment \in DOMAIN files
  BY DEF LogInv, LogShape, FramesPlaced
<1>3. member[m].seq > member[m].checkpoint => ChainFrame(m, member[m].seq, member[m].latest)
  BY <1>1, <1>2 DEF MemberTrue, LastOf, ChainFrame
<1>4. ASSUME NEW f \in FramesOf(m), f.seq > member[m].checkpoint + 1
      PROVE  ChainFrame(m, f.seq - 1, f.prev)
  <2>1. f \in frames /\ f.id = m /\ Predecessors(f) # {}
    BY <1>1, <1>4 DEF MemberTrue, FramesOf
  <2>2. PICK g \in frames : LinkedTo(f, g)
    BY <2>1 DEF LogInv, LogShape, Linked
  <2>3. g \in FramesOf(m) /\ f.seq = g.seq + 1 /\ f.prev = g.at /\ g.seq \in Nat
    BY <2>1, <2>2, FrameParts DEF LinkedTo, Predecessors, FramesOf
  <2>4. g.seq = f.seq - 1
    BY <2>3
  <2> QED
    BY <1>2, <2>2, <2>3, <2>4 DEF ChainFrame
<1> QED
  BY <1>3, <1>4 DEF ChainIntact

(* Every record a living member has above its checkpoint is in a file or   *)
(* the buffer, and linked to the one before: whatever other members let go *)
(* of, rolls, crashes and reopenings included, recover can walk back.      *)
THEOREM RecordsStayReachable == Spec => []RecordsReachable
<1>1. TypeOK /\ LogInv => RecordsReachable
  BY Reachable
<1>2. Spec => []TypeOK
  BY TypeCorrect
<1>3. Spec => []LogInv
  BY LogHolds
<1> QED
  BY <1>1, <1>2, <1>3, PTL

LEMMA PositionsExact ==
    ASSUME TypeOK, LogInv
    PROVE  DurablePositionExact
<1> SUFFICES ASSUME owner = "open", ~poison, NEW m \in Members, retiredAt[m] = None
             PROVE  /\ \A f \in FramesOf(m) : Synced(f) <=> f.seq <= DurableSeq(m)
                    /\ DurableSeq(m) > member[m].checkpoint
                           => \E f \in FramesOf(m) : f.seq = DurableSeq(m)
                                                     /\ f.at = DurablePointer(m)
  BY DEF DurablePositionExact
<1>1. Live(m) /\ MemberTrue(m)
  BY DEF Live, LogInv, MembersTrue
<1>2. /\ member[m].seq \in Nat /\ member[m].lsn \in Nat /\ member[m].durableSeq \in Nat
      /\ member[m].checkpoint \in Nat /\ durable \in Nat
  BY DEF TypeOK, IndexOK, MemberStates, CursorOK
<1>3. \A f \in FramesOf(m) : f \in frames /\ f.lsn \in Nat /\ f.seq \in Nat
  BY FrameParts DEF FramesOf
<1>4. ASSUME NEW f \in FramesOf(m)
      PROVE  Synced(f) <=> f.lsn <= durable
  <2>1. CASE f.lsn <= durable /\ Synced(f)
    BY <2>1
  <2>2. CASE /\ f.lsn > durable /\ f.at.segment = segment
             /\ files[segment].synced <= f.at.offset
    <3>1. f \in frames /\ f.at.segment \in DOMAIN files
      BY <1>3 DEF LogInv, LogShape, FramesPlaced
    <3>2. /\ FrameEnd(f) = f.at.offset + f.length /\ f.at.offset \in Nat
          /\ f.length \in Nat \ {0} /\ files[f.at.segment].synced \in Nat
      BY <3>1, FrameParts, RowNumbers
    <3>3. ~Synced(f)
      BY <2>2, <3>2 DEF Synced
    <3> QED
      BY <1>2, <1>3, <2>2, <3>3
  <2> QED
    BY <1>3, <2>1, <2>2 DEF LogInv, DurableFrames
<1>5. CASE member[m].lsn <= durable
  <2>1. DurableSeq(m) = member[m].seq /\ DurablePointer(m) = member[m].latest
    BY <1>5 DEF DurableSeq, DurablePointer, KeptSeq, KeptPointer
  <2>2. ASSUME NEW f \in FramesOf(m)
        PROVE  Synced(f) /\ f.seq <= member[m].seq
    <3>1. f.lsn <= member[m].lsn
      BY <1>1 DEF MemberTrue
    <3>2. f.lsn <= durable
      BY <1>2, <1>3, <1>5, <3>1
    <3> QED
      BY <1>1, <1>4, <3>2, LastIsHighest
  <2>3. member[m].seq > member[m].checkpoint
            => \E f \in FramesOf(m) : f.seq = member[m].seq /\ f.at = member[m].latest
    BY <1>1 DEF MemberTrue, LastOf
  <2> QED
    BY <2>1, <2>2, <2>3
<1>6. CASE ~(member[m].lsn <= durable)
  <2>1. DurableSeq(m) = member[m].durableSeq /\ DurablePointer(m) = member[m].durablePointer
    BY <1>6 DEF DurableSeq, DurablePointer, KeptSeq, KeptPointer
  <2>2. /\ \A f \in FramesOf(m) : f.lsn <= durable <=> f.seq <= member[m].durableSeq
        /\ member[m].durableSeq > member[m].checkpoint
               => \E f \in FramesOf(m) : /\ f.seq = member[m].durableSeq
                                         /\ f.at = member[m].durablePointer
    <3>1. member[m].lsn > durable
      BY <1>2, <1>6
    <3> QED
      BY <1>1, <3>1 DEF MemberTrue, Positions
  <2> QED
    BY <1>4, <2>1, <2>2
<1> QED
  BY <1>5, <1>6

(* durable_position tells exactly the last record of a living member that  *)
(* a power failure cannot take, and where it is.                           *)
THEOREM DurablePositionsExact == Spec => []DurablePositionExact
<1>1. TypeOK /\ LogInv => DurablePositionExact
  BY PositionsExact
<1>2. Spec => []TypeOK
  BY TypeCorrect
<1>3. Spec => []LogInv
  BY LogHolds
<1> QED
  BY <1>1, <1>2, <1>3, PTL

LEMMA Promises ==
    ASSUME TypeOK, LogInv
    PROVE  PromisesKept
<1> SUFFICES ASSUME owner = "down", NEW m \in Members, retiredAt[m] = None,
                    ~TakenBack(m)
             PROVE  ScannedMember(m).seq >= promised[m].seq
  BY DEF PromisesKept
<1> DEFINE s == ScannedMember(m)
<1>1. Live(m)
  BY DEF Live
<1>2. Scanned(m, s)
  BY <1>1, ScannedLast
<1>3. s.seq \in Nat /\ s.checkpoint \in Nat
  BY ScannedMemberType DEF MemberStates
<1> HIDE DEF s
<1>4. promised[m].seq \in Nat
  BY DEF TypeOK, HandlesOK
<1>5. \/ promised[m].seq <= ScanCheckpoint(m)
      \/ \E f \in FramesOf(m) : f.seq >= promised[m].seq
  BY <1>1 DEF LogInv, LeftBehind, Promised
<1>6. CASE promised[m].seq <= ScanCheckpoint(m)
  BY <1>2, <1>3, <1>4, <1>6 DEF Scanned, s
<1>7. CASE \E f \in FramesOf(m) : f.seq >= promised[m].seq
  <2> PICK f \in FramesOf(m) : f.seq >= promised[m].seq
    BY <1>7
  <2>1. f.seq <= s.seq /\ f.seq \in Nat
    BY <1>2, FrameParts DEF Scanned, FramesOf
  <2>2. s.seq >= promised[m].seq
    BY <1>3, <1>4, <2>1
  <2> QED
    BY <2>2 DEF s
<1> QED
  BY <1>5, <1>6, <1>7

(* Whatever durable_position reported of a member before the process died  *)
(* is what the scan finds afterwards, or more: a power failure as well as  *)
(* a crash, whatever the operation it interrupts, and again when opening   *)
(* crashes too.  A power failure may take renamed MANIFESTs back; only the *)
(* member whose MANIFEST an open had relied on before it was safe loses by *)
(* that.                                                                   *)
THEOREM PromisesAreKept == Spec => []PromisesKept
<1>1. TypeOK /\ LogInv => PromisesKept
  BY Promises
<1>2. Spec => []TypeOK
  BY TypeCorrect
<1>3. Spec => []LogInv
  BY LogHolds
<1> QED
  BY <1>1, <1>2, <1>3, PTL

(* Files the scan refuses as corrupt stay as they are.                     *)
LEMMA CorruptStays ==
    ASSUME TypeOK, DurableInv, [Next]_vars, owner' = "corrupt"
    PROVE  /\ UNCHANGED <<files, evidence>>
           /\ UNCHANGED <<retiredAt, manifest, promised>>
           /\ owner = "corrupt" \/ (owner = "down" /\ Corrupt)
<1>1. pc # "idle" => owner = "open"
  BY DEF TypeOK, CallOK
<1>2. CASE CallStep
  <2>1. owner = "open"
    BY <1>1, <1>2 DEF CallStep, Preflight, AppendRefused, Push, Roll, PushRolled, GcUnlink,
                      GcEvidence, GcReturn, Fits
  <2>2. owner' = owner
    BY <1>2 DEF CallStep, Preflight, AppendRefused, Push, Roll, PushRolled, GcUnlink,
                GcEvidence, GcReturn
  <2> QED
    BY <2>1, <2>2
<1>3. CASE Sync \/ IoError
  BY <1>3 DEF Sync, IoError, Locked
<1>4. ASSUME NEW m \in Members
      PROVE  /\ ~\E raws \in Batches : BeginAppend(m, raws)
             /\ ~SyncMember(m) /\ ~Register(m) /\ ~PublishInitial(m) /\ ~OpenMember(m)
             /\ ~Close(m) /\ ~SealSync(m) /\ ~SealPublish(m) /\ ~SealCheckpoint(m)
             /\ ~Retire(m)
  <2>1. ~(owner = "open" /\ owner' = owner)
    OBVIOUS
  <2>2. \A raws \in Batches : ~BeginAppend(m, raws)
    BY <2>1 DEF BeginAppend, Locked
  <2>3. ~SyncMember(m) /\ ~Register(m) /\ ~PublishInitial(m) /\ ~OpenMember(m) /\ ~SealSync(m)
    BY <2>1 DEF SyncMember, Register, PublishInitial, OpenMember, SealSync, Locked
  <2>4. ~SealPublish(m) /\ ~SealCheckpoint(m) /\ ~Retire(m)
    BY <2>1 DEF SealPublish, SealCheckpoint, Retire, Locked
  <2>5. ~Close(m)
    BY <2>1 DEF Close, DurableInv, CallersOpen
  <2> QED
    BY <2>2, <2>3, <2>4, <2>5
<1>5. CASE \E power \in BOOLEAN : Crash(power)
  BY <1>5 DEF Crash, Died
<1>6. CASE OpenRefused
  BY <1>6 DEF OpenRefused
<1>7. CASE PublishBoundary \/ CrashInOpen \/ Open
  BY <1>7 DEF PublishBoundary, CrashInOpen, Open, Scannable
<1>8. CASE UNCHANGED vars
  BY <1>8 DEF vars, disk
<1> QED
  BY <1>2, <1>3, <1>4, <1>5, <1>6, <1>7, <1>8 DEF Next

(* SharedWal::open calls nothing corrupt that crashes have left, but for   *)
(* two cases: the lowest file is an empty segment that was frozen, or a    *)
(* power failure has taken back a MANIFEST that an open had relied on.     *)
THEOREM CorruptHeadlessOnly == Spec => []CorruptOnlyHeadless
<1>1. Init => CorruptOnlyHeadless
  BY DEF Init, CorruptOnlyHeadless
<1>2. TypeOK /\ DurableInv /\ LogInv /\ CorruptOnlyHeadless /\ [Next]_vars
          => CorruptOnlyHeadless'
  <2> SUFFICES ASSUME TypeOK, DurableInv, LogInv, CorruptOnlyHeadless, [Next]_vars,
                      owner' = "corrupt"
               PROVE  HeadlessBoundary' \/ \E m \in Members : TakenBack(m)'
    BY DEF CorruptOnlyHeadless
  <2>1. /\ UNCHANGED <<files, evidence, retiredAt, manifest, promised>>
        /\ owner = "corrupt" \/ (owner = "down" /\ Corrupt)
    BY CorruptStays
  <2>2. HeadlessBoundary \/ \E m \in Members : TakenBack(m)
    <3>1. CASE owner = "corrupt"
      BY <3>1 DEF CorruptOnlyHeadless
    <3>2. CASE owner = "down" /\ Corrupt
      BY <3>2, ScanAccepts
    <3> QED
      BY <2>1, <3>1, <3>2
  <2>3. LowestFile' = LowestFile
    BY <2>1 DEF LowestFile
  <2>4. \A m \in Members : TakenBack(m)' = TakenBack(m)
    BY <2>1 DEF TakenBack, ScanCheckpoint
  <2> QED
    BY <2>1, <2>2, <2>3, <2>4 DEF HeadlessBoundary, Empty
<1>3. Spec => []TypeOK
  BY TypeCorrect
<1>4. Spec => []LogInv
  BY LogHolds
<1>5. Init => DurableInv
  BY InitDurable
<1>6. TypeOK /\ TypeOK' /\ DurableInv /\ [Next]_vars => DurableInv'
  BY StepDurable
<1> QED
  BY <1>1, <1>2, <1>3, <1>4, <1>5, <1>6, PTL DEF Spec

-----------------------------------------------------------------------------
(***************************************************************************)
(* The budgets: the running totals the owner keeps are the sums they stand *)
(* for, a batch that passed the preflight is accepted to its end, and      *)
(* checkpoints make room.                                                  *)
(***************************************************************************)

(***************************************************************************)
(* Sums.  The sum of f over x is the number of pairs <<i, k>> with i in x  *)
(* and k in 1 .. f[i], which does not depend on an order of x.             *)
(***************************************************************************)
Pile(f, x) == {p \in x \X Nat : p[2] \in 1 .. f[p[1]]}

LEMMA PileFinite ==
    ASSUME NEW f, NEW x, IsFiniteSet(x), \A i \in x : f[i] \in Nat
    PROVE  IsFiniteSet(Pile(f, x))
<1>1. CASE x = {}
  <2>1. Pile(f, x) = {}
    BY <1>1 DEF Pile
  <2> QED
    BY <2>1, FS_EmptySet
<1>2. CASE x # {}
  <2> DEFINE vals == {f[i] : i \in x}
  <2>1. IsFiniteSet(vals)
    BY ImageFinite
  <2>2. vals \subseteq Int /\ vals # {} /\ \A i \in x : f[i] \in vals
    BY <1>2
  <2> HIDE DEF vals
  <2>3. PICK top \in vals : \A v \in vals : v <= top
    BY <2>1, <2>2, MaxOfFinite
  <2>4. top \in Int /\ \A i \in x : f[i] \in Nat /\ f[i] <= top
    BY <2>2, <2>3
  <2>5. Pile(f, x) \subseteq x \X (1 .. top)
    <3> SUFFICES ASSUME NEW p \in Pile(f, x)
                 PROVE  p \in x \X (1 .. top)
      OBVIOUS
    <3>1. p \in x \X Nat /\ p[1] \in x /\ p[2] \in 1 .. f[p[1]]
      BY DEF Pile
    <3>2. p[2] \in 1 .. top
      BY <2>4, <3>1
    <3> QED
      BY <3>1, <3>2
  <2>6. IsFiniteSet(1 .. top)
    BY <2>4, FS_Interval
  <2>7. IsFiniteSet(x \X (1 .. top))
    BY <2>6, FS_Product
  <2> QED
    BY <2>5, <2>7, FS_Subset
<1> QED
  BY <1>1, <1>2

(* The pairs of one more element.                                          *)
LEMMA PileAdds ==
    ASSUME NEW f, NEW x, IsFiniteSet(x), \A i \in x : f[i] \in Nat, NEW j \in x
    PROVE  /\ Cardinality(Pile(f, x)) = f[j] + Cardinality(Pile(f, x \ {j}))
           /\ Cardinality(Pile(f, x \ {j})) \in Nat
<1> DEFINE rest == Pile(f, x \ {j})
           own  == {j} \X (1 .. f[j])
<1>1. IsFiniteSet(x \ {j})
  BY FS_RemoveElement
<1>2. IsFiniteSet(rest)
  BY <1>1, PileFinite
<1>3. IsFiniteSet(own) /\ Cardinality(own) = f[j]
  <2>1. f[j] \in Nat
    OBVIOUS
  <2>2. IsFiniteSet(1 .. f[j]) /\ Cardinality(1 .. f[j]) = f[j]
    <3>1. PICK k \in Nat : k = f[j]
      BY <2>1
    <3>2. IsFiniteSet(1 .. k) /\ Cardinality(1 .. k) = IF 1 > k THEN 0 ELSE k - 1 + 1
      BY FS_Interval
    <3>3. Cardinality(1 .. k) = k
      BY <3>2
    <3> QED
      BY <3>1, <3>2, <3>3, Zenon
  <2>3. IsFiniteSet({j}) /\ Cardinality({j}) = 1
    BY FS_Singleton
  <2>4. IsFiniteSet(own) /\ Cardinality(own) = Cardinality({j}) * Cardinality(1 .. f[j])
    BY <2>2, <2>3, FS_Product
  <2> QED
    BY <2>1, <2>2, <2>3, <2>4
<1>4. Pile(f, x) = rest \cup own
  <2>1. ASSUME NEW p \in Pile(f, x)
        PROVE  p \in rest \cup own
    <3>1. p \in x \X Nat /\ p[1] \in x /\ p[2] \in Nat /\ p[2] \in 1 .. f[p[1]]
      BY <2>1 DEF Pile
    <3>2. CASE p[1] = j
      BY <3>1, <3>2
    <3>3. CASE p[1] # j
      BY <3>1, <3>3 DEF Pile
    <3> QED
      BY <3>2, <3>3
  <2>2. rest \subseteq Pile(f, x)
    BY DEF Pile
  <2>3. own \subseteq Pile(f, x)
    <3> SUFFICES ASSUME NEW p \in own
                 PROVE  p \in Pile(f, x)
      OBVIOUS
    <3>1. p[1] = j /\ p[2] \in 1 .. f[j] /\ p[2] \in Nat /\ p = <<j, p[2]>>
      OBVIOUS
    <3> QED
      BY <3>1 DEF Pile
  <2> QED
    BY <2>1, <2>2, <2>3
<1>5. rest \cap own = {}
  BY DEF Pile
<1>6. Cardinality(rest \cap own) = 0
  BY <1>5, FS_EmptySet
<1>7. Cardinality(rest \cup own)
          = Cardinality(rest) + Cardinality(own) - Cardinality(rest \cap own)
  <2> HIDE DEF rest, own
  <2> QED
    BY <1>2, <1>3, FS_Union
<1>8. Cardinality(rest) \in Nat
  BY <1>2, FS_CardinalityType
<1> HIDE DEF rest, own
<1>9. Cardinality(Pile(f, x)) = f[j] + Cardinality(rest)
  BY <1>3, <1>4, <1>6, <1>7, <1>8
<1> QED
  BY <1>8, <1>9 DEF rest

(* The community modules' sum, as a function on the sets of indices.       *)
IsSum(it, f, D) ==
    it = [x \in SUBSET D |->
             IF x = {} THEN 0
             ELSE LET i == CHOOSE y \in x : TRUE IN f[i] + it[x \ {i}]]

LEMMA SumDef ==
    ASSUME NEW f
    PROVE  SumFunction(f) = (CHOOSE it : IsSum(it, f, DOMAIN f))[DOMAIN f]
BY DEF SumFunction, SumFunctionOnSet, FoldFunctionOnSet, MapThenFoldSet, IsSum

LEMMA SumIsPile ==
    ASSUME NEW f, IsFiniteSet(DOMAIN f), \A i \in DOMAIN f : f[i] \in Nat
    PROVE  SumFunction(f) = Cardinality(Pile(f, DOMAIN f))
<1> DEFINE D == DOMAIN f
           size == [x \in SUBSET D |-> Cardinality(Pile(f, x))]
           it == CHOOSE g : IsSum(g, f, D)
<1>1. ASSUME NEW x \in SUBSET D
      PROVE  /\ x = {} => Cardinality(Pile(f, x)) = 0
             /\ \A i \in x : Cardinality(Pile(f, x)) = f[i] + Cardinality(Pile(f, x \ {i}))
  <2>1. IsFiniteSet(x)
    BY FS_Subset
  <2>2. x = {} => Pile(f, x) = {}
    BY DEF Pile
  <2> QED
    BY <2>1, <2>2, PileAdds, FS_EmptySet
<1>2. IsSum(size, f, D)
  <2>1. ASSUME NEW x \in SUBSET D
        PROVE  size[x] = IF x = {} THEN 0
                         ELSE LET i == CHOOSE y \in x : TRUE IN f[i] + size[x \ {i}]
    <3>1. CASE x = {}
      BY <1>1, <3>1
    <3>2. CASE x # {}
      <4> DEFINE i == CHOOSE y \in x : TRUE
      <4>1. i \in x
        BY <3>2
      <4> HIDE DEF i
      <4>2. size[x] = Cardinality(Pile(f, x)) /\ size[x \ {i}] = Cardinality(Pile(f, x \ {i}))
        OBVIOUS
      <4>3. size[x] = f[i] + size[x \ {i}]
        BY <1>1, <4>1, <4>2
      <4> QED
        BY <3>2, <4>3 DEF i
    <3> QED
      BY <3>1, <3>2
  <2>2. size = [x \in SUBSET D |-> size[x]]
    OBVIOUS
  <2> HIDE DEF size
  <2> QED
    BY <2>1, <2>2 DEF IsSum
<1>3. IsSum(it, f, D)
  BY <1>2
<1> HIDE DEF it
<1> DEFINE Wrong == {x \in SUBSET D : it[x] # Cardinality(Pile(f, x))}
<1>4. ASSUME Wrong # {}
      PROVE  FALSE
  <2>1. Wrong \subseteq FiniteSubsetsOf(D)
    BY FS_FiniteSubsetsOfFinite
  <2>2. PICK x \in Wrong : \A y \in Wrong : ~ (<<y, x>> \in StrictSubsetOrdering(D))
    <3> HIDE DEF Wrong
    <3> QED
      BY <1>4, <2>1, FS_StrictSubsetOrderingWellFounded, WFMin
  <2>3. x \in SUBSET D /\ it[x] # Cardinality(Pile(f, x))
    OBVIOUS
  <2>4. x # {}
    <3>1. x = {} => it[x] = 0
      BY <1>3, <2>3 DEF IsSum
    <3> QED
      BY <1>1, <2>3, <3>1
  <2> DEFINE i == CHOOSE y \in x : TRUE
  <2>5. i \in x
    BY <2>4
  <2>6. it[x] = f[i] + it[x \ {i}]
    BY <1>3, <2>3, <2>4 DEF IsSum
  <2> HIDE DEF i
  <2>7. x \ {i} \in SUBSET D /\ <<x \ {i}, x>> \in StrictSubsetOrdering(D)
    BY <2>3, <2>5 DEF StrictSubsetOrdering
  <2>8. it[x \ {i}] = Cardinality(Pile(f, x \ {i}))
    BY <2>2, <2>7
  <2> QED
    BY <1>1, <2>3, <2>5, <2>6, <2>8
<1>5. it[D] = Cardinality(Pile(f, D))
  BY <1>4
<1> QED
  BY <1>5, SumDef DEF it

(* A sum is one of its values and the sum of the others.                   *)
LEMMA SumTakes ==
    ASSUME NEW f, IsFiniteSet(DOMAIN f), \A i \in DOMAIN f : f[i] \in Nat,
           NEW j \in DOMAIN f, NEW g, DOMAIN g = DOMAIN f \ {j},
           \A i \in DOMAIN g : g[i] = f[i]
    PROVE  SumFunction(f) = f[j] + SumFunction(g) /\ SumFunction(g) \in Nat
<1>1. IsFiniteSet(DOMAIN g) /\ \A i \in DOMAIN g : g[i] \in Nat
  BY FS_RemoveElement
<1>2. Pile(g, DOMAIN g) = Pile(f, DOMAIN f \ {j})
  BY DEF Pile
<1>3. SumFunction(f) = Cardinality(Pile(f, DOMAIN f))
  BY SumIsPile
<1>4. SumFunction(g) = Cardinality(Pile(g, DOMAIN g))
  BY <1>1, SumIsPile
<1> QED
  BY <1>2, <1>3, <1>4, PileAdds

LEMMA SumNothing ==
    ASSUME NEW f, DOMAIN f = {}
    PROVE  SumFunction(f) = 0
<1>1. Pile(f, DOMAIN f) = {}
  BY DEF Pile
<1> QED
  BY <1>1, SumIsPile, FS_EmptySet

-----------------------------------------------------------------------------
(***************************************************************************)
(* The running totals.                                                     *)
(***************************************************************************)
(* What the index holds of the segments, without the members.              *)
ChargeOf(segs) ==
    SumFunction([n \in DOMAIN segs |->
        SegmentCharge + EntryCharge * Cardinality(DOMAIN segs[n].members)])

(* Segments with lengths and entries that can be added up.                 *)
Sized(segs) ==
    /\ IsFiniteSet(DOMAIN segs)
    /\ \A n \in DOMAIN segs : /\ segs[n].length \in Nat
                              /\ IsFiniteSet(DOMAIN segs[n].members)

(* A roll has charged the next segment before it exists.                   *)
RollCharge == IF pc = "roll" THEN SegmentCharge + EntryCharge ELSE 0

BudgetsKept ==
    owner = "open" /\ ~poison =>
        /\ storage = StorageOf(segments) /\ storage <= MaxBytes
        /\ charged = IndexOf(segments) + RollCharge /\ charged <= IndexBytes
        /\ pc = "roll" => Rolls /\ storage + HeaderLen + Length <= MaxBytes

(* A sum after one of its values has changed, or has been added.           *)
LEMMA SumChanges ==
    ASSUME NEW f, IsFiniteSet(DOMAIN f), \A i \in DOMAIN f : f[i] \in Nat,
           NEW g, NEW j, DOMAIN g = DOMAIN f \cup {j}, \A i \in DOMAIN g : g[i] \in Nat,
           \A i \in DOMAIN f \ {j} : g[i] = f[i]
    PROVE  /\ SumFunction(f) \in Nat /\ SumFunction(g) \in Nat
           /\ j \in DOMAIN f => SumFunction(g) + f[j] = SumFunction(f) + g[j]
           /\ j \notin DOMAIN f => SumFunction(g) = SumFunction(f) + g[j]
<1> DEFINE rest == [i \in DOMAIN f \ {j} |-> f[i]]
<1>1. IsFiniteSet(DOMAIN g)
  BY FS_AddElement
<1>2. j \in DOMAIN g /\ DOMAIN rest = DOMAIN g \ {j} /\ g[j] \in Nat
  OBVIOUS
<1>3. \A i \in DOMAIN rest : rest[i] = g[i] /\ rest[i] = f[i]
  OBVIOUS
<1> HIDE DEF rest
<1>4. SumFunction(g) = g[j] + SumFunction(rest) /\ SumFunction(rest) \in Nat
  BY <1>1, <1>2, <1>3, SumTakes
<1>5. CASE j \in DOMAIN f
  <2>1. DOMAIN rest = DOMAIN f \ {j} /\ f[j] \in Nat
    BY <1>5, <1>2
  <2>2. SumFunction(f) = f[j] + SumFunction(rest)
    BY <1>3, <1>5, <2>1, SumTakes
  <2> QED
    BY <1>2, <1>4, <1>5, <2>1, <2>2
<1>6. CASE j \notin DOMAIN f
  <2>1. DOMAIN f = DOMAIN g \ {j} /\ \A i \in DOMAIN f : f[i] = g[i]
    BY <1>6
  <2>2. SumFunction(g) = g[j] + SumFunction(f) /\ SumFunction(f) \in Nat
    BY <1>1, <1>2, <2>1, SumTakes
  <2> QED
    BY <1>2, <1>4, <1>6, <2>2
<1> QED
  BY <1>5, <1>6

(* What one segment is charged.                                            *)
Charge(segs, n) == SegmentCharge + EntryCharge * Cardinality(DOMAIN segs[n].members)

LEMMA ChargeType ==
    ASSUME NEW segs, Sized(segs), NEW n \in DOMAIN segs
    PROVE  Charge(segs, n) \in Nat
<1>1. Cardinality(DOMAIN segs[n].members) \in Nat
  BY FS_CardinalityType DEF Sized
<1> QED
  BY <1>1, LimitsAssumption DEF Charge

(* The totals after one segment has changed, or has been added.            *)
LEMMA TotalsChange ==
    ASSUME NEW segs, Sized(segs), NEW new, Sized(new), NEW j,
           DOMAIN new = DOMAIN segs \cup {j},
           \A n \in DOMAIN segs \ {j} : new[n] = segs[n]
    PROVE  /\ StorageOf(segs) \in Nat /\ StorageOf(new) \in Nat
           /\ ChargeOf(segs) \in Nat /\ ChargeOf(new) \in Nat
           /\ j \in DOMAIN segs =>
                  /\ StorageOf(new) + segs[j].length = StorageOf(segs) + new[j].length
                  /\ ChargeOf(new) + Charge(segs, j) = ChargeOf(segs) + Charge(new, j)
           /\ j \notin DOMAIN segs =>
                  /\ StorageOf(new) = StorageOf(segs) + new[j].length
                  /\ ChargeOf(new) = ChargeOf(segs) + Charge(new, j)
<1> DEFINE f == [n \in DOMAIN segs |-> segs[n].length]
           g == [n \in DOMAIN new |-> new[n].length]
           c == [n \in DOMAIN segs |-> Charge(segs, n)]
           d == [n \in DOMAIN new |-> Charge(new, n)]
<1>1. IsFiniteSet(DOMAIN segs) /\ j \in DOMAIN new
  BY DEF Sized
<1>2. /\ StorageOf(segs) = SumFunction(f) /\ StorageOf(new) = SumFunction(g)
      /\ ChargeOf(segs) = SumFunction(c) /\ ChargeOf(new) = SumFunction(d)
  BY DEF StorageOf, ChargeOf, Charge
<1>3. /\ DOMAIN f = DOMAIN segs /\ DOMAIN c = DOMAIN segs
      /\ DOMAIN g = DOMAIN new /\ DOMAIN d = DOMAIN new
  OBVIOUS
<1>4. /\ \A n \in DOMAIN f : f[n] \in Nat
      /\ \A n \in DOMAIN g : g[n] \in Nat
  BY DEF Sized
<1>5. /\ \A n \in DOMAIN c : c[n] \in Nat
      /\ \A n \in DOMAIN d : d[n] \in Nat
  BY ChargeType
<1>6. /\ \A n \in DOMAIN f \ {j} : g[n] = f[n]
      /\ \A n \in DOMAIN c \ {j} : d[n] = c[n]
  BY DEF Charge
<1>7. /\ g[j] = new[j].length /\ d[j] = Charge(new, j)
      /\ j \in DOMAIN segs => f[j] = segs[j].length /\ c[j] = Charge(segs, j)
  BY <1>1
<1> HIDE DEF f, g, c, d
<1>8. /\ SumFunction(f) \in Nat /\ SumFunction(g) \in Nat
      /\ j \in DOMAIN f => SumFunction(g) + f[j] = SumFunction(f) + g[j]
      /\ j \notin DOMAIN f => SumFunction(g) = SumFunction(f) + g[j]
  BY <1>1, <1>3, <1>4, <1>6, SumChanges
<1>9. /\ SumFunction(c) \in Nat /\ SumFunction(d) \in Nat
      /\ j \in DOMAIN c => SumFunction(d) + c[j] = SumFunction(c) + d[j]
      /\ j \notin DOMAIN c => SumFunction(d) = SumFunction(c) + d[j]
  BY <1>1, <1>3, <1>5, <1>6, SumChanges
<1> QED
  BY <1>2, <1>3, <1>7, <1>8, <1>9

(* An index with the types can be added up.                                *)
LEMMA TypedSized ==
    ASSUME NEW segs, IsFiniteSet(DOMAIN segs),
           \A n \in DOMAIN segs : /\ segs[n].length \in Nat
                                  /\ DOMAIN segs[n].members \subseteq Members
    PROVE  Sized(segs)
  BY FS_Subset, MembersAssumption DEF Sized

(* The index of an open owner can be added up.                             *)
LEMMA SegmentsSized ==
    ASSUME TypeOK, LogInv, owner = "open"
    PROVE  Sized(segments) /\ segment \in DOMAIN segments
<1>1. DOMAIN segments = {n \in DOMAIN files : n <= segment} /\ segment \in DOMAIN files
  BY DEF LogInv, IndexTrue, CursorTrue
<1>2. IsFiniteSet(DOMAIN segments)
  BY <1>1, FS_Subset DEF TypeOK, FilesOK
<1>3. \A n \in DOMAIN segments : /\ segments[n].length \in Nat
                                 /\ DOMAIN segments[n].members \subseteq Members
  BY DEF TypeOK, IndexOK
<1>4. Sized(segments)
  BY <1>2, <1>3, TypedSized
<1>5. segment \in DOMAIN segments
  BY <1>1 DEF TypeOK, CursorOK
<1> QED
  BY <1>4, <1>5

(* The charge of the members.                                              *)
LEMMA MembersCharge ==
    ASSUME TypeOK, NEW segs
    PROVE  /\ IndexOf(segs) = ChargeOf(segs) + MemberCharge * Cardinality(registered)
           /\ IsFiniteSet(registered) /\ MemberCharge * Cardinality(registered) \in Nat
<1>1. IsFiniteSet(registered)
  BY FS_Subset, MembersAssumption DEF TypeOK, RegistryOK
<1>2. Cardinality(registered) \in Nat
  BY <1>1, FS_CardinalityType
<1>3. MemberCharge * Cardinality(registered) \in Nat
  BY <1>2, LimitsAssumption
<1> QED
  BY <1>1, <1>3 DEF IndexOf, ChargeOf

(* The totals of an open owner are numbers.                                *)
LEMMA TotalsType ==
    ASSUME TypeOK, LogInv, owner = "open"
    PROVE  /\ StorageOf(segments) \in Nat /\ ChargeOf(segments) \in Nat
           /\ IndexOf(segments) \in Nat
<1>1. Sized(segments) /\ segment \in DOMAIN segments
  BY SegmentsSized
<1>2. DOMAIN segments = DOMAIN segments \cup {segment}
  BY <1>1
<1>3. StorageOf(segments) \in Nat /\ ChargeOf(segments) \in Nat
  BY <1>1, <1>2, TotalsChange
<1> QED
  BY <1>3, MembersCharge

(* A step that changes neither the totals nor what they stand for.         *)
LEMMA QuietBudget ==
    ASSUME BudgetsKept, UNCHANGED <<storage, charged, segments, registered>>,
           owner' = "open" /\ ~poison' => owner = "open" /\ ~poison,
           ~poison' => (pc' = "roll" <=> pc = "roll"),
           pc' = "roll" => UNCHANGED <<call, offset>>
    PROVE  BudgetsKept'
<1> SUFFICES ASSUME owner' = "open", ~poison'
             PROVE  /\ storage' = StorageOf(segments)' /\ storage' <= MaxBytes
                    /\ charged' = IndexOf(segments)' + RollCharge'
                    /\ charged' <= IndexBytes
                    /\ pc' = "roll" => Rolls' /\ (storage + HeaderLen + Length <= MaxBytes)'
  BY DEF BudgetsKept
<1>1. /\ storage = StorageOf(segments) /\ storage <= MaxBytes
      /\ charged = IndexOf(segments) + RollCharge /\ charged <= IndexBytes
      /\ pc = "roll" => Rolls /\ storage + HeaderLen + Length <= MaxBytes
  BY DEF BudgetsKept
<1>2. StorageOf(segments)' = StorageOf(segments) /\ IndexOf(segments)' = IndexOf(segments)
  BY DEF StorageOf, IndexOf
<1>3. RollCharge' = RollCharge
  BY DEF RollCharge
<1>4. pc' = "roll" => Rolls' = Rolls /\ Length' = Length
  BY DEF Rolls, Length
<1> QED
  BY <1>1, <1>2, <1>3, <1>4

-----------------------------------------------------------------------------
(***************************************************************************)
(* Every step keeps the totals.                                            *)
(***************************************************************************)
LEMMA InitBudget == Init => BudgetsKept
<1> SUFFICES ASSUME Init
             PROVE  BudgetsKept
  OBVIOUS
<1> DEFINE none == [n \in {} |-> [length |-> HeaderLen, members |-> <<>>]]
<1>1. /\ DOMAIN segments = {1} /\ segments[1].length = HeaderLen
      /\ DOMAIN segments[1].members = {} /\ registered = Founders
      /\ storage = HeaderLen /\ pc = "idle"
      /\ charged = SegmentCharge + MemberCharge * Cardinality(Founders)
  BY DEF Init
<1>2. Sized(none) /\ DOMAIN none = {}
  BY FS_EmptySet DEF Sized
<1>3. Sized(segments)
  <2>1. IsFiniteSet({1}) /\ IsFiniteSet({}) /\ HeaderLen \in Nat
    BY FS_EmptySet, FS_Singleton, LengthsAssumption
  <2> QED
    BY <2>1, <1>1 DEF Sized
<1>4. DOMAIN segments = DOMAIN none \cup {1}
  BY <1>1
<1> HIDE DEF none
<1>5. StorageOf(none) = 0 /\ ChargeOf(none) = 0
  BY <1>2, SumNothing DEF StorageOf, ChargeOf
<1>6. /\ StorageOf(segments) = StorageOf(none) + segments[1].length
      /\ ChargeOf(segments) = ChargeOf(none) + Charge(segments, 1)
  BY <1>2, <1>3, <1>4, TotalsChange
<1>7. Charge(segments, 1) = SegmentCharge
  <2>1. Cardinality(DOMAIN segments[1].members) = 0
    BY <1>1, FS_EmptySet
  <2> QED
    BY <2>1, LimitsAssumption DEF Charge
<1>8. /\ IndexOf(segments) = ChargeOf(segments) + MemberCharge * Cardinality(registered)
      /\ MemberCharge * Cardinality(registered) \in Nat
  BY InitType, MembersCharge
<1>9. HeaderLen <= MaxBytes /\ HeaderLen \in Nat
  <2>1. PICK len \in Lengths : TRUE
    BY LengthsAssumption
  <2>2. len \in Nat /\ HeaderLen \in Nat /\ HeaderLen + len <= SegmentBytes
    BY LengthsAssumption
  <2>3. SegmentBytes \in Nat /\ MaxBytes \in Nat /\ 2 * SegmentBytes <= MaxBytes
    BY LimitsAssumption
  <2> QED
    BY <2>2, <2>3
<1>10. storage = StorageOf(segments)
  BY <1>1, <1>5, <1>6, <1>9
<1>11. charged = IndexOf(segments)
  <2>1. SegmentCharge \in Nat
    BY LimitsAssumption
  <2> QED
    BY <2>1, <1>1, <1>5, <1>6, <1>7, <1>8
<1>12. charged <= IndexBytes /\ charged \in Nat
  <2>1. SegmentCharge \in Nat /\ SegmentCharge + MemberCharge * Cardinality(Founders) <= IndexBytes
    BY LimitsAssumption
  <2> QED
    BY <2>1, <1>1, <1>8
<1>13. RollCharge = 0
  BY <1>1 DEF RollCharge
<1> QED
  BY <1>1, <1>9, <1>10, <1>11, <1>12, <1>13 DEF BudgetsKept

(* An append to the active segment.                                        *)
LEMMA PushBudget ==
    ASSUME TypeOK, TypeOK', LogInv, LogInv', BudgetsKept, Push
    PROVE  BudgetsKept'
<1> SUFFICES ASSUME owner' = "open", ~poison'
             PROVE  BudgetsKept'
  BY DEF BudgetsKept
<1>1. /\ owner = "open" /\ ~poison /\ pc = "append" /\ ~Full /\ ~Crowded /\ ~Rolls
      /\ segment' = segment /\ registered' = registered
      /\ storage' = storage + Length /\ charged' = charged + IndexGrowth
      /\ pc' # "roll"
  BY DEF Push, Fits, Accept
<1>2. /\ storage = StorageOf(segments) /\ charged = IndexOf(segments) + RollCharge
      /\ RollCharge = 0 /\ RollCharge' = 0
  BY <1>1 DEF BudgetsKept, RollCharge
<1>3. Sized(segments) /\ segment \in DOMAIN segments
  BY <1>1, SegmentsSized
<1>4. /\ DOMAIN segments' = DOMAIN segments
      /\ \A n \in DOMAIN segments \ {segment} : segments'[n] = segments[n]
      /\ segments'[segment].length = segments[segment].length + Length
      /\ DOMAIN segments'[segment].members
             = DOMAIN segments[segment].members \cup {call.id}
  BY <1>3 DEF Push, With
<1> DEFINE here == DOMAIN segments[segment].members
           j == segment
           new == segments'
<1>5. Length \in Nat /\ segments[segment].length \in Nat /\ IsFiniteSet(here)
  BY <1>1, <1>3, LengthType DEF TypeOK, CallOK, Sized
<1>6. /\ StorageOf(segments) \in Nat /\ StorageOf(new) \in Nat
      /\ ChargeOf(segments) \in Nat /\ ChargeOf(new) \in Nat
      /\ StorageOf(new) + segments[j].length = StorageOf(segments) + new[j].length
      /\ ChargeOf(new) + Charge(segments, j) = ChargeOf(segments) + Charge(new, j)
  <2>1. IsFiniteSet(DOMAIN new)
    BY <1>3, <1>4 DEF Sized
  <2>2. \A n \in DOMAIN new : /\ new[n].length \in Nat
                              /\ DOMAIN new[n].members \subseteq Members
    BY DEF TypeOK, IndexOK
  <2>3. /\ DOMAIN new = DOMAIN segments \cup {j} /\ j \in DOMAIN segments
        /\ \A n \in DOMAIN segments \ {j} : new[n] = segments[n]
    BY <1>3, <1>4
  <2> HIDE DEF j, new
  <2> QED
    BY <2>1, <2>2, <2>3, <1>3, TypedSized, TotalsChange
<1>7. StorageOf(new) = StorageOf(segments) + Length
  BY <1>4, <1>5, <1>6
<1>8. Charge(new, j) = Charge(segments, j) + IndexGrowth
      /\ Charge(segments, j) \in Nat /\ IndexGrowth \in Nat
  <2>1. Cardinality(here) \in Nat
    BY <1>5, FS_CardinalityType
  <2>2. Cardinality(here \cup {call.id})
            = IF call.id \in here THEN Cardinality(here) ELSE Cardinality(here) + 1
    BY <1>5, FS_AddElement
  <2>3. /\ Charge(segments, j) = SegmentCharge + EntryCharge * Cardinality(here)
        /\ Charge(new, j) = SegmentCharge + EntryCharge * Cardinality(here \cup {call.id})
    BY <1>4 DEF Charge
  <2>4. SegmentCharge \in Nat /\ EntryCharge \in Nat
    BY LimitsAssumption
  <2>5. EntryCharge * Cardinality(here) \in Nat
        /\ EntryCharge * (Cardinality(here) + 1) = EntryCharge * Cardinality(here) + EntryCharge
    <3> HIDE DEF here
    <3> QED
      BY <2>1, <2>4
  <2>6. IndexGrowth = IF call.id \in here THEN 0 ELSE EntryCharge
    BY <1>1, <2>4 DEF IndexGrowth
  <2> HIDE DEF here, j, new
  <2> QED
    BY <2>1, <2>2, <2>3, <2>4, <2>5, <2>6
<1>9. /\ IndexOf(segments) = ChargeOf(segments) + MemberCharge * Cardinality(registered)
      /\ MemberCharge * Cardinality(registered) \in Nat
      /\ IndexOf(segments)' = ChargeOf(new) + MemberCharge * Cardinality(registered)
  BY <1>1, MembersCharge DEF IndexOf, ChargeOf
<1>10. StorageOf(segments)' = StorageOf(new)
  BY DEF StorageOf
<1> HIDE DEF here, j, new
<1>11. storage' = StorageOf(segments)'
  BY <1>1, <1>2, <1>7, <1>10
<1>12. charged' = IndexOf(segments)' + RollCharge'
  BY <1>1, <1>2, <1>6, <1>8, <1>9
<1>13. storage' <= MaxBytes
  <2>1. Growth = Length
    BY <1>1, <1>5 DEF Growth
  <2>2. storage \in Nat /\ MaxBytes \in Nat
    BY <1>2, <1>6, LimitsAssumption
  <2> QED
    BY <2>1, <2>2, <1>1, <1>5 DEF Full
<1>14. charged' <= IndexBytes
  <2>1. charged \in Nat /\ IndexBytes \in Nat
    BY <1>2, <1>6, <1>9, LimitsAssumption
  <2> QED
    BY <2>1, <1>1, <1>8 DEF Crowded
<1> QED
  BY <1>1, <1>11, <1>12, <1>13, <1>14 DEF BudgetsKept

(* A roll has begun: the next segment and its first entry are charged.     *)
LEMMA RollBudget ==
    ASSUME TypeOK, LogInv, BudgetsKept, Roll
    PROVE  BudgetsKept'
<1> SUFFICES ASSUME owner' = "open", ~poison'
             PROVE  BudgetsKept'
  BY DEF BudgetsKept
<1>1. /\ owner = "open" /\ ~poison /\ pc = "append" /\ ~Full /\ ~Crowded /\ Rolls
      /\ pc' = "roll" /\ charged' = charged + IndexGrowth
      /\ UNCHANGED <<segments, registered, storage, offset, call>>
  BY DEF Roll, Fits
<1>2. /\ storage = StorageOf(segments) /\ charged = IndexOf(segments) + RollCharge
      /\ RollCharge = 0 /\ RollCharge' = SegmentCharge + EntryCharge
  BY <1>1 DEF BudgetsKept, RollCharge
<1>3. StorageOf(segments)' = StorageOf(segments) /\ IndexOf(segments)' = IndexOf(segments)
  BY <1>1 DEF StorageOf, IndexOf
<1>4. Rolls' /\ Length' = Length
  BY <1>1 DEF Rolls, Length
<1>5. Length \in Nat /\ HeaderLen \in Nat
  BY <1>1, LengthType, LengthsAssumption DEF TypeOK, CallOK
<1>7. StorageOf(segments) \in Nat
  BY <1>1, TotalsType
<1>8. IndexOf(segments) \in Nat
  BY <1>1, TotalsType
<1>9. storage + HeaderLen + Length <= MaxBytes
  <2>1. Growth = Length + HeaderLen
    BY <1>1 DEF Growth
  <2>2. storage \in Nat /\ MaxBytes \in Nat
    BY <1>2, <1>7, LimitsAssumption
  <2> QED
    BY <2>1, <2>2, <1>1, <1>5 DEF Full
<1>10. SegmentCharge \in Nat /\ EntryCharge \in Nat /\ IndexBytes \in Nat /\ MaxBytes \in Nat
  BY LimitsAssumption
<1>11. IndexGrowth = SegmentCharge + EntryCharge
  BY <1>1 DEF IndexGrowth
<1>12. charged' = IndexOf(segments)' + RollCharge' /\ charged' <= IndexBytes
  BY <1>1, <1>2, <1>3, <1>8, <1>10, <1>11 DEF Crowded
<1>13. storage' = StorageOf(segments)' /\ storage' <= MaxBytes
  BY <1>1, <1>2, <1>3, <1>5, <1>7, <1>9, <1>10
<1>14. (storage + HeaderLen + Length <= MaxBytes)'
  BY <1>1, <1>4, <1>9
<1> QED
  BY <1>4, <1>12, <1>13, <1>14 DEF BudgetsKept

(* The append a roll was for.                                              *)
LEMMA PushRolledBudget ==
    ASSUME TypeOK, TypeOK', LogInv, BudgetsKept, PushRolled
    PROVE  BudgetsKept'
<1> SUFFICES ASSUME owner' = "open", ~poison'
             PROVE  BudgetsKept'
  BY DEF BudgetsKept
<1> DEFINE new == segments'
           j == segment + 1
<1>1. /\ owner = "open" /\ ~poison /\ pc = "roll" /\ pc' # "roll"
      /\ registered' = registered /\ charged' = charged
      /\ storage' = storage + HeaderLen + Length
  BY DEF PushRolled, Accept
<1>2. /\ storage = StorageOf(segments) /\ charged = IndexOf(segments) + RollCharge
      /\ charged <= IndexBytes /\ storage + HeaderLen + Length <= MaxBytes
      /\ RollCharge = SegmentCharge + EntryCharge /\ RollCharge' = 0
  BY <1>1 DEF BudgetsKept, RollCharge
<1>3. Sized(segments) /\ \A n \in DOMAIN segments : n <= segment
  BY <1>1, SegmentsSized DEF LogInv, IndexTrue
<1>4. j \notin DOMAIN segments
  <2>1. segment \in Nat
    BY DEF TypeOK, CursorOK
  <2>2. ~(segment + 1 <= segment)
    BY <2>1
  <2> QED
    BY <2>2, <1>3
<1>5. /\ DOMAIN new = DOMAIN segments \cup {j}
      /\ \A n \in DOMAIN segments \ {j} : new[n] = segments[n]
      /\ new[j].length = HeaderLen + Length
      /\ DOMAIN new[j].members = {call.id}
  BY DEF PushRolled, With
<1>6. Length \in Nat /\ HeaderLen \in Nat
  BY <1>1, LengthType, LengthsAssumption DEF TypeOK, CallOK
<1>7. Sized(new)
  <2>1. IsFiniteSet(DOMAIN new)
    BY <1>3, <1>5, FS_AddElement DEF Sized
  <2>2. \A n \in DOMAIN new : /\ new[n].length \in Nat
                              /\ DOMAIN new[n].members \subseteq Members
    BY DEF TypeOK, IndexOK
  <2> QED
    BY <2>1, <2>2, TypedSized
<1>8. Charge(new, j) = SegmentCharge + EntryCharge
  <2>1. Cardinality(DOMAIN new[j].members) = 1
    BY <1>5, FS_Singleton
  <2> QED
    BY <2>1, LimitsAssumption DEF Charge
<1>9. /\ IndexOf(segments) = ChargeOf(segments) + MemberCharge * Cardinality(registered)
      /\ MemberCharge * Cardinality(registered) \in Nat
      /\ IndexOf(segments)' = ChargeOf(new) + MemberCharge * Cardinality(registered)
  BY <1>1, MembersCharge DEF IndexOf, ChargeOf
<1>10. StorageOf(segments)' = StorageOf(new)
  BY DEF StorageOf
<1> HIDE DEF new, j
<1>11. /\ StorageOf(segments) \in Nat /\ StorageOf(new) \in Nat
       /\ ChargeOf(segments) \in Nat /\ ChargeOf(new) \in Nat
       /\ StorageOf(new) = StorageOf(segments) + new[j].length
       /\ ChargeOf(new) = ChargeOf(segments) + Charge(new, j)
  BY <1>3, <1>4, <1>5, <1>7, TotalsChange
<1>12. SegmentCharge \in Nat /\ EntryCharge \in Nat /\ MaxBytes \in Nat
  BY LimitsAssumption
<1>13. storage' = StorageOf(segments)' /\ storage' <= MaxBytes
  BY <1>1, <1>2, <1>5, <1>6, <1>10, <1>11
<1>14. charged' = IndexOf(segments)' + RollCharge' /\ charged' <= IndexBytes
  BY <1>1, <1>2, <1>8, <1>9, <1>11, <1>12
<1> QED
  BY <1>1, <1>13, <1>14 DEF BudgetsKept

(* Garbage collection takes a segment off the totals.                      *)
LEMMA GcUnlinkBudget ==
    ASSUME TypeOK, TypeOK', LogInv, BudgetsKept, GcUnlink
    PROVE  BudgetsKept'
<1> SUFFICES ASSUME owner' = "open", ~poison'
             PROVE  BudgetsKept'
  BY DEF BudgetsKept
<1> DEFINE new == segments'
           j == Lowest
<1>1. /\ owner = "open" /\ ~poison /\ pc = "gc" /\ pc' # "roll"
      /\ registered' = registered /\ storage' = storage - segments[j].length
      /\ charged' = charged - SegmentCharge
                    - EntryCharge * Cardinality(DOMAIN segments[j].members)
  BY DEF GcUnlink
<1>2. /\ storage = StorageOf(segments) /\ charged = IndexOf(segments) + RollCharge
      /\ charged <= IndexBytes /\ storage <= MaxBytes
      /\ RollCharge = 0 /\ RollCharge' = 0
  BY <1>1 DEF BudgetsKept, RollCharge
<1>3. Sized(segments) /\ segment \in DOMAIN segments
  BY <1>1, SegmentsSized
<1>4. j \in DOMAIN segments
  <2>1. DOMAIN segments \subseteq Int
    BY <1>1 DEF LogInv, IndexTrue, TypeOK, FilesOK
  <2> QED
    BY <2>1, <1>3, MinOfFinite DEF Lowest, Sized
<1>5. /\ DOMAIN new = DOMAIN segments \ {j}
      /\ \A n \in DOMAIN new : new[n] = segments[n]
  BY DEF GcUnlink, Restrict
<1>6. segments[j].length \in Nat
  BY <1>3, <1>4 DEF Sized
<1>7. Sized(new)
  <2>1. IsFiniteSet(DOMAIN new)
    BY <1>3, <1>5, FS_RemoveElement DEF Sized
  <2>2. \A n \in DOMAIN new : /\ new[n].length \in Nat
                              /\ DOMAIN new[n].members \subseteq Members
    BY DEF TypeOK, IndexOK
  <2> QED
    BY <2>1, <2>2, TypedSized
<1>8. Charge(segments, j) \in Nat
      /\ EntryCharge * Cardinality(DOMAIN segments[j].members) \in Nat
  <2>1. Cardinality(DOMAIN segments[j].members) \in Nat
    BY <1>3, <1>4, FS_CardinalityType DEF Sized
  <2>2. EntryCharge * Cardinality(DOMAIN segments[j].members) \in Nat
    BY <2>1, LimitsAssumption
  <2> QED
    BY <2>2, <1>3, <1>4, ChargeType
<1>9. /\ IndexOf(segments) = ChargeOf(segments) + MemberCharge * Cardinality(registered)
      /\ MemberCharge * Cardinality(registered) \in Nat
      /\ IndexOf(segments)' = ChargeOf(new) + MemberCharge * Cardinality(registered)
  BY <1>1, MembersCharge DEF IndexOf, ChargeOf
<1>10. StorageOf(segments)' = StorageOf(new)
  BY DEF StorageOf
<1> HIDE DEF new, j
<1>11. /\ StorageOf(segments) \in Nat /\ StorageOf(new) \in Nat
       /\ ChargeOf(segments) \in Nat /\ ChargeOf(new) \in Nat
       /\ StorageOf(segments) = StorageOf(new) + segments[j].length
       /\ ChargeOf(segments) = ChargeOf(new) + Charge(segments, j)
  <2>1. /\ DOMAIN segments = DOMAIN new \cup {j} /\ j \notin DOMAIN new
        /\ \A n \in DOMAIN new \ {j} : segments[n] = new[n]
    BY <1>4, <1>5
  <2> QED
    BY <2>1, <1>3, <1>7, TotalsChange
<1>12. MaxBytes \in Nat /\ IndexBytes \in Nat /\ SegmentCharge \in Nat
  BY LimitsAssumption
<1>13. storage' = StorageOf(segments)' /\ storage' <= MaxBytes
  BY <1>1, <1>2, <1>6, <1>10, <1>11, <1>12
<1>14. charged' = IndexOf(segments)' + RollCharge' /\ charged' <= IndexBytes
  BY <1>1, <1>2, <1>8, <1>9, <1>11, <1>12 DEF Charge
<1> QED
  BY <1>1, <1>13, <1>14 DEF BudgetsKept

(* A new member is charged.                                                *)
LEMMA RegisterBudget ==
    ASSUME TypeOK, LogInv, BudgetsKept, NEW m \in Members, Register(m)
    PROVE  BudgetsKept'
<1> SUFFICES ASSUME owner' = "open", ~poison'
             PROVE  BudgetsKept'
  BY DEF BudgetsKept
<1>1. /\ owner = "open" /\ ~poison /\ pc = "idle" /\ pc' = "idle"
      /\ m \notin registered /\ registered' = registered \cup {m}
      /\ charged + MemberCharge <= IndexBytes /\ charged' = charged + MemberCharge
      /\ UNCHANGED <<storage, segments>>
  BY DEF Register, Locked
<1>2. /\ storage = StorageOf(segments) /\ charged = IndexOf(segments) + RollCharge
      /\ storage <= MaxBytes /\ RollCharge = 0 /\ RollCharge' = 0
  BY <1>1 DEF BudgetsKept, RollCharge
<1>3. /\ IndexOf(segments) = ChargeOf(segments) + MemberCharge * Cardinality(registered)
      /\ IsFiniteSet(registered)
      /\ MemberCharge * Cardinality(registered) \in Nat
      /\ IndexOf(segments)' = ChargeOf(segments) + MemberCharge * Cardinality(registered')
  BY <1>1, MembersCharge DEF IndexOf, ChargeOf
<1>4. MemberCharge * Cardinality(registered')
          = MemberCharge * Cardinality(registered) + MemberCharge
  <2>1. Cardinality(registered) \in Nat /\ Cardinality(registered') = Cardinality(registered) + 1
    BY <1>1, <1>3, FS_CardinalityType, FS_AddElement
  <2>2. MemberCharge \in Nat
    BY LimitsAssumption
  <2> QED
    BY <2>1, <2>2
<1>5. ChargeOf(segments) \in Nat
  BY <1>1, TotalsType
<1>6. StorageOf(segments)' = StorageOf(segments)
  BY <1>1 DEF StorageOf
<1>7. MemberCharge \in Nat
  BY LimitsAssumption
<1>8. charged' = IndexOf(segments)' + RollCharge' /\ charged' <= IndexBytes
  BY <1>1, <1>2, <1>3, <1>4, <1>5, <1>7
<1> QED
  BY <1>1, <1>2, <1>6, <1>8 DEF BudgetsKept

(* The scan adds the segments up.                                          *)
LEMMA OpenBudget ==
    ASSUME TypeOK, Open
    PROVE  BudgetsKept'
<1>1. /\ storage' = StorageOf(ScannedSegments) /\ charged' = IndexOf(ScannedSegments)
      /\ segments' = ScannedSegments /\ registered' = registered
      /\ owner = "down" /\ pc' = pc
      /\ ~(StorageOf(ScannedSegments) > MaxBytes)
      /\ ~(IndexOf(ScannedSegments) > IndexBytes)
  BY DEF Open, Scannable, OverBudget
<1>2. pc = "idle"
  BY <1>1 DEF TypeOK, CallOK
<1>3. /\ StorageOf(segments)' = StorageOf(ScannedSegments)
      /\ IndexOf(segments)' = IndexOf(ScannedSegments)
  BY <1>1 DEF StorageOf, IndexOf
<1>4. Sized(ScannedSegments)
  <2>1. DOMAIN ScannedSegments = DOMAIN Rotated
    BY DEF ScannedSegments
  <2> QED
    BY <2>1, RotatedType, ScannedSegmentsType, TypedSized
<1>5. StorageOf(ScannedSegments) \in Nat /\ ChargeOf(ScannedSegments) \in Nat
  <2>1. PICK j \in DOMAIN ScannedSegments : TRUE
    BY RotatedType DEF ScannedSegments
  <2>2. DOMAIN ScannedSegments = DOMAIN ScannedSegments \cup {j}
    BY <2>1
  <2> QED
    BY <2>2, <1>4, TotalsChange
<1>6. IndexOf(ScannedSegments) \in Nat
  BY <1>5, MembersCharge
<1>7. RollCharge' = 0
  BY <1>1, <1>2 DEF RollCharge
<1>8. MaxBytes \in Nat /\ IndexBytes \in Nat
  BY LimitsAssumption
<1> QED
  BY <1>1, <1>2, <1>3, <1>5, <1>6, <1>7, <1>8 DEF BudgetsKept

(* Steps that leave the totals and the segments alone.                     *)
LEMMA QuietStepBudget ==
    ASSUME TypeOK, LogInv, BudgetsKept,
           \/ Preflight \/ AppendRefused \/ GcReturn \/ GcEvidence \/ Sync \/ IoError
           \/ \E m \in Members : \E raws \in Batches : BeginAppend(m, raws)
           \/ \E m \in Members :
                \/ SyncMember(m) \/ PublishInitial(m) \/ OpenMember(m) \/ Close(m)
                \/ SealSync(m) \/ SealPublish(m) \/ SealCheckpoint(m) \/ Retire(m)
           \/ UNCHANGED vars
    PROVE  BudgetsKept'
<1>1. BusyHealthy
  BY DEF LogInv
<1>2. CASE Preflight \/ AppendRefused
  <2>1. /\ UNCHANGED <<storage, charged, segments, registered, owner>>
        /\ pc \in {"preflight", "append"} /\ pc' \in {"idle", "gc", "append"}
    BY <1>2 DEF Preflight, AppendRefused, Collect, Reject, disk, index
  <2>2. ~poison
    BY <1>1, <2>1 DEF BusyHealthy
  <2> QED
    BY <2>1, <2>2, QuietBudget
<1>3. CASE GcReturn
  <2>1. /\ UNCHANGED <<storage, charged, segments, registered, owner, poison>>
        /\ pc = "gc" /\ pc' = call.return
    BY <1>3 DEF GcReturn, disk, index
  <2>2. call.return # "roll"
    BY DEF TypeOK, CallOK, Calls, NoCall
  <2> QED
    BY <2>1, <2>2, QuietBudget
<1>4. CASE GcEvidence
  <2>1. /\ UNCHANGED <<storage, charged, segments, registered, owner>>
        /\ pc = "evidence" /\ pc' \in {"idle", "gc"}
    BY <1>4 DEF GcEvidence, index
  <2>2. ~poison
    BY <1>1, <2>1 DEF BusyHealthy
  <2> QED
    BY <2>1, <2>2, QuietBudget
<1>5. CASE Sync \/ UNCHANGED vars
  <2>1. UNCHANGED <<storage, charged, segments, registered, owner, poison, pc,
                    call, offset>>
    BY <1>5 DEF Sync, vars, disk, index, cursor
  <2> QED
    BY <2>1, QuietBudget
<1>6. CASE IoError
  <2>1. /\ UNCHANGED <<storage, charged, segments, registered, owner>>
        /\ poison' /\ pc' = "idle"
    BY <1>6 DEF IoError, disk, index
  <2> QED
    BY <2>1, QuietBudget
<1>7. CASE \E m \in Members : \E raws \in Batches : BeginAppend(m, raws)
  <2>1. /\ UNCHANGED <<storage, charged, segments, registered, owner, poison>>
        /\ pc = "idle" /\ pc' \in {"append", "preflight"}
    BY <1>7 DEF BeginAppend, Locked, disk, index
  <2> QED
    BY <2>1, QuietBudget
<1>8. CASE \E m \in Members : \/ SyncMember(m) \/ OpenMember(m) \/ Close(m) \/ SealSync(m)
  <2>1. UNCHANGED <<storage, charged, segments, registered, owner, poison, pc,
                    call, offset>>
    BY <1>8 DEF SyncMember, OpenMember, Close, SealSync, disk, index, cursor
  <2> QED
    BY <2>1, QuietBudget
<1>9. CASE \E m \in Members : PublishInitial(m) \/ SealPublish(m)
  <2>1. /\ UNCHANGED <<storage, charged, segments, registered, owner, pc, call, offset>>
        /\ poison' = poison \/ poison'
    BY <1>9 DEF PublishInitial, SealPublish, index, cursor
  <2> QED
    BY <2>1, QuietBudget
<1>10. CASE \E m \in Members : SealCheckpoint(m) \/ Retire(m)
  <2>1. /\ UNCHANGED <<storage, charged, segments, registered, owner>>
        /\ pc = "idle" /\ pc' \in {"idle", "gc"} /\ (poison' = poison \/ poison')
    BY <1>10 DEF SealCheckpoint, Retire, Locked, disk
  <2> QED
    BY <2>1, QuietBudget
<1> QED
  BY <1>2, <1>3, <1>4, <1>5, <1>6, <1>7, <1>8, <1>9, <1>10

(* An owner that is not open has no totals.                                *)
LEMMA DownBudget ==
    ASSUME \/ \E power \in BOOLEAN : Crash(power)
           \/ OpenRefused \/ PublishBoundary \/ CrashInOpen
    PROVE  BudgetsKept'
<1>1. owner' # "open"
  <2>1. CASE \E power \in BOOLEAN : Crash(power)
    BY <2>1 DEF Crash, Died
  <2>2. CASE OpenRefused
    BY <2>2 DEF OpenRefused
  <2>3. CASE PublishBoundary \/ CrashInOpen
    BY <2>3 DEF PublishBoundary, CrashInOpen, Scannable
  <2> QED
    BY <2>1, <2>2, <2>3
<1> QED
  BY <1>1 DEF BudgetsKept

LEMMA StepBudget ==
    ASSUME TypeOK, TypeOK', LogInv, LogInv', BudgetsKept, [Next]_vars
    PROVE  BudgetsKept'
<1>1. CASE CallStep
  <2>1. CASE Preflight \/ AppendRefused \/ GcReturn \/ GcEvidence
    BY <2>1, QuietStepBudget
  <2>2. CASE Push \/ Roll \/ PushRolled
    BY <2>2, PushBudget, RollBudget, PushRolledBudget
  <2>3. CASE GcUnlink
    BY <2>3, GcUnlinkBudget
  <2> QED
    BY <1>1, <2>1, <2>2, <2>3 DEF CallStep
<1>2. CASE Sync \/ IoError \/ UNCHANGED vars
  BY <1>2, QuietStepBudget
<1>3. CASE \E m \in Members : \E raws \in Batches : BeginAppend(m, raws)
  BY <1>3, QuietStepBudget
<1>4. CASE \E m \in Members : Register(m)
  BY <1>4, RegisterBudget
<1>5. CASE \E m \in Members :
             \/ SyncMember(m) \/ PublishInitial(m) \/ OpenMember(m) \/ Close(m)
             \/ SealSync(m) \/ SealPublish(m) \/ SealCheckpoint(m) \/ Retire(m)
  BY <1>5, QuietStepBudget
<1>6. CASE \E power \in BOOLEAN : Crash(power)
  BY <1>6, DownBudget
<1>7. CASE OpenRefused \/ PublishBoundary \/ CrashInOpen
  BY <1>7, DownBudget
<1>8. CASE Open
  BY <1>8, OpenBudget
<1> QED
  BY <1>1, <1>2, <1>3, <1>4, <1>5, <1>6, <1>7, <1>8 DEF Next

(* The totals of the owner are the sums over its segments and members, and *)
(* within the budgets, whatever was appended, rolled, collected or         *)
(* registered and however often the owner was reopened.                    *)
THEOREM BudgetsAreExact == Spec => []BudgetsExact
<1>1. Init => BudgetsKept
  BY InitBudget
<1>2. /\ TypeOK /\ TypeOK' /\ LogInv /\ LogInv' /\ BudgetsKept /\ [Next]_vars
      => BudgetsKept'
  BY StepBudget
<1>3. TypeOK /\ LogInv /\ BudgetsKept => BudgetsExact
  <2> SUFFICES ASSUME TypeOK, LogInv, BudgetsKept, owner = "open", ~poison, pc # "roll"
               PROVE  /\ storage = StorageOf(segments) /\ storage <= MaxBytes
                      /\ charged = IndexOf(segments) /\ charged <= IndexBytes
    BY DEF BudgetsExact
  <2>1. charged = IndexOf(segments) + RollCharge /\ RollCharge = 0
    BY DEF BudgetsKept, RollCharge
  <2>2. IndexOf(segments) \in Nat
    BY TotalsType
  <2>3. charged = IndexOf(segments)
    BY <2>1, <2>2
  <2> QED
    BY <2>3 DEF BudgetsKept
<1>4. Spec => []TypeOK /\ []LogInv
  BY TypeCorrect, LogHolds
<1> QED
  BY <1>1, <1>2, <1>3, <1>4, PTL DEF Spec

-----------------------------------------------------------------------------
(***************************************************************************)
(* The plan of a batch, as a run along its records.                        *)
(***************************************************************************)
(* What BatchPlan folds: the plan with one record more.                    *)
PlanStep(plan, len) ==
    LET rolls == plan.offset + len > SegmentBytes
        entry == rolls \/ ~plan.represented
    IN  [offset |-> (IF rolls THEN HeaderLen ELSE plan.offset) + len,
         growth |-> plan.growth + len + (IF rolls THEN HeaderLen ELSE 0),
         index  |-> plan.index + (IF rolls THEN SegmentCharge ELSE 0)
                    + (IF entry THEN EntryCharge ELSE 0),
         represented |-> TRUE]
PlanAll(base, s) == FoldLeft(PlanStep, base, s)

(* A plan before its first record.                                         *)
Start(at, represented) == [offset |-> at, growth |-> 0, index |-> 0,
                           represented |-> represented]

LEMMA PlanIs ==
    BatchPlan = PlanAll(Start(offset, call.id \in DOMAIN segments[segment].members),
                        call.raws)
BY DEF BatchPlan, PlanAll, PlanStep, Start, FoldLeft, MapThenFoldSet

(* The plan is where a run of PlanStep along the records ends.             *)
Planning == INSTANCE Folding WITH Step <- PlanStep

LEMMA PlanSteps ==
    ASSUME NEW base, NEW s, NEW n \in Nat, NEW f, Planning!Run(f, base, s, n)
    PROVE  PlanAll(base, s) = f[n]
<1>1. PlanAll(base, s) = Planning!Fold(base, s)
  BY DEF PlanAll, Planning!Fold, FoldLeft, MapThenFoldSet, Planning!FoldLeft,
         Planning!MapThenFoldSet, Max, Planning!Max
<1> QED
  BY <1>1, Planning!FoldSteps

(* A plan's numbers, and what a record adds to it.                         *)
Plans == [offset : Nat, growth : Nat, index : Nat, represented : BOOLEAN]
Plus(plan, base) == [offset |-> plan.offset, growth |-> plan.growth + base.growth,
                     index |-> plan.index + base.index,
                     represented |-> plan.represented]

LEMMA PlanStepType ==
    ASSUME NEW plan \in Plans, NEW len \in Lengths
    PROVE  /\ PlanStep(plan, len) \in Plans /\ PlanStep(plan, len).represented
           /\ \A base \in Plans :
                  PlanStep(Plus(plan, base), len) = Plus(PlanStep(plan, len), base)
<1>1. /\ plan.offset \in Nat /\ plan.growth \in Nat /\ plan.index \in Nat
      /\ plan.represented \in BOOLEAN
  BY DEF Plans
<1>2. /\ len \in Nat /\ HeaderLen \in Nat /\ SegmentBytes \in Nat
      /\ SegmentCharge \in Nat /\ EntryCharge \in Nat
  BY LengthsAssumption, LimitsAssumption
<1>3. PlanStep(plan, len) \in Plans /\ PlanStep(plan, len).represented
  BY <1>1, <1>2 DEF PlanStep, Plans
<1>4. ASSUME NEW base \in Plans
      PROVE  PlanStep(Plus(plan, base), len) = Plus(PlanStep(plan, len), base)
  <2>1. base.growth \in Nat /\ base.index \in Nat
    BY DEF Plans
  <2>2. /\ Plus(plan, base).offset = plan.offset
        /\ Plus(plan, base).represented = plan.represented
        /\ Plus(plan, base).growth = plan.growth + base.growth
        /\ Plus(plan, base).index = plan.index + base.index
    BY DEF Plus, Plans
  <2>3. /\ PlanStep(Plus(plan, base), len).offset = PlanStep(plan, len).offset
        /\ PlanStep(Plus(plan, base), len).growth
               = PlanStep(plan, len).growth + base.growth
        /\ PlanStep(Plus(plan, base), len).index
               = PlanStep(plan, len).index + base.index
    BY <1>1, <1>2, <2>1, <2>2 DEF PlanStep
  <2>4. Plus(PlanStep(plan, len), base)
            = [offset |-> PlanStep(plan, len).offset,
               growth |-> PlanStep(plan, len).growth + base.growth,
               index |-> PlanStep(plan, len).index + base.index,
               represented |-> TRUE]
    BY DEF Plus, PlanStep
  <2>5. PlanStep(Plus(plan, base), len)
            = [offset |-> PlanStep(Plus(plan, base), len).offset,
               growth |-> PlanStep(Plus(plan, base), len).growth,
               index |-> PlanStep(Plus(plan, base), len).index,
               represented |-> TRUE]
    BY DEF PlanStep
  <2> QED
    BY <2>3, <2>4, <2>5
<1> QED
  BY <1>3, <1>4

(* A run of a plan along the records of s.                                 *)
LEMMA PlanRuns ==
    ASSUME NEW base \in Plans, NEW s, NEW n \in Nat, DOMAIN s = 1 .. n,
           \A k \in 1 .. n : s[k] \in Lengths
    PROVE  \E f : Planning!Run(f, base, s, n) /\ \A k \in 0 .. n : f[k] \in Plans
<1>1. PICK f : Planning!Run(f, base, s, n)
  BY Planning!RunExists
<1>2. \A plan \in Plans : \A k \in 1 .. n : PlanStep(plan, s[k]) \in Plans
  BY PlanStepType
<1>3. \A k \in 0 .. n : f[k] \in Plans
  BY <1>1, <1>2, Planning!RunStays
<1> QED
  BY <1>1, <1>3

(* A plan is its first record, and the plan of the others from there.      *)
LEMMA PlanFirst ==
    ASSUME NEW at \in Nat, NEW r \in BOOLEAN, NEW s \in Seq(Lengths), s # << >>
    PROVE  LET first == PlanStep(Start(at, r), Head(s))
               rest == PlanAll(Start(first.offset, TRUE), Tail(s))
           IN  /\ first \in Plans /\ rest \in Plans
               /\ PlanAll(Start(at, r), s) = Plus(rest, first)
<1> DEFINE first == PlanStep(Start(at, r), Head(s))
           start == Start(first.offset, TRUE)
           n == Len(s)
<1>1. Head(s) \in Lengths /\ Head(s) = s[1] /\ n \in Nat /\ n >= 1 /\ DOMAIN s = 1 .. n
      /\ \A k \in 1 .. n : s[k] \in Lengths
  BY LenProperties, ElementOfSeq, EmptySeq
<1>2. Tail(s) \in Seq(Lengths) /\ Len(Tail(s)) = n - 1 /\ DOMAIN Tail(s) = 1 .. n - 1
      /\ \A k \in 1 .. n - 1 : Tail(s)[k] = s[k + 1]
  BY HeadTailProperties, LenProperties
<1>3. Start(at, r) \in Plans
  BY DEF Start, Plans
<1>4. first \in Plans /\ first.represented = TRUE
  BY <1>1, <1>3, PlanStepType DEF PlanStep
<1>5. start \in Plans
  BY <1>4 DEF Start, Plans
<1>6. first = Plus(start, first)
  <2>1. first = [offset |-> first.offset, growth |-> first.growth,
                 index |-> first.index, represented |-> TRUE]
    BY DEF PlanStep
  <2>2. first.growth \in Nat /\ first.index \in Nat
    BY <1>4 DEF Plans
  <2> HIDE DEF first
  <2>3. Plus(start, first) = [offset |-> first.offset, growth |-> 0 + first.growth,
                              index |-> 0 + first.index, represented |-> TRUE]
    BY DEF Plus, Start
  <2>4. 0 + first.growth = first.growth /\ 0 + first.index = first.index
    BY <2>2
  <2> QED
    BY <2>1, <2>3, <2>4
<1> HIDE DEF start, n
<1>7. PICK f : Planning!Run(f, start, Tail(s), n - 1) /\ \A k \in 0 .. n - 1 : f[k] \in Plans
  <2>1. n - 1 \in Nat /\ \A k \in 1 .. n - 1 : Tail(s)[k] \in Lengths
    BY <1>1, <1>2
  <2> QED
    BY <1>2, <1>5, <2>1, PlanRuns
<1> DEFINE h == [k \in 0 .. n |-> IF k = 0 THEN Start(at, r) ELSE Plus(f[k - 1], first)]
<1>8. Planning!Run(h, Start(at, r), s, n)
  <2>1. h[0] = Start(at, r)
    BY <1>1
  <2>2. ASSUME NEW k \in 1 .. n
        PROVE  h[k] = PlanStep(h[k - 1], s[k])
    <3>1. CASE k = 1
      <4>1. h[1] = Plus(f[0], first) /\ f[0] = start
        BY <1>1, <1>7 DEF Planning!Run
      <4>2. h[1] = PlanStep(Start(at, r), s[1])
        BY <1>1, <1>6, <4>1
      <4> HIDE DEF h, first
      <4>3. k - 1 = 0
        BY <3>1
      <4>4. h[k - 1] = Start(at, r)
        BY <2>1, <4>3
      <4>5. h[k] = h[1] /\ s[k] = s[1]
        BY <3>1
      <4> QED
        BY <4>2, <4>4, <4>5
    <3>2. CASE k # 1
      <4>1. k - 1 \in 1 .. n - 1 /\ k - 2 \in 0 .. n - 1 /\ k - 1 # 0 /\ (k - 1) - 1 = k - 2
            /\ (k - 1) + 1 = k /\ k \in 0 .. n /\ k - 1 \in 0 .. n /\ k # 0
        BY <1>1, <3>2
      <4>2. h[k] = Plus(f[k - 1], first) /\ h[k - 1] = Plus(f[k - 2], first)
        BY <4>1
      <4>3. f[k - 1] = PlanStep(f[k - 2], Tail(s)[k - 1]) /\ Tail(s)[k - 1] = s[k]
        BY <1>2, <1>7, <4>1 DEF Planning!Run
      <4>4. f[k - 2] \in Plans /\ s[k] \in Lengths
        BY <1>1, <1>7, <4>1
      <4> HIDE DEF first, h
      <4>5. PlanStep(Plus(f[k - 2], first), s[k]) = Plus(PlanStep(f[k - 2], s[k]), first)
        BY <1>4, <4>4, PlanStepType
      <4> QED
        BY <4>2, <4>3, <4>5
    <3> QED
      BY <3>1, <3>2
  <2> HIDE DEF h
  <2> QED
    BY <1>1, <2>1, <2>2 DEF Planning!Run
<1>9. PlanAll(Start(at, r), s) = h[n]
  BY <1>1, <1>8, PlanSteps
<1>10. PlanAll(start, Tail(s)) = f[n - 1] /\ f[n - 1] \in Plans
  <2>1. n - 1 \in Nat /\ n - 1 \in 0 .. n - 1
    BY <1>1
  <2> QED
    BY <1>7, <2>1, PlanSteps
<1>11. h[n] = Plus(f[n - 1], first)
  BY <1>1
<1> QED
  BY <1>4, <1>9, <1>10, <1>11 DEF start

-----------------------------------------------------------------------------
(***************************************************************************)
(* A batch that passed the preflight.                                      *)
(***************************************************************************)
(* What the records still to append will take is there; a batch collects   *)
(* garbage only before it has begun.                                       *)
BatchFits ==
    call.batch =>
        /\ pc \in {"gc", "evidence"} => call.return = "preflight"
        /\ pc \in {"append", "roll"} =>
               /\ storage + BatchPlan.growth <= MaxBytes
               /\ charged + BatchPlan.index <= IndexBytes + RollCharge

(* The plan of what is left, from the first record on.                     *)
Later == PlanAll(Start((IF Rolls THEN HeaderLen ELSE offset) + Length, TRUE),
                 Tail(call.raws))

LEMMA PlanGoesOn ==
    ASSUME TypeOK, call \in Calls
    PROVE  /\ Growth \in Nat /\ IndexGrowth \in Nat
           /\ Later.growth \in Nat /\ Later.index \in Nat
           /\ BatchPlan.growth = Later.growth + Growth
           /\ BatchPlan.index = Later.index + IndexGrowth
<1> DEFINE here == call.id \in DOMAIN segments[segment].members
           first == PlanStep(Start(offset, here), Head(call.raws))
           rest == PlanAll(Start(first.offset, TRUE), Tail(call.raws))
<1>1. /\ offset \in Nat /\ here \in BOOLEAN /\ call.raws \in Seq(Lengths)
      /\ call.raws # << >>
  <2>1. here \in BOOLEAN
    OBVIOUS
  <2>2. offset \in Nat
    BY DEF TypeOK, CursorOK
  <2>3. call.raws \in Seq(Lengths) \ {<<>>}
    BY DEF Calls
  <2> QED
    BY <2>1, <2>2, <2>3
<1>2. /\ first \in Plans /\ rest \in Plans
      /\ PlanAll(Start(offset, here), call.raws) = Plus(rest, first)
  BY <1>1, PlanFirst
<1>3. /\ Length \in Nat /\ HeaderLen \in Nat /\ SegmentCharge \in Nat
      /\ EntryCharge \in Nat /\ SegmentBytes \in Nat
  BY LengthType, LengthsAssumption, LimitsAssumption
<1>4. /\ first.offset = (IF Rolls THEN HeaderLen ELSE offset) + Length
      /\ first.growth = 0 + Length + (IF Rolls THEN HeaderLen ELSE 0)
      /\ first.index = 0 + (IF Rolls THEN SegmentCharge ELSE 0)
                       + (IF Rolls \/ ~here THEN EntryCharge ELSE 0)
  BY DEF PlanStep, Start, Rolls, Length
<1>5. first.growth = Growth /\ first.index = IndexGrowth
  BY <1>3, <1>4 DEF Growth, IndexGrowth
<1>6. rest = Later
  BY <1>4 DEF Later
<1> HIDE DEF first, rest, here
<1>7. BatchPlan = Plus(Later, first)
  BY <1>2, <1>6, PlanIs DEF here
<1>8. /\ Later.growth \in Nat /\ Later.index \in Nat
      /\ first.growth \in Nat /\ first.index \in Nat
  BY <1>2, <1>6 DEF Plans
<1> QED
  BY <1>5, <1>7, <1>8 DEF Plus

(* The plan after a step.                                                  *)
LEMMA PlanNext ==
    BatchPlan' = PlanAll(Start(offset', call'.id \in DOMAIN segments'[segment'].members),
                         call'.raws)
BY PlanIs DEF BatchPlan, PlanAll, PlanStep, Start, FoldLeft, MapThenFoldSet

(* What a step of the batch leaves to append.                              *)
LEMMA PlanLater ==
    ASSUME offset' = (IF Rolls THEN HeaderLen ELSE offset) + Length,
           call'.raws = Tail(call.raws), call'.id \in DOMAIN segments'[segment'].members
    PROVE  BatchPlan' = Later
<1>1. (call'.id \in DOMAIN segments'[segment'].members) = TRUE
  OBVIOUS
<1> QED
  BY <1>1, PlanNext DEF Later

(* The plan of a call that stands still.                                   *)
LEMMA PlanStays ==
    ASSUME UNCHANGED <<offset, segment, segments>>, call'.id = call.id,
           call'.raws = call.raws
    PROVE  BatchPlan' = BatchPlan
<1>1. offset' = offset /\ segments'[segment'].members = segments[segment].members
  OBVIOUS
<1> QED
  BY <1>1, PlanNext, PlanIs

(* Such a batch is not refused, neither for bytes nor for the index.       *)
LEMMA AcceptedFits ==
    ASSUME TypeOK, LogInv, BudgetsKept, BatchFits, pc = "append", call.batch
    PROVE  Fits
<1>1. owner = "open" /\ ~poison /\ call \in Calls
  BY DEF TypeOK, CallOK, LogInv, BusyHealthy
<1>2. /\ storage + BatchPlan.growth <= MaxBytes
      /\ charged + BatchPlan.index <= IndexBytes + RollCharge
      /\ RollCharge = 0
  BY DEF BatchFits, RollCharge
<1>3. storage \in Nat /\ charged \in Nat
  BY <1>1, <1>2, TotalsType DEF BudgetsKept
<1>4. MaxBytes \in Nat /\ IndexBytes \in Nat
  BY LimitsAssumption
<1>5. ~Full
  BY <1>1, <1>2, <1>3, <1>4, PlanGoesOn DEF Full
<1>6. ~Crowded
  BY <1>1, <1>2, <1>3, <1>4, PlanGoesOn DEF Crowded
<1> QED
  BY <1>5, <1>6 DEF Fits

LEMMA InitBatch == Init => BatchFits
  BY DEF Init, BatchFits, NoCall

(* The next record is appended.                                            *)
LEMMA PushBatch ==
    ASSUME TypeOK, LogInv, BudgetsKept, BatchFits, Push
    PROVE  BatchFits'
<1> SUFFICES ASSUME call'.batch
             PROVE  BatchFits'
  BY DEF BatchFits
<1>1. /\ owner = "open" /\ ~poison /\ call \in Calls /\ pc = "append" /\ ~Rolls
      /\ segment' = segment /\ offset' = offset + Length
      /\ storage' = storage + Length /\ charged' = charged + IndexGrowth
  BY DEF TypeOK, CallOK, LogInv, BusyHealthy, Push, Fits
<1>2. /\ pc' = "append" /\ call' = [call EXCEPT !.raws = Tail(call.raws), !.tried = FALSE]
  BY DEF Push, Accept, NoCall
<1>3. /\ call'.id = call.id /\ call'.raws = Tail(call.raws) /\ call'.batch = call.batch
  BY <1>1, <1>2 DEF Calls
<1>4. call'.id \in DOMAIN segments'[segment'].members
  <2>1. segment \in DOMAIN segments
    BY <1>1, SegmentsSized
  <2> QED
    BY <1>1, <1>3, <2>1 DEF Push, With
<1>5. BatchPlan' = Later
  BY <1>1, <1>3, <1>4, PlanLater
<1>6. /\ storage + BatchPlan.growth <= MaxBytes
      /\ charged + BatchPlan.index <= IndexBytes + RollCharge
      /\ RollCharge = 0 /\ RollCharge' = 0
  BY <1>1, <1>2, <1>3 DEF BatchFits, RollCharge
<1>7. storage \in Nat /\ charged \in Nat /\ MaxBytes \in Nat /\ IndexBytes \in Nat
  BY <1>1, <1>6, TotalsType, LimitsAssumption DEF BudgetsKept
<1>8. Growth = Length
  BY <1>1, LengthType DEF Growth
<1>9. /\ storage' + Later.growth <= MaxBytes
      /\ charged' + Later.index <= IndexBytes
  BY <1>1, <1>6, <1>7, <1>8, PlanGoesOn
<1> QED
  BY <1>2, <1>5, <1>6, <1>7, <1>9 DEF BatchFits

(* A roll has begun: its charge is part of the plan.                       *)
LEMMA RollBatch ==
    ASSUME TypeOK, LogInv, BudgetsKept, BatchFits, Roll
    PROVE  BatchFits'
<1> SUFFICES ASSUME call'.batch
             PROVE  BatchFits'
  BY DEF BatchFits
<1>1. /\ owner = "open" /\ ~poison /\ call \in Calls /\ pc = "append" /\ Rolls
      /\ pc' = "roll" /\ charged' = charged + IndexGrowth
      /\ UNCHANGED <<segment, offset, segments, call, storage>>
  BY DEF TypeOK, CallOK, LogInv, BusyHealthy, Roll, Fits
<1>2. BatchPlan' = BatchPlan
  BY <1>1, PlanStays
<1>3. /\ storage + BatchPlan.growth <= MaxBytes
      /\ charged + BatchPlan.index <= IndexBytes + RollCharge
      /\ RollCharge = 0 /\ RollCharge' = SegmentCharge + EntryCharge
  BY <1>1 DEF BatchFits, RollCharge
<1>4. IndexGrowth = SegmentCharge + EntryCharge
  BY <1>1 DEF IndexGrowth
<1>5. /\ charged \in Nat /\ IndexBytes \in Nat /\ SegmentCharge \in Nat
      /\ EntryCharge \in Nat
  BY <1>1, <1>3, TotalsType, LimitsAssumption DEF BudgetsKept
<1>6. BatchPlan.index \in Nat
  BY <1>1, PlanGoesOn
<1>7. charged' + BatchPlan.index <= IndexBytes + RollCharge'
  BY <1>1, <1>3, <1>4, <1>5, <1>6
<1> QED
  BY <1>1, <1>2, <1>3, <1>7 DEF BatchFits

(* The record the roll was for is appended.                                *)
LEMMA PushRolledBatch ==
    ASSUME TypeOK, LogInv, BudgetsKept, BatchFits, PushRolled
    PROVE  BatchFits'
<1> SUFFICES ASSUME call'.batch
             PROVE  BatchFits'
  BY DEF BatchFits
<1>1. /\ owner = "open" /\ ~poison /\ call \in Calls /\ pc = "roll"
      /\ segment' = segment + 1 /\ offset' = HeaderLen + Length
      /\ storage' = storage + HeaderLen + Length /\ charged' = charged
  BY DEF TypeOK, CallOK, LogInv, BusyHealthy, PushRolled
<1>2. /\ pc' = "append" /\ call' = [call EXCEPT !.raws = Tail(call.raws), !.tried = FALSE]
  BY DEF PushRolled, Accept, NoCall
<1>3. /\ call'.id = call.id /\ call'.raws = Tail(call.raws) /\ call'.batch = call.batch
  BY <1>1, <1>2 DEF Calls
<1>4. call'.id \in DOMAIN segments'[segment'].members
  BY <1>1, <1>3 DEF PushRolled, With
<1>5. Rolls
  BY <1>1 DEF BudgetsKept
<1>6. BatchPlan' = Later
  BY <1>1, <1>3, <1>4, <1>5, PlanLater
<1>7. /\ storage + BatchPlan.growth <= MaxBytes
      /\ charged + BatchPlan.index <= IndexBytes + RollCharge
      /\ RollCharge = SegmentCharge + EntryCharge /\ RollCharge' = 0
  BY <1>1, <1>2, <1>3 DEF BatchFits, RollCharge
<1>8. /\ SegmentCharge \in Nat /\ EntryCharge \in Nat /\ MaxBytes \in Nat
      /\ IndexBytes \in Nat /\ HeaderLen \in Nat /\ Length \in Nat
  BY <1>1, LimitsAssumption, LengthsAssumption, LengthType
<1>9. storage \in Nat /\ charged \in Nat
  BY <1>1, <1>7, <1>8, TotalsType DEF BudgetsKept
<1>10. Growth = Length + HeaderLen /\ IndexGrowth = SegmentCharge + EntryCharge
  BY <1>5 DEF Growth, IndexGrowth
<1>11. /\ storage' + Later.growth <= MaxBytes
       /\ charged' + Later.index <= IndexBytes
  BY <1>1, <1>7, <1>8, <1>9, <1>10, PlanGoesOn
<1> QED
  BY <1>2, <1>6, <1>7, <1>8, <1>11 DEF BatchFits

(* The steps of the call that decide, or collect garbage.                  *)
LEMMA CallStepBatch ==
    ASSUME TypeOK, LogInv, BudgetsKept, BatchFits,
           Preflight \/ AppendRefused \/ GcUnlink \/ GcEvidence \/ GcReturn
    PROVE  BatchFits'
<1> SUFFICES ASSUME call'.batch
             PROVE  BatchFits'
  BY DEF BatchFits
<1>1. call' # NoCall
  BY DEF NoCall
<1>2. CASE Preflight
  <2>1. /\ pc = "preflight" /\ owner = "open" /\ ~poison /\ call \in Calls
        /\ UNCHANGED <<storage, charged, segments, segment, offset>>
    BY <1>2 DEF Preflight, TypeOK, CallOK, LogInv, BusyHealthy, index, cursor
  <2>2. CASE Collect
    <3>1. pc' = "gc" /\ call'.return = "preflight"
      BY <2>1, <2>2 DEF Collect, Calls
    <3> QED
      BY <3>1 DEF BatchFits
  <2>3. CASE ~Collect
    <3>1. /\ ~(storage + BatchPlan.growth > MaxBytes)
          /\ ~(charged + BatchPlan.index > IndexBytes)
          /\ pc' = "append" /\ call' = [call EXCEPT !.tried = FALSE]
      BY <1>1, <1>2, <2>3 DEF Preflight, Reject
    <3>2. call'.id = call.id /\ call'.raws = call.raws
      BY <2>1, <3>1 DEF Calls
    <3>3. BatchPlan' = BatchPlan
      BY <2>1, <3>2, PlanStays
    <3>4. RollCharge = 0 /\ RollCharge' = 0
      BY <2>1, <3>1 DEF RollCharge
    <3>5. /\ storage \in Nat /\ charged \in Nat
          /\ BatchPlan.growth \in Nat /\ BatchPlan.index \in Nat
          /\ MaxBytes \in Nat /\ IndexBytes \in Nat
      BY <2>1, <3>4, TotalsType, PlanGoesOn, LimitsAssumption DEF BudgetsKept
    <3>6. /\ storage + BatchPlan.growth <= MaxBytes
          /\ charged + BatchPlan.index <= IndexBytes
      BY <3>1, <3>5
    <3> QED
      BY <2>1, <3>1, <3>3, <3>4, <3>5, <3>6 DEF BatchFits
  <2> QED
    BY <2>2, <2>3
<1>3. CASE AppendRefused
  <2>1. pc = "append" /\ call \in Calls /\ (Full \/ Crowded)
    BY <1>3 DEF AppendRefused, TypeOK, CallOK
  <2>2. call' = [call EXCEPT !.tried = TRUE, !.return = pc]
    BY <1>1, <1>3 DEF AppendRefused, Collect, Reject
  <2>3. call.batch
    BY <2>1, <2>2 DEF Calls
  <2> QED
    BY <2>1, <2>3, AcceptedFits DEF Fits
<1>4. CASE GcUnlink \/ GcEvidence
  <2>1. call' = call /\ pc \in {"gc", "evidence"} /\ pc' \in {"gc", "evidence"}
    BY <1>1, <1>4 DEF GcUnlink, GcEvidence
  <2> QED
    BY <2>1 DEF BatchFits
<1>5. CASE GcReturn
  <2>1. call' = call /\ pc = "gc" /\ pc' = call.return
    BY <1>1, <1>5 DEF GcReturn
  <2> QED
    BY <2>1 DEF BatchFits
<1> QED
  BY <1>2, <1>3, <1>4, <1>5

(* Steps between calls, and those of others while a call goes on.          *)
LEMMA OtherStepBatch ==
    ASSUME TypeOK, DurableInv, BatchFits,
           \/ Sync \/ IoError \/ OpenRefused \/ PublishBoundary \/ CrashInOpen \/ Open
           \/ \E m \in Members : \E raws \in Batches : BeginAppend(m, raws)
           \/ \E m \in Members :
                \/ SyncMember(m) \/ Register(m) \/ PublishInitial(m) \/ OpenMember(m)
                \/ Close(m) \/ SealSync(m) \/ SealPublish(m) \/ SealCheckpoint(m)
                \/ Retire(m)
           \/ \E power \in BOOLEAN : Crash(power)
           \/ UNCHANGED vars
    PROVE  BatchFits'
<1>1. /\ pc = "idle" => ~call.batch
      /\ owner = "down" => pc = "idle"
  BY DEF DurableInv, CallersOpen, NoCall, TypeOK, CallOK
<1>2. CASE UNCHANGED <<pc, call, storage, charged, segments, segment, offset>>
  <2>1. BatchPlan' = BatchPlan /\ RollCharge' = RollCharge
    BY <1>2, PlanStays DEF RollCharge
  <2> QED
    BY <1>2, <2>1 DEF BatchFits
<1>3. CASE ~call'.batch
  BY <1>3 DEF BatchFits
<1>4. CASE \/ Sync \/ OpenRefused \/ PublishBoundary \/ CrashInOpen \/ Open
  <2>1. pc = "idle" /\ call' = call
    BY <1>1, <1>4 DEF Sync, Locked, OpenRefused, PublishBoundary, CrashInOpen, Open,
                      Scannable
  <2> QED
    BY <1>1, <1>3, <2>1
<1>5. CASE IoError \/ \E power \in BOOLEAN : Crash(power)
  <2>1. call' = NoCall
    BY <1>5 DEF IoError, Crash, Died
  <2> QED
    BY <1>3, <2>1 DEF NoCall
<1>6. CASE \E m \in Members : \E raws \in Batches : BeginAppend(m, raws)
  <2>1. pc' = "preflight" \/ ~call'.batch
    BY <1>6 DEF BeginAppend, NoCall
  <2> QED
    BY <1>3, <2>1 DEF BatchFits
<1>7. CASE \E m \in Members :
             \/ SyncMember(m) \/ Register(m) \/ OpenMember(m) \/ Close(m)
             \/ SealSync(m) \/ SealCheckpoint(m) \/ Retire(m)
  <2>1. pc = "idle" /\ call' = call
    BY <1>7 DEF SyncMember, Register, OpenMember, Close, SealSync, SealCheckpoint,
                Retire, Locked
  <2> QED
    BY <1>1, <1>3, <2>1
<1>8. CASE \E m \in Members : PublishInitial(m) \/ SealPublish(m)
  <2>1. UNCHANGED <<pc, call, storage, charged, segments, segment, offset>>
    BY <1>8 DEF PublishInitial, SealPublish, index, cursor
  <2> QED
    BY <1>2, <2>1
<1>9. CASE UNCHANGED vars
  <2>1. UNCHANGED <<pc, call, storage, charged, segments, segment, offset>>
    BY <1>9 DEF vars, index, cursor
  <2> QED
    BY <1>2, <2>1
<1> QED
  BY <1>4, <1>5, <1>6, <1>7, <1>8, <1>9

LEMMA StepBatch ==
    ASSUME TypeOK, DurableInv, LogInv, BudgetsKept, BatchFits, [Next]_vars
    PROVE  BatchFits'
<1>1. CASE CallStep
  <2>1. CASE Preflight \/ AppendRefused \/ GcUnlink \/ GcEvidence \/ GcReturn
    BY <2>1, CallStepBatch
  <2>2. CASE Push \/ Roll \/ PushRolled
    BY <2>2, PushBatch, RollBatch, PushRolledBatch
  <2> QED
    BY <1>1, <2>1, <2>2 DEF CallStep
<1>2. CASE Sync \/ IoError \/ UNCHANGED vars
  BY <1>2, OtherStepBatch
<1>3. CASE \E m \in Members : \E raws \in Batches : BeginAppend(m, raws)
  BY <1>3, OtherStepBatch
<1>4. CASE \E m \in Members :
             \/ SyncMember(m) \/ Register(m) \/ PublishInitial(m) \/ OpenMember(m)
             \/ Close(m) \/ SealSync(m) \/ SealPublish(m) \/ SealCheckpoint(m)
             \/ Retire(m)
  BY <1>4, OtherStepBatch
<1>5. CASE \E power \in BOOLEAN : Crash(power)
  BY <1>5, OtherStepBatch
<1>6. CASE OpenRefused \/ PublishBoundary \/ CrashInOpen \/ Open
  BY <1>6, OtherStepBatch
<1> QED
  BY <1>1, <1>2, <1>3, <1>4, <1>5, <1>6 DEF Next

(* A batch the preflight let through is appended to its last record: no    *)
(* roll and no limit it meets on the way was not in the plan.              *)
THEOREM AcceptedBatchesFit == Spec => []AcceptedBatchFits
<1>1. Init => DurableInv /\ BudgetsKept /\ BatchFits
  BY InitDurable, InitBudget, InitBatch
<1>2. /\ TypeOK /\ TypeOK' /\ LogInv /\ LogInv' /\ DurableInv /\ BudgetsKept /\ BatchFits
      /\ [Next]_vars
      => DurableInv' /\ BudgetsKept' /\ BatchFits'
  BY StepDurable, StepBudget, StepBatch
<1>3. TypeOK /\ LogInv /\ BudgetsKept /\ BatchFits => AcceptedBatchFits
  BY AcceptedFits DEF AcceptedBatchFits
<1>4. Spec => []TypeOK /\ []LogInv
  BY TypeCorrect, LogHolds
<1> QED
  BY <1>1, <1>2, <1>3, <1>4, PTL DEF Spec

-----------------------------------------------------------------------------
(***************************************************************************)
(* Checkpoints make room.  No segment outgrows its limit, whatever a crash *)
(* leaves behind the log, and what a segment's index asks a checkpoint to  *)
(* reach is something its member has accepted.                             *)
(***************************************************************************)
FilesSmall == \A n \in DOMAIN files : files[n].length <= SegmentBytes
ActiveSmall == owner = "open" => offset <= SegmentBytes /\ segments[segment].length = offset
EntriesBehind ==
    owner = "open" =>
        \A n \in DOMAIN segments : \A m \in DOMAIN segments[n].members :
            segments[n].members[m] <= member[m].seq
Small == FilesSmall /\ ActiveSmall /\ EntriesBehind

(* The numbers it compares.                                                *)
LEMMA SmallNumbers ==
    ASSUME TypeOK
    PROVE  /\ HeaderLen \in Nat /\ SegmentBytes \in Nat /\ HeaderLen <= SegmentBytes
           /\ offset \in Nat /\ segment \in Nat
           /\ \A n \in DOMAIN files : files[n].length \in Nat
           /\ \A m \in Members : member[m].seq \in Nat
<1>1. HeaderLen <= SegmentBytes /\ HeaderLen \in Nat /\ SegmentBytes \in Nat
  <2>1. PICK len \in Lengths : TRUE
    BY LengthsAssumption
  <2>2. len \in Nat /\ HeaderLen \in Nat /\ HeaderLen + len <= SegmentBytes
    BY LengthsAssumption
  <2>3. SegmentBytes \in Nat
    BY LimitsAssumption
  <2> QED
    BY <2>2, <2>3
<1>2. /\ offset \in Nat /\ segment \in Nat
      /\ \A n \in DOMAIN files : files[n].length \in Nat
  BY DEF TypeOK, CursorOK, FilesOK
<1>3. \A m \in Members : member[m].seq \in Nat
  BY DEF TypeOK, IndexOK, MemberStates
<1> QED
  BY <1>1, <1>2, <1>3

LEMMA InitSmall == Init => Small
<1> SUFFICES ASSUME Init
             PROVE  Small
  OBVIOUS
<1>1. HeaderLen <= SegmentBytes /\ HeaderLen \in Nat
  BY InitType, SmallNumbers
<1>2. FilesSmall
  BY <1>1 DEF Init, FilesSmall
<1>3. ActiveSmall
  BY <1>1 DEF Init, ActiveSmall
<1>4. EntriesBehind
  BY DEF Init, EntriesBehind
<1> QED
  BY <1>2, <1>3, <1>4 DEF Small

(* A flush or a sync writes no further than the records go.                *)
LEMMA SyncedSmall ==
    ASSUME TypeOK, Small, owner = "open"
    PROVE  /\ \A n \in DOMAIN files : /\ SyncedFiles[n].length <= SegmentBytes
                                      /\ FlushedFiles[n].length <= SegmentBytes
           /\ DOMAIN SyncedFiles = DOMAIN files /\ DOMAIN FlushedFiles = DOMAIN files
<1>1. offset <= SegmentBytes /\ \A n \in DOMAIN files : files[n].length <= SegmentBytes
  BY DEF Small, FilesSmall, ActiveSmall
<1>2. /\ DOMAIN FlushedFiles = DOMAIN files
      /\ \A n \in DOMAIN files : FlushedFiles[n].length = offset
                                 \/ FlushedFiles[n].length = files[n].length
  BY DEF FlushedFiles, TypeOK, FilesOK
<1>3. /\ DOMAIN SyncedFiles = DOMAIN files
      /\ \A n \in DOMAIN files : SyncedFiles[n].length = FlushedFiles[n].length
                                 \/ SyncedFiles[n].length = files[n].length
  BY <1>2, SyncedFilesType DEF SyncedFiles
<1> QED
  BY <1>1, <1>2, <1>3

(* Steps that move neither the active segment nor the index.               *)
LEMMA QuietSmall ==
    ASSUME TypeOK, TypeOK', Small, UNCHANGED <<owner, segment, offset, segments>>,
           \A n \in DOMAIN files' : n \in DOMAIN files /\ files'[n].length <= SegmentBytes,
           owner = "open" => \A m \in Members : member'[m].seq >= member[m].seq
    PROVE  Small'
<1>1. FilesSmall'
  BY DEF FilesSmall
<1>2. ActiveSmall'
  BY DEF Small, ActiveSmall
<1>3. ASSUME owner = "open", NEW n \in DOMAIN segments,
             NEW m \in DOMAIN segments[n].members
      PROVE  segments[n].members[m] <= member'[m].seq
  <2>1. m \in Members /\ segments[n].members[m] \in Nat
    BY DEF TypeOK, IndexOK
  <2>2. segments[n].members[m] <= member[m].seq
    BY <1>3 DEF Small, EntriesBehind
  <2>3. member[m].seq \in Nat /\ member'[m].seq \in Nat /\ member'[m].seq >= member[m].seq
    BY <1>3, <2>1 DEF TypeOK, IndexOK, MemberStates
  <2> QED
    BY <2>1, <2>2, <2>3
<1>4. EntriesBehind'
  BY <1>3 DEF EntriesBehind
<1> QED
  BY <1>1, <1>2, <1>4 DEF Small

(* Syncs.                                                                  *)
LEMMA SyncSmall ==
    ASSUME TypeOK, TypeOK', Small, owner = "open",
           UNCHANGED <<owner, segment, offset, segments>>,
           SyncLocked \/ UNCHANGED <<files, durable>>,
           \A m \in Members : member'[m].seq >= member[m].seq
    PROVE  Small'
<1>1. \A n \in DOMAIN files' : n \in DOMAIN files /\ files'[n].length <= SegmentBytes
  BY SyncedSmall DEF SyncLocked, Small, FilesSmall
<1> QED
  BY <1>1, QuietSmall

LEMMA SyncStepSmall ==
    ASSUME TypeOK, TypeOK', DurableInv, Small,
           \/ Sync
           \/ \E m \in Members : SyncMember(m) \/ SealSync(m) \/ OpenMember(m)
    PROVE  Small'
<1>1. \A m \in Members : member[m].seq \in Nat
  BY SmallNumbers
<1>2. CASE Sync
  <2>1. owner = "open" /\ SyncLocked /\ UNCHANGED <<owner, segment, offset, segments, member>>
    BY <1>2 DEF Sync, Locked, index
  <2>2. \A m \in Members : member'[m].seq >= member[m].seq
    BY <1>1, <2>1
  <2> QED
    BY <2>1, <2>2, SyncSmall
<1>3. ASSUME NEW m \in Members, SyncMember(m) \/ SealSync(m)
      PROVE  Small'
  <2>1. /\ UNCHANGED <<owner, segment, offset, segments>>
        /\ member' = [member EXCEPT ![m].durableSeq = member[m].seq,
                                    ![m].durablePointer = member[m].latest]
    BY <1>3 DEF SyncMember, SealSync, Locked, MemberSyncLocked, SyncUpTo
  <2>2. owner = "open" /\ (SyncLocked \/ UNCHANGED <<files, durable>>)
    BY <1>3 DEF SyncMember, SealSync, Locked, MemberSyncLocked, SyncUpTo
  <2>3. \A k \in Members : member'[k].seq = member[k].seq
    BY <2>1 DEF TypeOK, IndexOK, MemberStates
  <2>4. \A k \in Members : member'[k].seq >= member[k].seq
    BY <1>1, <2>3
  <2> QED
    BY <2>1, <2>2, <2>4, SyncSmall
<1>4. ASSUME NEW m \in Members, OpenMember(m)
      PROVE  Small'
  <2>1. /\ owner = "open" /\ (SyncLocked \/ UNCHANGED <<files, durable>>)
        /\ UNCHANGED <<owner, segment, offset, segments>>
        /\ manifest[m] # None /\ retiredAt[m] = None
        /\ member' = IF member[m].initialized THEN member
                     ELSE [member EXCEPT ![m].initialized = TRUE,
                                         ![m].checkpoint = manifest[m],
                                         ![m].seq = manifest[m],
                                         ![m].durableSeq = manifest[m]]
    BY <1>4 DEF OpenMember, Locked, SyncUpTo
  <2>2. manifest[m] \in Nat
    BY <2>1 DEF TypeOK, RegistryOK
  <2>3. ~member[m].initialized => member[m].seq = 0
    BY <2>1 DEF DurableInv, UnopenedEmpty
  <2>4. \A k \in Members : member'[k].seq >= member[k].seq
    <3>1. CASE member[m].initialized
      BY <1>1, <2>1, <3>1
    <3>2. CASE ~member[m].initialized
      <4>1. member'[m].seq = manifest[m] /\ \A k \in Members : k # m => member'[k] = member[k]
        BY <2>1, <3>2 DEF TypeOK, IndexOK, MemberStates
      <4>2. member'[m].seq >= member[m].seq
        BY <2>2, <2>3, <3>2, <4>1
      <4> QED
        BY <1>1, <4>1, <4>2
    <3> QED
      BY <3>1, <3>2
  <2> QED
    BY <2>1, <2>4, SyncSmall
<1> QED
  BY <1>2, <1>3, <1>4

(* The member a record is accepted for is at that record.                  *)
LEMMA AcceptRises ==
    ASSUME TypeOK, call \in Calls, NEW at, Accept(at)
    PROVE  /\ call.id \in Members /\ member'[call.id].seq = member[call.id].seq + 1
           /\ \A m \in Members : m # call.id => member'[m].seq = member[m].seq
           /\ \A m \in Members : member[m].seq \in Nat
<1>1. PICK new : Accepted(call.id, new)
  BY AcceptDoes
<1>2. member'[call.id].seq = member[call.id].seq + 1
      /\ \A m \in Members : m # call.id => member'[m].seq = member[m].seq
  BY <1>1 DEF Accepted
<1> QED
  BY <1>2, SmallNumbers DEF Calls

LEMMA PushSmall ==
    ASSUME TypeOK, TypeOK', LogInv, Small, Push
    PROVE  Small'
<1>1. /\ pc = "append" /\ ~Rolls /\ segment' = segment /\ offset' = offset + Length
      /\ Accept([segment |-> segment, offset |-> offset]) /\ owner' = owner
      /\ files' = IF BufferLength + Length > BufferBytes THEN FlushedFiles ELSE files
  BY DEF Push, Fits
<1>2. owner = "open" /\ call \in Calls
  BY <1>1 DEF TypeOK, CallOK
<1>3. /\ segment \in DOMAIN segments /\ Length \in Nat /\ offset \in Nat
      /\ SegmentBytes \in Nat
  BY <1>2, SegmentsSized, LengthType, SmallNumbers
<1>4. /\ DOMAIN segments' = DOMAIN segments
      /\ \A n \in DOMAIN segments \ {segment} : segments'[n] = segments[n]
      /\ segments'[segment].length = segments[segment].length + Length
      /\ segments'[segment].members
             = With(segments[segment].members, call.id, member[call.id].seq + 1)
  BY <1>3 DEF Push
<1>5. FilesSmall'
  BY <1>1, <1>2, SyncedSmall DEF Small, FilesSmall
<1>6. ActiveSmall'
  <2>1. offset' <= SegmentBytes
    BY <1>1, <1>3 DEF Rolls
  <2>2. segments'[segment'].length = offset'
    BY <1>1, <1>2, <1>4 DEF Small, ActiveSmall
  <2> QED
    BY <2>1, <2>2 DEF ActiveSmall
<1>7. /\ call.id \in Members /\ member'[call.id].seq = member[call.id].seq + 1
      /\ \A m \in Members : m # call.id => member'[m].seq = member[m].seq
      /\ \A m \in Members : member[m].seq \in Nat
  BY <1>1, <1>2, AcceptRises
<1>8. ASSUME NEW n \in DOMAIN segments', NEW m \in DOMAIN segments'[n].members
      PROVE  segments'[n].members[m] <= member'[m].seq
  <2>1. m \in Members /\ segments'[n].members[m] \in Nat
    BY DEF TypeOK, IndexOK
  <2>2. CASE n = segment /\ m = call.id
    BY <1>4, <1>7, <2>2 DEF With
  <2>3. CASE ~(n = segment /\ m = call.id)
    <3>1. n \in DOMAIN segments /\ m \in DOMAIN segments[n].members
          /\ segments'[n].members[m] = segments[n].members[m]
      BY <1>4, <2>3 DEF With
    <3>2. segments[n].members[m] <= member[m].seq
      BY <1>2, <3>1 DEF Small, EntriesBehind
    <3>3. member[m].seq \in Nat /\ member'[m].seq >= member[m].seq
          /\ member'[m].seq \in Nat
      BY <1>7, <2>1
    <3> QED
      BY <2>1, <3>1, <3>2, <3>3
  <2> QED
    BY <2>2, <2>3
<1>9. EntriesBehind'
  BY <1>8 DEF EntriesBehind
<1> QED
  BY <1>5, <1>6, <1>9 DEF Small

LEMMA RollSmall ==
    ASSUME TypeOK, TypeOK', Small, Roll
    PROVE  Small'
<1> DEFINE new == [first |-> lsn + 1, length |-> 0, synced |-> 0]
<1>1. /\ pc = "append" /\ UNCHANGED <<owner, segment, offset, segments, member>>
      /\ files' = With(SyncedFiles, segment + 1, new)
  BY DEF Roll, Fits
<1>2. owner = "open"
  BY <1>1 DEF TypeOK, CallOK
<1>3. new.length <= SegmentBytes
  BY SmallNumbers
<1>4. \A n \in DOMAIN files' : files'[n] = new \/ (n \in DOMAIN SyncedFiles
                                                   /\ files'[n] = SyncedFiles[n])
  BY <1>1 DEF With
<1> HIDE DEF new
<1>5. FilesSmall'
  BY <1>2, <1>3, <1>4, SyncedSmall DEF FilesSmall
<1>6. ActiveSmall' /\ EntriesBehind'
  BY <1>1 DEF Small, ActiveSmall, EntriesBehind
<1> QED
  BY <1>5, <1>6 DEF Small

LEMMA PushRolledSmall ==
    ASSUME TypeOK, TypeOK', LogInv, Small, PushRolled
    PROVE  Small'
<1>1. /\ pc = "roll" /\ segment' = segment + 1 /\ offset' = HeaderLen + Length
      /\ Accept([segment |-> segment + 1, offset |-> HeaderLen]) /\ owner' = owner
      /\ files' = [files EXCEPT ![segment + 1].length = HeaderLen,
                                ![segment + 1].synced = HeaderLen]
      /\ segments' = With(segments, segment + 1,
                          [length |-> HeaderLen + Length,
                           members |-> [m \in {call.id} |-> member[m].seq + 1]])
  BY DEF PushRolled
<1>2. owner = "open" /\ call \in Calls
  BY <1>1 DEF TypeOK, CallOK
<1>3. /\ HeaderLen <= SegmentBytes /\ HeaderLen + Length <= SegmentBytes
  BY <1>2, SmallNumbers, LengthType, LengthsAssumption
<1>4. FilesSmall'
  <2>1. \A n \in DOMAIN files' : n \in DOMAIN files
            /\ (files'[n].length = HeaderLen \/ files'[n].length = files[n].length)
    BY <1>1 DEF TypeOK, FilesOK
  <2> QED
    BY <1>3, <2>1 DEF Small, FilesSmall
<1>5. /\ DOMAIN segments' = DOMAIN segments \cup {segment + 1}
      /\ segments'[segment + 1] = [length |-> HeaderLen + Length,
                                   members |-> [m \in {call.id} |-> member[m].seq + 1]]
      /\ \A n \in DOMAIN segments : n # segment + 1 => segments'[n] = segments[n]
  BY <1>1 DEF With
<1>6. ActiveSmall'
  BY <1>1, <1>3, <1>5 DEF ActiveSmall
<1>7. /\ call.id \in Members /\ member'[call.id].seq = member[call.id].seq + 1
      /\ \A m \in Members : m # call.id => member'[m].seq = member[m].seq
      /\ \A m \in Members : member[m].seq \in Nat
  BY <1>1, <1>2, AcceptRises
<1>8. ASSUME NEW n \in DOMAIN segments', NEW m \in DOMAIN segments'[n].members
      PROVE  segments'[n].members[m] <= member'[m].seq
  <2>1. m \in Members /\ segments'[n].members[m] \in Nat
    BY DEF TypeOK, IndexOK
  <2>2. CASE n = segment + 1
    <3>1. m = call.id /\ segments'[n].members[m] = member[m].seq + 1
      BY <1>5, <2>2
    <3> QED
      BY <1>7, <3>1
  <2>3. CASE n # segment + 1
    <3>1. n \in DOMAIN segments /\ segments'[n] = segments[n]
      BY <1>5, <2>3
    <3>2. segments[n].members[m] <= member[m].seq
      BY <1>2, <3>1 DEF Small, EntriesBehind
    <3>3. member[m].seq \in Nat /\ member'[m].seq >= member[m].seq
          /\ member'[m].seq \in Nat
      BY <1>7, <2>1
    <3> QED
      BY <2>1, <3>1, <3>2, <3>3
  <2> QED
    BY <2>2, <2>3
<1>9. EntriesBehind'
  BY <1>8 DEF EntriesBehind
<1> QED
  BY <1>4, <1>6, <1>9 DEF Small

LEMMA GcUnlinkSmall ==
    ASSUME TypeOK, LogInv, Small, GcUnlink
    PROVE  Small'
<1>1. /\ Lowest # segment /\ UNCHANGED <<owner, segment, offset, member>>
      /\ files' = Restrict(files, DOMAIN files \ {Lowest})
      /\ segments' = Restrict(segments, DOMAIN segments \ {Lowest})
  BY DEF GcUnlink, Collectable, cursor
<1>2. FilesSmall'
  BY <1>1 DEF Small, FilesSmall, Restrict
<1>3. /\ DOMAIN segments' = DOMAIN segments \ {Lowest}
      /\ \A n \in DOMAIN segments' : segments'[n] = segments[n]
  BY <1>1 DEF Restrict
<1>4. EntriesBehind'
  BY <1>1, <1>3 DEF Small, EntriesBehind
<1>5. ActiveSmall'
  <2>1. owner = "open" => segment \in DOMAIN segments
    BY SegmentsSized
  <2> QED
    BY <1>1, <1>3, <2>1 DEF Small, ActiveSmall
<1> QED
  BY <1>2, <1>4, <1>5 DEF Small

(* Steps that leave the segments, the files and the records alone.         *)
LEMMA OtherStepSmall ==
    ASSUME TypeOK, TypeOK', Small,
           \/ Preflight \/ AppendRefused \/ GcEvidence \/ GcReturn \/ IoError
           \/ PublishBoundary
           \/ \E m \in Members : \E raws \in Batches : BeginAppend(m, raws)
           \/ \E m \in Members :
                \/ Register(m) \/ PublishInitial(m) \/ Close(m) \/ SealPublish(m)
                \/ SealCheckpoint(m) \/ Retire(m)
           \/ UNCHANGED vars
    PROVE  Small'
<1>1. \A m \in Members : member[m].seq \in Nat
  BY SmallNumbers
<1>2. /\ UNCHANGED <<owner, segment, offset, segments, files>>
      /\ \A m \in Members : member'[m].seq = member[m].seq
  <2>1. CASE Preflight \/ AppendRefused \/ GcEvidence \/ GcReturn \/ IoError
    BY <2>1 DEF Preflight, AppendRefused, GcEvidence, GcReturn, IoError, disk, index,
                cursor
  <2>2. CASE PublishBoundary
    BY <2>2 DEF PublishBoundary, index, cursor
  <2>3. CASE \E m \in Members : \E raws \in Batches : BeginAppend(m, raws)
    BY <2>3 DEF BeginAppend, disk, index, cursor
  <2>4. CASE \E m \in Members : Register(m) \/ PublishInitial(m) \/ Close(m) \/ SealPublish(m)
    BY <2>4 DEF Register, PublishInitial, Close, SealPublish, disk, index, cursor
  <2>5. ASSUME NEW m \in Members, SealCheckpoint(m)
        PROVE  /\ UNCHANGED <<owner, segment, offset, segments, files>>
               /\ \A k \in Members : member'[k].seq = member[k].seq
    <3>1. member' = [member EXCEPT ![m].checkpoint = member[m].seq]
      BY <2>5 DEF SealCheckpoint
    <3>2. \A k \in Members : member'[k].seq = member[k].seq
      BY <3>1 DEF TypeOK, IndexOK, MemberStates
    <3> QED
      BY <2>5, <3>2 DEF SealCheckpoint, disk, cursor
  <2>6. ASSUME NEW m \in Members, Retire(m)
        PROVE  /\ UNCHANGED <<owner, segment, offset, segments, files>>
               /\ \A k \in Members : member'[k].seq = member[k].seq
    <3>1. member' = [member EXCEPT ![m].retired = TRUE] \/ member' = member
      BY <2>6 DEF Retire
    <3>2. \A k \in Members : member'[k].seq = member[k].seq
      BY <3>1 DEF TypeOK, IndexOK, MemberStates
    <3> QED
      BY <2>6, <3>2 DEF Retire, cursor
  <2>7. CASE UNCHANGED vars
    BY <2>7 DEF vars, disk, index, cursor
  <2> QED
    BY <2>1, <2>2, <2>3, <2>4, <2>5, <2>6, <2>7
<1>3. \A n \in DOMAIN files' : n \in DOMAIN files /\ files'[n].length <= SegmentBytes
  BY <1>2 DEF Small, FilesSmall
<1>4. \A m \in Members : member'[m].seq >= member[m].seq
  BY <1>1, <1>2
<1> QED
  BY <1>2, <1>3, <1>4, QuietSmall

(* What a crash leaves of the record behind the log is less than all of it.*)
LEMMA CrashSmall ==
    ASSUME TypeOK, DurableInv, LogInv, Small, NEW power \in BOOLEAN, Crash(power)
    PROVE  Small'
<1> PICK upTo \in Nat, torn \in Nat, header \in Nat :
           /\ durable <= upTo /\ upTo <= lsn
           /\ files' = Remains(upTo, torn, header) /\ Died(upTo)
           /\ (\A f \in frames : f.lsn # upTo + 1) => torn = 0
           /\ \A f \in frames : f.lsn = upTo + 1 => torn < f.length
           /\ header <= HeaderLen
  BY CrashParts
<1> DEFINE kept == {f \in FramesIn(segment) : f.lsn <= upTo}
           Ends == {FrameEnd(f) : f \in kept} \cup {HeaderLen}
           end == Max(Ends)
           size(n) == IF n = segment THEN end + torn
                      ELSE IF n = segment + 1 THEN header ELSE files[n].length
<1>1. owner = "open" /\ owner' = "down"
  BY DEF Crash, Died
<1>2. files' = [n \in DOMAIN files |->
                   [first |-> files[n].first, length |-> size(n), synced |-> size(n)]]
  BY DEF Remains
<1>3. /\ offset <= SegmentBytes /\ offset \in Nat /\ SegmentBytes \in Nat
      /\ HeaderLen \in Nat /\ HeaderLen <= SegmentBytes /\ HeaderLen <= offset
      /\ \A f \in FramesIn(segment) : FrameEnd(f) <= offset
      /\ lsn \in Nat /\ durable \in Nat
  <2>1. segment \in DOMAIN files /\ HeaderLen <= files[segment].synced
        /\ files[segment].length <= offset
        /\ files[segment].synced <= files[segment].length
        /\ \A f \in FramesIn(segment) : FrameEnd(f) <= offset
    BY <1>1 DEF LogInv, CursorTrue, Boundaries
  <2>2. HeaderLen \in Nat /\ files[segment].synced \in Nat /\ files[segment].length \in Nat
        /\ offset \in Nat
    BY <2>1, SmallNumbers DEF TypeOK, FilesOK
  <2>3. HeaderLen <= offset
    BY <2>1, <2>2
  <2> QED
    BY <1>1, <2>1, <2>3, SmallNumbers, RowNumbers DEF Small, ActiveSmall
<1>4. kept \subseteq frames /\ kept \subseteq FramesIn(segment)
  BY DEF FramesIn
<1>5. end \in Ends
  <2> DEFINE ends == [f \in kept |-> FrameEnd(f)]
  <2>1. IsFiniteSet(kept)
    BY <1>4, FS_Subset DEF TypeOK, FramesOK
  <2>2. IsFiniteSet({ends[f] : f \in kept})
    <3> HIDE DEF ends, kept
    <3> QED
      BY <2>1, ImageFinite
  <2>3. {FrameEnd(f) : f \in kept} = {ends[f] : f \in kept}
    OBVIOUS
  <2>4. IsFiniteSet(Ends) /\ Ends # {}
    BY <2>2, <2>3, FS_AddElement
  <2>5. Ends \subseteq Int
    BY <1>3, <1>4, FrameParts
  <2> HIDE DEF Ends
  <2> QED
    BY <2>4, <2>5, MaxOfFinite
<1> HIDE DEF Ends, end
<1>6. end \in Nat /\ (end = HeaderLen \/ \E f \in kept : end = FrameEnd(f))
  <2>1. end = HeaderLen \/ \E f \in kept : end = FrameEnd(f)
    BY <1>5 DEF Ends
  <2> QED
    BY <2>1, <1>3, <1>4, FrameParts
<1>7. end + torn <= SegmentBytes
  <2>1. CASE \A f \in frames : f.lsn # upTo + 1
    <3>1. torn = 0 /\ end <= offset
      BY <1>3, <1>4, <1>6, <2>1
    <3> QED
      BY <1>3, <1>6, <3>1
  <2>2. CASE \E f \in frames : f.lsn = upTo + 1
    <3>1. PICK f \in frames : f.lsn = upTo + 1
      BY <2>2
    <3>2. /\ f.lsn \in Nat /\ f.at.offset \in Nat /\ f.length \in Nat
          /\ FrameEnd(f) = f.at.offset + f.length
      BY FrameParts DEF FrameEnd
    <3>3. f.at.segment = segment
      <4>1. f.lsn > durable
        BY <1>3, <3>1, <3>2
      <4> QED
        BY <1>3, <3>2, <4>1 DEF LogInv, DurableFrames
    <3>4. FrameEnd(f) <= offset
      BY <1>3, <3>3 DEF FramesIn
    <3>5. end <= f.at.offset
      <4>1. CASE end = HeaderLen
        BY <4>1 DEF LogInv, LogShape, FramesPlaced
      <4>2. CASE \E g \in kept : end = FrameEnd(g)
        <5>1. PICK g \in kept : end = FrameEnd(g)
          BY <4>2
        <5>2. g \in frames /\ g.lsn <= upTo /\ g.at.segment = segment /\ g.lsn \in Nat
          BY <1>4, FrameParts DEF FramesIn
        <5>3. g.lsn < f.lsn
          BY <3>1, <3>2, <5>2
        <5>4. Ahead(g, f)
          BY <5>2, <5>3 DEF LogInv, LogShape, FramesApart
        <5>5. ~(g.at.segment < f.at.segment)
          <6>1. segment \in Nat /\ ~(segment < segment)
            BY SmallNumbers
          <6> QED
            BY <3>3, <5>2, <6>1
        <5> QED
          BY <5>1, <5>4, <5>5 DEF Ahead
      <4> QED
        BY <1>6, <4>1, <4>2
    <3>6. torn < f.length
      BY <3>1
    <3> QED
      BY <1>3, <1>6, <3>2, <3>4, <3>5, <3>6
  <2> QED
    BY <2>1, <2>2
<1>8. ASSUME NEW n \in DOMAIN files'
      PROVE  files'[n].length <= SegmentBytes
  <2>1. n \in DOMAIN files /\ files'[n].length = size(n)
    BY <1>2
  <2>2. files[n].length <= SegmentBytes
    BY <2>1 DEF Small, FilesSmall
  <2>3. header <= SegmentBytes
    BY <1>3
  <2> QED
    BY <1>7, <2>1, <2>2, <2>3
<1>9. FilesSmall'
  BY <1>8 DEF FilesSmall
<1> QED
  BY <1>1, <1>9 DEF Small, ActiveSmall, EntriesBehind

(* The scan may start one more segment, which holds a header.              *)
LEMMA RotatedSmall ==
    ASSUME TypeOK, Small
    PROVE  \A n \in DOMAIN Rotated : Rotated[n].length <= SegmentBytes
<1>1. HeaderLen <= SegmentBytes
  BY SmallNumbers
<1>2. \A n \in DOMAIN Rotated : \/ n \in DOMAIN files /\ Rotated[n] = files[n]
                                \/ Rotated[n].length = HeaderLen
  BY DEF Rotated, With
<1> QED
  BY <1>1, <1>2 DEF Small, FilesSmall

LEMMA DownSmall ==
    ASSUME TypeOK, Small, OpenRefused \/ CrashInOpen
    PROVE  Small'
<1>1. owner' # "open"
  BY DEF OpenRefused, CrashInOpen, Scannable
<1>2. FilesSmall'
  <2>1. CASE OpenRefused
    <3>1. files' = files \/ files' = Rotated
      BY <2>1 DEF OpenRefused
    <3> QED
      BY <3>1, RotatedSmall DEF Small, FilesSmall
  <2>2. CASE CrashInOpen
    <3>1. PICK header \in 0 .. HeaderLen :
              files' = [Rotated EXCEPT ![LastFile + 1].length = header,
                                       ![LastFile + 1].synced = header]
      BY <2>2 DEF CrashInOpen
    <3>2. header <= SegmentBytes
      BY SmallNumbers
    <3>3. \A n \in DOMAIN files' : n \in DOMAIN Rotated
              /\ (files'[n].length = header \/ files'[n].length = Rotated[n].length)
      BY <3>1, RotatedType
    <3> QED
      BY <3>2, <3>3, RotatedSmall DEF FilesSmall
  <2> QED
    BY <2>1, <2>2
<1> QED
  BY <1>1, <1>2 DEF Small, ActiveSmall, EntriesBehind

(* No record of a member lies behind the sequence the scan gives it.       *)
LEMMA ScannedCovers ==
    ASSUME TypeOK, LogInv, NEW m \in Members, NEW f \in FramesOf(m)
    PROVE  f.seq <= ScannedMember(m).seq
<1> DEFINE own == FramesOf(m)
           cp == ScanCheckpoint(m)
           last == CHOOSE g \in own : \A h \in own : h.lsn <= g.lsn
           found == own # {} /\ last.seq >= cp
<1>1. last \in own /\ \A g \in own : g.lsn <= last.lsn
  <2>1. own \in SUBSET frames /\ own # {}
    BY DEF FramesOf
  <2>2. \E g \in own : \A h \in own : h.lsn <= g.lsn
    <3> HIDE DEF own
    <3> QED
      BY <2>1, HighestFrame
  <2> QED
    BY <2>2
<1>2. ScannedMember(m).seq = (IF found THEN last.seq ELSE cp)
  BY DEF ScannedMember
<1> HIDE DEF last
<1>3. \A g \in own : g \in frames /\ g.id = m /\ g.seq \in Nat /\ g.lsn \in Nat
  BY FrameParts DEF FramesOf
<1>4. f.seq <= last.seq
  <2>1. CASE f.lsn = last.lsn
    <3>1. f = last
      BY <1>1, <1>3, <2>1 DEF LogInv, LogShape, FramesApart
    <3> QED
      BY <1>1, <1>3, <3>1
  <2>2. CASE f.lsn < last.lsn
    <3>1. f.seq < last.seq
      BY <1>1, <1>3, <2>2 DEF LogInv, LogShape, SeqsRise
    <3> QED
      BY <1>1, <1>3, <3>1
  <2> QED
    BY <1>1, <1>3, <2>1, <2>2
<1>5. cp \in Nat
  BY DEF TypeOK, RegistryOK, ScanCheckpoint
<1>6. own # {} /\ f.seq \in Nat /\ last.seq \in Nat
  BY <1>1, <1>3
<1> HIDE DEF own, cp
<1> QED
  BY <1>2, <1>4, <1>5, <1>6

LEMMA OpenSmall ==
    ASSUME TypeOK, TypeOK', LogInv, Small, Open
    PROVE  Small'
<1>1. /\ files' = Rotated /\ segments' = ScannedSegments
      /\ segment' = Max(DOMAIN Rotated) /\ offset' = Rotated[Max(DOMAIN Rotated)].length
      /\ \A m \in Members : member'[m] = ScannedMember(m)
  BY DEF Open
<1>2. Max(DOMAIN Rotated) \in DOMAIN Rotated
  <2>1. DOMAIN Rotated \subseteq Int /\ DOMAIN Rotated # {} /\ IsFiniteSet(DOMAIN Rotated)
    BY RotatedType
  <2> QED
    BY <2>1, MaxOfFinite
<1>3. FilesSmall'
  BY <1>1, RotatedSmall DEF FilesSmall
<1>4. ActiveSmall'
  BY <1>1, <1>2, RotatedSmall DEF ActiveSmall, ScannedSegments
<1>5. ASSUME NEW n \in DOMAIN ScannedSegments,
             NEW m \in DOMAIN ScannedSegments[n].members
      PROVE  ScannedSegments[n].members[m] <= ScannedMember(m).seq
  <2> DEFINE own == FramesIn(n) \cap FramesOf(m)
             seqs == [g \in own |-> g.seq]
             Seqs == {g.seq : g \in own}
  <2>1. /\ ScannedSegments[n].members[m] = Max(Seqs)
        /\ \E f \in FramesIn(n) : f.id = m
    BY DEF ScannedSegments
  <2>2. own \subseteq frames /\ own # {} /\ m \in Members
    <3>1. \E f \in FramesIn(n) : f.id = m /\ f \in frames
      BY <2>1 DEF FramesIn
    <3> QED
      BY <3>1, FrameType DEF FramesIn, FramesOf
  <2>3. IsFiniteSet(own)
    BY <2>2, FS_Subset DEF TypeOK, FramesOK
  <2>4. Seqs = {seqs[g] : g \in own}
    OBVIOUS
  <2>5. IsFiniteSet(Seqs)
    <3> HIDE DEF seqs, own
    <3>1. IsFiniteSet({seqs[g] : g \in own})
      BY <2>3, ImageFinite
    <3> QED
      BY <2>4, <3>1
  <2>6. Seqs \subseteq Int /\ Seqs # {}
    BY <2>2, FrameType
  <2>7. Max(Seqs) \in Seqs
    <3> HIDE DEF Seqs
    <3> QED
      BY <2>5, <2>6, MaxOfFinite
  <2>8. PICK f \in own : f.seq = Max(Seqs)
    BY <2>7
  <2> QED
    BY <2>1, <2>2, <2>8, ScannedCovers
<1>6. EntriesBehind'
  <2>1. \A n \in DOMAIN segments' : \A m \in DOMAIN segments'[n].members : m \in Members
    BY DEF TypeOK, IndexOK
  <2> QED
    BY <1>1, <1>5, <2>1 DEF EntriesBehind
<1> QED
  BY <1>3, <1>4, <1>6 DEF Small

LEMMA StepSmall ==
    ASSUME TypeOK, TypeOK', DurableInv, LogInv, Small, [Next]_vars
    PROVE  Small'
<1>1. CASE CallStep
  <2>1. CASE Preflight \/ AppendRefused \/ GcReturn \/ GcEvidence
    BY <2>1, OtherStepSmall
  <2>2. CASE Push \/ Roll \/ PushRolled
    BY <2>2, PushSmall, RollSmall, PushRolledSmall
  <2>3. CASE GcUnlink
    BY <2>3, GcUnlinkSmall
  <2> QED
    BY <1>1, <2>1, <2>2, <2>3 DEF CallStep
<1>2. CASE IoError \/ UNCHANGED vars
  BY <1>2, OtherStepSmall
<1>3. CASE \E m \in Members : \E raws \in Batches : BeginAppend(m, raws)
  BY <1>3, OtherStepSmall
<1>4. CASE Sync \/ \E m \in Members : SyncMember(m) \/ SealSync(m) \/ OpenMember(m)
  BY <1>4, SyncStepSmall
<1>5. CASE \E m \in Members : \/ Register(m) \/ PublishInitial(m) \/ Close(m)
                              \/ SealPublish(m) \/ SealCheckpoint(m) \/ Retire(m)
  BY <1>5, OtherStepSmall
<1>6. CASE \E power \in BOOLEAN : Crash(power)
  BY <1>6, CrashSmall
<1>7. CASE OpenRefused \/ CrashInOpen
  BY <1>7, DownSmall
<1>8. CASE PublishBoundary \/ Open
  BY <1>8, OtherStepSmall, OpenSmall
<1> QED
  BY <1>1, <1>2, <1>3, <1>4, <1>5, <1>6, <1>7, <1>8 DEF Next

(* Once the checkpoints have caught up every segment but the active one may *)
(* go, and it leaves room for another.                                     *)
LEMMA RoomReturns ==
    ASSUME TypeOK, LogInv, Small
    PROVE  CapacityReturns
<1> SUFFICES ASSUME owner = "open",
                    \A m \in registered : member[m].retired
                                          \/ member[m].checkpoint = member[m].seq
             PROVE  StorageOf(Restrict(segments, {n \in DOMAIN segments : ~Collectable(n)}))
                        + HeaderLen + Max(Lengths) <= MaxBytes
  BY DEF CapacityReturns
<1> DEFINE left == Restrict(segments, {n \in DOMAIN segments : ~Collectable(n)})
           none == [n \in {} |-> segments[n]]
<1>1. Sized(segments) /\ segment \in DOMAIN segments
  BY SegmentsSized
<1>2. ASSUME NEW n \in DOMAIN segments, n # segment
      PROVE  Collectable(n)
  <2> SUFFICES ASSUME NEW m \in DOMAIN segments[n].members
               PROVE  member[m].retired \/ member[m].checkpoint >= segments[n].members[m]
    BY <1>2 DEF Collectable
  <2>1. m \in registered /\ m \in Members
    <3>1. PICK f \in FramesIn(n) : f.id = m
      BY DEF LogInv, IndexTrue
    <3> QED
      BY <3>1, FrameType DEF LogInv, LogShape, FramesPlaced, FramesIn
  <2>2. segments[n].members[m] <= member[m].seq
    BY DEF Small, EntriesBehind
  <2>3. segments[n].members[m] \in Nat /\ member[m].seq \in Nat
    BY <2>1, SmallNumbers DEF TypeOK, IndexOK
  <2> QED
    BY <2>1, <2>2, <2>3
<1>3. DOMAIN left = {segment} /\ left[segment] = segments[segment]
  <2>1. ~Collectable(segment)
    BY DEF Collectable
  <2> QED
    BY <1>1, <1>2, <2>1 DEF Restrict
<1>4. Sized(left) /\ Sized(none) /\ DOMAIN none = {}
  <2>1. IsFiniteSet({segment}) /\ IsFiniteSet({})
    BY FS_Singleton, FS_EmptySet
  <2> QED
    BY <1>1, <1>3, <2>1 DEF Sized
<1>5. DOMAIN left = DOMAIN none \cup {segment}
  BY <1>3, <1>4
<1>6. left[segment].length = offset /\ offset <= SegmentBytes /\ offset \in Nat
  BY <1>3, SmallNumbers DEF Small, ActiveSmall
<1> HIDE DEF left, none
<1>7. StorageOf(none) = 0
  BY <1>4, SumNothing DEF StorageOf
<1>8. StorageOf(left) = StorageOf(none) + left[segment].length
  BY <1>4, <1>5, TotalsChange
<1>9. StorageOf(left) <= SegmentBytes /\ StorageOf(left) \in Nat
  BY <1>6, <1>7, <1>8
<1>10. Max(Lengths) \in Lengths
  <2>1. Lengths \subseteq 0 .. BufferBytes
    <3> SUFFICES ASSUME NEW len \in Lengths
                 PROVE  len \in 0 .. BufferBytes
      OBVIOUS
    <3>1. len \in Nat /\ len <= BufferBytes /\ BufferBytes \in Nat
      BY LengthsAssumption, LimitsAssumption
    <3> QED
      BY <3>1
  <2>2. IsFiniteSet(0 .. BufferBytes)
    BY FS_Interval, LimitsAssumption
  <2>3. IsFiniteSet(Lengths)
    BY <2>1, <2>2, FS_Subset
  <2>4. Lengths \subseteq Int /\ Lengths # {}
    BY LengthsAssumption
  <2> QED
    BY <2>3, <2>4, MaxOfFinite
<1>11. HeaderLen + Max(Lengths) <= SegmentBytes /\ Max(Lengths) \in Nat
  BY <1>10, LengthsAssumption
<1>12. /\ HeaderLen \in Nat /\ SegmentBytes \in Nat /\ MaxBytes \in Nat
       /\ 2 * SegmentBytes <= MaxBytes
  BY LimitsAssumption, LengthsAssumption
<1>13. StorageOf(left) + HeaderLen + Max(Lengths) <= MaxBytes
  BY <1>9, <1>11, <1>12
<1> QED
  BY <1>13 DEF left

(* An owner whose members have all checkpointed what they accepted makes   *)
(* room for any record by collecting garbage: no segment is kept by a      *)
(* member that has nothing left in it, and none has outgrown its limit.    *)
THEOREM CapacityAlwaysReturns == Spec => []CapacityReturns
<1>1. Init => DurableInv /\ Small
  BY InitDurable, InitSmall
<1>2. /\ TypeOK /\ TypeOK' /\ LogInv /\ DurableInv /\ Small /\ [Next]_vars
      => DurableInv' /\ Small'
  BY StepDurable, StepSmall
<1>3. TypeOK /\ LogInv /\ Small => CapacityReturns
  BY RoomReturns
<1>4. Spec => []TypeOK /\ []LogInv
  BY TypeCorrect, LogHolds
<1> QED
  BY <1>1, <1>2, <1>3, <1>4, PTL DEF Spec

-----------------------------------------------------------------------------
(***************************************************************************)
(* The abstract log.  An append with the roll it needs is one Accept, a    *)
(* sync is a Persist, the checkpoint a seal hands to the owner a           *)
(* Checkpoint, the end of a segment a Forget, and the end of a process a   *)
(* Crash: there a MANIFEST the owner had not heard of yet may count.  What *)
(* the scan does to open the owner again is not seen.                      *)
(***************************************************************************)

LogStep == [Logs!Next]_(Logs!vars)

(* The bounds of the model.                                                *)
BoundsInv == /\ crashes \in 0 .. MaxCrashes
             /\ call # NoCall => lsn + Len(call.raws) <= MaxLsn

-----------------------------------------------------------------------------
(***************************************************************************)
(* The abstract log of a set of frames.                                    *)
(***************************************************************************)
Entry(f) == [id |-> f.id, seq |-> f.seq, value |-> f.value]
LogOf(F) == [l \in {f.lsn : f \in F} |-> LET f == CHOOSE g \in F : g.lsn = l
                                         IN  [id |-> f.id, seq |-> f.seq, value |-> f.value]]
OnePerLsn(F) == \A f, g \in F : f.lsn = g.lsn => f = g

LEMMA LogOfFrames == AbstractLog = LogOf(frames) /\ AbstractLog' = LogOf(frames')
BY DEF AbstractLog, LogOf

LEMMA LogOfIs ==
    ASSUME NEW F, OnePerLsn(F)
    PROVE  /\ DOMAIN LogOf(F) = {f.lsn : f \in F}
           /\ \A f \in F : LogOf(F)[f.lsn] = Entry(f)
<1>1. DOMAIN LogOf(F) = {f.lsn : f \in F}
  BY DEF LogOf
<1>2. ASSUME NEW f \in F
      PROVE  LogOf(F)[f.lsn] = Entry(f)
  <2>1. (CHOOSE g \in F : g.lsn = f.lsn) = f
    BY DEF OnePerLsn
  <2> QED
    BY <2>1 DEF LogOf, Entry
<1> QED
  BY <1>1, <1>2

LEMMA LogGrows ==
    ASSUME NEW F, NEW new, OnePerLsn(F), \A f \in F : f.lsn # new.lsn
    PROVE  LogOf(F \cup {new}) = [l \in DOMAIN LogOf(F) \cup {new.lsn} |->
                                     IF l = new.lsn THEN Entry(new) ELSE LogOf(F)[l]]
<1> DEFINE G == F \cup {new}
<1>1. OnePerLsn(G)
  BY DEF OnePerLsn
<1>2. /\ DOMAIN LogOf(F) = {f.lsn : f \in F} /\ DOMAIN LogOf(G) = {f.lsn : f \in G}
      /\ \A f \in F : LogOf(F)[f.lsn] = Entry(f)
      /\ \A f \in G : LogOf(G)[f.lsn] = Entry(f)
  BY <1>1, LogOfIs
<1>3. DOMAIN LogOf(G) = DOMAIN LogOf(F) \cup {new.lsn}
  BY <1>2
<1>4. ASSUME NEW l \in DOMAIN LogOf(G)
      PROVE  LogOf(G)[l] = IF l = new.lsn THEN Entry(new) ELSE LogOf(F)[l]
  <2> PICK f \in G : f.lsn = l
    BY <1>2
  <2> QED
    BY <1>2
<1>5. LogOf(G) = [l \in DOMAIN LogOf(G) |-> LogOf(G)[l]]
  BY DEF LogOf
<1> HIDE DEF LogOf
<1> QED
  BY <1>3, <1>4, <1>5

LEMMA LogCutTo ==
    ASSUME NEW F, NEW S, OnePerLsn(F)
    PROVE  LogOf({f \in F : f.lsn \in S}) = [l \in DOMAIN LogOf(F) \cap S |-> LogOf(F)[l]]
<1> DEFINE G == {f \in F : f.lsn \in S}
<1>1. OnePerLsn(G)
  BY DEF OnePerLsn
<1>2. /\ DOMAIN LogOf(F) = {f.lsn : f \in F} /\ DOMAIN LogOf(G) = {f.lsn : f \in G}
      /\ \A f \in F : LogOf(F)[f.lsn] = Entry(f)
      /\ \A f \in G : LogOf(G)[f.lsn] = Entry(f)
  BY <1>1, LogOfIs
<1>3. DOMAIN LogOf(G) = DOMAIN LogOf(F) \cap S
  BY <1>2
<1>4. ASSUME NEW l \in DOMAIN LogOf(G)
      PROVE  LogOf(G)[l] = LogOf(F)[l]
  <2> PICK f \in G : f.lsn = l
    BY <1>2
  <2> QED
    BY <1>2
<1>5. LogOf(G) = [l \in DOMAIN LogOf(G) |-> LogOf(G)[l]]
  BY DEF LogOf
<1> HIDE DEF LogOf
<1> QED
  BY <1>3, <1>4, <1>5

(* The last sequence number a scan finds.                                  *)
LastSeq(own, cp) ==
    LET last == CHOOSE f \in own : \A g \in own : g.lsn <= f.lsn
    IN  IF own # {} /\ last.seq >= cp THEN last.seq ELSE cp
IsLast(s, own, cp) == /\ s \in {f.seq : f \in own} \cup {cp} /\ cp <= s
                      /\ \A f \in own : f.seq <= s
InOrder(own) ==
    /\ \A f \in own : f.lsn \in Nat /\ f.seq \in Nat
    /\ \A f, g \in own : /\ f.lsn = g.lsn => f = g
                         /\ f.lsn < g.lsn => f.seq < g.seq

LEMMA LastSeqIs ==
    ASSUME NEW own, NEW cp \in Nat, InOrder(own), IsFiniteSet(own)
    PROVE  IsLast(LastSeq(own, cp), own, cp) /\ LastSeq(own, cp) \in Nat
<1> DEFINE last == CHOOSE f \in own : \A g \in own : g.lsn <= f.lsn
<1>1. own # {} => \E f \in own : \A g \in own : g.lsn <= f.lsn
  <2> SUFFICES ASSUME own # {}
               PROVE  \E f \in own : \A g \in own : g.lsn <= f.lsn
    OBVIOUS
  <2> DEFINE lsns == [f \in own |-> f.lsn]
             Lsns == {f.lsn : f \in own}
  <2>1. Lsns = {lsns[f] : f \in own}
    OBVIOUS
  <2>2. IsFiniteSet(Lsns)
    <3> HIDE DEF lsns
    <3>1. IsFiniteSet({lsns[f] : f \in own})
      BY ImageFinite
    <3> QED
      BY <2>1, <3>1
  <2>3. Lsns \subseteq Int /\ Lsns # {}
    BY DEF InOrder
  <2>4. Max(Lsns) \in Lsns /\ \A x \in Lsns : x <= Max(Lsns)
    <3> HIDE DEF Lsns
    <3> QED
      BY <2>2, <2>3, MaxOfFinite
  <2> QED
    BY <2>4
<1>2. own # {} => last \in own /\ \A g \in own : g.lsn <= last.lsn
  BY <1>1
<1>3. LastSeq(own, cp) = IF own # {} /\ last.seq >= cp THEN last.seq ELSE cp
  BY DEF LastSeq
<1> HIDE DEF last
<1>4. CASE own = {}
  BY <1>3, <1>4 DEF IsLast
<1>5. CASE own # {}
  <2>1. last \in own /\ last.seq \in Nat
    BY <1>2, <1>5 DEF InOrder
  <2>2. \A f \in own : f.seq \in Nat /\ f.seq <= last.seq
    BY <1>2, <1>5, <2>1 DEF InOrder
  <2> QED
    BY <1>3, <1>5, <2>1, <2>2 DEF IsLast
<1> QED
  BY <1>4, <1>5

LEMMA OneIsLast ==
    ASSUME NEW s \in Nat, NEW t \in Nat, NEW own, NEW cp \in Nat, \A f \in own : f.seq \in Nat,
           IsLast(s, own, cp), IsLast(t, own, cp)
    PROVE  s = t
BY DEF IsLast

LEMMA ScanFindsLast ==
    \A m : /\ ScannedMember(m).seq = LastSeq(FramesOf(m), ScanCheckpoint(m))
           /\ ScannedMember(m)'.seq = LastSeq(FramesOf(m)', ScanCheckpoint(m)')
BY DEF ScannedMember, LastSeq

(* The frames of a member are in order.                                    *)
LEMMA OwnInOrder ==
    ASSUME TypeOK, LogShape, NEW m
    PROVE  InOrder(FramesOf(m)) /\ IsFiniteSet(FramesOf(m)) /\ OnePerLsn(frames)
<1>1. IsFiniteSet(FramesOf(m))
  <2>1. FramesOf(m) \subseteq frames
    BY DEF FramesOf
  <2> QED
    BY <2>1, FS_Subset DEF TypeOK, FramesOK
<1>2. \A f \in FramesOf(m) : f \in frames /\ f.id = m /\ f.lsn \in Nat /\ f.seq \in Nat
  BY FrameParts DEF FramesOf
<1> QED
  BY <1>1, <1>2 DEF InOrder, OnePerLsn, LogShape, FramesApart, SeqsRise

-----------------------------------------------------------------------------
(***************************************************************************)
(* The members as the abstract log sees them.                              *)
(***************************************************************************)
(* A member's number does not change with what it does not depend on.      *)
LEMMA SeqStays ==
    ASSUME NEW m \in Members, FramesOf(m)' = FramesOf(m),
           ScanCheckpoint(m)' = ScanCheckpoint(m),
           owner = "open" <=> owner' = "open",
           owner = "open" => /\ member'[m].seq = member[m].seq
                             /\ member'[m].retired = member[m].retired
    PROVE  AbstractSeq'[m] = AbstractSeq[m]
<1>1. ScannedMember(m)'.seq = ScannedMember(m).seq
  BY ScanFindsLast
<1> QED
  BY <1>1 DEF AbstractSeq

LEMMA SeqFunction ==
    /\ AbstractSeq = [m \in Members |-> AbstractSeq[m]]
    /\ AbstractSeq' = [m \in Members |-> AbstractSeq'[m]]
BY DEF AbstractSeq

LEMMA CheckpointFunction ==
    /\ AbstractCheckpoint = [m \in Members |-> AbstractCheckpoint[m]]
    /\ AbstractCheckpoint' = [m \in Members |-> AbstractCheckpoint'[m]]
BY DEF AbstractCheckpoint

LEMMA CheckpointType ==
    ASSUME TypeOK, NEW m \in Members
    PROVE  ScanCheckpoint(m) \in Nat /\ AbstractCheckpoint[m] \in Nat
BY DEF ScanCheckpoint, AbstractCheckpoint, TypeOK, RegistryOK, IndexOK, MemberStates

(* So does its checkpoint.                                                 *)
LEMMA CheckpointStays ==
    ASSUME NEW m \in Members, ScanCheckpoint(m)' = ScanCheckpoint(m),
           retiredAt'[m] = retiredAt[m], owner = "open" <=> owner' = "open",
           owner = "open" => member'[m].checkpoint = member[m].checkpoint
    PROVE  AbstractCheckpoint'[m] = AbstractCheckpoint[m]
BY DEF AbstractCheckpoint

(* A step that the log does not show: at most, more of it is durable.      *)
LEMMA Unseen ==
    ASSUME TypeOK, TypeOK', frames' = frames, lsn' = lsn, durable' \in durable .. lsn,
           \A m \in Members : /\ AbstractCheckpoint'[m] = AbstractCheckpoint[m]
                              /\ AbstractSeq'[m] = AbstractSeq[m]
                              /\ Live(m)' = Live(m)
    PROVE  LogStep
<1>1. AbstractLog' = AbstractLog
  BY LogOfFrames
<1>2. AbstractSeq' = AbstractSeq
  <2>1. [m \in Members |-> AbstractSeq'[m]] = [m \in Members |-> AbstractSeq[m]]
    OBVIOUS
  <2> QED
    BY <2>1, SeqFunction
<1>3. AbstractCheckpoint' = AbstractCheckpoint
  <2>1. [m \in Members |-> AbstractCheckpoint'[m]] = [m \in Members |-> AbstractCheckpoint[m]]
    OBVIOUS
  <2> QED
    BY <2>1, CheckpointFunction
<1>4. {m \in Members : retiredAt[m] # None}' = {m \in Members : retiredAt[m] # None}
  BY DEF Live
<1>5. Logs!Persist
  BY <1>1, <1>2, <1>3, <1>4 DEF Logs!Persist
<1> QED
  BY <1>5 DEF LogStep, Logs!Next

(* An owner that is open: what a member's number is.                       *)
LEMMA OpenSeq ==
    ASSUME TypeOK, LogInv, owner = "open", NEW m \in Members
    PROVE  /\ Live(m) => AbstractSeq[m] = member[m].seq /\ ~member[m].retired
           /\ ~member[m].retired => AbstractSeq[m] = member[m].seq
           /\ member[m].retired => AbstractSeq[m] = ScannedMember(m).seq
           /\ member[m].retired \in BOOLEAN
<1>1. Live(m) => ~member[m].retired
  BY DEF LogInv, MembersTrue, MemberTrue
<1>2. member[m].retired \in BOOLEAN
  BY DEF TypeOK, IndexOK, MemberStates
<1> QED
  BY <1>1, <1>2 DEF AbstractSeq

(* The number of a retired member is the one its RETIRED file says.        *)
LEMMA RetiredSeq ==
    ASSUME TypeOK, LogInv, NEW m \in Members, ~Live(m)
    PROVE  LastSeq(FramesOf(m), ScanCheckpoint(m)) = retiredAt[m] /\ retiredAt[m] \in Nat
<1>1. /\ retiredAt[m] \in Nat /\ ScanCheckpoint(m) = retiredAt[m]
      /\ \A f \in FramesOf(m) : f.seq <= retiredAt[m] /\ f.seq \in Nat
  <2>1. retiredAt[m] \in Nat /\ ScanCheckpoint(m) = retiredAt[m]
    BY DEF Live, ScanCheckpoint, TypeOK, RegistryOK
  <2>2. \A f \in FramesOf(m) : f.seq <= retiredAt[m]
    BY DEF LogInv, ManifestsKept, ManifestKept
  <2>3. \A f \in FramesOf(m) : f.seq \in Nat
    BY FrameParts DEF FramesOf
  <2> QED
    BY <2>1, <2>2, <2>3
<1>2. LET s == LastSeq(FramesOf(m), ScanCheckpoint(m))
      IN  s \in Nat /\ IsLast(s, FramesOf(m), ScanCheckpoint(m))
  BY <1>1, OwnInOrder, LastSeqIs DEF LogInv
<1>3. IsLast(retiredAt[m], FramesOf(m), ScanCheckpoint(m))
  BY <1>1 DEF IsLast
<1> QED
  BY <1>1, <1>2, <1>3, OneIsLast

(* One more record for a member that lives.                                *)
LEMMA Accepting ==
    ASSUME TypeOK, TypeOK', LogInv, BoundsInv, owner = "open", owner' = "open",
           NEW m \in Members, NEW new, Live(m), Accepted(m, new), new.value = crashes,
           lsn < MaxLsn, UNCHANGED <<durable, retiredAt, manifest>>
    PROVE  LogStep
<1>1. /\ frames' = frames \cup {new} /\ lsn' = lsn + 1 /\ new.id = m
      /\ new.seq = member[m].seq + 1 /\ new.lsn = lsn + 1
      /\ member'[m].seq = new.seq /\ member'[m].retired = member[m].retired
      /\ member'[m].checkpoint = member[m].checkpoint
      /\ \A k \in Members : k # m => member'[k] = member[k]
  BY DEF Accepted
<1>2. OnePerLsn(frames) /\ \A f \in frames : f.lsn # new.lsn
  <2>1. \A f \in frames : f.lsn <= lsn /\ f.lsn \in Nat
    BY FrameParts DEF LogInv, LogShape, FramesPlaced
  <2>2. lsn \in Nat
    BY RowNumbers
  <2> QED
    BY <1>1, <2>1, <2>2, OwnInOrder DEF LogInv
<1>3. AbstractSeq[m] = member[m].seq /\ AbstractSeq'[m] = AbstractSeq[m] + 1
  <2>1. AbstractSeq[m] = member[m].seq /\ ~member[m].retired
    BY OpenSeq
  <2>2. AbstractSeq'[m] = member'[m].seq
    BY <1>1, <2>1 DEF AbstractSeq
  <2> QED
    BY <1>1, <2>1, <2>2
<1>4. ASSUME NEW k \in Members, k # m
      PROVE  AbstractSeq'[k] = AbstractSeq[k]
  <2>1. FramesOf(k)' = FramesOf(k) /\ ScanCheckpoint(k)' = ScanCheckpoint(k)
    BY <1>1, <1>4 DEF FramesOf, ScanCheckpoint
  <2> QED
    BY <1>1, <1>4, <2>1, SeqStays
<1>5. AbstractSeq' = [AbstractSeq EXCEPT ![m] = @ + 1]
  <2>1. AbstractSeq' = [k \in Members |-> AbstractSeq'[k]]
        /\ AbstractSeq = [k \in Members |-> AbstractSeq[k]]
    BY SeqFunction
  <2> HIDE DEF AbstractSeq
  <2> QED
    BY <1>3, <1>4, <2>1
<1>6. AbstractLog' = [l \in DOMAIN AbstractLog \cup {lsn + 1} |->
                         IF l = lsn + 1
                         THEN [id |-> m, seq |-> AbstractSeq[m] + 1, value |-> crashes]
                         ELSE AbstractLog[l]]
  <2>1. LogOf(frames') = [l \in DOMAIN LogOf(frames) \cup {new.lsn} |->
                              IF l = new.lsn THEN Entry(new) ELSE LogOf(frames)[l]]
    <3>1. frames' = frames \cup {new} /\ \A f \in frames : f.lsn # new.lsn
      BY <1>1, <1>2
    <3>2. OnePerLsn(frames)
      BY <1>2
    <3>3. LogOf(frames \cup {new}) = [l \in DOMAIN LogOf(frames) \cup {new.lsn} |->
                                         IF l = new.lsn THEN Entry(new) ELSE LogOf(frames)[l]]
      BY <3>1, <3>2, LogGrows
    <3> QED
      BY <3>1, <3>3
  <2>2. Entry(new) = [id |-> m, seq |-> AbstractSeq[m] + 1, value |-> crashes]
    BY <1>1, <1>3 DEF Entry
  <2> QED
    BY <1>1, <2>1, <2>2, LogOfFrames
<1>7. AbstractCheckpoint' = AbstractCheckpoint
      /\ {k \in Members : retiredAt[k] # None}' = {k \in Members : retiredAt[k] # None}
  <2>1. \A k \in Members : member'[k].checkpoint = member[k].checkpoint
    BY <1>1
  <2>2. \A k \in Members : AbstractCheckpoint'[k] = AbstractCheckpoint[k]
    BY <2>1, CheckpointStays DEF ScanCheckpoint
  <2>3. [k \in Members |-> AbstractCheckpoint'[k]] = [k \in Members |-> AbstractCheckpoint[k]]
    BY <2>2
  <2> QED
    BY <2>3, CheckpointFunction
<1>8. m \notin {k \in Members : retiredAt[k] # None}
  BY DEF Live
<1>9. Logs!Accept(m, crashes)
  BY <1>1, <1>5, <1>6, <1>7, <1>8 DEF Logs!Accept
<1> QED
  BY <1>9 DEF LogStep, Logs!Next, BoundsInv

-----------------------------------------------------------------------------
(***************************************************************************)
(* The steps the log does not show.                                        *)
(***************************************************************************)
LEMMA UnseenAlone ==
    ASSUME TypeOK, TypeOK', UNCHANGED <<frames, lsn, retiredAt>>, durable' \in durable .. lsn,
           owner = "open" <=> owner' = "open",
           \A m \in Members :
               /\ ScanCheckpoint(m)' = ScanCheckpoint(m)
               /\ owner = "open" => /\ member'[m].seq = member[m].seq
                                    /\ member'[m].retired = member[m].retired
                                    /\ member'[m].checkpoint = member[m].checkpoint
    PROVE  LogStep
<1>1. \A m \in Members : AbstractSeq'[m] = AbstractSeq[m]
  <2> TAKE m \in Members
  <2>1. FramesOf(m)' = FramesOf(m)
    BY DEF FramesOf
  <2> QED
    BY <2>1, SeqStays
<1>2. \A m \in Members : Live(m)' = Live(m)
  BY DEF Live
<1>3. \A m \in Members : AbstractCheckpoint'[m] = AbstractCheckpoint[m]
  BY CheckpointStays
<1> QED
  BY <1>1, <1>2, <1>3, Unseen

(* The steps that do not touch the log, its positions or a member.         *)
LEMMA QuietUnseen ==
    ASSUME TypeOK, TypeOK', DurableInv,
           \/ Preflight \/ AppendRefused \/ GcReturn \/ GcEvidence \/ IoError \/ Sync \/ Roll
           \/ OpenRefused \/ PublishBoundary \/ CrashInOpen \/ UNCHANGED vars
           \/ \E m \in Members : \/ \E raws \in Batches : BeginAppend(m, raws)
                                 \/ Register(m) \/ Close(m)
    PROVE  LogStep
<1>1. durable \in Nat /\ lsn \in Nat /\ durable <= lsn
  BY RowNumbers DEF DurableInv, NotesBehind
<1>2. UNCHANGED <<frames, lsn, retiredAt, manifest, member>>
  <2>1. CASE Preflight \/ AppendRefused \/ GcReturn \/ GcEvidence \/ IoError \/ Sync \/ Roll
    BY <2>1 DEF Preflight, AppendRefused, GcReturn, GcEvidence, IoError, Sync, Roll, disk,
                cursor, index
  <2>2. CASE OpenRefused \/ PublishBoundary \/ CrashInOpen \/ UNCHANGED vars
    BY <2>2 DEF OpenRefused, PublishBoundary, CrashInOpen, vars, disk, cursor, index
  <2>3. CASE \E m \in Members : \/ \E raws \in Batches : BeginAppend(m, raws)
                                \/ Register(m) \/ Close(m)
    BY <2>3 DEF BeginAppend, Register, Close, disk, cursor, index
  <2> QED
    BY <2>1, <2>2, <2>3
<1>3. owner = "open" <=> owner' = "open"
  <2>1. CASE Preflight \/ AppendRefused \/ GcReturn \/ GcEvidence \/ IoError \/ Sync \/ Roll
    BY <2>1 DEF Preflight, AppendRefused, GcReturn, GcEvidence, IoError, Sync, Roll
  <2>2. CASE OpenRefused \/ PublishBoundary \/ CrashInOpen \/ UNCHANGED vars
    BY <2>2 DEF OpenRefused, PublishBoundary, CrashInOpen, Scannable, vars
  <2>3. CASE \E m \in Members : \/ \E raws \in Batches : BeginAppend(m, raws)
                                \/ Register(m) \/ Close(m)
    BY <2>3 DEF BeginAppend, Register, Close
  <2> QED
    BY <2>1, <2>2, <2>3
<1>4. durable' \in {durable, lsn}
  <2>1. CASE Preflight \/ AppendRefused \/ GcReturn \/ GcEvidence \/ IoError \/ Sync \/ Roll
    BY <2>1 DEF Preflight, AppendRefused, GcReturn, GcEvidence, IoError, Sync, SyncLocked,
                Roll, cursor
  <2>2. CASE OpenRefused \/ PublishBoundary \/ CrashInOpen \/ UNCHANGED vars
    BY <2>2 DEF OpenRefused, PublishBoundary, CrashInOpen, vars, cursor
  <2>3. CASE \E m \in Members : \/ \E raws \in Batches : BeginAppend(m, raws)
                                \/ Register(m) \/ Close(m)
    BY <2>3 DEF BeginAppend, Register, Close, cursor
  <2> QED
    BY <2>1, <2>2, <2>3
<1>5. durable' \in durable .. lsn
  BY <1>1, <1>4
<1>6. \A m \in Members : ScanCheckpoint(m)' = ScanCheckpoint(m)
  BY <1>2 DEF ScanCheckpoint
<1> QED
  BY <1>2, <1>3, <1>5, <1>6, UnseenAlone

(* A member that is synced, or opened: its number stays.                   *)
LEMMA MemberUnseen ==
    ASSUME TypeOK, TypeOK', DurableInv, LogInv, NEW m \in Members,
           SyncMember(m) \/ SealSync(m) \/ OpenMember(m)
    PROVE  LogStep
<1>1. durable \in Nat /\ lsn \in Nat /\ durable <= lsn
  BY RowNumbers DEF DurableInv, NotesBehind
<1>2. member \in [Members -> MemberStates]
  BY DEF TypeOK, IndexOK
<1>3. owner = "open" /\ UNCHANGED <<frames, lsn, retiredAt, manifest, owner>>
  BY DEF SyncMember, SealSync, OpenMember, Locked, disk, cursor
<1>4. durable' \in {durable, lsn}
  BY DEF SyncMember, SealSync, OpenMember, MemberSyncLocked, SyncUpTo,
         SyncLocked, cursor
<1>5. \A k \in Members : /\ member'[k].seq = member[k].seq
                         /\ member'[k].retired = member[k].retired
                         /\ member'[k].checkpoint = member[k].checkpoint
  <2>1. CASE SyncMember(m) \/ SealSync(m)
    <3>1. member' = [member EXCEPT ![m].durableSeq = member[m].seq,
                                   ![m].durablePointer = member[m].latest]
      BY <2>1 DEF SyncMember, SealSync, MemberSyncLocked
    <3> QED
      BY <1>2, <3>1 DEF MemberStates
  <2>2. CASE OpenMember(m) /\ member[m].initialized
    BY <2>2 DEF OpenMember
  <2>3. CASE OpenMember(m) /\ ~member[m].initialized
    <3>1. /\ member' = [member EXCEPT ![m].initialized = TRUE,
                                      ![m].checkpoint = manifest[m],
                                      ![m].seq = manifest[m],
                                      ![m].durableSeq = manifest[m]]
          /\ Live(m) /\ manifest[m] # None
      BY <2>3 DEF OpenMember, Live
    <3>2. manifest[m] = member[m].seq
      BY <1>3, <2>3, <3>1, UnopenedMember
    <3>3. member[m].checkpoint = manifest[m]
      <4>1. MemberTrue(m) /\ member[m].seq = 0
        BY <1>3, <2>3, <3>1 DEF LogInv, MembersTrue, DurableInv, UnopenedEmpty, Live
      <4>2. member[m].checkpoint \in Nat /\ member[m].checkpoint <= ScanCheckpoint(m)
            /\ ScanCheckpoint(m) <= member[m].seq /\ ScanCheckpoint(m) \in Nat
        BY <1>2, <4>1, CheckpointType DEF MemberTrue, MemberStates
      <4> QED
        BY <3>2, <4>1, <4>2
    <3> QED
      BY <1>2, <3>1, <3>2, <3>3 DEF MemberStates
  <2> QED
    BY <2>1, <2>2, <2>3
<1>6. durable' \in durable .. lsn
  BY <1>1, <1>4
<1>7. \A k \in Members : ScanCheckpoint(k)' = ScanCheckpoint(k)
  BY <1>3 DEF ScanCheckpoint
<1> QED
  BY <1>3, <1>5, <1>6, <1>7, UnseenAlone

(* The first MANIFEST of a member names no record.                         *)
LEMMA PublishInitialUnseen ==
    ASSUME TypeOK, TypeOK', DurableInv, NEW m \in Members, PublishInitial(m)
    PROVE  LogStep
<1>1. durable \in Nat /\ lsn \in Nat /\ durable <= lsn
  BY RowNumbers DEF DurableInv, NotesBehind
<1>2. /\ UNCHANGED <<frames, lsn, durable, retiredAt, member, owner>>
      /\ manifest[m] = None /\ manifest' = [manifest EXCEPT ![m] = 0]
  BY DEF PublishInitial, cursor, index
<1>3. \A k \in Members : ScanCheckpoint(k)' = ScanCheckpoint(k)
  BY <1>2 DEF TypeOK, RegistryOK, ScanCheckpoint, None
<1> QED
  BY <1>1, <1>2, <1>3, UnseenAlone

(* Opening the owner finds what the files say.                             *)
LEMMA OpenUnseen ==
    ASSUME TypeOK, TypeOK', DurableInv, LogInv, Open
    PROVE  LogStep
<1>1. /\ owner = "down" /\ owner' = "open" /\ ~Corrupt
      /\ \A m \in Members : member'[m] = ScannedMember(m)
      /\ lsn' = NextAfter(LastFile) - 1 /\ durable' = NextAfter(LastFile) - 1
      /\ UNCHANGED <<frames, retiredAt, manifest>>
  BY DEF Open, Scannable
<1> PICK last \in Nat : last = LastFile
  BY RowNumbers
<1>2. /\ durable = lsn /\ lsn \in Nat /\ last \in DOMAIN files
      /\ \A n \in DOMAIN files : n \in Nat /\ n <= last
  BY <1>1, RowNumbers DEF LogInv, DurableFrames
<1>3. lsn' = lsn /\ durable' = durable
  <2>1. last + 1 \notin DOMAIN files
    BY <1>2
  <2>2. After(last) = lsn + 1
    BY <2>1 DEF After
  <2>3. NextAfter(last) = After(last)
    BY <1>1, <1>2, AcceptedCounts DEF LogInv
  <2> QED
    BY <1>1, <1>2, <2>2, <2>3
<1>4. ASSUME NEW m \in Members
      PROVE  /\ AbstractCheckpoint'[m] = AbstractCheckpoint[m] /\ Live(m)' = Live(m)
             /\ AbstractSeq'[m] = AbstractSeq[m]
  <2>1. /\ ScanCheckpoint(m)' = ScanCheckpoint(m) /\ Live(m)' = Live(m)
        /\ FramesOf(m)' = FramesOf(m)
    BY <1>1 DEF ScanCheckpoint, Live, FramesOf
  <2>2. ScannedMember(m)'.seq = ScannedMember(m).seq
    BY <2>1, ScanFindsLast
  <2>3. AbstractSeq'[m] = AbstractSeq[m]
    BY <1>1, <2>1, <2>2 DEF AbstractSeq
  <2>4. ScannedMember(m).checkpoint = ScanCheckpoint(m)
    BY DEF ScannedMember
  <2>5. AbstractCheckpoint'[m] = AbstractCheckpoint[m]
    BY <1>1, <2>1, <2>4 DEF AbstractCheckpoint
  <2> QED
    BY <2>1, <2>3, <2>5
<1>5. durable' \in durable .. lsn
  BY <1>2, <1>3
<1> QED
  BY <1>1, <1>3, <1>4, <1>5, Unseen

-----------------------------------------------------------------------------
(***************************************************************************)
(* Appending.                                                              *)
(***************************************************************************)
LEMMA AcceptingCall ==
    ASSUME TypeOK, TypeOK', DurableInv, LogInv, BoundsInv, call \in Calls, owner = "open",
           NEW at, Accept(at), UNCHANGED <<owner, durable, retiredAt, manifest>>
    PROVE  LogStep
<1>1. PICK new : Accepted(call.id, new)
  BY AcceptDoes
<1>2. call.id \in Members /\ Live(call.id)
  BY CallerLives
<1>3. new.value = crashes
  <2> DEFINE taken == [id |-> call.id, seq |-> member[call.id].seq + 1, lsn |-> lsn + 1,
                       prev |-> member[call.id].latest, at |-> at, length |-> Length,
                       value |-> crashes]
  <2>1. frames' = frames \cup {taken} /\ frames' = frames \cup {new}
    BY <1>1 DEF Accept, Accepted
  <2>2. \A f \in frames : f.lsn <= lsn /\ f.lsn \in Nat
    BY FrameParts DEF LogInv, LogShape, FramesPlaced
  <2>3. new.lsn = lsn + 1 /\ lsn \in Nat
    BY <1>1, RowNumbers DEF Accepted
  <2>4. new \notin frames
    BY <2>2, <2>3
  <2>5. new = taken
    BY <2>1, <2>4
  <2> QED
    BY <2>5
<1>4. lsn < MaxLsn
  <2>1. call # NoCall /\ call.raws \in Seq(Lengths) \ {<< >>}
    BY CallsAreNotNoCall DEF Calls
  <2>2. Len(call.raws) \in Nat \ {0}
    BY <2>1
  <2>3. lsn + Len(call.raws) <= MaxLsn
    BY <2>1 DEF BoundsInv
  <2> QED
    BY <2>2, <2>3, RowNumbers, BoundsAssumption
<1> QED
  BY <1>1, <1>2, <1>3, <1>4, Accepting

LEMMA AppendStep ==
    ASSUME TypeOK, TypeOK', DurableInv, LogInv, BoundsInv, Push \/ PushRolled
    PROVE  LogStep
<1>1. call \in Calls /\ owner = "open"
  BY DEF TypeOK, CallOK, Push, PushRolled, Fits
<1>2. PICK at : Accept(at)
  BY DEF Push, PushRolled
<1>3. UNCHANGED <<owner, durable, retiredAt, manifest>>
  BY DEF Push, PushRolled
<1> QED
  BY <1>1, <1>2, <1>3, AcceptingCall

-----------------------------------------------------------------------------
(***************************************************************************)
(* Records are given up.                                                   *)
(***************************************************************************)
(* A MANIFEST counts once the owner acts on it.                            *)
LEMMA SealPublishUnseen ==
    ASSUME TypeOK, TypeOK', DurableInv, LogInv, NEW m \in Members, SealPublish(m)
    PROVE  LogStep
<1>1. /\ owner = "open" /\ sealing[m] = "synced"
      /\ UNCHANGED <<frames, lsn, durable, retiredAt, member, owner>>
      /\ manifest' = manifest \/ manifest' = [manifest EXCEPT ![m] = member[m].seq]
  BY DEF SealPublish, cursor, index
<1>2. durable \in Nat /\ lsn \in Nat /\ durable <= lsn
  BY RowNumbers DEF DurableInv, NotesBehind
<1>3. ASSUME NEW k \in Members
      PROVE  /\ AbstractSeq'[k] = AbstractSeq[k] /\ Live(k)' = Live(k)
             /\ AbstractCheckpoint'[k] = AbstractCheckpoint[k]
  <2>1. Live(k)' = Live(k)
    BY <1>1 DEF Live
  <2>2. CASE Live(k)
    <3>1. AbstractSeq[k] = member[k].seq /\ ~member[k].retired
      BY <1>1, <2>2, OpenSeq
    <3> QED
      BY <1>1, <2>1, <2>2, <3>1 DEF AbstractSeq, AbstractCheckpoint, Live
  <2>3. CASE ~Live(k)
    <3>1. FramesOf(k)' = FramesOf(k) /\ ScanCheckpoint(k)' = ScanCheckpoint(k)
      BY <1>1, <2>3 DEF FramesOf, ScanCheckpoint, Live
    <3> QED
      BY <1>1, <2>1, <3>1, SeqStays, CheckpointStays
  <2> QED
    BY <2>2, <2>3
<1> QED
  BY <1>1, <1>2, <1>3, Unseen

LEMMA SealStep ==
    ASSUME TypeOK, TypeOK', DurableInv, LogInv, NEW m \in Members, SealCheckpoint(m)
    PROVE  LogStep
<1>1. /\ owner = "open" /\ sealing[m] = "published"
      /\ UNCHANGED <<frames, lsn, durable, retiredAt, manifest, owner>>
      /\ member' = [member EXCEPT ![m].checkpoint = member[m].seq]
  BY DEF SealCheckpoint, Locked, disk, cursor
<1>2. durable \in Nat /\ lsn \in Nat /\ durable <= lsn
  BY RowNumbers DEF DurableInv, NotesBehind
<1>3. /\ Live(m) /\ member[m].lsn <= durable /\ MemberTrue(m)
      /\ member[m].lsn \in Nat /\ member[m].seq \in Nat
  BY <1>1 DEF LogInv, HandlesTrue, HandleTrue, MembersTrue, TypeOK, IndexOK, MemberStates
<1>4. /\ member'[m].checkpoint = member[m].seq
      /\ \A k \in Members : /\ member'[k].seq = member[k].seq
                            /\ member'[k].retired = member[k].retired
                            /\ k # m => member'[k].checkpoint = member[k].checkpoint
  BY <1>1 DEF TypeOK, IndexOK, MemberStates
<1>5. \A k \in Members : FramesOf(k)' = FramesOf(k) /\ ScanCheckpoint(k)' = ScanCheckpoint(k)
  BY <1>1 DEF FramesOf, ScanCheckpoint
<1>6. AbstractSeq[m] = member[m].seq
  BY <1>1, <1>3, OpenSeq
<1>7. AbstractSeq' = AbstractSeq
  <2>1. \A k \in Members : AbstractSeq'[k] = AbstractSeq[k]
    BY <1>1, <1>4, <1>5, SeqStays
  <2>2. [k \in Members |-> AbstractSeq'[k]] = [k \in Members |-> AbstractSeq[k]]
    BY <2>1
  <2> QED
    BY <2>2, SeqFunction
<1>8. AbstractLog' = AbstractLog
  BY <1>1, LogOfFrames
<1>9. \A l \in DOMAIN AbstractLog : AbstractLog[l].id = m => l <= durable
  <2>1. /\ DOMAIN AbstractLog = {f.lsn : f \in frames}
        /\ \A f \in frames : AbstractLog[f.lsn] = Entry(f)
    BY OwnInOrder, LogOfIs, LogOfFrames DEF LogInv
  <2>2. ASSUME NEW f \in frames, f.id = m
        PROVE  f.lsn <= durable
    <3>1. f.lsn <= member[m].lsn /\ f.lsn \in Nat
      BY <1>3, <2>2, FrameParts DEF MemberTrue, FramesOf
    <3> QED
      BY <1>2, <1>3, <3>1
  <2>3. ASSUME NEW l \in DOMAIN AbstractLog, AbstractLog[l].id = m
        PROVE  l <= durable
    <3> PICK f \in frames : f.lsn = l
      BY <2>1
    <3>1. AbstractLog[l] = Entry(f) /\ Entry(f).id = f.id
      BY <2>1 DEF Entry
    <3> QED
      BY <2>2, <2>3, <3>1
  <2> QED
    BY <2>3
<1>10. AbstractCheckpoint' = [AbstractCheckpoint EXCEPT ![m] = AbstractSeq[m]]
  <2>1. AbstractCheckpoint'[m] = AbstractSeq[m]
    BY <1>1, <1>3, <1>4, <1>6 DEF AbstractCheckpoint, Live
  <2>2. \A k \in Members : k # m => AbstractCheckpoint'[k] = AbstractCheckpoint[k]
    BY <1>1, <1>4, <1>5, CheckpointStays
  <2>3. /\ AbstractCheckpoint = [k \in Members |-> AbstractCheckpoint[k]]
        /\ AbstractCheckpoint' = [k \in Members |-> AbstractCheckpoint'[k]]
    BY CheckpointFunction
  <2> HIDE DEF AbstractCheckpoint
  <2> QED
    BY <2>1, <2>2, <2>3
<1>11. {k \in Members : retiredAt[k] # None}' = {k \in Members : retiredAt[k] # None}
       /\ m \notin {k \in Members : retiredAt[k] # None}
  BY <1>1, <1>3 DEF Live
<1>12. Logs!Checkpoint(m)
  BY <1>1, <1>7, <1>8, <1>9, <1>10, <1>11 DEF Logs!Checkpoint
<1> QED
  BY <1>12 DEF LogStep, Logs!Next

LEMMA RetireStep ==
    ASSUME TypeOK, TypeOK', DurableInv, LogInv, LogInv', NEW m \in Members, Retire(m)
    PROVE  LogStep
<1>1. /\ owner = "open" /\ Live(m) /\ retiredAt' = [retiredAt EXCEPT ![m] = member[m].seq]
      /\ member' = member \/ member' = [member EXCEPT ![m].retired = TRUE]
      /\ UNCHANGED <<frames, lsn, durable, manifest, owner>>
  BY DEF Retire, Locked, Live, cursor
<1>2. /\ member \in [Members -> MemberStates] /\ retiredAt \in [Members -> Nat \cup {None}]
      /\ member[m].seq \in Nat
  BY DEF TypeOK, IndexOK, RegistryOK, MemberStates
<1>3. AbstractSeq[m] = member[m].seq /\ ~member[m].retired
  BY <1>1, OpenSeq
<1>4. retiredAt'[m] = member[m].seq /\ \A k \in Members : k # m => retiredAt'[k] = retiredAt[k]
  BY <1>1, <1>2
<1>5. ~Live(m)' /\ ScanCheckpoint(m)' = member[m].seq
  BY <1>2, <1>4 DEF Live, ScanCheckpoint, None
<1>6. AbstractSeq'[m] = AbstractSeq[m]
  <2>1. CASE member' = member
    BY <1>1, <1>3, <2>1 DEF AbstractSeq
  <2>2. CASE member' = [member EXCEPT ![m].retired = TRUE]
    <3>1. member'[m].retired
      BY <1>2, <2>2 DEF MemberStates
    <3>2. AbstractSeq'[m] = ScannedMember(m)'.seq
      BY <3>1 DEF AbstractSeq
    <3>3. /\ \A f \in FramesOf(m) : f.seq <= member[m].seq /\ f.seq \in Nat
          /\ InOrder(FramesOf(m)) /\ IsFiniteSet(FramesOf(m)) /\ FramesOf(m)' = FramesOf(m)
      <4>1. \A f \in FramesOf(m) : f.seq \in Nat
        BY FrameParts DEF FramesOf
      <4> QED
        BY <1>1, <4>1, LastIsHighest, OwnInOrder DEF FramesOf, LogInv
    <3>4. ScannedMember(m)'.seq = LastSeq(FramesOf(m), member[m].seq)
      BY <1>5, <3>3, ScanFindsLast
    <3>5. /\ IsLast(LastSeq(FramesOf(m), member[m].seq), FramesOf(m), member[m].seq)
          /\ LastSeq(FramesOf(m), member[m].seq) \in Nat
      BY <1>2, <3>3, LastSeqIs
    <3>6. IsLast(member[m].seq, FramesOf(m), member[m].seq)
      BY <1>2, <3>3 DEF IsLast
    <3>7. LastSeq(FramesOf(m), member[m].seq) = member[m].seq
      BY <1>2, <3>3, <3>5, <3>6, OneIsLast
    <3> QED
      BY <1>3, <3>2, <3>4, <3>7
  <2> QED
    BY <1>1, <2>1, <2>2
<1>7. ASSUME NEW k \in Members, k # m
      PROVE  /\ AbstractSeq'[k] = AbstractSeq[k]
             /\ AbstractCheckpoint'[k] = AbstractCheckpoint[k]
  <2>1. /\ FramesOf(k)' = FramesOf(k) /\ ScanCheckpoint(k)' = ScanCheckpoint(k)
        /\ retiredAt'[k] = retiredAt[k]
    BY <1>1, <1>4, <1>7 DEF FramesOf, ScanCheckpoint
  <2>2. member'[k] = member[k]
    BY <1>1, <1>2, <1>7
  <2> QED
    BY <1>1, <2>1, <2>2, SeqStays, CheckpointStays
<1>8. AbstractSeq' = AbstractSeq
  <2>1. [k \in Members |-> AbstractSeq'[k]] = [k \in Members |-> AbstractSeq[k]]
    BY <1>6, <1>7
  <2> QED
    BY <2>1, SeqFunction
<1>9. AbstractLog' = AbstractLog
  BY <1>1, LogOfFrames
<1>10. AbstractCheckpoint' = [AbstractCheckpoint EXCEPT ![m] = AbstractSeq[m]]
  <2>1. AbstractCheckpoint'[m] = AbstractSeq[m]
    BY <1>3, <1>5 DEF AbstractCheckpoint, Live
  <2>2. /\ AbstractCheckpoint = [k \in Members |-> AbstractCheckpoint[k]]
        /\ AbstractCheckpoint' = [k \in Members |-> AbstractCheckpoint'[k]]
    BY CheckpointFunction
  <2> HIDE DEF AbstractCheckpoint
  <2> QED
    BY <1>7, <2>1, <2>2
<1>11. {k \in Members : retiredAt[k] # None}' = {k \in Members : retiredAt[k] # None} \cup {m}
  BY <1>4, <1>5 DEF Live
<1>12. Logs!Retire(m)
  BY <1>1, <1>8, <1>9, <1>10, <1>11 DEF Logs!Retire
<1> QED
  BY <1>12 DEF LogStep, Logs!Next

-----------------------------------------------------------------------------
(***************************************************************************)
(* Records go.                                                             *)
(***************************************************************************)
(* A segment that goes holds nothing above a checkpoint.                   *)
LEMMA GoneWasGivenUp ==
    ASSUME TypeOK, LogInv, owner = "open", Collectable(Lowest), NEW f \in FramesIn(LowestFile)
    PROVE  f.seq <= AbstractCheckpoint[f.id]
<1>1. f \in frames /\ f.id \in Members /\ f.seq \in Nat /\ f \in FramesOf(f.id)
  BY FrameParts DEF FramesIn, FramesOf
<1>2. CASE Live(f.id)
  <2>1. f.seq <= member[f.id].checkpoint
    BY <1>1, <1>2, GoneBelow
  <2> QED
    BY <1>1, <1>2, <2>1 DEF AbstractCheckpoint, Live
<1>3. CASE ~Live(f.id)
  <2>1. f.seq <= retiredAt[f.id]
    BY <1>1, <1>3 DEF LogInv, ManifestsKept, ManifestKept
  <2> QED
    BY <1>1, <1>3, <2>1 DEF AbstractCheckpoint, ScanCheckpoint, Live
<1> QED
  BY <1>2, <1>3

(* A member's number does not depend on what goes.                         *)
LEMMA UnlinkKeepsSeq ==
    ASSUME TypeOK, TypeOK', LogInv, LogInv', owner = "open", owner' = "open",
           UNCHANGED <<member, retiredAt, manifest>>, frames' \subseteq frames,
           NEW m \in Members
    PROVE  AbstractSeq'[m] = AbstractSeq[m]
<1>1. CASE ~member[m].retired
  BY <1>1 DEF AbstractSeq
<1>2. CASE member[m].retired
  <2>1. ~Live(m) /\ ~Live(m)' /\ retiredAt'[m] = retiredAt[m]
    BY <1>2 DEF LogInv, MembersTrue, MemberTrue, Live
  <2>2. LastSeq(FramesOf(m), ScanCheckpoint(m)) = retiredAt[m]
    BY <2>1, RetiredSeq
  <2>3. LastSeq(FramesOf(m)', ScanCheckpoint(m)') = retiredAt[m]
    <3>1. /\ retiredAt[m] \in Nat /\ ScanCheckpoint(m) = retiredAt[m]
          /\ ScanCheckpoint(m)' = retiredAt[m]
      BY <2>1 DEF Live, ScanCheckpoint, TypeOK, RegistryOK
    <3>2. \A f \in FramesOf(m)' : f.seq <= retiredAt[m] /\ f \in FramesOf(m)
      BY <2>1 DEF LogInv, ManifestsKept, ManifestKept, FramesOf
    <3>3. \A f \in FramesOf(m) : f.seq \in Nat
      BY FrameParts DEF FramesOf
    <3>4. InOrder(FramesOf(m)') /\ IsFiniteSet(FramesOf(m)')
      <4>1. InOrder(FramesOf(m)) /\ IsFiniteSet(FramesOf(m)) /\ FramesOf(m)' \subseteq FramesOf(m)
        BY <3>2, OwnInOrder DEF LogInv
      <4> QED
        BY <4>1, FS_Subset DEF InOrder
    <3>5. /\ LastSeq(FramesOf(m)', retiredAt[m]) \in Nat
          /\ IsLast(LastSeq(FramesOf(m)', retiredAt[m]), FramesOf(m)', retiredAt[m])
      BY <3>1, <3>4, LastSeqIs
    <3>6. IsLast(retiredAt[m], FramesOf(m)', retiredAt[m])
      BY <3>1, <3>2 DEF IsLast
    <3>7. LastSeq(FramesOf(m)', retiredAt[m]) = retiredAt[m]
      BY <3>1, <3>2, <3>3, <3>5, <3>6, OneIsLast
    <3> QED
      BY <3>1, <3>7
  <2>4. AbstractSeq[m] = ScannedMember(m).seq /\ AbstractSeq'[m] = ScannedMember(m)'.seq
    BY <1>2 DEF AbstractSeq
  <2> QED
    BY <2>2, <2>3, <2>4, ScanFindsLast
<1> QED
  BY <1>1, <1>2

LEMMA UnlinkStep ==
    ASSUME TypeOK, TypeOK', DurableInv, LogInv, LogInv', GcUnlink
    PROVE  LogStep
<1>1. /\ owner = "open" /\ LastFile = segment
      /\ Lowest = LowestFile /\ LowestFile <= segment
  BY Collecting, LowestIsFirst DEF GcUnlink, LogInv
<1>2. /\ Collectable(Lowest) /\ Lowest # segment
      /\ files' = Restrict(files, DOMAIN files \ {LowestFile})
      /\ frames' = frames \ FramesIn(LowestFile)
      /\ UNCHANGED <<durable, lsn, owner, registered, member, manifest, retiredAt>>
  BY <1>1 DEF GcUnlink, Collectable, cursor
<1>3. /\ DOMAIN files' = DOMAIN files \ {LowestFile}
      /\ \A n \in DOMAIN files' : files'[n] = files[n] /\ n # LowestFile
  BY <1>2 DEF Restrict
<1>4. \A f \in frames' : \A g \in frames \ frames' : g.lsn < f.lsn
  BY <1>1, <1>2, <1>3, LogFileGone DEF LogInv
<1>5. \A f \in frames \ frames' : /\ f \in FramesIn(LowestFile)
                                  /\ f.seq <= AbstractCheckpoint[f.id]
  BY <1>1, <1>2, GoneWasGivenUp
<1>6. AbstractSeq' = AbstractSeq
  <2>1. \A m \in Members : AbstractSeq'[m] = AbstractSeq[m]
    BY <1>1, <1>2, UnlinkKeepsSeq
  <2>2. [m \in Members |-> AbstractSeq'[m]] = [m \in Members |-> AbstractSeq[m]]
    BY <2>1
  <2> QED
    BY <2>2, SeqFunction
<1>7. /\ AbstractCheckpoint' = AbstractCheckpoint
      /\ {m \in Members : retiredAt[m] # None}' = {m \in Members : retiredAt[m] # None}
  BY <1>2 DEF AbstractCheckpoint, ScanCheckpoint
<1>8. /\ lsn \in Nat
      /\ \A f \in frames : f.lsn \in Nat \ {0} /\ f.lsn <= lsn /\ f.id \in Members
  BY RowNumbers, FrameParts DEF LogInv, LogShape, FramesPlaced
<1>9. PICK low \in 1 .. lsn + 1 : /\ \A f \in frames' : low <= f.lsn
                                  /\ \A f \in frames \ frames' : f.lsn < low
  <2>1. CASE frames \ frames' = {}
    BY <1>8, <1>2, <2>1
  <2>2. CASE frames \ frames' # {}
    <3>1. IsFiniteSet(frames \ frames')
      BY FS_Subset DEF TypeOK, FramesOK
    <3>2. PICK g \in frames \ frames' : \A h \in frames \ frames' : h.lsn <= g.lsn
      BY <2>2, HighestFrame
    <3>3. g.lsn + 1 \in 1 .. lsn + 1
      BY <1>8, <3>2
    <3>4. \A f \in frames' : f \in frames /\ g.lsn + 1 <= f.lsn
      BY <1>2, <1>4, <1>8, <3>2
    <3>5. \A f \in frames \ frames' : f.lsn < g.lsn + 1
      BY <1>8, <3>2
    <3> QED
      BY <3>3, <3>4, <3>5
  <2> QED
    BY <2>1, <2>2
<1>10. frames' = {f \in frames : f.lsn \in low .. lsn}
  BY <1>2, <1>8, <1>9
<1>11. /\ DOMAIN AbstractLog = {f.lsn : f \in frames} /\ OnePerLsn(frames)
       /\ \A f \in frames : AbstractLog[f.lsn] = Entry(f)
  BY OwnInOrder, LogOfIs, LogOfFrames DEF LogInv
<1>12. AbstractLog' = [l \in DOMAIN AbstractLog \cap (low .. lsn) |-> AbstractLog[l]]
  <2>1. LogOf({f \in frames : f.lsn \in low .. lsn})
            = [l \in DOMAIN LogOf(frames) \cap (low .. lsn) |-> LogOf(frames)[l]]
    BY <1>11, LogCutTo
  <2> QED
    BY <1>10, <2>1, LogOfFrames
<1>13. ASSUME NEW l \in DOMAIN AbstractLog, l < low
       PROVE  AbstractLog[l].seq <= AbstractCheckpoint[AbstractLog[l].id]
  <2> PICK f \in frames : f.lsn = l
    BY <1>11
  <2>1. f \in frames \ frames'
    BY <1>8, <1>9, <1>13
  <2>2. AbstractLog[l].seq = f.seq /\ AbstractLog[l].id = f.id
    <3>1. AbstractLog[l] = Entry(f)
      BY <1>11
    <3> QED
      BY <3>1 DEF Entry
  <2> QED
    BY <1>5, <1>8, <2>1, <2>2
<1>14. Logs!Forget
  BY <1>2, <1>6, <1>7, <1>12, <1>13 DEF Logs!Forget
<1> QED
  BY <1>14 DEF LogStep, Logs!Next

-----------------------------------------------------------------------------
(***************************************************************************)
(* The end of a process.                                                   *)
(***************************************************************************)
LEMMA LowestFrame ==
    ASSUME TypeOK, NEW own \in SUBSET frames, own # {}
    PROVE  \E f \in own : \A g \in own : f.lsn <= g.lsn
<1> DEFINE lsns == [f \in own |-> f.lsn]
           Lsns == {f.lsn : f \in own}
<1>1. IsFiniteSet(own)
  BY FS_Subset DEF TypeOK, FramesOK
<1>2. Lsns = {lsns[f] : f \in own}
  OBVIOUS
<1>3. IsFiniteSet(Lsns)
  <2> HIDE DEF lsns
  <2>1. IsFiniteSet({lsns[f] : f \in own})
    BY <1>1, ImageFinite
  <2> QED
    BY <1>2, <2>1
<1>4. Lsns \subseteq Int /\ Lsns # {}
  BY FrameParts
<1>5. Min(Lsns) \in Lsns /\ \A x \in Lsns : Min(Lsns) <= x
  <2> HIDE DEF Lsns
  <2> QED
    BY <1>3, <1>4, MinOfFinite
<1> QED
  BY <1>5

(* The MANIFEST a crash leaves may be ahead of what the owner had heard    *)
(* of, but not of the member's records that are durable.                   *)
LEMMA CrashCheckpoint ==
    ASSUME TypeOK, TypeOK', LogInv, owner = "open", NEW m \in Members, Live(m),
           retiredAt' = retiredAt, manifest'[m] \in {manifest[m], settled[m]},
           promised'[m].checkpoint = member[m].checkpoint, ~TakenBack(m)'
    PROVE  /\ member[m].checkpoint <= ScanCheckpoint(m)'
           /\ \/ ScanCheckpoint(m)' = member[m].checkpoint
              \/ \E f \in FramesOf(m) : f.lsn <= durable /\ ScanCheckpoint(m)' <= f.seq
<1>1. /\ ScanCheckpoint(m)' \in Nat /\ member[m].checkpoint \in Nat /\ member[m].seq \in Nat
      /\ manifest[m] \in Nat \cup {-1} /\ settled[m] \in Nat \cup {-1}
  BY CheckpointType DEF TypeOK, RegistryOK, IndexOK, MemberStates, ScanCheckpoint, None
<1>2. member[m].checkpoint <= ScanCheckpoint(m)'
  BY <1>1 DEF TakenBack
<1>3. ManifestKept(m) /\ MemberTrue(m) /\ settled[m] <= manifest[m]
  BY DEF LogInv, ManifestsKept, MembersTrue, ManifestKept
<1>4. ScanCheckpoint(m)' = IF manifest'[m] = -1 THEN 0 ELSE manifest'[m]
  BY DEF ScanCheckpoint, Live, None
<1>5. ASSUME member[m].checkpoint < ScanCheckpoint(m)'
      PROVE  \E f \in FramesOf(m) : f.lsn <= durable /\ ScanCheckpoint(m)' <= f.seq
  <2>1. manifest[m] \in Nat /\ ScanCheckpoint(m)' <= manifest[m]
    BY <1>1, <1>3, <1>4, <1>5
  <2>2. ScanCheckpoint(m) = manifest[m]
    BY <1>1, <2>1 DEF ScanCheckpoint, Live, None
  <2>3. manifest[m] <= member[m].seq
    BY <1>3, <2>2 DEF MemberTrue
  <2>4. FramesOf(m) # {} /\ FramesOf(m) \in SUBSET frames
    BY <1>1, <1>3, <1>5, <2>1, <2>3 DEF MemberTrue, FramesOf
  <2>5. PICK first \in FramesOf(m) : \A g \in FramesOf(m) : first.lsn <= g.lsn
    BY <2>4, LowestFrame
  <2>6. \A g \in FramesOf(m) : g.lsn \in Nat /\ g.seq \in Nat /\ g.id = m
    BY FrameParts DEF FramesOf
  <2>7. Predecessors(first) = {}
    BY <2>5, <2>6 DEF Predecessors
  <2>8. first.seq <= member[m].checkpoint + 1
    BY <1>1, <1>3, <2>5, <2>6, <2>7 DEF MemberTrue
  <2>9. first.seq <= manifest[m]
    BY <1>1, <1>5, <2>1, <2>5, <2>6, <2>8
  <2>10. PICK f \in FramesOf(m) : f.seq >= manifest[m] /\ f.lsn <= durable
    BY <1>3, <2>5, <2>9 DEF ManifestKept
  <2> QED
    BY <1>1, <2>1, <2>6, <2>10
<1> QED
  BY <1>1, <1>2, <1>5

(* The last number of a member in the log up to a cut.                     *)
LEMMA SeqAtIs ==
    ASSUME TypeOK, LogInv, NEW m \in Members, NEW cut \in Nat
    PROVE  LET own == {f \in FramesOf(m) : f.lsn <= cut}
           IN  /\ Logs!SeqAt(m, cut) \in Nat /\ InOrder(own) /\ IsFiniteSet(own)
               /\ IsLast(Logs!SeqAt(m, cut), own, AbstractCheckpoint[m])
<1> DEFINE own  == {f \in FramesOf(m) : f.lsn <= cut}
           cp   == AbstractCheckpoint[m]
           ls   == {l \in DOMAIN AbstractLog : l <= cut /\ AbstractLog[l].id = m}
           kept == {AbstractLog[l].seq : l \in ls}
<1>1. /\ DOMAIN AbstractLog = {f.lsn : f \in frames} /\ OnePerLsn(frames)
      /\ \A f \in frames : AbstractLog[f.lsn] = Entry(f)
  BY OwnInOrder, LogOfIs, LogOfFrames DEF LogInv
<1>2. \A f \in own : f \in frames /\ f.lsn <= cut /\ f.id = m
  BY DEF FramesOf
<1>3. cp \in Nat
  BY CheckpointType
<1>4. InOrder(own) /\ IsFiniteSet(own) /\ \A f \in own : f.seq \in Nat
  <2>1. InOrder(FramesOf(m)) /\ IsFiniteSet(FramesOf(m))
    BY OwnInOrder DEF LogInv
  <2> QED
    BY <2>1, FS_Subset DEF InOrder
<1>5. kept = {f.seq : f \in own}
  <2>1. ASSUME NEW f \in own
        PROVE  f.seq \in kept
    <3>1. f.lsn \in DOMAIN AbstractLog /\ AbstractLog[f.lsn] = Entry(f)
      BY <1>1, <1>2
    <3>2. f.lsn \in ls /\ AbstractLog[f.lsn].seq = f.seq
      BY <1>2, <3>1 DEF Entry
    <3> QED
      BY <3>2
  <2>2. ASSUME NEW l \in ls
        PROVE  AbstractLog[l].seq \in {f.seq : f \in own}
    <3> PICK f \in frames : f.lsn = l
      BY <1>1
    <3>1. AbstractLog[l] = Entry(f)
      BY <1>1
    <3>2. f.id = m /\ f.lsn <= cut /\ AbstractLog[l].seq = f.seq
      BY <3>1 DEF Entry
    <3>3. f \in own
      BY <3>2 DEF FramesOf
    <3> QED
      BY <3>2, <3>3
  <2> QED
    BY <2>1, <2>2
<1>6. LastSeq(own, cp) \in Nat /\ IsLast(LastSeq(own, cp), own, cp)
  <2> HIDE DEF own, cp
  <2> QED
    BY <1>3, <1>4, LastSeqIs
<1>7. Logs!SeqAt(m, cut) = CHOOSE s \in kept \cup {cp} : \A r \in kept \cup {cp} : r <= s
  BY DEF Logs!SeqAt
<1> DEFINE t == CHOOSE s \in kept \cup {cp} : \A r \in kept \cup {cp} : r <= s
<1>8. t \in kept \cup {cp} /\ \A r \in kept \cup {cp} : r <= t
  <2>1. /\ LastSeq(own, cp) \in kept \cup {cp}
        /\ \A r \in kept \cup {cp} : r <= LastSeq(own, cp)
    <3> HIDE DEF kept, own, cp
    <3> QED
      BY <1>5, <1>6 DEF IsLast
  <2> HIDE DEF kept, cp, own
  <2> QED
    BY <2>1
<1>9. t \in Nat /\ IsLast(t, own, cp)
  <2> HIDE DEF kept, own, cp, t
  <2> QED
    BY <1>3, <1>4, <1>5, <1>8 DEF IsLast
<1> QED
  BY <1>4, <1>7, <1>9

(* A cut that is not before the durable end leaves a member its checkpoint *)
(* as the crash leaves it.                                                 *)
LEMMA LastAfterCrash ==
    ASSUME NEW own, NEW more, NEW cp \in Nat, NEW cp2 \in Nat, NEW s \in Nat, NEW t \in Nat,
           own \subseteq more, \A f \in more : f.seq \in Nat,
           IsLast(s, own, cp), IsLast(t, more, cp), cp <= cp2,
           cp2 = cp \/ \E f \in own : cp2 <= f.seq
    PROVE  cp2 <= s /\ IsLast(t, more, cp2)
BY DEF IsLast

LEMMA CrashStep ==
    ASSUME TypeOK, TypeOK', DurableInv, LogInv, NEW power \in BOOLEAN, Crash(power)
    PROVE  LogStep \/ TakesBack
<1>1. PICK cut \in Nat : durable <= cut /\ cut <= lsn /\ Died(cut)
  BY CrashParts DEF Crash
<1>2. /\ frames' = {f \in frames : f.lsn <= cut} /\ owner = "open" /\ owner' = "down"
      /\ lsn' = cut /\ durable' = cut /\ retiredAt' = retiredAt
      /\ \A m \in Members : promised'[m].checkpoint = member[m].checkpoint
  BY <1>1 DEF Died, Crash
<1> SUFFICES ASSUME \A m \in Members : ~TakenBack(m)'
             PROVE  LogStep
  BY <1>2 DEF TakesBack
<1>3. \A m \in Members : manifest'[m] \in {manifest[m], settled[m]}
  BY DEF Crash
<1>4. /\ lsn \in Nat /\ durable \in Nat /\ cut \in durable .. lsn
      /\ \A f \in frames : f.lsn \in Nat \ {0} /\ f.lsn <= lsn /\ f.id \in Members
                           /\ f.seq \in Nat
  BY <1>1, RowNumbers, FrameParts DEF LogInv, LogShape, FramesPlaced
<1>5. OnePerLsn(frames)
  BY OwnInOrder DEF LogInv
<1>6. AbstractLog' = [l \in DOMAIN AbstractLog \cap (1 .. cut) |-> AbstractLog[l]]
  <2>1. frames' = {f \in frames : f.lsn \in 1 .. cut}
    BY <1>2, <1>4
  <2>2. LogOf({f \in frames : f.lsn \in 1 .. cut})
            = [l \in DOMAIN LogOf(frames) \cap (1 .. cut) |-> LogOf(frames)[l]]
    BY <1>5, LogCutTo
  <2> QED
    BY <2>1, <2>2, LogOfFrames
<1>7. /\ {m \in Members : retiredAt[m] # None}' = {m \in Members : retiredAt[m] # None}
      /\ \A m \in Members : ScanCheckpoint(m)' \in Nat
  BY <1>2 DEF TypeOK, RegistryOK, ScanCheckpoint
<1>8. ASSUME NEW m \in Members
      PROVE  /\ AbstractCheckpoint'[m] \in AbstractCheckpoint[m] .. Logs!SeqAt(m, durable)
             /\ AbstractSeq'[m] = Logs!SeqAt(m, cut)
  <2> DEFINE own  == {f \in FramesOf(m) : f.lsn <= durable}
             more == {f \in FramesOf(m) : f.lsn <= cut}
             cp   == AbstractCheckpoint[m]
             cp2  == ScanCheckpoint(m)'
             s    == Logs!SeqAt(m, durable)
             t    == Logs!SeqAt(m, cut)
  <2>1. FramesOf(m)' = more
    BY <1>2 DEF FramesOf
  <2>2. AbstractCheckpoint'[m] = cp2 /\ AbstractSeq'[m] = LastSeq(more, cp2)
    BY <1>2, <2>1, ScanFindsLast DEF AbstractSeq, AbstractCheckpoint
  <2>3. s \in Nat /\ IsLast(s, own, cp)
    BY <1>4, SeqAtIs
  <2>4. t \in Nat /\ IsLast(t, more, cp) /\ InOrder(more) /\ IsFiniteSet(more)
    BY <1>4, SeqAtIs
  <2>5. own \subseteq more /\ \A f \in more : f.seq \in Nat
    BY <1>4 DEF FramesOf
  <2>6. cp \in Nat /\ cp2 \in Nat
    BY <1>7, CheckpointType
  <2>7. cp <= cp2 /\ (cp2 = cp \/ \E f \in own : cp2 <= f.seq)
    <3>1. CASE Live(m)
      <4>1. cp = member[m].checkpoint
        BY <1>2, <3>1 DEF AbstractCheckpoint, Live
      <4>2. /\ member[m].checkpoint <= cp2
            /\ \/ cp2 = member[m].checkpoint
               \/ \E f \in FramesOf(m) : f.lsn <= durable /\ cp2 <= f.seq
        BY <1>2, <1>3, <3>1, CrashCheckpoint
      <4> QED
        BY <4>1, <4>2
    <3>2. CASE ~Live(m)
      <4>1. cp = retiredAt[m] /\ cp2 = retiredAt[m]
        BY <1>2, <3>2 DEF AbstractCheckpoint, ScanCheckpoint, Live
      <4> QED
        BY <2>6, <4>1
    <3> QED
      BY <3>1, <3>2
  <2>8. cp2 <= s /\ IsLast(t, more, cp2)
    <3> HIDE DEF own, more, cp, cp2, s, t
    <3> QED
      BY <2>3, <2>4, <2>5, <2>6, <2>7, LastAfterCrash
  <2>9. LastSeq(more, cp2) = t
    <3> HIDE DEF own, more, cp, cp2, s, t
    <3>1. LastSeq(more, cp2) \in Nat /\ IsLast(LastSeq(more, cp2), more, cp2)
      BY <2>4, <2>6, LastSeqIs
    <3> QED
      BY <2>4, <2>5, <2>6, <2>8, <3>1, OneIsLast
  <2>10. cp2 \in cp .. s
    <3> HIDE DEF own, more, cp, cp2, s, t
    <3> QED
      BY <2>3, <2>6, <2>7, <2>8
  <2> QED
    BY <2>2, <2>9, <2>10
<1>9. AbstractSeq' = [m \in Members |-> Logs!SeqAt(m, cut)]
  <2>1. [m \in Members |-> AbstractSeq'[m]] = [m \in Members |-> Logs!SeqAt(m, cut)]
    BY <1>8
  <2> QED
    BY <2>1, SeqFunction
<1>10. AbstractCheckpoint' \in [Members -> Nat]
  <2>1. AbstractCheckpoint' = [m \in Members |-> ScanCheckpoint(m)']
    BY <1>2 DEF AbstractCheckpoint
  <2> QED
    BY <1>7, <2>1
<1>11. Logs!Crash
  BY <1>2, <1>4, <1>6, <1>7, <1>8, <1>9, <1>10 DEF Logs!Crash
<1> QED
  BY <1>11 DEF LogStep, Logs!Next

-----------------------------------------------------------------------------
(***************************************************************************)
(* The refinement.                                                         *)
(***************************************************************************)
LEMMA InitBounds == Init => BoundsInv /\ Logs!Init
<1> SUFFICES ASSUME Init
             PROVE  BoundsInv /\ Logs!Init
  OBVIOUS
<1>1. /\ frames = {} /\ lsn = 0 /\ durable = 0 /\ owner = "open" /\ crashes = 0
      /\ call = NoCall /\ retiredAt = [m \in Members |-> None]
      /\ manifest = [m \in Members |-> IF m \in Founders THEN 0 ELSE None]
      /\ \A m \in Members : /\ member[m].seq = 0 /\ member[m].checkpoint = 0
                            /\ ~member[m].retired
  BY DEF Init, FreshMember
<1>2. BoundsInv
  BY <1>1, BoundsAssumption DEF BoundsInv
<1>3. AbstractLog = [l \in {} |-> 0]
  BY <1>1 DEF AbstractLog
<1>4. AbstractSeq = [m \in Members |-> 0]
  BY <1>1 DEF AbstractSeq
<1>5. AbstractCheckpoint = [m \in Members |-> 0]
  BY <1>1 DEF AbstractCheckpoint
<1>6. {m \in Members : retiredAt[m] # None} = {}
  BY <1>1
<1> QED
  BY <1>1, <1>2, <1>3, <1>4, <1>5, <1>6 DEF Logs!Init

(* A call still has room for the records it has not appended yet.          *)
LEMMA StepBounds ==
    ASSUME TypeOK, TypeOK', DurableInv, BoundsInv, [Next]_vars
    PROVE  BoundsInv'
<1>1. CASE UNCHANGED <<call, lsn, crashes>> \/ (call' = NoCall /\ UNCHANGED crashes)
  BY <1>1 DEF BoundsInv
<1>2. CASE Preflight \/ AppendRefused
  <2>1. UNCHANGED <<lsn, crashes>>
    BY <1>2 DEF Preflight, AppendRefused, cursor
  <2>2. /\ call \in Calls
        /\ call' \in {call, NoCall, [call EXCEPT !.tried = TRUE, !.return = pc],
                      [call EXCEPT !.tried = FALSE]}
    BY <1>2 DEF Preflight, AppendRefused, Reject, Collect, TypeOK, CallOK
  <2>3. call' = NoCall \/ call'.raws = call.raws
    BY <2>2 DEF Calls
  <2> QED
    BY <2>1, <2>2, <2>3, CallsAreNotNoCall DEF BoundsInv
<1>3. CASE Push \/ PushRolled
  <2>1. call \in Calls /\ call # NoCall /\ UNCHANGED crashes
    BY <1>3, CallsAreNotNoCall DEF Push, PushRolled, Fits, TypeOK, CallOK
  <2>2. PICK at : Accept(at)
    BY <1>3 DEF Push, PushRolled
  <2>3. call.raws \in Seq(Lengths) \ {<< >>}
    BY <2>1 DEF Calls
  <2>4. CASE call' = NoCall
    BY <2>1, <2>4 DEF BoundsInv
  <2>5. CASE call' = [call EXCEPT !.raws = Tail(@), !.tried = FALSE]
    <3>1. call'.raws = Tail(call.raws)
      BY <2>1, <2>5 DEF Calls
    <3>2. Len(Tail(call.raws)) = Len(call.raws) - 1 /\ Len(call.raws) \in Nat
      BY <2>3
    <3>3. lsn' = lsn + 1 /\ lsn \in Nat
      BY <2>2, RowNumbers DEF Accept
    <3>4. Len(call'.raws) = Len(call.raws) - 1
      BY <3>1, <3>2
    <3>5. lsn' + Len(call'.raws) = lsn + Len(call.raws)
      <4> DEFINE before == Len(call.raws)
                 after  == Len(call'.raws)
      <4>1. before \in Nat /\ after = before - 1
        BY <3>2, <3>4
      <4> HIDE DEF before, after
      <4>2. lsn' + after = lsn + before
        BY <3>3, <4>1
      <4> QED
        BY <4>2 DEF before, after
    <3> QED
      BY <2>1, <3>5 DEF BoundsInv
  <2> QED
    BY <2>2, <2>4, <2>5 DEF Accept
<1>4. CASE \E m \in Members : \E raws \in Batches : BeginAppend(m, raws)
  <2> PICK m \in Members, raws \in Batches : BeginAppend(m, raws)
    BY <1>4
  <2>1. lsn + Len(raws) <= MaxLsn /\ UNCHANGED <<lsn, crashes>>
    BY DEF BeginAppend, cursor
  <2>2. call'.raws = raws
    BY DEF BeginAppend, NoCall
  <2> QED
    BY <2>1, <2>2 DEF BoundsInv
<1>5. CASE \E power \in BOOLEAN : Crash(power)
  <2>1. call' = NoCall /\ crashes' = crashes + 1 /\ crashes < MaxCrashes
    BY <1>5 DEF Crash, Died
  <2> QED
    BY <2>1, BoundsAssumption DEF BoundsInv
<1>6. CASE CrashInOpen
  <2>1. UNCHANGED <<call, lsn>> /\ crashes' = crashes + 1 /\ crashes < MaxCrashes
    BY <1>6 DEF CrashInOpen, cursor
  <2> QED
    BY <2>1, BoundsAssumption DEF BoundsInv
<1>7. CASE Roll \/ GcUnlink \/ GcEvidence \/ GcReturn \/ Sync \/ IoError \/ UNCHANGED vars
  <2>1. UNCHANGED <<lsn, crashes>> /\ (call' = call \/ call' = NoCall)
    BY <1>7 DEF Roll, GcUnlink, GcEvidence, GcReturn, Sync, IoError, vars, cursor
  <2> QED
    BY <1>1, <2>1
<1>8. CASE \E m \in Members : \/ SyncMember(m) \/ Register(m) \/ PublishInitial(m)
                              \/ OpenMember(m) \/ Close(m) \/ SealSync(m) \/ SealPublish(m)
                              \/ SealCheckpoint(m) \/ Retire(m)
  <2>1. UNCHANGED <<call, lsn, crashes>>
    BY <1>8 DEF SyncMember, Register, PublishInitial, OpenMember, Close, SealSync,
                SealPublish, SealCheckpoint, Retire, cursor
  <2> QED
    BY <1>1, <2>1
<1>9. CASE OpenRefused \/ PublishBoundary
  <2>1. UNCHANGED <<call, lsn, crashes>>
    BY <1>9 DEF OpenRefused, PublishBoundary, cursor
  <2> QED
    BY <1>1, <2>1
<1>10. CASE Open
  <2>1. owner = "down" /\ UNCHANGED <<call, crashes>>
    BY <1>10 DEF Open, Scannable
  <2>2. call = NoCall
    BY <2>1 DEF DurableInv, CallersOpen
  <2> QED
    BY <1>1, <2>1, <2>2
<1> QED
  BY <1>2, <1>3, <1>4, <1>5, <1>6, <1>7, <1>8, <1>9, <1>10 DEF Next, CallStep

LEMMA StepImplements ==
    ASSUME TypeOK, TypeOK', DurableInv, LogInv, LogInv', BoundsInv, [Next]_vars
    PROVE  LogStep \/ TakesBack
<1>1. CASE Preflight \/ AppendRefused \/ GcReturn \/ GcEvidence \/ IoError \/ Sync \/ Roll
           \/ OpenRefused \/ PublishBoundary \/ CrashInOpen \/ UNCHANGED vars
  BY <1>1, QuietUnseen
<1>2. CASE \E m \in Members : \/ \E raws \in Batches : BeginAppend(m, raws)
                              \/ Register(m) \/ Close(m)
  BY <1>2, QuietUnseen
<1>3. CASE Push \/ PushRolled
  BY <1>3, AppendStep
<1>4. CASE GcUnlink
  BY <1>4, UnlinkStep
<1>5. CASE \E m \in Members : SyncMember(m) \/ SealSync(m) \/ OpenMember(m) \/ SealPublish(m)
  BY <1>5, MemberUnseen, SealPublishUnseen
<1>6. CASE \E m \in Members : PublishInitial(m) \/ SealCheckpoint(m) \/ Retire(m)
  BY <1>6, PublishInitialUnseen, SealStep, RetireStep
<1>7. CASE \E power \in BOOLEAN : Crash(power)
  BY <1>7, CrashStep
<1>8. CASE Open
  BY <1>8, OpenUnseen
<1> QED
  BY <1>1, <1>2, <1>3, <1>4, <1>5, <1>6, <1>7, <1>8 DEF Next, CallStep

(* The shared log is the log of records its members are promised: appends, *)
(* rolls, syncs, seals, retirements, garbage collection, crashes and scans *)
(* are its steps or show nothing.  The one exception is a power failure    *)
(* that takes back a MANIFEST an open had relied on.                       *)
THEOREM SharedWalImplements == Spec => ImplementsMemberLogs
<1>1. Init => BoundsInv /\ Logs!Init
  BY InitBounds
<1>2. TypeOK /\ TypeOK' /\ DurableInv /\ BoundsInv /\ [Next]_vars => BoundsInv'
  BY StepBounds
<1>3. TypeOK /\ TypeOK' /\ DurableInv /\ LogInv /\ LogInv' /\ BoundsInv /\ [Next]_vars
          => [Logs!Next \/ TakesBack]_(Logs!vars)
  BY StepImplements DEF LogStep
<1>4. Init => DurableInv
  BY InitDurable
<1>5. TypeOK /\ TypeOK' /\ DurableInv /\ [Next]_vars => DurableInv'
  BY StepDurable
<1>6. Spec => []TypeOK /\ []LogInv
  BY TypeCorrect, LogHolds
<1> QED
  BY <1>1, <1>2, <1>3, <1>4, <1>5, <1>6, PTL DEF Spec, ImplementsMemberLogs
=============================================================================
