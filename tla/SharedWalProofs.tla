-------------------------- MODULE SharedWalProofs --------------------------
(***************************************************************************)
(* TypeOK is an inductive invariant of SharedWal, for all members, sizes,  *)
(* limits and kinds of crash; and the positions durable_position reports   *)
(* do not fall.                                                            *)
(*                                                                         *)
(* Then what the files of the shared log hold, in every state the owner    *)
(* can be in or leave behind: LogInv, which every step of an owner and a   *)
(* crash keep.  It says of the log that its frames lie one behind the      *)
(* other, that each segment holds the frames its number of the first one   *)
(* and that of its successor say, and that each member's frames are        *)
(* chained; of the files, what may be empty or torn, and that the          *)
(* boundaries tell the truth; of the owner's memory, that it describes the *)
(* files; of a member, that what its MANIFEST relies on is durable.        *)
(* SharedWalContractProofs goes on from there.                             *)
(***************************************************************************)
EXTENDS SharedWal, FiniteSetTheorems, SequenceTheorems, TLAPS

(* A finite set of integers that is not empty has a largest element: the   *)
(* one Max chooses.                                                        *)
LEMMA MaxOfFinite ==
    ASSUME NEW S, S \subseteq Int, S # {}, IsFiniteSet(S)
    PROVE  Max(S) \in S /\ \A x \in S : x <= Max(S)
<1> DEFINE Above(x) == {y \in S : x <= y}
           Ups == {Above(x) : x \in S}
<1>1. Ups \subseteq FiniteSubsetsOf(S)
  <2>1. \A x \in S : IsFiniteSet(Above(x))
    BY FS_Subset
  <2> QED
    BY <2>1 DEF FiniteSubsetsOf
<1>2. Ups # {}
  OBVIOUS
<1>3. PICK U \in Ups : \A V \in Ups : ~ (<<V, U>> \in StrictSubsetOrdering(S))
  BY <1>1, <1>2, FS_StrictSubsetOrderingWellFounded, WFMin
<1>4. PICK x \in S : U = Above(x)
  OBVIOUS
<1>5. ASSUME NEW y \in S PROVE y <= x
  <2> SUFFICES ASSUME x < y
               PROVE  FALSE
    OBVIOUS
  <2>1. Above(y) \subseteq Above(x)
    <3>1. \A z \in S : y <= z => x <= z
      <4> USE x \in Int, y \in Int
      <4> QED
        BY SMT
    <3> QED
      BY <3>1
  <2>2. x \in Above(x) /\ x \notin Above(y)
    OBVIOUS
  <2>3. <<Above(y), U>> \in StrictSubsetOrdering(S)
    <3> HIDE DEF Above
    <3>1. Above(y) \in SUBSET S /\ Above(x) \in SUBSET S
      BY DEF Above
    <3>2. Above(y) # Above(x)
      BY <2>2
    <3> QED
      BY <3>1, <3>2, <2>1, <1>4 DEF StrictSubsetOrdering
  <2> QED
    BY <2>3, <1>3
<1> QED
  BY <1>5 DEF Max

(* The same for the smallest element.                                      *)
LEMMA MinOfFinite ==
    ASSUME NEW S, S \subseteq Int, S # {}, IsFiniteSet(S)
    PROVE  Min(S) \in S /\ \A x \in S : Min(S) <= x
<1> DEFINE Below(x) == {y \in S : y <= x}
           Downs == {Below(x) : x \in S}
<1>1. Downs \subseteq FiniteSubsetsOf(S)
  <2>1. \A x \in S : IsFiniteSet(Below(x))
    BY FS_Subset
  <2> QED
    BY <2>1 DEF FiniteSubsetsOf
<1>2. Downs # {}
  OBVIOUS
<1>3. PICK U \in Downs : \A V \in Downs : ~ (<<V, U>> \in StrictSubsetOrdering(S))
  BY <1>1, <1>2, FS_StrictSubsetOrderingWellFounded, WFMin
<1>4. PICK x \in S : U = Below(x)
  OBVIOUS
<1>5. ASSUME NEW y \in S PROVE x <= y
  <2> SUFFICES ASSUME y < x
               PROVE  FALSE
    OBVIOUS
  <2>1. Below(y) \subseteq Below(x)
    <3>1. \A z \in S : z <= y => z <= x
      <4> USE x \in Int, y \in Int
      <4> QED
        BY SMT
    <3> QED
      BY <3>1
  <2>2. x \in Below(x) /\ x \notin Below(y)
    OBVIOUS
  <2>3. <<Below(y), U>> \in StrictSubsetOrdering(S)
    <3> HIDE DEF Below
    <3>1. Below(y) \in SUBSET S /\ Below(x) \in SUBSET S
      BY DEF Below
    <3>2. Below(y) # Below(x)
      BY <2>2
    <3> QED
      BY <3>1, <3>2, <2>1, <1>4 DEF StrictSubsetOrdering
  <2> QED
    BY <2>3, <1>3
<1> QED
  BY <1>5 DEF Min

-----------------------------------------------------------------------------
(* What a function maps a finite set to is finite.                         *)
LEMMA ImageFinite ==
    ASSUME NEW S, IsFiniteSet(S), NEW f
    PROVE  IsFiniteSet({f[x] : x \in S})
<1> DEFINE T == {f[x] : x \in S}
           g == [x \in S |-> f[x]]
<1>1. g \in Surjection(S, T)
  BY DEF Surjection
<1> QED
  BY <1>1, FS_Surjection

(* The numbers the model takes from the directory: they are of files.      *)
LEMMA FileNumbers ==
    ASSUME TypeOK
    PROVE  /\ LowestFile \in DOMAIN files /\ LastFile \in DOMAIN files
           /\ \A n \in DOMAIN files : LowestFile <= n /\ n <= LastFile
<1>1. DOMAIN files \subseteq Int
  BY DEF TypeOK, FilesOK
<1> QED
  BY <1>1, MaxOfFinite, MinOfFinite DEF TypeOK, FilesOK, LowestFile, LastFile

(* The parts of a frame.                                                   *)
LEMMA FrameType ==
    ASSUME TypeOK, NEW f \in frames
    PROVE  /\ f.id \in Members /\ f.seq \in Nat \ {0} /\ f.lsn \in Nat \ {0}
           /\ f.at \in Pointers /\ f.at.segment \in Nat /\ f.at.offset \in Nat
           /\ f.length \in Nat \ {0} /\ FrameEnd(f) \in Nat
<1>1. f \in Frames
  BY DEF TypeOK, FramesOK
<1>2. f.id \in Members /\ f.seq \in Nat \ {0} /\ f.lsn \in Nat \ {0}
      /\ f.at \in Pointers /\ f.length \in Lengths
  BY <1>1 DEF Frames
<1>3. f.at.segment \in Nat /\ f.at.offset \in Nat
  BY <1>2 DEF Pointers
<1>4. f.length \in Nat \ {0}
  BY <1>2, LengthsAssumption
<1> QED
  BY <1>2, <1>3, <1>4 DEF FrameEnd

(* The end of some frames, in bytes.                                       *)
LEMMA EndType ==
    ASSUME TypeOK, NEW F \in SUBSET frames
    PROVE  Max({FrameEnd(f) : f \in F} \cup {HeaderLen}) \in Nat
<1> DEFINE ends == [f \in F |-> FrameEnd(f)]
           Ends == {ends[f] : f \in F}
<1>1. IsFiniteSet(F)
  BY FS_Subset DEF TypeOK, FramesOK
<1>2. IsFiniteSet(Ends)
  BY <1>1, ImageFinite
<1>3. {FrameEnd(f) : f \in F} = Ends
  OBVIOUS
<1>4. \A f \in F : FrameEnd(f) \in Nat
  BY FrameType
<1>5. HeaderLen \in Nat
  BY LengthsAssumption
<1>6. IsFiniteSet({FrameEnd(f) : f \in F} \cup {HeaderLen})
  BY <1>2, <1>3, FS_AddElement
<1>7. {FrameEnd(f) : f \in F} \cup {HeaderLen} \subseteq Nat
  BY <1>4, <1>5
<1> HIDE DEF ends, Ends
<1> QED
  BY <1>6, <1>7, MaxOfFinite

-----------------------------------------------------------------------------
(***************************************************************************)
(* What the scan computes from the files.                                  *)
(***************************************************************************)
(* How many frames a segment holds.                                        *)
LEMMA CountType ==
    ASSUME TypeOK, NEW n
    PROVE  IsFiniteSet(FramesIn(n)) /\ Cardinality(FramesIn(n)) \in Nat
<1>1. IsFiniteSet(FramesIn(n))
  BY FS_Subset DEF TypeOK, FramesOK, FramesIn
<1> QED
  BY <1>1, FS_CardinalityType

(* The LSN the scan expects before and after a segment.                    *)
LEMMA NextType ==
    ASSUME TypeOK, NEW n \in DOMAIN files
    PROVE  NextBefore(n) \in Nat \ {0} /\ NextAfter(n) \in Nat \ {0}
<1>1. \A k \in DOMAIN files : files[k].first + Cardinality(FramesIn(k)) \in Nat \ {0}
  <2> TAKE k \in DOMAIN files
  <2>1. files[k].first \in Nat \ {0}
    BY DEF TypeOK, FilesOK
  <2>2. Cardinality(FramesIn(k)) \in Nat
    BY CountType
  <2> QED
    BY <2>1, <2>2
<1>2. NextBefore(n) \in Nat \ {0}
  <2> DEFINE full == {p \in DOMAIN files : p < n /\ ~Empty(p)}
  <2>1. CASE full = {}
    BY <2>1 DEF NextBefore
  <2>2. CASE full # {}
    <3>1. full \subseteq Int /\ IsFiniteSet(full)
      BY FS_Subset DEF TypeOK, FilesOK
    <3>2. Max(full) \in full
      <4> HIDE DEF full
      <4> QED BY <2>2, <3>1, MaxOfFinite
    <3>3. Max(full) \in DOMAIN files
      BY <3>2
    <3>4. NextBefore(n) = files[Max(full)].first + Cardinality(FramesIn(Max(full)))
      BY <2>2 DEF NextBefore
    <3> HIDE DEF full
    <3> QED
      BY <1>1, <3>3, <3>4
  <2> QED
    BY <2>1, <2>2
<1> QED
  BY <1>1, <1>2 DEF NextAfter

(* Where the scan finds the records of a segment to end.                   *)
LEMMA ScanEndType ==
    ASSUME TypeOK, NEW n
    PROVE  ScanEnd(n) \in Nat
<1>1. FramesIn(n) \in SUBSET frames
  BY DEF FramesIn
<1> QED
  BY <1>1, EndType DEF ScanEnd

(* The files once the scan has started a new segment behind a frozen one.  *)
LEMMA RotatedType ==
    ASSUME TypeOK
    PROVE  /\ DOMAIN files \subseteq DOMAIN Rotated
           /\ DOMAIN Rotated \subseteq Nat \ {0} /\ DOMAIN Rotated # {}
           /\ IsFiniteSet(DOMAIN Rotated)
           /\ \A n \in DOMAIN Rotated :
                  Rotated[n] \in [first : Nat \ {0}, length : Nat, synced : Nat]
<1>1. LastFile \in DOMAIN files /\ LastFile + 1 \in Nat \ {0}
  BY FileNumbers DEF TypeOK, FilesOK
<1>2. CASE NeedsRotate
  <2> DEFINE new == [first |-> NextAfter(LastFile), length |-> HeaderLen,
                     synced |-> HeaderLen]
  <2>1. new \in [first : Nat \ {0}, length : Nat, synced : Nat]
    BY <1>1, NextType, LengthsAssumption
  <2>2. Rotated = With(files, LastFile + 1, new)
    BY <1>2 DEF Rotated
  <2>3. DOMAIN Rotated = DOMAIN files \cup {LastFile + 1}
    BY <2>2 DEF With
  <2>4. IsFiniteSet(DOMAIN Rotated)
    BY <2>3, FS_AddElement DEF TypeOK, FilesOK
  <2>5. \A n \in DOMAIN Rotated : Rotated[n] = new \/ (n \in DOMAIN files /\ Rotated[n] = files[n])
    BY <2>2 DEF With
  <2> HIDE DEF new
  <2> QED
    BY <1>1, <2>1, <2>3, <2>4, <2>5 DEF TypeOK, FilesOK
<1>3. CASE ~NeedsRotate
  BY <1>3 DEF Rotated, TypeOK, FilesOK
<1> QED
  BY <1>2, <1>3

(* What the scan records of a segment.                                     *)
LEMMA ScannedSegmentsType ==
    ASSUME TypeOK, NEW n \in DOMAIN ScannedSegments
    PROVE  /\ ScannedSegments[n].length \in Nat
           /\ DOMAIN ScannedSegments[n].members \subseteq Members
           /\ \A m \in DOMAIN ScannedSegments[n].members :
                  ScannedSegments[n].members[m] \in Nat \ {0}
<1> DEFINE Own(m) == FramesIn(n) \cap FramesOf(m)
           last == [m \in {f.id : f \in FramesIn(n)} |-> Max({f.seq : f \in Own(m)})]
<1>1. n \in DOMAIN Rotated
      /\ ScannedSegments[n] = [length |-> Rotated[n].length, members |-> last]
  BY DEF ScannedSegments
<1>2. Rotated[n].length \in Nat
  BY <1>1, RotatedType
<1>3. \A f \in FramesIn(n) : f.id \in Members
  BY FrameType DEF FramesIn
<1>4. ASSUME NEW m \in {f.id : f \in FramesIn(n)}
      PROVE  Max({f.seq : f \in Own(m)}) \in Nat \ {0}
  <2> DEFINE seqs == [f \in Own(m) |-> f.seq]
             Seqs == {f.seq : f \in Own(m)}
  <2>1. IsFiniteSet(Own(m))
    BY FS_Subset DEF TypeOK, FramesOK, FramesIn
  <2>2. Seqs = {seqs[f] : f \in Own(m)}
    OBVIOUS
  <2>3. IsFiniteSet(Seqs)
    <3> HIDE DEF seqs, Own
    <3>1. IsFiniteSet({seqs[f] : f \in Own(m)})
      BY <2>1, ImageFinite
    <3> QED BY <3>1, <2>2
  <2>4. Seqs \subseteq Nat \ {0}
    BY FrameType DEF FramesIn
  <2>5. Seqs # {}
    BY DEF FramesIn, FramesOf
  <2> HIDE DEF Seqs
  <2>6. Max(Seqs) \in Seqs
    <3>1. Seqs \subseteq Int
      BY <2>4
    <3> QED BY <2>3, <2>5, <3>1, MaxOfFinite
  <2> QED
    BY <2>4, <2>6 DEF Seqs
<1> QED
  BY <1>1, <1>2, <1>3, <1>4

(* What the scan records of a member.                                      *)
LEMMA ScannedMemberType ==
    ASSUME TypeOK, NEW m \in Members
    PROVE  ScannedMember(m) \in MemberStates
<1> DEFINE own == FramesOf(m)
           cp == ScanCheckpoint(m)
           last == CHOOSE f \in own : \A g \in own : g.lsn <= f.lsn
           found == own # {} /\ last.seq >= cp
<1>1. cp \in Nat
  BY DEF TypeOK, RegistryOK, ScanCheckpoint
<1>2. own # {} => last \in own
  <2> SUFFICES ASSUME own # {}
               PROVE  \E f \in own : \A g \in own : g.lsn <= f.lsn
    OBVIOUS
  <2> DEFINE lsns == [f \in own |-> f.lsn]
             Lsns == {f.lsn : f \in own}
  <2>1. IsFiniteSet(own)
    BY FS_Subset DEF TypeOK, FramesOK, FramesOf
  <2>2. Lsns = {lsns[f] : f \in own}
    OBVIOUS
  <2>3. IsFiniteSet(Lsns)
    <3> HIDE DEF lsns, own
    <3>1. IsFiniteSet({lsns[f] : f \in own})
      BY <2>1, ImageFinite
    <3> QED BY <3>1, <2>2
  <2>4. Lsns \subseteq Int /\ Lsns # {}
    BY FrameType DEF FramesOf
  <2>5. Max(Lsns) \in Lsns /\ \A x \in Lsns : x <= Max(Lsns)
    <3> HIDE DEF Lsns
    <3> QED BY <2>3, <2>4, MaxOfFinite
  <2> QED
    BY <2>5
<1>3. own # {} => /\ last.seq \in Nat /\ last.lsn \in Nat /\ last.at \in Pointers
  BY <1>2, FrameType DEF FramesOf
<1>4. NoPointer \in Pointers
  BY DEF NoPointer, Pointers
<1> HIDE DEF own, last, cp
<1>5. /\ (IF found THEN last.seq ELSE cp) \in Nat
      /\ (IF found THEN last.at ELSE NoPointer) \in Pointers
      /\ (IF own = {} THEN 0 ELSE last.lsn) \in Nat
  BY <1>1, <1>3, <1>4
<1> QED
  BY <1>1, <1>5 DEF ScannedMember, MemberStates, own, last, cp

-----------------------------------------------------------------------------
(***************************************************************************)
(* Type correctness.  One lemma for what several actions do, then one step *)
(* per action and, under it, one per part of TypeOK the action can change. *)
(***************************************************************************)
(* The initial state has the types.                                       *)
LEMMA InitType == Init => TypeOK
<1> SUFFICES ASSUME Init
             PROVE  TypeOK
  OBVIOUS
<1>1. FilesOK
  <2>1. DOMAIN files = {1}
    BY DEF Init
  <2>2. files[1] = [first |-> 1, length |-> HeaderLen, synced |-> HeaderLen]
    BY DEF Init
  <2>3. IsFiniteSet({1})
    BY FS_Singleton, Zenon
  <2>4. HeaderLen \in Nat
    BY LengthsAssumption
  <2> QED
    BY <2>1, <2>2, <2>3, <2>4 DEF FilesOK
<1>2. EvidenceOK
  BY DEF Init, EvidenceOK
<1>3. FramesOK
  BY FS_EmptySet DEF Init, FramesOK
<1>4. RegistryOK
  BY MembersAssumption DEF Init, RegistryOK, None
<1>5. CursorOK
  BY LengthsAssumption DEF Init, CursorOK
<1>6. IndexOK
  <2>1. member \in [Members -> MemberStates]
    <3>1. FreshMember \in MemberStates
      BY DEF FreshMember, MemberStates, Pointers, NoPointer
    <3>2. \A b \in BOOLEAN : [FreshMember EXCEPT !.initialized = b] \in MemberStates
      BY <3>1 DEF MemberStates
    <3>3. \A m \in Members : (m \in Founders) \in BOOLEAN
      OBVIOUS
    <3>4. \A m \in Members :
              [FreshMember EXCEPT !.initialized = m \in Founders] \in MemberStates
      BY <3>2, <3>3
    <3> QED
      BY <3>4 DEF Init
  <2>2. DOMAIN segments = {1} /\ segments[1].length = HeaderLen
        /\ segments[1].members = << >>
    BY DEF Init
  <2> QED
    BY <2>1, <2>2, LengthsAssumption DEF IndexOK
<1>7. CallOK
  BY DEF Init, CallOK
<1>8. HandlesOK
  BY MembersAssumption DEF Init, HandlesOK, NoPromise
<1> QED
  BY <1>1, <1>2, <1>3, <1>4, <1>5, <1>6, <1>7, <1>8 DEF TypeOK

(* The files after a flush or a sync.                                      *)
LEMMA SyncedFilesType ==
    ASSUME TypeOK
    PROVE  /\ DOMAIN SyncedFiles = DOMAIN files
           /\ \A n \in DOMAIN files :
                  SyncedFiles[n] \in [first : Nat \ {0}, length : Nat, synced : Nat]
           /\ DOMAIN FlushedFiles = DOMAIN files
           /\ \A n \in DOMAIN files :
                  FlushedFiles[n] \in [first : Nat \ {0}, length : Nat, synced : Nat]
  BY DEF TypeOK, FilesOK, CursorOK, SyncedFiles, FlushedFiles

(* sync_locked, wherever it is called.                                     *)
LEMMA SyncLockedType ==
    ASSUME TypeOK, SyncLocked \/ UNCHANGED <<files, durable>>
    PROVE  FilesOK' /\ DOMAIN files' = DOMAIN files /\ durable' \in Nat
<1>1. CASE SyncLocked
  BY <1>1, SyncedFilesType DEF SyncLocked, TypeOK, FilesOK, CursorOK
<1>2. CASE UNCHANGED <<files, durable>>
  BY <1>2 DEF TypeOK, FilesOK, CursorOK
<1> QED
  BY <1>1, <1>2

(* A member's durable position, however it is kept.                        *)
LEMMA KeptSeqType ==
    ASSUME TypeOK, NEW m \in Members
    PROVE  KeptSeq(m) \in Nat
  BY DEF TypeOK, IndexOK, MemberStates, KeptSeq

(* The record a call appends next.                                         *)
LEMMA LengthType ==
    ASSUME TypeOK, call \in Calls
    PROVE  Length \in Lengths /\ Length \in Nat \ {0} /\ call.id \in Members
<1>1. call.raws \in Seq(Lengths) /\ call.raws # << >> /\ call.id \in Members
  BY DEF Calls
<1> QED
  BY <1>1, HeadTailProperties, LengthsAssumption DEF Length

(* The record of a member that has appended.                               *)
LEMMA MemberAppended ==
    ASSUME NEW old \in MemberStates, NEW s \in Nat, NEW l \in Nat,
           NEW p \in Pointers, NEW d \in Nat, NEW q \in Pointers
    PROVE  [old EXCEPT !.seq = s, !.lsn = l, !.latest = p, !.durableSeq = d,
                       !.durablePointer = q] \in MemberStates
<1>1. old = [initialized |-> old.initialized, retired |-> old.retired,
             checkpoint |-> old.checkpoint, latest |-> old.latest,
             seq |-> old.seq, lsn |-> old.lsn, durableSeq |-> old.durableSeq,
             durablePointer |-> old.durablePointer]
      /\ old.initialized \in BOOLEAN /\ old.retired \in BOOLEAN
      /\ old.checkpoint \in Nat
  BY DEF MemberStates
<1> QED
  BY <1>1 DEF MemberStates

(* Accepting a record, in the active segment or in the one rolled to.      *)
LEMMA AcceptType ==
    ASSUME TypeOK, call \in Calls, NEW at \in Pointers, Accept(at),
           owner' = owner, owner = "open",
           segment' \in DOMAIN files'
    PROVE  /\ FramesOK' /\ lsn' \in Nat /\ CallOK'
           /\ member' \in [Members -> MemberStates]
<1> DEFINE m == call.id
           old == member[m]
           new == [id |-> m, seq |-> old.seq + 1, lsn |-> lsn + 1,
                   prev |-> old.latest, at |-> at, length |-> Length,
                   value |-> crashes]
<1>1. m \in Members /\ Length \in Lengths
  BY LengthType
<1>2. old \in MemberStates
  BY <1>1 DEF TypeOK, IndexOK
<1>3. lsn \in Nat /\ crashes \in Nat
  BY DEF TypeOK, CursorOK, HandlesOK
<1>4. new \in Frames
  BY <1>1, <1>2, <1>3 DEF Frames, MemberStates
<1>5. FramesOK'
  <2>1. frames' = frames \cup {new}
    BY DEF Accept
  <2> HIDE DEF new
  <2> QED
    BY <2>1, <1>4, FS_AddElement DEF TypeOK, FramesOK
<1>6. lsn' \in Nat
  BY <1>3 DEF Accept
<1>7. member' \in [Members -> MemberStates]
  <2> DEFINE synced == old.lsn <= durable
             ds == IF synced THEN old.seq ELSE old.durableSeq
             dp == IF synced THEN old.latest ELSE old.durablePointer
             next == [old EXCEPT !.seq = old.seq + 1, !.lsn = lsn + 1, !.latest = at,
                                 !.durableSeq = ds, !.durablePointer = dp]
  <2>1. member' = [member EXCEPT ![m] = next]
    BY DEF Accept
  <2>2. next \in MemberStates
    <3>1. old.seq \in Nat /\ old.latest \in Pointers /\ old.durableSeq \in Nat
          /\ old.durablePointer \in Pointers
      BY <1>2 DEF MemberStates
    <3>2. ds \in Nat /\ dp \in Pointers
      BY <3>1
    <3>3. old.seq + 1 \in Nat /\ lsn + 1 \in Nat
      BY <3>1, <1>3
    <3> HIDE DEF ds, dp, old
    <3> QED
      BY <1>2, <3>2, <3>3, MemberAppended, Zenon
  <2> HIDE DEF next
  <2> QED
    BY <2>1, <2>2 DEF TypeOK, IndexOK
<1>8. CallOK'
  <2>1. CASE Len(call.raws) = 1
    BY <2>1 DEF Accept, CallOK, NoCall
  <2>2. CASE Len(call.raws) # 1
    <3>1. call' = [call EXCEPT !.raws = Tail(@), !.tried = FALSE] /\ pc' = "append"
      BY <2>2 DEF Accept
    <3>2. Tail(call.raws) \in Seq(Lengths) /\ Tail(call.raws) # << >>
      <4>1. call.raws \in Seq(Lengths) /\ call.raws # << >>
        BY DEF Calls
      <4>2. Tail(call.raws) \in Seq(Lengths) /\ Len(Tail(call.raws)) = Len(call.raws) - 1
        BY <4>1, HeadTailProperties
      <4> QED
        <5>1. Len(call.raws) \in Nat \ {0}
          BY <4>1, EmptySeq
        <5>2. Len(Tail(call.raws)) # 0
          BY <4>2, <5>1, <2>2
        <5> QED
          BY <4>2, <5>2, EmptySeq
    <3>3. call' \in Calls
      BY <3>1, <3>2 DEF Calls
    <3> QED
      BY <3>1, <3>3 DEF CallOK
  <2> QED
    BY <2>1, <2>2
<1> QED
  BY <1>5, <1>6, <1>7, <1>8

(* A batch is a sequence of lengths that is not empty.                     *)
LEMMA BatchType ==
    ASSUME NEW raws \in Batches
    PROVE  raws \in Seq(Lengths) \ {<< >>}
<1>1. PICK k \in 1 .. MaxBatch : raws \in [1 .. k -> Lengths]
  BY DEF Batches
<1>2. k \in Nat \ {0}
  BY <1>1, BoundsAssumption
<1>3. raws \in Seq(Lengths)
  BY <1>1, <1>2, SeqDef
<1>4. raws # << >>
  BY <1>1, <1>2
<1> QED
  BY <1>3, <1>4

(* Sync keeps every type.                                                  *)
LEMMA SyncType ==
    ASSUME TypeOK, Sync
    PROVE  TypeOK'
<1>FilesOK. FilesOK'
  BY SyncLockedType DEF Sync
<1>CursorOK. CursorOK'
  BY SyncLockedType DEF Sync, TypeOK, CursorOK
<1>IndexOK. IndexOK'
  BY DEF Sync, index, TypeOK, IndexOK
<1>CallOK. CallOK'
  BY SyncLockedType DEF Sync, TypeOK, CallOK
<1>rest. EvidenceOK' /\ FramesOK' /\ RegistryOK' /\ HandlesOK'
  BY DEF Sync, disk, cursor, index, TypeOK,
         EvidenceOK, FramesOK, RegistryOK, HandlesOK
<1> QED
  BY <1>FilesOK, <1>CursorOK, <1>IndexOK, <1>CallOK, <1>rest DEF TypeOK

(* SyncMember keeps every type.                                            *)
LEMMA SyncMemberType ==
    ASSUME TypeOK, NEW m \in Members, SyncMember(m)
    PROVE  TypeOK'
<1>sync. FilesOK' /\ DOMAIN files' = DOMAIN files /\ durable' \in Nat
  BY SyncLockedType DEF SyncMember, MemberSyncLocked, SyncUpTo
<1>FilesOK. FilesOK'
  BY <1>sync
<1>CursorOK. CursorOK'
  BY <1>sync DEF SyncMember, TypeOK, CursorOK
<1>IndexOK. IndexOK'
  <2>1. member[m].seq \in Nat /\ member[m].latest \in Pointers
    BY DEF TypeOK, IndexOK, MemberStates
  <2>2. [member[m] EXCEPT !.durableSeq = member[m].seq,
                          !.durablePointer = member[m].latest] \in MemberStates
    BY <2>1 DEF TypeOK, IndexOK, MemberStates
  <2>3. member' = [member EXCEPT ![m] =
                      [member[m] EXCEPT !.durableSeq = member[m].seq,
                                        !.durablePointer = member[m].latest]]
        /\ segments' = segments
    BY DEF SyncMember, MemberSyncLocked, TypeOK, IndexOK
  <2> QED
    BY <2>2, <2>3 DEF TypeOK, IndexOK
<1>CallOK. CallOK'
  BY <1>sync DEF SyncMember, TypeOK, CallOK
<1>rest. EvidenceOK' /\ FramesOK' /\ RegistryOK' /\ HandlesOK'
  BY DEF SyncMember, disk, cursor, index, TypeOK,
         EvidenceOK, FramesOK, RegistryOK, HandlesOK
<1> QED
  BY <1>FilesOK, <1>CursorOK, <1>IndexOK, <1>CallOK, <1>rest DEF TypeOK

(* SealSync keeps every type.                                              *)
LEMMA SealSyncType ==
    ASSUME TypeOK, NEW m \in Members, SealSync(m)
    PROVE  TypeOK'
<1>sync. FilesOK' /\ DOMAIN files' = DOMAIN files /\ durable' \in Nat
  BY SyncLockedType DEF SealSync, MemberSyncLocked, SyncUpTo
<1>FilesOK. FilesOK'
  BY <1>sync
<1>CursorOK. CursorOK'
  BY <1>sync DEF SealSync, TypeOK, CursorOK
<1>IndexOK. IndexOK'
  <2>1. member[m].seq \in Nat /\ member[m].latest \in Pointers
    BY DEF TypeOK, IndexOK, MemberStates
  <2>2. [member[m] EXCEPT !.durableSeq = member[m].seq,
                          !.durablePointer = member[m].latest] \in MemberStates
    BY <2>1 DEF TypeOK, IndexOK, MemberStates
  <2>3. member' = [member EXCEPT ![m] =
                      [member[m] EXCEPT !.durableSeq = member[m].seq,
                                        !.durablePointer = member[m].latest]]
        /\ segments' = segments
    BY DEF SealSync, MemberSyncLocked, TypeOK, IndexOK
  <2> QED
    BY <2>2, <2>3 DEF TypeOK, IndexOK
<1>CallOK. CallOK'
  BY <1>sync DEF SealSync, TypeOK, CallOK
<1>rest. EvidenceOK' /\ FramesOK' /\ RegistryOK' /\ HandlesOK'
  BY DEF SealSync, disk, cursor, index, TypeOK,
         EvidenceOK, FramesOK, RegistryOK, HandlesOK
<1> QED
  BY <1>FilesOK, <1>CursorOK, <1>IndexOK, <1>CallOK, <1>rest DEF TypeOK

(* BeginAppend keeps every type.                                           *)
LEMMA BeginAppendType ==
    ASSUME TypeOK, NEW m \in Members, NEW raws \in Batches, BeginAppend(m, raws)
    PROVE  TypeOK'
<1>raws. raws \in Seq(Lengths) \ {<< >>}
  BY BatchType
<1>call. [NoCall EXCEPT !.id = m, !.raws = raws] \in Calls
         /\ [NoCall EXCEPT !.id = m, !.raws = raws, !.batch = TRUE] \in Calls
  BY <1>raws DEF NoCall, Calls
<1>CallOK. CallOK'
  BY <1>call DEF BeginAppend, Locked, disk, cursor, TypeOK, CallOK
<1>rest. FilesOK' /\ EvidenceOK' /\ FramesOK' /\ RegistryOK' /\ CursorOK'
         /\ IndexOK' /\ HandlesOK'
  BY DEF BeginAppend, disk, cursor, index, TypeOK,
         FilesOK, EvidenceOK, FramesOK, RegistryOK, CursorOK, IndexOK, HandlesOK
<1> QED
  BY <1>CallOK, <1>rest DEF TypeOK

(* Preflight keeps every type.                                             *)
LEMMA PreflightType ==
    ASSUME TypeOK, Preflight
    PROVE  TypeOK'
<1>CursorOK. CursorOK'
  BY DEF Preflight, Reject, Collect, cursor, TypeOK, CursorOK, CallOK
<1>CallOK. CallOK'
  <2>1. call \in Calls /\ owner = "open"
    BY DEF Preflight, TypeOK, CallOK
  <2>2. [call EXCEPT !.tried = FALSE] \in Calls
        /\ [call EXCEPT !.tried = TRUE, !.return = "preflight"] \in Calls
    BY <2>1 DEF Calls
  <2> QED
    BY <2>1, <2>2 DEF Preflight, Reject, Collect, disk, cursor, TypeOK, CallOK
<1>rest. FilesOK' /\ EvidenceOK' /\ FramesOK' /\ RegistryOK' /\ IndexOK'
         /\ HandlesOK'
  BY DEF Preflight, disk, cursor, index, TypeOK,
         FilesOK, EvidenceOK, FramesOK, RegistryOK, IndexOK, HandlesOK
<1> QED
  BY <1>CursorOK, <1>CallOK, <1>rest DEF TypeOK

(* AppendRefused keeps every type.                                         *)
LEMMA AppendRefusedType ==
    ASSUME TypeOK, AppendRefused
    PROVE  TypeOK'
<1>CursorOK. CursorOK'
  <2>1. call \in Calls
    BY DEF AppendRefused, TypeOK, CallOK
  <2>2. call.batch \in BOOLEAN
    BY <2>1 DEF Calls
  <2>3. poison' \in BOOLEAN
    BY <2>2 DEF AppendRefused, Reject, Collect, TypeOK, CursorOK
  <2> QED
    BY <2>3 DEF AppendRefused, cursor, TypeOK, CursorOK
<1>CallOK. CallOK'
  <2>1. call \in Calls /\ owner = "open"
    BY DEF AppendRefused, TypeOK, CallOK
  <2>2. [call EXCEPT !.tried = TRUE, !.return = "append"] \in Calls
    BY <2>1 DEF Calls
  <2> QED
    BY <2>1, <2>2 DEF AppendRefused, Reject, Collect, disk, cursor, TypeOK, CallOK
<1>rest. FilesOK' /\ EvidenceOK' /\ FramesOK' /\ RegistryOK' /\ IndexOK'
         /\ HandlesOK'
  BY DEF AppendRefused, disk, cursor, index, TypeOK,
         FilesOK, EvidenceOK, FramesOK, RegistryOK, IndexOK, HandlesOK
<1> QED
  BY <1>CursorOK, <1>CallOK, <1>rest DEF TypeOK

(* GcReturn keeps every type.                                              *)
LEMMA GcReturnType ==
    ASSUME TypeOK, GcReturn
    PROVE  TypeOK'
<1>CallOK. CallOK'
  BY DEF GcReturn, disk, cursor, TypeOK, CallOK, Calls, NoCall
<1>rest. FilesOK' /\ EvidenceOK' /\ FramesOK' /\ RegistryOK' /\ CursorOK'
         /\ IndexOK' /\ HandlesOK'
  BY DEF GcReturn, disk, cursor, index, TypeOK,
         FilesOK, EvidenceOK, FramesOK, RegistryOK, CursorOK, IndexOK, HandlesOK
<1> QED
  BY <1>CallOK, <1>rest DEF TypeOK

(* IoError keeps every type.                                               *)
LEMMA IoErrorType ==
    ASSUME TypeOK, IoError
    PROVE  TypeOK'
<1>rest. FilesOK' /\ EvidenceOK' /\ FramesOK' /\ RegistryOK' /\ CursorOK'
         /\ IndexOK' /\ CallOK' /\ HandlesOK'
  BY DEF IoError, disk, cursor, index, TypeOK,
         FilesOK, EvidenceOK, FramesOK, RegistryOK, CursorOK, IndexOK, CallOK, HandlesOK
<1> QED
  BY <1>rest DEF TypeOK

(* Close keeps every type.                                                 *)
LEMMA CloseType ==
    ASSUME TypeOK, NEW m \in Members, Close(m)
    PROVE  TypeOK'
<1>rest. FilesOK' /\ EvidenceOK' /\ FramesOK' /\ RegistryOK' /\ CursorOK'
         /\ IndexOK' /\ CallOK' /\ HandlesOK'
  BY DEF Close, disk, cursor, index, TypeOK,
         FilesOK, EvidenceOK, FramesOK, RegistryOK, CursorOK, IndexOK, CallOK, HandlesOK
<1> QED
  BY <1>rest DEF TypeOK

(* SealPublish keeps every type.                                           *)
LEMMA SealPublishType ==
    ASSUME TypeOK, NEW m \in Members, SealPublish(m)
    PROVE  TypeOK'
<1>RegistryOK. RegistryOK'
  <2>1. member[m].seq \in Nat
    BY DEF TypeOK, IndexOK, MemberStates
  <2> QED
    BY <2>1 DEF SealPublish, TypeOK, RegistryOK
<1>rest. FilesOK' /\ EvidenceOK' /\ FramesOK' /\ CursorOK' /\ IndexOK'
         /\ CallOK' /\ HandlesOK'
  BY DEF SealPublish, disk, cursor, index, TypeOK,
         FilesOK, EvidenceOK, FramesOK, CursorOK, IndexOK, CallOK, HandlesOK
<1> QED
  BY <1>RegistryOK, <1>rest DEF TypeOK

(* PublishInitial keeps every type.                                        *)
LEMMA PublishInitialType ==
    ASSUME TypeOK, NEW m \in Members, PublishInitial(m)
    PROVE  TypeOK'
<1>RegistryOK. RegistryOK'
  BY DEF PublishInitial, TypeOK, RegistryOK
<1>CursorOK. CursorOK'
  BY DEF PublishInitial, cursor, TypeOK, CursorOK
<1>rest. FilesOK' /\ EvidenceOK' /\ FramesOK' /\ IndexOK' /\ CallOK'
         /\ HandlesOK'
  BY DEF PublishInitial, disk, cursor, index, TypeOK,
         FilesOK, EvidenceOK, FramesOK, IndexOK, CallOK, HandlesOK
<1> QED
  BY <1>RegistryOK, <1>CursorOK, <1>rest DEF TypeOK

(* Push keeps every type.                                                  *)
LEMMA PushType ==
    ASSUME TypeOK, Push
    PROVE  TypeOK'
<1>call. call \in Calls /\ owner = "open" /\ segment \in DOMAIN files
         /\ segment \in Nat /\ offset \in Nat
  BY DEF Push, Fits, TypeOK, CallOK, CursorOK
<1>length. Length \in Nat \ {0} /\ call.id \in Members
  BY <1>call, LengthType
<1>files. FilesOK' /\ DOMAIN files' = DOMAIN files
  BY SyncedFilesType DEF Push, TypeOK, FilesOK
<1>accept. /\ FramesOK' /\ lsn' \in Nat /\ CallOK'
           /\ member' \in [Members -> MemberStates]
  <2>1. [segment |-> segment, offset |-> offset] \in Pointers
    BY <1>call DEF Pointers
  <2>2. Accept([segment |-> segment, offset |-> offset]) /\ owner' = owner
        /\ segment' = segment
    BY DEF Push
  <2> QED
    BY <1>call, <1>files, <2>1, <2>2, AcceptType
<1>FilesOK. FilesOK'
  BY <1>files
<1>FramesOK. FramesOK'
  BY <1>accept
<1>CursorOK. CursorOK'
  BY <1>accept, <1>call, <1>length DEF Push, TypeOK, CursorOK
<1>IndexOK. IndexOK'
  <2>1. member[call.id].seq + 1 \in Nat \ {0}
    BY <1>length DEF TypeOK, IndexOK, MemberStates
  <2>2. ASSUME NEW n \in DOMAIN segments'
        PROVE  /\ segments'[n].length \in Nat
               /\ DOMAIN segments'[n].members \subseteq Members
               /\ \A m \in DOMAIN segments'[n].members :
                      segments'[n].members[m] \in Nat \ {0}
    <3> DEFINE grown == With(segments[n].members, call.id, member[call.id].seq + 1)
    <3>1. DOMAIN segments' = DOMAIN segments
      BY DEF Push
    <3>2. /\ segments[n].length \in Nat
          /\ DOMAIN segments[n].members \subseteq Members
          /\ \A m \in DOMAIN segments[n].members :
                 segments[n].members[m] \in Nat \ {0}
      BY <3>1 DEF TypeOK, IndexOK
    <3>3. CASE n = segment
      <4>1. segments'[n] = [length |-> segments[n].length + Length, members |-> grown]
        BY <3>1, <3>3 DEF Push
      <4>2. DOMAIN grown = DOMAIN segments[n].members \cup {call.id}
            /\ \A m \in DOMAIN grown : grown[m] \in Nat \ {0}
        BY <2>1, <3>2 DEF With
      <4> HIDE DEF grown
      <4> QED
        BY <1>length, <3>2, <4>1, <4>2
    <3>4. CASE n # segment
      <4>1. segments'[n] = segments[n]
        BY <3>1, <3>4 DEF Push
      <4> QED
        BY <3>2, <4>1
    <3> QED
      BY <3>3, <3>4
  <2> QED
    BY <1>accept, <2>2 DEF IndexOK
<1>CallOK. CallOK'
  BY <1>accept
<1>rest. EvidenceOK' /\ RegistryOK' /\ HandlesOK'
  BY DEF Push, disk, cursor, index, TypeOK,
         EvidenceOK, RegistryOK, HandlesOK
<1> QED
  BY <1>FilesOK, <1>FramesOK, <1>CursorOK, <1>IndexOK, <1>CallOK, <1>rest DEF TypeOK

(* Roll keeps every type.                                                  *)
LEMMA RollType ==
    ASSUME TypeOK, Roll
    PROVE  TypeOK'
<1>files. FilesOK' /\ DOMAIN files' = DOMAIN files \cup {segment + 1}
  <2> DEFINE new == [first |-> lsn + 1, length |-> 0, synced |-> 0]
  <2>1. new \in [first : Nat \ {0}, length : Nat, synced : Nat]
    <3>0. lsn \in Nat
      BY DEF TypeOK, CursorOK
    <3>1. lsn + 1 \in Nat \ {0}
      BY <3>0
    <3> QED BY <3>1
  <2>s. segment + 1 \in Nat \ {0}
    <3>1. segment \in Nat
      BY DEF TypeOK, CursorOK
    <3> QED BY <3>1
  <2>2. files' = With(SyncedFiles, segment + 1, new)
    BY DEF Roll
  <2> HIDE DEF new
  <2>3. DOMAIN files' = DOMAIN files \cup {segment + 1}
    BY <2>2, SyncedFilesType DEF With
  <2>4. \A n \in DOMAIN files' : files'[n] = new \/ (n \in DOMAIN files /\ files'[n] = SyncedFiles[n])
    BY <2>2, SyncedFilesType DEF With
  <2>5. IsFiniteSet(DOMAIN files')
    BY <2>3, FS_AddElement DEF TypeOK, FilesOK
  <2>6. FilesOK'
    BY <2>1, <2>s, <2>3, <2>4, <2>5, SyncedFilesType DEF TypeOK, FilesOK
  <2> QED
    BY <2>3, <2>6
<1>FilesOK. FilesOK'
  BY <1>files
<1>CursorOK. CursorOK'
  BY DEF Roll, TypeOK, CursorOK
<1>CallOK. CallOK'
  BY <1>files DEF Roll, Fits, TypeOK, CallOK
<1>rest. EvidenceOK' /\ FramesOK' /\ RegistryOK' /\ IndexOK' /\ HandlesOK'
  BY DEF Roll, disk, cursor, index, TypeOK,
         EvidenceOK, FramesOK, RegistryOK, IndexOK, HandlesOK
<1> QED
  BY <1>FilesOK, <1>CursorOK, <1>CallOK, <1>rest DEF TypeOK

(* PushRolled keeps every type.                                            *)
LEMMA PushRolledType ==
    ASSUME TypeOK, PushRolled
    PROVE  TypeOK'
<1>call. call \in Calls /\ owner = "open" /\ segment + 1 \in DOMAIN files
         /\ segment \in Nat
  BY DEF PushRolled, TypeOK, CallOK, CursorOK
<1>length. Length \in Nat \ {0} /\ call.id \in Members /\ HeaderLen \in Nat
  BY <1>call, LengthType, LengthsAssumption
<1>files. FilesOK' /\ DOMAIN files' = DOMAIN files
  BY <1>length DEF PushRolled, TypeOK, FilesOK
<1>accept. /\ FramesOK' /\ lsn' \in Nat /\ CallOK'
           /\ member' \in [Members -> MemberStates]
  <2>1. [segment |-> segment + 1, offset |-> HeaderLen] \in Pointers
    BY <1>call, <1>length DEF Pointers
  <2>2. Accept([segment |-> segment + 1, offset |-> HeaderLen]) /\ owner' = owner
        /\ segment' = segment + 1
    BY DEF PushRolled
  <2> QED
    BY <1>call, <1>files, <2>1, <2>2, AcceptType
<1>FilesOK. FilesOK'
  BY <1>files
<1>FramesOK. FramesOK'
  BY <1>accept
<1>CursorOK. CursorOK'
  BY <1>accept, <1>call, <1>length DEF PushRolled, TypeOK, CursorOK
<1>IndexOK. IndexOK'
  <2>1. member[call.id].seq + 1 \in Nat \ {0}
    BY <1>length DEF TypeOK, IndexOK, MemberStates
  <2> DEFINE entry == [m \in {call.id} |-> member[m].seq + 1]
             added == [length |-> HeaderLen + Length, members |-> entry]
  <2>2. segments' = With(segments, segment + 1, added)
    BY DEF PushRolled
  <2>3. /\ added.length \in Nat /\ DOMAIN added.members \subseteq Members
        /\ \A m \in DOMAIN added.members : added.members[m] \in Nat \ {0}
    BY <1>length, <2>1
  <2> HIDE DEF entry, added
  <2>4. \A n \in DOMAIN segments' :
            segments'[n] = added \/ (n \in DOMAIN segments /\ segments'[n] = segments[n])
    BY <2>2 DEF With
  <2> QED
    BY <1>accept, <2>3, <2>4 DEF TypeOK, IndexOK
<1>CallOK. CallOK'
  BY <1>accept
<1>rest. EvidenceOK' /\ RegistryOK' /\ HandlesOK'
  BY DEF PushRolled, disk, cursor, index, TypeOK,
         EvidenceOK, RegistryOK, HandlesOK
<1> QED
  BY <1>FilesOK, <1>FramesOK, <1>CursorOK, <1>IndexOK, <1>CallOK, <1>rest DEF TypeOK

(* GcUnlink keeps every type.                                              *)
LEMMA GcUnlinkType ==
    ASSUME TypeOK, GcUnlink
    PROVE  TypeOK'
<1>FilesOK. FilesOK'
  <2>1. owner = "open" /\ segment \in DOMAIN files /\ Lowest # segment
    BY DEF GcUnlink, Collectable, TypeOK, CallOK
  <2>2. DOMAIN files' = DOMAIN files \ {Lowest}
        /\ \A n \in DOMAIN files' : files'[n] = files[n]
    BY DEF GcUnlink, Restrict
  <2>3. IsFiniteSet(DOMAIN files')
    BY <2>2, FS_RemoveElement DEF TypeOK, FilesOK
  <2> QED
    BY <2>1, <2>2, <2>3 DEF TypeOK, FilesOK
<1>FramesOK. FramesOK'
  BY FS_Subset DEF GcUnlink, TypeOK, FramesOK
<1>IndexOK. IndexOK'
  BY DEF GcUnlink, Restrict, TypeOK, IndexOK
<1>CallOK. CallOK'
  BY DEF GcUnlink, cursor, Collectable, Restrict, TypeOK, CallOK
<1>rest. EvidenceOK' /\ RegistryOK' /\ CursorOK' /\ HandlesOK'
  BY DEF GcUnlink, disk, cursor, index, TypeOK,
         EvidenceOK, RegistryOK, CursorOK, HandlesOK
<1> QED
  BY <1>FilesOK, <1>FramesOK, <1>IndexOK, <1>CallOK, <1>rest DEF TypeOK

(* GcEvidence keeps every type.                                            *)
LEMMA GcEvidenceType ==
    ASSUME TypeOK, GcEvidence
    PROVE  TypeOK'
<1>EvidenceOK. EvidenceOK'
  BY DEF GcEvidence, Restrict, TypeOK, EvidenceOK
<1>CursorOK. CursorOK'
  <2>1. poison' \in BOOLEAN
    <3>1. call.batch \in BOOLEAN
      <4>1. CASE call = NoCall
        BY <4>1 DEF NoCall
      <4>2. CASE call \in Calls
        BY <4>2 DEF Calls
      <4> QED
        BY <4>1, <4>2 DEF TypeOK, CallOK
    <3>2. (call.batch /\ call.return = "append") \in BOOLEAN
      OBVIOUS
    <3> QED
      BY <3>2 DEF GcEvidence, TypeOK, CursorOK
  <2> QED
    BY <2>1 DEF GcEvidence, cursor, TypeOK, CursorOK
<1>rest. FilesOK' /\ FramesOK' /\ RegistryOK' /\ IndexOK' /\ CallOK'
         /\ HandlesOK'
  BY DEF GcEvidence, disk, cursor, index, TypeOK,
         FilesOK, FramesOK, RegistryOK, IndexOK, CallOK, HandlesOK
<1> QED
  BY <1>EvidenceOK, <1>CursorOK, <1>rest DEF TypeOK

(* Register keeps every type.                                              *)
LEMMA RegisterType ==
    ASSUME TypeOK, NEW m \in Members, Register(m)
    PROVE  TypeOK'
<1>rest. FilesOK' /\ EvidenceOK' /\ FramesOK' /\ RegistryOK' /\ CursorOK'
         /\ IndexOK' /\ CallOK' /\ HandlesOK'
  BY DEF Register, disk, cursor, index, TypeOK,
         FilesOK, EvidenceOK, FramesOK, RegistryOK, CursorOK, IndexOK, CallOK, HandlesOK
<1> QED
  BY <1>rest DEF TypeOK

(* OpenMember keeps every type.                                            *)
LEMMA OpenMemberType ==
    ASSUME TypeOK, NEW m \in Members, OpenMember(m)
    PROVE  TypeOK'
<1>sync. FilesOK' /\ DOMAIN files' = DOMAIN files /\ durable' \in Nat
  BY SyncLockedType DEF OpenMember, SyncUpTo
<1>manifest. manifest[m] \in Nat
  BY DEF OpenMember, TypeOK, RegistryOK
<1>FilesOK. FilesOK'
  BY <1>sync
<1>RegistryOK. RegistryOK'
  BY <1>manifest DEF OpenMember, TypeOK, RegistryOK
<1>CursorOK. CursorOK'
  BY <1>sync DEF OpenMember, TypeOK, CursorOK
<1>IndexOK. IndexOK'
  <2>1. member' \in [Members -> MemberStates]
    <3>1. [member[m] EXCEPT !.initialized = TRUE, !.checkpoint = manifest[m],
                            !.seq = manifest[m], !.durableSeq = manifest[m]]
              \in MemberStates
      BY <1>manifest DEF TypeOK, IndexOK, MemberStates
    <3>2. \/ member' = member
          \/ member' = [member EXCEPT ![m] =
                 [member[m] EXCEPT !.initialized = TRUE, !.checkpoint = manifest[m],
                                   !.seq = manifest[m], !.durableSeq = manifest[m]]]
      BY DEF OpenMember, TypeOK, IndexOK
    <3> QED
      BY <3>1, <3>2 DEF TypeOK, IndexOK
  <2> QED
    BY <2>1 DEF OpenMember, TypeOK, IndexOK
<1>CallOK. CallOK'
  BY <1>sync DEF OpenMember, TypeOK, CallOK
<1>rest. EvidenceOK' /\ FramesOK' /\ HandlesOK'
  BY DEF OpenMember, disk, cursor, index, TypeOK,
         EvidenceOK, FramesOK, HandlesOK
<1> QED
  BY <1>FilesOK, <1>RegistryOK, <1>CursorOK, <1>IndexOK, <1>CallOK, <1>rest DEF TypeOK

(* SealCheckpoint keeps every type.                                        *)
LEMMA SealCheckpointType ==
    ASSUME TypeOK, NEW m \in Members, SealCheckpoint(m)
    PROVE  TypeOK'
<1>IndexOK. IndexOK'
  <2>1. [member[m] EXCEPT !.checkpoint = member[m].seq] \in MemberStates
    BY DEF TypeOK, IndexOK, MemberStates
  <2>2. member' = [member EXCEPT ![m] = [member[m] EXCEPT !.checkpoint = member[m].seq]]
        /\ segments' = segments
    BY DEF SealCheckpoint, TypeOK, IndexOK
  <2> QED
    BY <2>1, <2>2 DEF TypeOK, IndexOK
<1>CallOK. CallOK'
  BY DEF SealCheckpoint, Locked, disk, cursor, TypeOK, CallOK
<1>rest. FilesOK' /\ EvidenceOK' /\ FramesOK' /\ RegistryOK' /\ CursorOK'
         /\ HandlesOK'
  BY DEF SealCheckpoint, disk, cursor, index, TypeOK,
         FilesOK, EvidenceOK, FramesOK, RegistryOK, CursorOK, HandlesOK
<1> QED
  BY <1>IndexOK, <1>CallOK, <1>rest DEF TypeOK

(* Retire keeps every type.                                                *)
LEMMA RetireType ==
    ASSUME TypeOK, NEW m \in Members, Retire(m)
    PROVE  TypeOK'
<1>RegistryOK. RegistryOK'
  <2>1. member[m].seq \in Nat
    BY DEF TypeOK, IndexOK, MemberStates
  <2> QED
    BY <2>1 DEF Retire, TypeOK, RegistryOK
<1>CursorOK. CursorOK'
  BY DEF Retire, cursor, TypeOK, CursorOK
<1>IndexOK. IndexOK'
  <2>1. [member[m] EXCEPT !.retired = TRUE] \in MemberStates
    BY DEF TypeOK, IndexOK, MemberStates
  <2>2. \/ member' = member
        \/ member' = [member EXCEPT ![m] = [member[m] EXCEPT !.retired = TRUE]]
    BY DEF Retire, TypeOK, IndexOK
  <2>3. segments' = segments
    BY DEF Retire
  <2> QED
    BY <2>1, <2>2, <2>3 DEF TypeOK, IndexOK
<1>CallOK. CallOK'
  BY DEF Retire, Locked, cursor, TypeOK, CallOK
<1>rest. FilesOK' /\ EvidenceOK' /\ FramesOK' /\ HandlesOK'
  BY DEF Retire, disk, cursor, index, TypeOK,
         FilesOK, EvidenceOK, FramesOK, HandlesOK
<1> QED
  BY <1>RegistryOK, <1>CursorOK, <1>IndexOK, <1>CallOK, <1>rest DEF TypeOK

(* OpenRefused keeps every type.                                           *)
LEMMA OpenRefusedType ==
    ASSUME TypeOK, OpenRefused
    PROVE  TypeOK'
<1>FilesOK. FilesOK'
  BY RotatedType DEF OpenRefused, TypeOK, FilesOK
<1>CursorOK. CursorOK'
  BY DEF OpenRefused, cursor, TypeOK, CursorOK
<1>CallOK. CallOK'
  <2>1. DOMAIN files \subseteq DOMAIN files'
    BY RotatedType DEF OpenRefused
  <2> QED
    BY <2>1 DEF OpenRefused, cursor, TypeOK, CallOK
<1>rest. EvidenceOK' /\ FramesOK' /\ RegistryOK' /\ IndexOK' /\ HandlesOK'
  BY DEF OpenRefused, disk, cursor, index, TypeOK,
         EvidenceOK, FramesOK, RegistryOK, IndexOK, HandlesOK
<1> QED
  BY <1>FilesOK, <1>CursorOK, <1>CallOK, <1>rest DEF TypeOK

(* PublishBoundary keeps every type.                                       *)
LEMMA PublishBoundaryType ==
    ASSUME TypeOK, PublishBoundary
    PROVE  TypeOK'
<1>EvidenceOK. EvidenceOK'
  <2> DEFINE new == [length |-> files[LastFile].length, end |-> ScanEnd(LastFile),
                     next |-> NextAfter(LastFile)]
  <2>1. LastFile \in DOMAIN files
    BY FileNumbers
  <2>2. new \in [length : Nat, end : Nat, next : Nat \ {0}]
    BY <2>1, NextType, ScanEndType DEF TypeOK, FilesOK
  <2>3. evidence' = With(evidence, LastFile, new)
    BY DEF PublishBoundary
  <2> HIDE DEF new
  <2>4. \A n \in DOMAIN evidence' :
            evidence'[n] = new \/ (n \in DOMAIN evidence /\ evidence'[n] = evidence[n])
    BY <2>3 DEF With
  <2> QED
    BY <2>2, <2>4 DEF TypeOK, EvidenceOK
<1>rest. FilesOK' /\ FramesOK' /\ RegistryOK' /\ CursorOK' /\ IndexOK'
         /\ CallOK' /\ HandlesOK'
  BY DEF PublishBoundary, disk, cursor, index, TypeOK,
         FilesOK, FramesOK, RegistryOK, CursorOK, IndexOK, CallOK, HandlesOK
<1> QED
  BY <1>EvidenceOK, <1>rest DEF TypeOK

(* CrashInOpen keeps every type.                                           *)
LEMMA CrashInOpenType ==
    ASSUME TypeOK, CrashInOpen
    PROVE  TypeOK'
<1>files. FilesOK' /\ DOMAIN files \subseteq DOMAIN files'
  <2>1. PICK header \in 0 .. HeaderLen :
            files' = [Rotated EXCEPT ![LastFile + 1].length = header,
                                     ![LastFile + 1].synced = header]
    BY DEF CrashInOpen
  <2>2. header \in Nat
    BY <2>1, LengthsAssumption
  <2> QED
    BY <2>1, <2>2, RotatedType DEF FilesOK
<1>FilesOK. FilesOK'
  BY <1>files
<1>CallOK. CallOK'
  BY <1>files DEF CrashInOpen, Scannable, cursor, TypeOK, CallOK
<1>HandlesOK. HandlesOK'
  BY DEF CrashInOpen, TypeOK, HandlesOK
<1>rest. EvidenceOK' /\ FramesOK' /\ RegistryOK' /\ CursorOK' /\ IndexOK'
  BY DEF CrashInOpen, disk, cursor, index, TypeOK,
         EvidenceOK, FramesOK, RegistryOK, CursorOK, IndexOK
<1> QED
  BY <1>FilesOK, <1>CallOK, <1>HandlesOK, <1>rest DEF TypeOK

(* Open keeps every type.                                                  *)
LEMMA OpenType ==
    ASSUME TypeOK, Open
    PROVE  TypeOK'
<1>FilesOK. FilesOK'
  BY RotatedType DEF Open, FilesOK
<1>CursorOK. CursorOK'
  <2>1. Max(DOMAIN Rotated) \in DOMAIN Rotated
    <3>1. DOMAIN Rotated \subseteq Int
      BY RotatedType
    <3> QED
      BY <3>1, RotatedType, MaxOfFinite
  <2>2. segment' \in Nat /\ offset' \in Nat
    BY <2>1, RotatedType DEF Open
  <2>3. NextAfter(LastFile) \in Nat \ {0}
    BY FileNumbers, NextType
  <2>4. lsn' \in Nat /\ durable' \in Nat
    BY <2>3 DEF Open
  <2> QED
    BY <2>2, <2>4 DEF Open, TypeOK, CursorOK
<1>IndexOK. IndexOK'
  BY ScannedSegmentsType, ScannedMemberType DEF Open, IndexOK
<1>CallOK. CallOK'
  <2>1. Max(DOMAIN Rotated) \in DOMAIN Rotated
    <3>1. DOMAIN Rotated \subseteq Int
      BY RotatedType
    <3> QED
      BY <3>1, RotatedType, MaxOfFinite
  <2>2. segment' \in DOMAIN files'
    BY <2>1 DEF Open
  <2>3. pc = "idle"
    BY DEF Open, Scannable, TypeOK, CallOK
  <2> QED
    BY <2>2, <2>3 DEF Open, TypeOK, CallOK
<1>rest. EvidenceOK' /\ FramesOK' /\ RegistryOK' /\ HandlesOK'
  BY DEF Open, disk, cursor, index, TypeOK,
         EvidenceOK, FramesOK, RegistryOK, HandlesOK, NoPromise
<1> QED
  BY <1>FilesOK, <1>CursorOK, <1>IndexOK, <1>CallOK, <1>rest DEF TypeOK

(* A crash, of the process or of the power, keeps every type.              *)
LEMMA CrashType ==
    ASSUME TypeOK, NEW power \in BOOLEAN, Crash(power)
    PROVE  TypeOK'
<1> DEFINE lost == [f \in AtRisk(power) |-> f.lsn - 1]
           Lost == {f.lsn - 1 : f \in AtRisk(power)} \cup {lsn}
           next(u) == {g \in frames : g.lsn = u + 1}
           Tails(u) == {f.length - 1 : f \in next(u)} \cup {0}
<1>1. PICK upTo \in Min(Lost) .. lsn :
        \E torn \in 0 .. Max(Tails(upTo)) :
        \E header \in (IF TornHeaders THEN 0 .. HeaderLen ELSE {HeaderLen}) :
            files' = Remains(upTo, torn, header) /\ Died(upTo)
  BY DEF Crash
<1>2. upTo \in Nat
  <2>1. AtRisk(power) \in SUBSET frames
    BY DEF AtRisk
  <2>2. \A f \in AtRisk(power) : lost[f] \in Nat
    BY <2>1, FrameType
  <2>3. Lost = {lost[f] : f \in AtRisk(power)} \cup {lsn} /\ lsn \in Nat
    BY DEF TypeOK, CursorOK
  <2>4. Lost \subseteq Nat
    BY <2>2, <2>3
  <2>5. Min(Lost) \in Lost
    <3> DEFINE image == {lost[f] : f \in AtRisk(power)}
    <3>1. IsFiniteSet(image)
      <4>1. IsFiniteSet(AtRisk(power))
        BY <2>1, FS_Subset DEF TypeOK, FramesOK
      <4> HIDE DEF lost
      <4> QED
        BY <4>1, ImageFinite
    <3>2. Lost = image \cup {lsn}
      BY <2>3
    <3>3. IsFiniteSet(Lost)
      <4> HIDE DEF image, Lost
      <4> QED
        BY <3>1, <3>2, FS_AddElement
    <3>4. Lost \subseteq Int /\ Lost # {}
      BY <2>4
    <3> HIDE DEF Lost
    <3> QED
      BY <3>3, <3>4, MinOfFinite
  <2>6. Min(Lost) \in Nat
    BY <2>4, <2>5
  <2> HIDE DEF Lost
  <2> QED
    BY <1>1, <2>3, <2>6
<1>3. PICK torn \in 0 .. Max(Tails(upTo)),
           header \in (IF TornHeaders THEN 0 .. HeaderLen ELSE {HeaderLen}) :
            files' = Remains(upTo, torn, header) /\ Died(upTo)
  BY <1>1
<1>4. torn \in Nat
  <2> DEFINE tail == [f \in next(upTo) |-> f.length - 1]
  <2>1. next(upTo) \in SUBSET frames
    OBVIOUS
  <2>2. \A f \in next(upTo) : tail[f] \in Nat
    BY FrameType
  <2>3. Tails(upTo) = {tail[f] : f \in next(upTo)} \cup {0}
    OBVIOUS
  <2>4. Tails(upTo) \subseteq Nat
    BY <2>2, <2>3
  <2>5. Max(Tails(upTo)) \in Tails(upTo)
    <3> DEFINE image == {tail[f] : f \in next(upTo)}
    <3>1. IsFiniteSet(image)
      <4>1. IsFiniteSet(next(upTo))
        BY <2>1, FS_Subset DEF TypeOK, FramesOK
      <4> HIDE DEF tail, next
      <4> QED
        BY <4>1, ImageFinite
    <3>2. Tails(upTo) = image \cup {0}
      BY <2>3
    <3>3. IsFiniteSet(Tails(upTo))
      <4> HIDE DEF image, Tails
      <4> QED
        BY <3>1, <3>2, FS_AddElement
    <3>4. Tails(upTo) \subseteq Int /\ Tails(upTo) # {}
      BY <2>4
    <3> HIDE DEF Tails
    <3> QED
      BY <3>3, <3>4, MaxOfFinite
  <2>6. Max(Tails(upTo)) \in Nat
    BY <2>4, <2>5
  <2> HIDE DEF Tails
  <2> QED
    BY <2>6
<1>5. header \in Nat
  BY LengthsAssumption
<1>FilesOK. FilesOK'
  <2> DEFINE kept == {f \in FramesIn(segment) : f.lsn <= upTo}
             end == Max({FrameEnd(f) : f \in kept} \cup {HeaderLen})
             size(n) == IF n = segment THEN end + torn
                        ELSE IF n = segment + 1 THEN header ELSE files[n].length
  <2>1. end \in Nat
    <3>1. kept \in SUBSET frames
      BY DEF FramesIn
    <3> QED
      BY <3>1, EndType
  <2>2. files' = [n \in DOMAIN files |->
                    [first |-> files[n].first, length |-> size(n), synced |-> size(n)]]
    BY <1>3 DEF Remains
  <2>3. \A n \in DOMAIN files : size(n) \in Nat /\ files[n].first \in Nat \ {0}
    <3> HIDE DEF end
    <3> QED
      BY <2>1, <1>4, <1>5 DEF TypeOK, FilesOK
  <2> HIDE DEF size
  <2> QED
    BY <2>2, <2>3 DEF TypeOK, FilesOK
<1>FramesOK. FramesOK'
  BY <1>3, FS_Subset DEF Died, TypeOK, FramesOK
<1>RegistryOK. RegistryOK'
  <2>1. MaxLsn \in Nat
    BY BoundsAssumption
  <2>2. manifest' \in [Members -> Nat \cup {None}] /\ settled' \in [Members -> Nat \cup {None}]
    <3>1. CASE power
      <4>1. manifest' \in [Members -> {None} \cup 0 .. MaxLsn] /\ settled' = manifest'
        BY <3>1 DEF Crash
      <4> QED
        BY <4>1, <2>1
    <3>2. CASE ~power
      BY <3>2 DEF Crash, TypeOK, RegistryOK
    <3> QED
      BY <3>1, <3>2
  <2> QED
    BY <1>3, <2>2 DEF Died, TypeOK, RegistryOK
<1>CursorOK. CursorOK'
  BY <1>2, <1>3 DEF Died, CursorOK
<1>IndexOK. IndexOK'
  <2>1. FreshMember \in MemberStates
    BY DEF FreshMember, MemberStates, Pointers, NoPointer
  <2> QED
    BY <1>3, <2>1 DEF Died, IndexOK
<1>CallOK. CallOK'
  BY <1>3 DEF Died, CallOK
<1>HandlesOK. HandlesOK'
  <2>1. \A m \in Members : KeptSeq(m) \in Nat /\ member[m].checkpoint \in Nat
    BY KeptSeqType DEF TypeOK, IndexOK, MemberStates
  <2> QED
    BY <1>3, <2>1 DEF Died, TypeOK, HandlesOK
<1>EvidenceOK. EvidenceOK'
  BY <1>3 DEF Died, TypeOK, EvidenceOK
<1> QED
  BY <1>FilesOK, <1>FramesOK, <1>RegistryOK, <1>CursorOK, <1>IndexOK, <1>CallOK,
     <1>HandlesOK, <1>EvidenceOK DEF TypeOK

(* So does standing still.                                                 *)
LEMMA StutterType ==
    ASSUME TypeOK, UNCHANGED vars
    PROVE  TypeOK'
  BY DEF vars, disk, cursor, index, TypeOK, FilesOK, EvidenceOK, FramesOK,
         RegistryOK, CursorOK, IndexOK, CallOK, HandlesOK

(* Every variable always has its type; in particular the active segment    *)
(* always has a file, whatever garbage collection and crashes remove, and  *)
(* what the scan reconstructs is a well-formed state.                      *)
THEOREM TypeCorrect == Spec => []TypeOK
<1>1. Init => TypeOK
  BY InitType
<1>2. TypeOK /\ [Next]_vars => TypeOK'
  <2> SUFFICES ASSUME TypeOK, [Next]_vars
               PROVE  TypeOK'
    OBVIOUS
  <2>1. CASE CallStep
    BY <2>1, PreflightType, AppendRefusedType, PushType, RollType, PushRolledType,
       GcUnlinkType, GcEvidenceType, GcReturnType DEF CallStep
  <2>2. CASE Sync
    BY <2>2, SyncType
  <2>3. CASE \E m \in Members : \E raws \in Batches : BeginAppend(m, raws)
    BY <2>3, BeginAppendType
  <2>4. CASE \E m \in Members : \/ SyncMember(m) \/ Register(m) \/ PublishInitial(m)
                                \/ OpenMember(m) \/ Close(m)
    BY <2>4, SyncMemberType, RegisterType, PublishInitialType, OpenMemberType,
       CloseType
  <2>5. CASE \E m \in Members : \/ SealSync(m) \/ SealPublish(m) \/ SealCheckpoint(m)
                                \/ Retire(m)
    BY <2>5, SealSyncType, SealPublishType, SealCheckpointType, RetireType
  <2>6. CASE IoError
    BY <2>6, IoErrorType
  <2>7. CASE \E power \in BOOLEAN : Crash(power)
    BY <2>7, CrashType
  <2>8. CASE OpenRefused \/ PublishBoundary \/ CrashInOpen \/ Open
    BY <2>8, OpenRefusedType, PublishBoundaryType, CrashInOpenType, OpenType
  <2>9. CASE UNCHANGED vars
    BY <2>9, StutterType
  <2> QED
    BY <2>1, <2>2, <2>3, <2>4, <2>5, <2>6, <2>7, <2>8, <2>9 DEF Next
<1> QED
  BY <1>1, <1>2, PTL DEF Spec

-----------------------------------------------------------------------------
(***************************************************************************)
(* What durable_position reports of a member never falls while the owner   *)
(* is open and healthy, for all members, sizes, limits and kinds of crash. *)
(* (A poisoned owner reports 0, and stays poisoned until it is opened.)    *)
(*                                                                         *)
(* The position is kept in two ways: a member behind the last sync has     *)
(* its last record, a member ahead of it the record `durableSeq` notes.    *)
(* The argument is about the steps that change from one way to the other.  *)
(***************************************************************************)

(* No sync is ahead of the log, and no member's note ahead of its records. *)
NotesBehind == /\ durable <= lsn
               /\ \A m \in Members : member[m].durableSeq <= member[m].seq

(* A member that has never been opened has accepted nothing: `initialized` *)
(* may put it at the checkpoint of its MANIFEST.                           *)
UnopenedEmpty ==
    owner = "open" => \A m \in Members :
        retiredAt[m] = None /\ ~member[m].initialized
            => member[m].seq = 0 /\ member[m].durableSeq = 0

(* Only members that are open append.                                      *)
CallersOpen ==
    /\ \A m \in opened : member[m].initialized
    /\ owner # "open" => opened = {}
    /\ pc = "idle" => call = NoCall
    /\ call # NoCall => call.id \in opened

DurableInv == NotesBehind /\ UnopenedEmpty /\ CallersOpen

(* What a step of an open owner does to every position it keeps.           *)
Rises == owner = "open" /\ owner' = "open" =>
             \A m \in Members : KeptSeq(m)' >= KeptSeq(m)

LEMMA InitDurable == Init => DurableInv
<1> SUFFICES ASSUME Init
             PROVE  DurableInv
  OBVIOUS
<1>1. \A m \in Members : /\ member[m].seq = 0 /\ member[m].durableSeq = 0
                         /\ member[m].initialized = (m \in Founders)
  BY DEF Init, FreshMember
<1>2. /\ owner = "open" /\ call = NoCall /\ opened = Founders
      /\ lsn = 0 /\ durable = 0
  BY DEF Init
<1>3. NotesBehind
  BY <1>1, <1>2 DEF NotesBehind
<1>4. UnopenedEmpty
  BY <1>1 DEF UnopenedEmpty
<1>5. CallersOpen
  BY <1>1, <1>2, MembersAssumption DEF CallersOpen
<1> QED
  BY <1>3, <1>4, <1>5 DEF DurableInv

(* A member that accepts nothing while syncs go on reports no less.        *)
LEMMA PositionRises ==
    ASSUME TypeOK, TypeOK', NotesBehind, NEW m \in Members,
           member'[m].lsn = member[m].lsn, member'[m].seq = member[m].seq,
           member'[m].durableSeq \in {member[m].durableSeq, member[m].seq},
           durable' >= durable
    PROVE  KeptSeq(m)' >= KeptSeq(m)
<1>1. /\ member[m].lsn \in Nat /\ member[m].seq \in Nat
      /\ member[m].durableSeq \in Nat /\ durable \in Nat /\ durable' \in Nat
  BY DEF TypeOK, IndexOK, CursorOK, MemberStates
<1>2. member[m].durableSeq <= member[m].seq
  BY DEF NotesBehind
<1> QED
  BY <1>1, <1>2 DEF KeptSeq

(* Steps that leave every member's state alone.                            *)
LEMMA MembersAlone ==
    ASSUME TypeOK, TypeOK', DurableInv, UNCHANGED <<member, retiredAt, owner, lsn>>,
           durable' \in {durable, lsn}
    PROVE  NotesBehind' /\ UnopenedEmpty' /\ Rises
<1>1. durable \in Nat /\ lsn \in Nat /\ durable <= lsn
  BY DEF DurableInv, NotesBehind, TypeOK, CursorOK
<1>2. durable' >= durable /\ durable' <= lsn'
  BY <1>1
<1>3. NotesBehind' /\ UnopenedEmpty'
  BY <1>2 DEF DurableInv, NotesBehind, UnopenedEmpty
<1>4. \A m \in Members : KeptSeq(m)' >= KeptSeq(m)
  BY <1>2, PositionRises DEF DurableInv
<1> QED
  BY <1>3, <1>4 DEF Rises

(* A call goes on, ends, or lets the next one begin.                       *)
LEMMA CallersStay ==
    ASSUME CallersOpen, UNCHANGED <<member, opened, owner>>,
           pc' = "idle" => call' = NoCall,
           call' = NoCall \/ (call # NoCall /\ call'.id = call.id)
    PROVE  CallersOpen'
  BY DEF CallersOpen

LEMMA CallsAreNotNoCall == NoCall \notin Calls
  BY DEF NoCall, Calls

-----------------------------------------------------------------------------
(* The steps of a call that append nothing.                                *)
LEMMA CallStepDurable ==
    ASSUME TypeOK, TypeOK', DurableInv,
           Preflight \/ AppendRefused \/ Roll \/ GcUnlink \/ GcEvidence \/ GcReturn
    PROVE  DurableInv' /\ Rises
<1>1. /\ UNCHANGED <<member, retiredAt, owner, lsn, opened>>
      /\ durable' \in {durable, lsn}
  BY DEF Preflight, AppendRefused, Roll, GcUnlink, GcEvidence, GcReturn,
         disk, cursor, index
<1>2. NotesBehind' /\ UnopenedEmpty' /\ Rises
  BY <1>1, MembersAlone
<1>3. CallersOpen
  BY DEF DurableInv
<1>4. CASE Preflight
  <2>1. call \in Calls /\ call # NoCall
    BY <1>4, CallsAreNotNoCall DEF Preflight, TypeOK, CallOK
  <2>2. /\ pc' = "idle" => call' = NoCall
        /\ call' = NoCall \/ call'.id = call.id
    BY <1>4, <2>1 DEF Preflight, Collect, Reject, Calls
  <2> QED
    BY <1>1, <1>2, <1>3, <2>1, <2>2, CallersStay DEF DurableInv
<1>5. CASE AppendRefused
  <2>1. call \in Calls /\ call # NoCall
    BY <1>5, CallsAreNotNoCall DEF AppendRefused, TypeOK, CallOK
  <2>2. /\ pc' = "idle" => call' = NoCall
        /\ call' = NoCall \/ call'.id = call.id
    BY <1>5, <2>1 DEF AppendRefused, Collect, Reject, Calls
  <2> QED
    BY <1>1, <1>2, <1>3, <2>1, <2>2, CallersStay DEF DurableInv
<1>6. CASE Roll \/ GcUnlink
  <2>1. pc' # "idle" /\ call' = call
    BY <1>6 DEF Roll, GcUnlink
  <2> QED
    BY <1>1, <1>2, <1>3, <2>1, CallersStay DEF DurableInv
<1>7. CASE GcEvidence
  <2>1. (pc' # "idle" /\ call' = call) \/ call' = NoCall
    BY <1>7 DEF GcEvidence
  <2> QED
    BY <1>1, <1>2, <1>3, <2>1, CallersStay DEF DurableInv
<1>8. CASE GcReturn
  <2>1. (pc' # "idle" /\ call' = call) \/ call' = NoCall
    BY <1>8 DEF GcReturn
  <2> QED
    BY <1>1, <1>2, <1>3, <2>1, CallersStay DEF DurableInv
<1> QED
  BY <1>4, <1>5, <1>6, <1>7, <1>8

(* A sync of the owner, and an I/O error.                                  *)
LEMMA OwnerStepDurable ==
    ASSUME TypeOK, TypeOK', DurableInv, Sync \/ IoError
    PROVE  DurableInv' /\ Rises
<1>1. /\ UNCHANGED <<member, retiredAt, owner, lsn, opened>>
      /\ durable' \in {durable, lsn}
  BY DEF Sync, SyncLocked, IoError, disk, cursor, index
<1>2. NotesBehind' /\ UnopenedEmpty' /\ Rises
  BY <1>1, MembersAlone
<1>3. (pc' = pc /\ call' = call) \/ call' = NoCall
  BY DEF Sync, IoError
<1> QED
  BY <1>1, <1>2, <1>3, CallersStay DEF DurableInv, CallersOpen

(* Registering a member and publishing its MANIFEST touch no state of it.  *)
LEMMA PublicationDurable ==
    ASSUME TypeOK, TypeOK', DurableInv, NEW m \in Members,
           Register(m) \/ PublishInitial(m) \/ SealPublish(m)
    PROVE  DurableInv' /\ Rises
<1>1. /\ UNCHANGED <<member, retiredAt, owner, lsn, opened>>
      /\ durable' \in {durable, lsn}
  BY DEF Register, PublishInitial, SealPublish, cursor, index
<1>2. NotesBehind' /\ UnopenedEmpty' /\ Rises
  BY <1>1, MembersAlone
<1>3. (pc' = pc /\ call' = call) \/ call' = NoCall
  BY DEF Register, PublishInitial, SealPublish
<1> QED
  BY <1>1, <1>2, <1>3, CallersStay DEF DurableInv, CallersOpen

LEMMA BeginAppendDurable ==
    ASSUME TypeOK, TypeOK', DurableInv, NEW m \in Members, NEW raws \in Batches,
           BeginAppend(m, raws)
    PROVE  DurableInv' /\ Rises
<1>1. UNCHANGED <<member, retiredAt, owner, lsn, opened, durable>>
  BY DEF BeginAppend, disk, cursor, index
<1>2. pc' # "idle" /\ call'.id = m /\ m \in opened
  BY DEF BeginAppend, NoCall
<1> QED
  BY <1>1, <1>2, MembersAlone DEF DurableInv, CallersOpen

LEMMA CloseDurable ==
    ASSUME TypeOK, TypeOK', DurableInv, NEW m \in Members, Close(m)
    PROVE  DurableInv' /\ Rises
<1>1. /\ UNCHANGED <<member, retiredAt, owner, lsn, durable, pc, call>>
      /\ opened' = opened \ {m} /\ pc = "idle"
  BY DEF Close, cursor, index, disk
<1> QED
  BY <1>1, MembersAlone DEF DurableInv, CallersOpen

-----------------------------------------------------------------------------
(* Syncing a member notes its last record.                                 *)
LEMMA SyncMemberDurable ==
    ASSUME TypeOK, TypeOK', DurableInv, NEW m \in Members,
           SyncMember(m) \/ SealSync(m)
    PROVE  DurableInv' /\ Rises
<1>1. /\ MemberSyncLocked(m)
      /\ UNCHANGED <<retiredAt, owner, lsn, opened, pc, call>>
  BY DEF SyncMember, SealSync
<1>2. durable' \in {durable, lsn}
  BY <1>1 DEF MemberSyncLocked, SyncUpTo, SyncLocked
<1>3. durable \in Nat /\ lsn \in Nat /\ durable <= lsn
  BY DEF DurableInv, NotesBehind, TypeOK, CursorOK
<1>4. durable' >= durable /\ durable' <= lsn'
  BY <1>1, <1>2, <1>3
<1>5. \A k \in Members : member[k] \in MemberStates
  BY DEF TypeOK, IndexOK
<1>6. \A k \in Members :
         /\ member'[k].lsn = member[k].lsn /\ member'[k].seq = member[k].seq
         /\ member'[k].durableSeq \in {member[k].durableSeq, member[k].seq}
         /\ member'[k].initialized = member[k].initialized
  BY <1>1, <1>5 DEF MemberSyncLocked, TypeOK, IndexOK, MemberStates
<1>7. NotesBehind'
  BY <1>4, <1>5, <1>6 DEF DurableInv, NotesBehind, MemberStates
<1>8. UnopenedEmpty'
  BY <1>1, <1>6 DEF DurableInv, UnopenedEmpty
<1>9. CallersOpen'
  BY <1>1, <1>6 DEF DurableInv, CallersOpen, TypeOK, HandlesOK
<1>10. Rises
  BY <1>4, <1>6, PositionRises DEF DurableInv, Rises
<1> QED
  BY <1>7, <1>8, <1>9, <1>10 DEF DurableInv

(* Accepting a record takes the member from behind the last sync to ahead  *)
(* of it: the note must be what it reported until now.                     *)
LEMMA AcceptDurable ==
    ASSUME TypeOK, TypeOK', DurableInv, NEW m \in Members,
           call \in Calls, call.id = m, NEW at, Accept(at),
           UNCHANGED <<retiredAt, owner, durable, opened>>
    PROVE  DurableInv' /\ Rises
<1> DEFINE old == member[m]
<1>1. m \in opened
  BY CallsAreNotNoCall DEF DurableInv, CallersOpen
<1>2. /\ old \in MemberStates /\ old.seq \in Nat /\ old.lsn \in Nat
      /\ old.durableSeq \in Nat /\ old.durableSeq <= old.seq /\ old.initialized
  BY <1>1 DEF DurableInv, NotesBehind, CallersOpen, TypeOK, IndexOK, MemberStates
<1>3. durable \in Nat /\ lsn \in Nat /\ durable <= lsn
  BY DEF DurableInv, NotesBehind, TypeOK, CursorOK
<1>4. \A k \in Members \ {m} : member'[k] = member[k]
  BY <1>1 DEF Accept, TypeOK, IndexOK
<1>5. /\ member'[m].seq = old.seq + 1 /\ member'[m].lsn = lsn + 1
      /\ member'[m].durableSeq = IF old.lsn <= durable THEN old.seq ELSE old.durableSeq
      /\ member'[m].initialized = old.initialized
  BY <1>1, <1>2 DEF Accept, TypeOK, IndexOK, MemberStates
<1>6. lsn' = lsn + 1 /\ durable' = durable
  BY DEF Accept
<1>7. NotesBehind'
  <2>1. member'[m].durableSeq <= member'[m].seq
    BY <1>2, <1>5
  <2>2. durable' <= lsn'
    BY <1>3, <1>6
  <2> QED
    BY <1>4, <2>1, <2>2 DEF DurableInv, NotesBehind
<1>8. UnopenedEmpty'
  BY <1>2, <1>4, <1>5 DEF DurableInv, UnopenedEmpty
<1>9. CallersOpen'
  <2>1. \A k \in opened' : member'[k].initialized
    BY <1>2, <1>4, <1>5 DEF DurableInv, CallersOpen, TypeOK, HandlesOK
  <2>2. owner' # "open" => opened' = {}
    BY DEF DurableInv, CallersOpen
  <2>3. (pc' = "idle" /\ call' = NoCall) \/ (pc' # "idle" /\ call'.id = m)
    BY DEF Accept, Calls
  <2> QED
    BY <1>1, <2>1, <2>2, <2>3 DEF CallersOpen
<1>10. Rises
  <2>1. KeptSeq(m)' >= KeptSeq(m)
    <3>1. ~(member'[m].lsn <= durable')
      BY <1>3, <1>5, <1>6
    <3>2. KeptSeq(m)' = KeptSeq(m)
      BY <3>1, <1>5 DEF KeptSeq
    <3>3. KeptSeq(m) \in Nat
      BY <1>2 DEF KeptSeq
    <3> QED
      BY <3>2, <3>3
  <2>2. \A k \in Members \ {m} : KeptSeq(k)' >= KeptSeq(k)
    <3>1. durable' >= durable
      BY <1>3, <1>6
    <3> QED
      BY <3>1, <1>4, PositionRises DEF DurableInv
  <2> QED
    BY <2>1, <2>2 DEF Rises
<1> QED
  BY <1>7, <1>8, <1>9, <1>10 DEF DurableInv

(* Opening a member may put it at its checkpoint: it reported nothing yet. *)
LEMMA OpenMemberDurable ==
    ASSUME TypeOK, TypeOK', DurableInv, NEW m \in Members, OpenMember(m)
    PROVE  DurableInv' /\ Rises
<1>1. /\ UNCHANGED <<retiredAt, owner, lsn, pc, call>> /\ opened' = opened \cup {m}
      /\ owner = "open" /\ retiredAt[m] = None
  BY DEF OpenMember, Locked
<1>2. durable' \in {durable, lsn}
  BY DEF OpenMember, SyncUpTo, SyncLocked
<1>3. durable \in Nat /\ lsn \in Nat /\ durable <= lsn
  BY DEF DurableInv, NotesBehind, TypeOK, CursorOK
<1>4. durable' >= durable /\ durable' <= lsn'
  BY <1>1, <1>2, <1>3
<1>5. CASE member[m].initialized
  <2>1. member' = member
    BY <1>5 DEF OpenMember
  <2>2. NotesBehind' /\ UnopenedEmpty' /\ Rises
    BY <1>1, <1>2, <2>1, MembersAlone
  <2> QED
    BY <1>1, <1>5, <2>1, <2>2 DEF DurableInv, CallersOpen
<1>6. CASE ~member[m].initialized
  <2>1. \A k \in Members \ {m} : member'[k] = member[k]
    BY <1>6 DEF OpenMember, TypeOK, IndexOK
  <2>2. /\ member'[m].seq = manifest[m] /\ member'[m].durableSeq = manifest[m]
        /\ member'[m].initialized /\ manifest[m] \in Nat
    BY <1>6 DEF OpenMember, TypeOK, IndexOK, MemberStates, RegistryOK
  <2>3. member[m].seq = 0 /\ member[m].durableSeq = 0
    BY <1>1, <1>6 DEF DurableInv, UnopenedEmpty
  <2>4. NotesBehind'
    BY <1>4, <2>1, <2>2 DEF DurableInv, NotesBehind
  <2>5. UnopenedEmpty'
    BY <1>1, <2>1, <2>2 DEF DurableInv, UnopenedEmpty
  <2>6. CallersOpen'
    BY <1>1, <2>1, <2>2 DEF DurableInv, CallersOpen, TypeOK, HandlesOK
  <2>7. KeptSeq(m)' >= KeptSeq(m)
    BY <2>2, <2>3 DEF KeptSeq
  <2>8. \A k \in Members \ {m} : KeptSeq(k)' >= KeptSeq(k)
    BY <1>4, <2>1, PositionRises DEF DurableInv
  <2> QED
    BY <2>4, <2>5, <2>6, <2>7, <2>8 DEF DurableInv, Rises
<1> QED
  BY <1>5, <1>6

(* A checkpoint or a retirement moves no position.                         *)
LEMMA SettleDurable ==
    ASSUME TypeOK, TypeOK', DurableInv, NEW m \in Members,
           SealCheckpoint(m) \/ Retire(m)
    PROVE  DurableInv' /\ Rises
<1>1. UNCHANGED <<owner, lsn, durable, opened, call>>
  BY DEF SealCheckpoint, Retire, cursor
<1>2. \A k \in Members :
         /\ member'[k].lsn = member[k].lsn /\ member'[k].seq = member[k].seq
         /\ member'[k].durableSeq = member[k].durableSeq
         /\ member'[k].initialized = member[k].initialized
  BY DEF SealCheckpoint, Retire, TypeOK, IndexOK, MemberStates
<1>3. \A k \in Members : retiredAt'[k] = None => retiredAt[k] = None
  BY DEF SealCheckpoint, Retire, disk, TypeOK, RegistryOK
<1>4. (pc = "idle" \/ pc' # "idle")
  BY DEF SealCheckpoint, Retire, Locked
<1>5. durable' >= durable
  <2>1. durable \in Nat /\ durable' = durable
    BY <1>1 DEF TypeOK, CursorOK
  <2> QED
    BY <2>1
<1>6. NotesBehind'
  BY <1>1, <1>2 DEF DurableInv, NotesBehind
<1>7. UnopenedEmpty'
  BY <1>1, <1>2, <1>3 DEF DurableInv, UnopenedEmpty
<1>8. CallersOpen'
  BY <1>1, <1>2, <1>4 DEF DurableInv, CallersOpen, TypeOK, HandlesOK
<1>9. Rises
  BY <1>2, <1>5, PositionRises DEF DurableInv, Rises
<1> QED
  BY <1>6, <1>7, <1>8, <1>9 DEF DurableInv

-----------------------------------------------------------------------------
(* Nothing of the process survives its death.                              *)
LEMMA CrashDurable ==
    ASSUME TypeOK, TypeOK', DurableInv, NEW power \in BOOLEAN, Crash(power)
    PROVE  DurableInv' /\ Rises
<1>1. PICK upTo : Died(upTo)
  BY DEF Crash
<1>2. /\ owner' = "down" /\ opened' = {} /\ pc' = "idle" /\ call' = NoCall
      /\ durable' = lsn' /\ member' = [k \in Members |-> FreshMember]
  BY <1>1 DEF Died
<1>3. durable' <= lsn'
  <2>1. lsn' \in Nat /\ durable' = lsn'
    BY <1>2 DEF TypeOK, CursorOK
  <2> QED
    BY <2>1
<1> QED
  BY <1>2, <1>3 DEF DurableInv, NotesBehind, UnopenedEmpty, CallersOpen, Rises,
                    FreshMember

(* What the scan finds is durable, and it refuses the frames of a member   *)
(* whose MANIFEST was never published.                                     *)
LEMMA OpenDurable ==
    ASSUME TypeOK, TypeOK', DurableInv, Open
    PROVE  DurableInv' /\ Rises
<1>1. /\ owner = "down" /\ ~Corrupt /\ durable' = lsn'
      /\ member' = [m \in Members |-> ScannedMember(m)]
      /\ UNCHANGED <<retiredAt, opened, pc, call>>
  BY DEF Open, Scannable
<1>2. opened = {} /\ pc = "idle" /\ call = NoCall
  BY <1>1 DEF DurableInv, CallersOpen, TypeOK, CallOK
<1>3. \A m \in Members : member'[m].durableSeq = member'[m].seq
  BY <1>1 DEF ScannedMember
<1>4. NotesBehind'
  <2>1. durable' <= lsn'
    <3>1. lsn' \in Nat /\ durable' = lsn'
      BY <1>1 DEF TypeOK, CursorOK
    <3> QED
      BY <3>1
  <2>2. \A m \in Members : member'[m].seq \in Nat
    BY DEF TypeOK, IndexOK, MemberStates
  <2> QED
    BY <1>3, <2>1, <2>2 DEF NotesBehind
<1>5. UnopenedEmpty'
  <2> SUFFICES ASSUME NEW m \in Members, retiredAt[m] = None,
                      ~member'[m].initialized
               PROVE  member'[m].seq = 0
    BY <1>1, <1>3 DEF UnopenedEmpty
  <2>1. manifest[m] = None
    BY <1>1 DEF ScannedMember
  <2>2. FramesOf(m) = {}
    <3> SUFFICES ASSUME NEW f \in FramesOf(m)
                 PROVE  FALSE
      OBVIOUS
    <3>1. f \in frames /\ f.id = m
      BY DEF FramesOf
    <3>2. CorruptFrame(f)
      BY <3>1, <2>1 DEF CorruptFrame
    <3> QED
      BY <1>1, <3>1, <3>2 DEF Corrupt
  <2>3. ScanCheckpoint(m) = 0
    BY <2>1 DEF ScanCheckpoint
  <2> QED
    BY <1>1, <2>2, <2>3 DEF ScannedMember
<1>6. CallersOpen'
  BY <1>1, <1>2 DEF CallersOpen
<1>7. Rises
  BY <1>1 DEF Rises
<1> QED
  BY <1>4, <1>5, <1>6, <1>7 DEF DurableInv

(* What opening does before the owner is open.                             *)
LEMMA ScanDurable ==
    ASSUME TypeOK, TypeOK', DurableInv, OpenRefused \/ PublishBoundary \/ CrashInOpen
    PROVE  DurableInv' /\ Rises
<1>1. /\ UNCHANGED <<member, lsn, durable, opened, pc, call>>
      /\ owner = "down" /\ owner' # "open"
  BY DEF OpenRefused, PublishBoundary, CrashInOpen, Scannable, cursor, index
<1> QED
  BY <1>1 DEF DurableInv, NotesBehind, UnopenedEmpty, CallersOpen, Rises

LEMMA StutterDurable ==
    ASSUME TypeOK, TypeOK', DurableInv, UNCHANGED vars
    PROVE  DurableInv' /\ Rises
<1>1. UNCHANGED <<member, retiredAt, owner, lsn, durable, opened, pc, call>>
  BY DEF vars, disk, cursor, index
<1> QED
  BY <1>1, MembersAlone DEF DurableInv, CallersOpen

(* Every step.                                                             *)
LEMMA StepDurable ==
    ASSUME TypeOK, TypeOK', DurableInv, [Next]_vars
    PROVE  DurableInv' /\ Rises
<1>1. CASE CallStep
  <2>1. CASE Preflight \/ AppendRefused \/ Roll \/ GcUnlink \/ GcEvidence \/ GcReturn
    BY <2>1, CallStepDurable
  <2>2. CASE Push
    <3>1. /\ call \in Calls /\ Accept([segment |-> segment, offset |-> offset])
          /\ UNCHANGED <<retiredAt, owner, durable, opened>>
      BY <2>2 DEF Push, Fits, TypeOK, CallOK
    <3> QED
      BY <3>1, AcceptDurable DEF Calls
  <2>3. CASE PushRolled
    <3>1. /\ call \in Calls
          /\ Accept([segment |-> segment + 1, offset |-> HeaderLen])
          /\ UNCHANGED <<retiredAt, owner, durable, opened>>
      BY <2>3 DEF PushRolled, TypeOK, CallOK
    <3> QED
      BY <3>1, AcceptDurable DEF Calls
  <2> QED
    BY <1>1, <2>1, <2>2, <2>3 DEF CallStep
<1>2. CASE Sync
  BY <1>2, OwnerStepDurable
<1>3. CASE IoError
  BY <1>3, OwnerStepDurable
<1>4. CASE \E m \in Members : \E raws \in Batches : BeginAppend(m, raws)
  BY <1>4, BeginAppendDurable
<1>5. CASE \E m \in Members : Register(m) \/ PublishInitial(m) \/ SealPublish(m)
  BY <1>5, PublicationDurable
<1>6. CASE \E m \in Members : SyncMember(m) \/ SealSync(m)
  BY <1>6, SyncMemberDurable
<1>7. CASE \E m \in Members : OpenMember(m) \/ Close(m)
  BY <1>7, OpenMemberDurable, CloseDurable
<1>8. CASE \E m \in Members : SealCheckpoint(m) \/ Retire(m)
  BY <1>8, SettleDurable
<1>9. CASE \E power \in BOOLEAN : Crash(power)
  BY <1>9, CrashDurable
<1>10. CASE OpenRefused \/ PublishBoundary \/ CrashInOpen
  BY <1>10, ScanDurable
<1>11. CASE Open
  BY <1>11, OpenDurable
<1>12. CASE UNCHANGED vars
  BY <1>12, StutterDurable
<1> QED
  BY <1>1, <1>2, <1>3, <1>4, <1>5, <1>6, <1>7, <1>8, <1>9, <1>10, <1>11, <1>12
     DEF Next

(* What durable_position reports of a member never falls while the owner   *)
(* is open and no error has poisoned it: not when the member runs ahead of *)
(* the last sync, not when the log rolls or collects, and not when another *)
(* member is opened, sealed or retired.                                    *)
THEOREM PositionsRise == Spec => DurableNeverFalls
<1>1. Init => TypeOK /\ DurableInv
  BY InitType, InitDurable
<1>2. TypeOK /\ TypeOK' /\ DurableInv /\ [Next]_vars => DurableInv'
  BY StepDurable
<1>3. TypeOK /\ TypeOK' /\ DurableInv /\ [Next]_vars
        => [owner = "open" /\ owner' = "open" /\ ~poison' =>
               \A m \in Members : DurableSeq(m)' >= DurableSeq(m)]_vars
  <2> SUFFICES ASSUME TypeOK, TypeOK', DurableInv, [Next]_vars,
                      owner = "open", owner' = "open", ~poison', NEW m \in Members
               PROVE  DurableSeq(m)' >= DurableSeq(m)
    OBVIOUS
  <2>1. KeptSeq(m)' >= KeptSeq(m)
    BY StepDurable DEF Rises
  <2>2. KeptSeq(m) \in Nat /\ KeptSeq(m)' \in Nat
    BY DEF TypeOK, IndexOK, MemberStates, KeptSeq
  <2>3. DurableSeq(m)' = KeptSeq(m)' /\ DurableSeq(m) \in {0, KeptSeq(m)}
    BY DEF DurableSeq
  <2> QED
    BY <2>1, <2>2, <2>3
<1>4. Spec => []TypeOK
  BY TypeCorrect
<1> QED
  BY <1>1, <1>2, <1>3, <1>4, PTL DEF Spec, DurableNeverFalls

-----------------------------------------------------------------------------
(***************************************************************************)
(* What the files of the shared log hold.                                  *)
(***************************************************************************)
(* The frame f lies before the frame g. *)
Ahead(f, g) == \/ f.at.segment < g.at.segment
               \/ f.at.segment = g.at.segment /\ FrameEnd(f) <= g.at.offset

(* The first LSN behind segment n. *)
After(n) == IF n + 1 \in DOMAIN files THEN files[n + 1].first ELSE lsn + 1

(* The segment a record would be appended to. *)
Active == IF owner = "open" THEN segment ELSE LastFile

Live(m) == retiredAt[m] = None

(* The log. *)
FramesApart ==
    \A f, g \in frames : /\ f.lsn = g.lsn => f = g
                         /\ f.lsn < g.lsn => Ahead(f, g)
FramesPlaced ==
    \A f \in frames : /\ f.at.segment \in DOMAIN files /\ HeaderLen <= f.at.offset
                      /\ f.lsn <= lsn /\ f.id \in registered
SeqsRise == \A f, g \in frames : f.id = g.id /\ f.lsn < g.lsn => f.seq < g.seq
LinkedTo(f, g) == /\ g \in Predecessors(f) /\ f.seq = g.seq + 1 /\ f.prev = g.at
                  /\ \A h \in Predecessors(f) : h.lsn <= g.lsn
Linked ==
    \A f \in frames : /\ f.prev = NoPointer \/ Before(f.prev, f.at)
                      /\ Predecessors(f) # {} => \E g \in frames : LinkedTo(f, g)
FilesInRow == DOMAIN files = LowestFile .. LastFile
Numbered(n) ==
    /\ files[n].first <= After(n)
    /\ \A f \in FramesIn(n) : files[n].first <= f.lsn /\ f.lsn < After(n)
    /\ \A k \in files[n].first .. After(n) - 1 : \E f \in FramesIn(n) : f.lsn = k
LogShape == /\ FramesApart /\ FramesPlaced /\ SeqsRise /\ Linked
            /\ FilesInRow /\ \A n \in DOMAIN files : Numbered(n)

(* The files. *)
Frozen(n) == evidence[n] = [length |-> files[n].length, end |-> ScanEnd(n),
                            next |-> After(n)]
Boundaries ==
    /\ \A n \in DOMAIN files : Empty(n) => FramesIn(n) = {}
    /\ \A n \in DOMAIN files : Empty(n) => \/ n \in DOMAIN evidence
                                           \/ n = LastFile /\ n # LowestFile
    /\ \A n \in DOMAIN evidence : /\ n \in Int /\ n <= Active
                                  /\ owner = "open" => n < Active
                                  /\ n \in DOMAIN files => Frozen(n)
    /\ \A n \in DOMAIN files \ DOMAIN evidence : n < Active => ~Torn(n)
    /\ \A n \in DOMAIN files : /\ files[n].synced <= files[n].length
                               /\ owner # "open" => files[n].synced = files[n].length

(* What is durable. *)
DurableFrames ==
    /\ owner # "open" => durable = lsn
    /\ files[LastFile].first <= durable + 1
    /\ \A f \in frames :
           \/ f.lsn <= durable /\ Synced(f)
           \/ /\ f.lsn > durable /\ f.at.segment = segment /\ owner = "open"
              /\ files[segment].synced <= f.at.offset

(* The position of the next record, and the segment a roll has begun. *)
CursorTrue ==
    owner = "open" =>
        /\ segment \in DOMAIN files /\ LastFile \in {segment, segment + 1}
        /\ LastFile = segment + 1 => /\ durable = lsn /\ (pc = "roll" \/ poison)
                                     /\ files[LastFile].first = lsn + 1
        /\ HeaderLen <= files[segment].synced /\ files[segment].length <= offset
        /\ \A f \in FramesIn(segment) : FrameEnd(f) <= offset
        /\ offset = HeaderLen \/ \E f \in FramesIn(segment) : FrameEnd(f) = offset
        /\ durable = lsn => files[segment].synced = offset
BusyHealthy == pc # "idle" => ~poison

(* The index of the segments. *)
IndexTrue ==
    owner = "open" =>
        /\ DOMAIN segments = {n \in DOMAIN files : n <= segment}
        /\ \A n \in DOMAIN segments :
               /\ DOMAIN segments[n].members = {f.id : f \in FramesIn(n)}
               /\ \A f \in FramesIn(n) : f.seq <= segments[n].members[f.id]

(* What a MANIFEST relies on. *)
ManifestKept(m) ==
    /\ settled[m] <= manifest[m]
    /\ Live(m) => \A f \in FramesOf(m) :
           /\ settled[m] # None
           /\ f.seq <= manifest[m]
                  => \E g \in FramesOf(m) : g.seq >= manifest[m] /\ g.lsn <= durable
    /\ ~Live(m) => m \notin opened /\ \A f \in FramesOf(m) : f.seq <= retiredAt[m]
ManifestsKept == \A m \in Members : ManifestKept(m)

(* A member that lives, of an owner that is open. *)
LastOf(m, f) == /\ f \in FramesOf(m) /\ f.seq = member[m].seq
                /\ f.at = member[m].latest /\ f.lsn = member[m].lsn
Positions(m) ==
    member[m].lsn > durable =>
        /\ \A f \in FramesOf(m) : f.lsn <= durable <=> f.seq <= member[m].durableSeq
        /\ member[m].durableSeq > member[m].checkpoint
               => \E f \in FramesOf(m) : /\ f.seq = member[m].durableSeq
                                         /\ f.at = member[m].durablePointer
MemberTrue(m) ==
    /\ member[m].checkpoint <= ScanCheckpoint(m) /\ ScanCheckpoint(m) <= member[m].seq
    /\ member[m].lsn <= lsn /\ ~member[m].retired
    /\ FramesOf(m) # {} => \E f \in frames : LastOf(m, f)
    /\ \A f \in FramesOf(m) : f.lsn <= member[m].lsn
    /\ member[m].seq > member[m].checkpoint => FramesOf(m) # {}
    /\ \A f \in FramesOf(m) : f.seq > member[m].checkpoint + 1 => Predecessors(f) # {}
    /\ \/ member[m].latest = NoPointer
       \/ Before(member[m].latest, [segment |-> segment, offset |-> offset])
    /\ Positions(m)
MembersTrue == owner = "open" => \A m \in Members : Live(m) => MemberTrue(m)

(* Who is open and who is sealing. *)
HandleTrue(m) ==
    /\ m \in opened => m \in registered /\ Live(m) /\ settled[m] # None
    /\ sealing[m] # "no" =>
           /\ m \in opened /\ member[m].lsn <= durable
           /\ call = NoCall \/ call.id # m
           /\ sealing[m] = "published" => manifest[m] = member[m].seq
HandlesTrue == \A m \in Members : HandleTrue(m)

(* What a dead process leaves behind of a member whose MANIFEST has not    *)
(* been taken back.                                                        *)
Promised(m) ==
    /\ Live(m) => \/ promised[m].seq <= ScanCheckpoint(m)
                  \/ \E f \in FramesOf(m) : f.seq >= promised[m].seq
    /\ \A f \in FramesOf(m) : f.seq > ScanCheckpoint(m) + 1 => Predecessors(f) # {}
LeftBehind ==
    owner # "open" => \A m \in Members : TakenBack(m) \/ Promised(m)

LogInv == /\ LogShape /\ Boundaries /\ DurableFrames /\ CursorTrue /\ BusyHealthy
          /\ IndexTrue /\ ManifestsKept /\ MembersTrue /\ HandlesTrue /\ LeftBehind

-----------------------------------------------------------------------------
(***************************************************************************)
(* Frames, rows of files and what the scan computes from them.             *)
(***************************************************************************)
(* The parts of a frame, and of the pointer to the one before.             *)
LEMMA FrameParts ==
    ASSUME TypeOK
    PROVE  \A f \in frames :
               /\ f.id \in Members /\ f.seq \in Nat \ {0} /\ f.lsn \in Nat \ {0}
               /\ f.at \in Pointers /\ f.at.segment \in Nat /\ f.at.offset \in Nat
               /\ f.length \in Nat \ {0} /\ FrameEnd(f) \in Nat
               /\ FrameEnd(f) = f.at.offset + f.length
               /\ f.prev \in Pointers /\ f.prev.segment \in Nat /\ f.prev.offset \in Nat
<1> TAKE f \in frames
<1>1. f \in Frames
  BY DEF TypeOK, FramesOK
<1>2. f.prev \in Pointers
  BY <1>1 DEF Frames
<1>3. f.prev.segment \in Nat /\ f.prev.offset \in Nat
  BY <1>2 DEF Pointers
<1> QED
  BY <1>2, <1>3, FrameType DEF FrameEnd

(* A frame behind another has the higher number.                           *)
LEMMA AheadIsEarlier ==
    ASSUME TypeOK, FramesApart, NEW f \in frames, NEW g \in frames,
           f.at.segment < g.at.segment
    PROVE  f.lsn < g.lsn
<1>1. /\ f.lsn \in Nat /\ g.lsn \in Nat /\ f.at.segment \in Nat /\ g.at.segment \in Nat
  BY FrameParts
<1>2. g.lsn < f.lsn => Ahead(g, f)
  BY DEF FramesApart
<1>3. ~Ahead(g, f)
  BY <1>1 DEF Ahead
<1>4. f.lsn # g.lsn
  BY <1>1 DEF FramesApart
<1> QED
  BY <1>1, <1>2, <1>3, <1>4

(* The ends of a row of numbers.                                           *)
LEMMA RowEnds ==
    ASSUME NEW a \in Int, NEW b \in Int, a <= b
    PROVE  Min(a .. b) = a /\ Max(a .. b) = b
<1>2. a \in a .. b /\ b \in a .. b
  OBVIOUS
<1>1. IsFiniteSet(a .. b) /\ a .. b \subseteq Int /\ a .. b # {}
  <2>1. IsFiniteSet(a .. b)
    BY FS_Interval
  <2>2. a .. b \subseteq Int
    OBVIOUS
  <2> QED
    BY <1>2, <2>1, <2>2
<1>3. Min(a .. b) \in a .. b /\ Min(a .. b) <= a
  BY <1>1, <1>2, MinOfFinite
<1>4. Max(a .. b) \in a .. b /\ b <= Max(a .. b)
  BY <1>1, <1>2, MaxOfFinite
<1> QED
  BY <1>3, <1>4

(* The numbers of the files are positive.                                  *)
LEMMA RowNumbers ==
    ASSUME TypeOK
    PROVE  /\ LowestFile \in Nat \ {0} /\ LastFile \in Nat \ {0} /\ LowestFile <= LastFile
           /\ LowestFile \in DOMAIN files /\ LastFile \in DOMAIN files
           /\ \A n \in DOMAIN files : /\ n \in Nat \ {0} /\ LowestFile <= n /\ n <= LastFile
                                      /\ files[n].first \in Nat \ {0}
                                      /\ files[n].length \in Nat /\ files[n].synced \in Nat
           /\ lsn \in Nat /\ durable \in Nat /\ segment \in Nat /\ offset \in Nat
           /\ HeaderLen \in Nat \ {0}
<1>1. \A n \in DOMAIN files : files[n] \in [first : Nat \ {0}, length : Nat, synced : Nat]
  BY DEF TypeOK, FilesOK
<1> QED
  BY <1>1, FileNumbers, LengthsAssumption DEF TypeOK, FilesOK, CursorOK

(* Where the scan stops in a segment that is not empty.                    *)
LEMMA ScanEnds ==
    ASSUME TypeOK, NEW n, ~Empty(n)
    PROVE  /\ ScanEnd(n) \in Nat /\ HeaderLen <= ScanEnd(n)
           /\ \A f \in FramesIn(n) : FrameEnd(f) <= ScanEnd(n)
           /\ ScanEnd(n) = HeaderLen \/ \E f \in FramesIn(n) : FrameEnd(f) = ScanEnd(n)
<1> DEFINE ends == [f \in FramesIn(n) |-> FrameEnd(f)]
           S == {FrameEnd(f) : f \in FramesIn(n)} \cup {HeaderLen}
<1>1. IsFiniteSet(FramesIn(n)) /\ FramesIn(n) \subseteq frames
  BY CountType DEF FramesIn
<1>2. IsFiniteSet({ends[f] : f \in FramesIn(n)})
  <2> HIDE DEF ends
  <2> QED
    BY <1>1, ImageFinite
<1>3. {FrameEnd(f) : f \in FramesIn(n)} = {ends[f] : f \in FramesIn(n)}
  OBVIOUS
<1>4. IsFiniteSet(S)
  BY <1>2, <1>3, FS_AddElement
<1>5. S \subseteq Int /\ S # {}
  BY <1>1, FrameParts, LengthsAssumption
<1>6. ScanEnd(n) = Max(S)
  BY DEF ScanEnd
<1>7. Max(S) \in S /\ \A x \in S : x <= Max(S)
  <2> HIDE DEF S
  <2> QED
    BY <1>4, <1>5, MaxOfFinite
<1> QED
  BY <1>6, <1>7, ScanEndType

(* The bytes that end where the frames do are not torn, and only they.     *)
LEMMA EndsThere ==
    ASSUME TypeOK, NEW n, ~Empty(n), NEW e \in Nat, HeaderLen <= e,
           \A f \in FramesIn(n) : FrameEnd(f) <= e,
           e = HeaderLen \/ \E f \in FramesIn(n) : FrameEnd(f) = e
    PROVE  ScanEnd(n) = e
<1>1. /\ ScanEnd(n) \in Nat /\ HeaderLen <= ScanEnd(n)
      /\ \A f \in FramesIn(n) : FrameEnd(f) <= ScanEnd(n)
      /\ ScanEnd(n) = HeaderLen \/ \E f \in FramesIn(n) : FrameEnd(f) = ScanEnd(n)
  BY ScanEnds
<1>2. HeaderLen \in Nat
  BY LengthsAssumption
<1> QED
  BY <1>1, <1>2

(* A segment whose frames and whose header stay as they are.              *)
LEMMA ScanSame ==
    ASSUME NEW n, FramesIn(n)' = FramesIn(n), Empty(n)' = Empty(n)
    PROVE  ScanEnd(n)' = ScanEnd(n)
BY DEF ScanEnd

(* An empty segment has no end, any other has at least its header.         *)
LEMMA EmptyEnd ==
    ASSUME TypeOK, NEW n
    PROVE  Empty(n) <=> ScanEnd(n) = 0
<1>1. CASE Empty(n)
  BY <1>1 DEF ScanEnd
<1>2. CASE ~Empty(n)
  BY <1>2, ScanEnds, LengthsAssumption
<1> QED
  BY <1>1, <1>2

-----------------------------------------------------------------------------
(***************************************************************************)
(* What can happen to the log: nothing, a new file, a record, the lowest   *)
(* file goes, a crash cuts it.                                             *)
(***************************************************************************)
(* Nothing: what has been written and synced, and who is registered, does  *)
(* not matter to the shape of the log.                                     *)
LEMMA LogSame ==
    ASSUME TypeOK, TypeOK', LogShape, frames' = frames, lsn' = lsn,
           DOMAIN files' = DOMAIN files,
           \A n \in DOMAIN files : files'[n].first = files[n].first,
           registered \subseteq registered'
    PROVE  /\ LogShape' /\ LowestFile' = LowestFile /\ LastFile' = LastFile
           /\ \A n : FramesIn(n)' = FramesIn(n) /\ After(n)' = After(n)
<1>1. LowestFile' = LowestFile /\ LastFile' = LastFile
  BY DEF LowestFile, LastFile
<1>2. \A n : FramesIn(n)' = FramesIn(n)
  BY DEF FramesIn
<1>3. \A n : After(n)' = After(n)
  BY DEF After
<1>4. FramesApart' /\ SeqsRise'
  BY DEF LogShape, FramesApart, SeqsRise, Ahead, FrameEnd
<1>5. FramesPlaced'
  BY DEF LogShape, FramesPlaced
<1>6. Linked'
  BY DEF LogShape, Linked, LinkedTo, Predecessors, FramesOf
<1>7. FilesInRow'
  BY <1>1 DEF LogShape, FilesInRow
<1>8. \A n \in DOMAIN files' : Numbered(n)'
  BY <1>2, <1>3 DEF LogShape, Numbered
<1> QED
  BY <1>1, <1>2, <1>3, <1>4, <1>5, <1>6, <1>7, <1>8 DEF LogShape

(* A new file behind the last, for the next record.                        *)
LEMMA LogFileAdded ==
    ASSUME TypeOK, TypeOK', LogShape, frames' = frames, lsn' = lsn,
           DOMAIN files' = DOMAIN files \cup {LastFile + 1},
           \A n \in DOMAIN files : files'[n].first = files[n].first,
           files'[LastFile + 1].first = lsn + 1,
           registered' = registered
    PROVE  /\ LogShape' /\ LowestFile' = LowestFile /\ LastFile' = LastFile + 1
           /\ \A n : FramesIn(n)' = FramesIn(n)
           /\ \A n \in DOMAIN files : After(n)' = After(n)
           /\ FramesIn(LastFile + 1) = {} /\ LastFile + 1 \notin DOMAIN files
<1> DEFINE last == LastFile
           low == LowestFile
<1>1. /\ low \in Nat \ {0} /\ last \in Nat \ {0} /\ low <= last /\ lsn \in Nat
      /\ \A n \in DOMAIN files : n \in Nat \ {0} /\ low <= n /\ n <= last
      /\ last \in DOMAIN files
  BY RowNumbers
<1>2. DOMAIN files = low .. last
  BY DEF LogShape, FilesInRow
<1> HIDE DEF last, low
<1>3. DOMAIN files' = low .. last + 1 /\ last + 1 \notin DOMAIN files
  <2>1. DOMAIN files' = low .. last \cup {last + 1}
    BY <1>2 DEF last
  <2> QED
    BY <1>1, <1>2, <2>1
<1>4. LowestFile' = low /\ LastFile' = last + 1
  BY <1>1, <1>3, RowEnds DEF LowestFile, LastFile
<1>5. \A n : FramesIn(n)' = FramesIn(n)
  BY DEF FramesIn
<1>6. \A n \in DOMAIN files : After(n)' = After(n)
  <2> TAKE n \in DOMAIN files
  <2>1. CASE n = last
    BY <1>1, <1>3, <2>1 DEF After, last
  <2>2. CASE n # last
    <3>1. n + 1 \in DOMAIN files
      BY <1>1, <1>2, <2>2
    <3> QED
      BY <1>2, <1>3, <3>1 DEF After
  <2> QED
    BY <2>1, <2>2
<1>7. FramesIn(last + 1) = {}
  <2>1. \A f \in frames : f.at.segment \in DOMAIN files
    BY DEF LogShape, FramesPlaced
  <2> QED
    BY <1>3, <2>1 DEF FramesIn
<1>8. FramesApart' /\ SeqsRise'
  BY DEF LogShape, FramesApart, SeqsRise, Ahead, FrameEnd
<1>9. FramesPlaced'
  BY DEF LogShape, FramesPlaced
<1>10. Linked'
  BY DEF LogShape, Linked, LinkedTo, Predecessors, FramesOf
<1>11. FilesInRow'
  BY <1>3, <1>4 DEF FilesInRow
<1>12. ASSUME NEW n \in DOMAIN files' PROVE Numbered(n)'
  <2>1. CASE n \in DOMAIN files
    BY <2>1, <1>5, <1>6 DEF LogShape, Numbered
  <2>2. CASE n = last + 1
    <3>1. last + 2 \notin DOMAIN files' /\ n + 1 = last + 2
      BY <1>1, <1>3, <2>2
    <3>2. After(n)' = lsn + 1
      BY <3>1 DEF After
    <3>3. files'[n].first = lsn + 1
      BY <2>2 DEF last
    <3>4. FramesIn(n)' = {}
      BY <1>5, <1>7, <2>2
    <3>5. files'[n].first .. After(n)' - 1 = {}
      BY <1>1, <3>2, <3>3
    <3> QED
      BY <1>1, <3>2, <3>3, <3>4, <3>5 DEF Numbered
  <2> QED
    BY <1>2, <1>3, <2>1, <2>2, <1>1
<1> QED
  BY <1>3, <1>4, <1>5, <1>6, <1>7, <1>8, <1>9, <1>10, <1>11, <1>12 DEF LogShape, last, low

(* A record is accepted behind all others.                                 *)
LEMMA LogAppended ==
    ASSUME TypeOK, TypeOK', LogShape, NEW new, frames' = frames \cup {new},
           lsn' = lsn + 1, new.lsn = lsn + 1, new.at.segment = LastFile,
           HeaderLen <= new.at.offset, \A f \in frames : Ahead(f, new),
           DOMAIN files' = DOMAIN files,
           \A n \in DOMAIN files : files'[n].first = files[n].first,
           registered' = registered, new.id \in registered,
           new.prev = NoPointer \/ Before(new.prev, new.at),
           \A f \in FramesOf(new.id) : f.seq < new.seq,
           FramesOf(new.id) # {} =>
               \E g \in frames : /\ g.id = new.id /\ new.seq = g.seq + 1 /\ new.prev = g.at
                                 /\ \A h \in FramesOf(new.id) : h.lsn <= g.lsn
    PROVE  /\ LogShape' /\ LowestFile' = LowestFile /\ LastFile' = LastFile
           /\ \A n : n # LastFile => FramesIn(n)' = FramesIn(n)
           /\ FramesIn(LastFile)' = FramesIn(LastFile) \cup {new}
           /\ \A n \in DOMAIN files : n # LastFile => After(n)' = After(n)
           /\ \A f \in frames : Predecessors(f)' = Predecessors(f)
           /\ Predecessors(new)' = FramesOf(new.id)
           /\ \A m : FramesOf(m)' = IF m = new.id THEN FramesOf(m) \cup {new} ELSE FramesOf(m)
           /\ new \notin frames
<1>1. /\ \A f \in frames : f.lsn <= lsn /\ f.lsn \in Nat \ {0} /\ f.at.segment \in DOMAIN files
      /\ lsn \in Nat /\ LastFile \in DOMAIN files
  BY RowNumbers, FrameParts DEF LogShape, FramesPlaced
<1>2. \A f \in frames : f.lsn < new.lsn /\ ~(new.lsn < f.lsn) /\ f.lsn # new.lsn
  BY <1>1
<1>3. new \notin frames
  BY <1>2
<1>4. LowestFile' = LowestFile /\ LastFile' = LastFile
  BY DEF LowestFile, LastFile
<1>5. /\ \A n : n # LastFile => FramesIn(n)' = FramesIn(n)
      /\ FramesIn(LastFile)' = FramesIn(LastFile) \cup {new}
  BY <1>4 DEF FramesIn
<1>6. \A n \in DOMAIN files : n # LastFile => After(n)' = After(n)
  <2> TAKE n \in DOMAIN files
  <2> HAVE n # LastFile
  <2>1. n + 1 \in DOMAIN files
    <3>1. /\ LowestFile \in Nat /\ LastFile \in Nat /\ n \in Nat
          /\ LowestFile <= n /\ n <= LastFile
      BY RowNumbers
    <3>2. n + 1 \in LowestFile .. LastFile
      BY <3>1
    <3> QED
      BY <3>2 DEF LogShape, FilesInRow
  <2> QED
    BY <2>1 DEF After
<1>7. \A m : FramesOf(m)' = IF m = new.id THEN FramesOf(m) \cup {new} ELSE FramesOf(m)
  BY DEF FramesOf
<1>8. \A f \in frames : Predecessors(f)' = Predecessors(f)
  <2> TAKE f \in frames
  <2>1. \A g : g \in Predecessors(f)' <=> g \in frames' /\ g.id = f.id /\ g.lsn < f.lsn
    BY DEF Predecessors, FramesOf
  <2>2. \A g : g \in Predecessors(f) <=> g \in frames /\ g.id = f.id /\ g.lsn < f.lsn
    BY DEF Predecessors, FramesOf
  <2>3. \A g : g \in Predecessors(f)' <=> g \in Predecessors(f)
    BY <1>2, <2>1, <2>2
  <2> QED
    BY <2>3
<1>9. Predecessors(new)' = FramesOf(new.id)
  <2>1. \A g : g \in Predecessors(new)' <=> g \in frames' /\ g.id = new.id /\ g.lsn < new.lsn
    BY DEF Predecessors, FramesOf
  <2>2. ~(new.lsn < new.lsn)
    BY <1>1
  <2>3. \A g : g \in Predecessors(new)' <=> g \in FramesOf(new.id)
    BY <1>2, <2>1, <2>2 DEF FramesOf
  <2> QED
    BY <2>3
<1>10. FramesApart'
  <2>1. \A f, g \in frames : /\ f.lsn = g.lsn => f = g
                             /\ f.lsn < g.lsn => Ahead(f, g)
    BY DEF LogShape, FramesApart
  <2>2. ~(new.lsn < new.lsn)
    BY <1>1
  <2> QED
    BY <1>2, <2>1, <2>2 DEF FramesApart, Ahead, FrameEnd
<1>11. FramesPlaced'
  <2>1. \A f \in frames : f.lsn <= lsn'
    BY <1>1
  <2>2. new.lsn <= lsn'
    BY <1>1
  <2> QED
    BY <1>1, <2>1, <2>2 DEF LogShape, FramesPlaced
<1>12. SeqsRise'
  <2>1. \A f, g \in frames : f.id = g.id /\ f.lsn < g.lsn => f.seq < g.seq
    BY DEF LogShape, SeqsRise
  <2>2. \A f \in frames : f.id = new.id => f.seq < new.seq
    BY DEF FramesOf
  <2>3. ~(new.lsn < new.lsn)
    BY <1>1
  <2> QED
    BY <1>2, <2>1, <2>2, <2>3 DEF SeqsRise
<1>13. Linked'
  <2>1. ASSUME NEW f \in frames
        PROVE  /\ f.prev = NoPointer \/ Before(f.prev, f.at)
               /\ Predecessors(f)' # {} => \E g \in frames' : LinkedTo(f, g)'
    <3>1. \A g : LinkedTo(f, g) => LinkedTo(f, g)'
      BY <1>8 DEF LinkedTo
    <3> QED
      BY <1>8, <3>1 DEF LogShape, Linked
  <2>2. Predecessors(new)' # {} => \E g \in frames' : LinkedTo(new, g)'
    <3> SUFFICES ASSUME FramesOf(new.id) # {}
                 PROVE  \E g \in frames' : LinkedTo(new, g)'
      BY <1>9
    <3>1. PICK g \in frames : /\ g.id = new.id /\ new.seq = g.seq + 1 /\ new.prev = g.at
                              /\ \A h \in FramesOf(new.id) : h.lsn <= g.lsn
      OBVIOUS
    <3>2. LinkedTo(new, g)'
      BY <1>9, <3>1 DEF LinkedTo, FramesOf
    <3> QED
      BY <3>1, <3>2
  <2> QED
    BY <2>1, <2>2 DEF Linked, Before
<1>14. FilesInRow'
  BY <1>4 DEF LogShape, FilesInRow
<1>15. ASSUME NEW n \in DOMAIN files' PROVE Numbered(n)'
  <2>1. CASE n # LastFile
    BY <2>1, <1>5, <1>6 DEF LogShape, Numbered
  <2>2. CASE n = LastFile
    <3>1. n + 1 \notin DOMAIN files
      <4>1. n \in Nat /\ \A k \in DOMAIN files : k <= n /\ k \in Nat
        BY <2>2, RowNumbers
      <4> QED
        BY <4>1
    <3>2. After(n) = lsn + 1 /\ After(n)' = lsn + 2
      <4>1. lsn' + 1 = lsn + 2
        BY <1>1
      <4> QED
        BY <3>1, <4>1 DEF After
    <3>3. /\ files[n].first <= lsn + 1
          /\ \A f \in FramesIn(n) : files[n].first <= f.lsn /\ f.lsn < lsn + 1
          /\ \A k \in files[n].first .. (lsn + 1) - 1 : \E f \in FramesIn(n) : f.lsn = k
      BY <2>2, <3>2 DEF LogShape, Numbered
    <3>4. files[n].first \in Nat /\ files'[n].first = files[n].first
      BY <2>2, RowNumbers
    <3>5. files'[n].first <= After(n)'
      BY <1>1, <3>2, <3>3, <3>4
    <3> PICK a \in Nat : a = files[n].first
      BY <3>4
    <3> PICK l \in Nat : l = lsn
      BY <1>1
    <3>6. \A f \in FramesIn(n)' : files'[n].first <= f.lsn /\ f.lsn < After(n)'
      <4>1. \A f \in FramesIn(n) : f.lsn \in Nat
        BY FrameParts DEF FramesIn
      <4>2. files[n].first <= lsn + 1 /\ lsn + 1 < lsn + 2
        BY <1>1, <3>3
      <4>3. \A f \in FramesIn(n) : files'[n].first <= f.lsn /\ f.lsn < After(n)'
        <5> TAKE f \in FramesIn(n)
        <5>1. a <= f.lsn /\ f.lsn < l + 1 /\ f.lsn \in Nat
          BY <3>3, <4>1
        <5>2. f.lsn < l + 2
          BY <5>1
        <5> QED
          BY <3>2, <3>4, <5>1, <5>2
      <4>4. files'[n].first <= new.lsn /\ new.lsn < After(n)'
        BY <3>2, <3>4, <4>2
      <4>5. FramesIn(n)' = FramesIn(n) \cup {new}
        BY <1>4, <1>5, <2>2
      <4> QED
        BY <4>3, <4>4, <4>5
    <3>7. ASSUME NEW k \in files'[n].first .. After(n)' - 1
          PROVE  \E f \in FramesIn(n)' : f.lsn = k
      <4>1. k \in a .. (l + 2) - 1
        BY <3>2, <3>4
      <4>2. k \in a .. (l + 1) - 1 \/ k = l + 1
        BY <4>1
      <4>3. FramesIn(n)' = FramesIn(n) \cup {new}
        BY <1>4, <1>5, <2>2
      <4> QED
        BY <3>3, <4>2, <4>3
    <3> QED
      BY <3>5, <3>6, <3>7 DEF Numbered
  <2> QED
    BY <2>1, <2>2
<1> QED
  BY <1>3, <1>4, <1>5, <1>6, <1>7, <1>8, <1>9, <1>10, <1>11, <1>12, <1>13, <1>14, <1>15
     DEF LogShape

(* The lowest file goes, with its frames.                                  *)
LEMMA LogFileGone ==
    ASSUME TypeOK, TypeOK', LogShape, LowestFile # LastFile, lsn' = lsn,
           frames' = frames \ FramesIn(LowestFile),
           DOMAIN files' = DOMAIN files \ {LowestFile},
           \A n \in DOMAIN files' : files'[n].first = files[n].first,
           registered' = registered
    PROVE  /\ LogShape' /\ LowestFile' = LowestFile + 1 /\ LastFile' = LastFile
           /\ \A n : n # LowestFile => FramesIn(n)' = FramesIn(n)
           /\ \A n \in DOMAIN files' : After(n)' = After(n)
           /\ \A f \in frames' : \A g \in frames \ frames' : g.lsn < f.lsn
           /\ \A f \in frames' : Predecessors(f)' \subseteq Predecessors(f)
<1> DEFINE last == LastFile
           low == LowestFile
<1>1. /\ low \in Nat \ {0} /\ last \in Nat \ {0} /\ low < last /\ lsn \in Nat
      /\ \A n \in DOMAIN files : n \in Nat \ {0} /\ low <= n /\ n <= last
      /\ last \in DOMAIN files
  BY RowNumbers
<1>2. DOMAIN files = low .. last
  BY DEF LogShape, FilesInRow
<1> HIDE DEF last, low
<1>3. DOMAIN files' = low + 1 .. last
  <2>1. DOMAIN files' = (low .. last) \ {low}
    BY <1>2 DEF low
  <2> QED
    BY <1>1, <2>1
<1>4. LowestFile' = low + 1 /\ LastFile' = last
  BY <1>1, <1>3, RowEnds DEF LowestFile, LastFile
<1>5. \A n : n # low => FramesIn(n)' = FramesIn(n)
  BY DEF FramesIn, low
<1>6. \A n \in DOMAIN files' : After(n)' = After(n)
  <2> TAKE n \in DOMAIN files'
  <2>1. n + 1 # low /\ n \in DOMAIN files
    BY <1>1, <1>2, <1>3
  <2>2. n + 1 \in DOMAIN files' <=> n + 1 \in DOMAIN files
    BY <2>1 DEF low
  <2> QED
    BY <2>2 DEF After
<1>7. \A f \in frames' : \A g \in frames \ frames' : g.lsn < f.lsn
  <2> TAKE f \in frames'
  <2> TAKE g \in frames \ frames'
  <2>1. g.at.segment = low /\ f.at.segment # low /\ f \in frames /\ f.at.segment \in DOMAIN files
    BY DEF FramesIn, low, LogShape, FramesPlaced
  <2>2. g.at.segment < f.at.segment
    BY <1>1, <2>1
  <2> QED
    BY <2>1, <2>2, AheadIsEarlier DEF LogShape
<1>8. \A f \in frames' : Predecessors(f)' \subseteq Predecessors(f)
  BY DEF Predecessors, FramesOf
<1>9. FramesApart' /\ SeqsRise'
  <2>1. frames' \subseteq frames
    OBVIOUS
  <2> QED
    BY <2>1 DEF LogShape, FramesApart, SeqsRise, Ahead, FrameEnd
<1>10. FramesPlaced'
  <2>1. \A f \in frames' : f \in frames /\ f.at.segment # low
    BY DEF FramesIn, low
  <2> QED
    BY <2>1 DEF LogShape, FramesPlaced, low
<1>11. Linked'
  <2> SUFFICES ASSUME NEW f \in frames', Predecessors(f)' # {}
               PROVE  \E g \in frames' : LinkedTo(f, g)'
    BY DEF LogShape, Linked, Before
  <2>1. f \in frames /\ Predecessors(f) # {}
    BY <1>8
  <2>2. PICK g \in frames : LinkedTo(f, g)
    BY <2>1 DEF LogShape, Linked
  <2>3. PICK h \in Predecessors(f)' : TRUE
    OBVIOUS
  <2>4. h \in frames' /\ h \in Predecessors(f)
    BY <1>8 DEF Predecessors, FramesOf
  <2>5. g \in frames'
    <3> SUFFICES ASSUME g \notin frames'
                 PROVE  FALSE
      OBVIOUS
    <3>1. g.lsn < h.lsn
      BY <1>7, <2>4
    <3>2. h.lsn <= g.lsn /\ g.lsn \in Nat /\ h.lsn \in Nat
      BY <2>2, <2>4, FrameParts DEF LinkedTo
    <3> QED
      BY <3>1, <3>2
  <2>6. g \in Predecessors(f)'
    BY <2>2, <2>5 DEF LinkedTo, Predecessors, FramesOf
  <2>7. LinkedTo(f, g)'
    BY <1>8, <2>2, <2>6 DEF LinkedTo
  <2> QED
    BY <2>5, <2>7
<1>12. FilesInRow'
  BY <1>3, <1>4 DEF FilesInRow
<1>13. ASSUME NEW n \in DOMAIN files' PROVE Numbered(n)'
  <2>1. n # low /\ n \in DOMAIN files
    BY DEF low
  <2> QED
    BY <1>5, <1>6, <2>1 DEF LogShape, Numbered
<1> QED
  BY <1>4, <1>5, <1>6, <1>7, <1>8, <1>9, <1>10, <1>11, <1>12, <1>13 DEF LogShape, last, low

(* A crash cuts the log within its last file, or behind it.                *)
LEMMA LogCut ==
    ASSUME TypeOK, TypeOK', LogShape, lsn' \in Nat, lsn' <= lsn,
           frames' = {f \in frames : f.lsn <= lsn'},
           \A f \in frames : f.lsn > lsn' => f.at.segment = LastFile,
           files[LastFile].first <= lsn' + 1,
           DOMAIN files' = DOMAIN files,
           \A n \in DOMAIN files : files'[n].first = files[n].first,
           registered' = registered
    PROVE  /\ LogShape' /\ LowestFile' = LowestFile /\ LastFile' = LastFile
           /\ \A n : n # LastFile => FramesIn(n)' = FramesIn(n)
           /\ \A n \in DOMAIN files : n # LastFile => After(n)' = After(n)
           /\ \A f \in frames' : Predecessors(f)' = Predecessors(f)
<1>1. /\ \A f \in frames : f.lsn \in Nat \ {0} /\ f.at.segment \in DOMAIN files
      /\ lsn \in Nat /\ LastFile \in DOMAIN files
  BY RowNumbers, FrameParts DEF LogShape, FramesPlaced
<1>2. frames' \subseteq frames /\ \A f \in frames' : f.lsn <= lsn'
  OBVIOUS
<1>3. LowestFile' = LowestFile /\ LastFile' = LastFile
  BY DEF LowestFile, LastFile
<1>4. \A n : n # LastFile => FramesIn(n)' = FramesIn(n)
  <2> TAKE n
  <2> HAVE n # LastFile
  <2>1. \A f \in FramesIn(n) : f.lsn <= lsn'
    BY <1>1 DEF FramesIn
  <2> QED
    BY <2>1 DEF FramesIn
<1>5. \A n \in DOMAIN files : n # LastFile => After(n)' = After(n)
  <2> TAKE n \in DOMAIN files
  <2> HAVE n # LastFile
  <2>1. /\ LowestFile \in Nat /\ LastFile \in Nat /\ n \in Nat
        /\ LowestFile <= n /\ n <= LastFile
    BY RowNumbers
  <2>2. n + 1 \in LowestFile .. LastFile
    BY <2>1
  <2> QED
    BY <2>2 DEF After, LogShape, FilesInRow
<1>6. \A f \in frames' : Predecessors(f)' = Predecessors(f)
  <2> TAKE f \in frames'
  <2>1. \A g \in frames : g.lsn < f.lsn => g \in frames'
    BY <1>1, <1>2
  <2> QED
    BY <1>2, <2>1 DEF Predecessors, FramesOf
<1>7. FramesApart' /\ SeqsRise'
  BY <1>2 DEF LogShape, FramesApart, SeqsRise, Ahead, FrameEnd
<1>8. FramesPlaced'
  BY <1>2 DEF LogShape, FramesPlaced
<1>9. Linked'
  <2> SUFFICES ASSUME NEW f \in frames', Predecessors(f)' # {}
               PROVE  \E g \in frames' : LinkedTo(f, g)'
    BY <1>2 DEF LogShape, Linked, Before
  <2>1. PICK g \in frames : LinkedTo(f, g)
    BY <1>2, <1>6 DEF LogShape, Linked
  <2>2. LinkedTo(f, g)'
    BY <1>6, <2>1 DEF LinkedTo
  <2>3. g \in frames'
    BY <2>2 DEF LinkedTo, Predecessors, FramesOf
  <2> QED
    BY <2>2, <2>3
<1>10. FilesInRow'
  BY <1>3 DEF LogShape, FilesInRow
<1>11. ASSUME NEW n \in DOMAIN files' PROVE Numbered(n)'
  <2>1. CASE n # LastFile
    BY <2>1, <1>4, <1>5 DEF LogShape, Numbered
  <2>2. CASE n = LastFile
    <3>1. n + 1 \notin DOMAIN files
      <4>1. n \in Nat /\ \A k \in DOMAIN files : k <= n /\ k \in Nat
        BY <2>2, RowNumbers
      <4> QED
        BY <4>1
    <3>2. After(n) = lsn + 1 /\ After(n)' = lsn' + 1
      BY <3>1 DEF After
    <3>3. /\ \A f \in FramesIn(n) : files[n].first <= f.lsn
          /\ \A k \in files[n].first .. (lsn + 1) - 1 : \E f \in FramesIn(n) : f.lsn = k
      BY <2>2, <3>2 DEF LogShape, Numbered
    <3>4. files[n].first \in Nat /\ files'[n].first = files[n].first
      BY <2>2, RowNumbers
    <3>5. files'[n].first <= After(n)'
      BY <2>2, <3>2, <3>4
    <3>6. \A f \in FramesIn(n)' : f \in FramesIn(n) /\ f \in frames /\ f.lsn <= lsn'
      BY DEF FramesIn
    <3>7. \A f \in FramesIn(n)' : files'[n].first <= f.lsn /\ f.lsn < After(n)'
      BY <1>1, <3>2, <3>3, <3>4, <3>6
    <3>8. ASSUME NEW k \in files'[n].first .. After(n)' - 1
          PROVE  \E f \in FramesIn(n)' : f.lsn = k
      <4>1. k \in files[n].first .. (lsn + 1) - 1 /\ k <= lsn'
        <5> PICK a \in Nat : a = files[n].first
          BY <3>4
        <5> PICK l \in Nat : l = lsn
          BY <1>1
        <5> PICK u \in Nat : u = lsn'
          OBVIOUS
        <5>1. k \in a .. (u + 1) - 1 /\ u <= l
          BY <3>2, <3>4
        <5>2. k \in a .. (l + 1) - 1 /\ k <= u
          BY <5>1
        <5> QED
          BY <5>2
      <4>2. PICK f \in FramesIn(n) : f.lsn = k
        BY <3>3, <4>1
      <4>3. f \in FramesIn(n)'
        BY <4>1, <4>2 DEF FramesIn
      <4> QED
        BY <4>2, <4>3
    <3> QED
      BY <3>5, <3>7, <3>8 DEF Numbered
  <2> QED
    BY <2>1, <2>2
<1> QED
  BY <1>3, <1>4, <1>5, <1>6, <1>7, <1>8, <1>9, <1>10, <1>11 DEF LogShape

-----------------------------------------------------------------------------
(***************************************************************************)
(* What the scan counts is what the files say.                             *)
(***************************************************************************)
(* A segment holds as many frames as there are numbers from its first to   *)
(* that of the next.                                                       *)
LEMMA CountFrames ==
    ASSUME TypeOK, LogShape, NEW n \in DOMAIN files
    PROVE  files[n].first + Cardinality(FramesIn(n)) = After(n)
<1> PICK a \in Nat : a = files[n].first
  BY RowNumbers
<1>1. After(n) \in Nat
  <2>1. \A k \in DOMAIN files : files[k].first \in Nat
    BY RowNumbers
  <2>2. lsn + 1 \in Nat
    BY RowNumbers
  <2> QED
    BY <2>1, <2>2 DEF After
<1> PICK b \in Nat : b = After(n)
  BY <1>1
<1> DEFINE F == [f \in FramesIn(n) |-> f.lsn]
<1>2. /\ a <= b /\ \A f \in FramesIn(n) : a <= f.lsn /\ f.lsn < b
      /\ \A k \in a .. b - 1 : \E f \in FramesIn(n) : f.lsn = k
  BY DEF LogShape, Numbered
<1>3. \A f \in FramesIn(n) : f \in frames /\ f.lsn \in Nat
  BY FrameParts DEF FramesIn
<1>4. \A f \in FramesIn(n) : f.lsn \in a .. b - 1
  BY <1>2, <1>3
<1>5. \A f, g \in FramesIn(n) : f.lsn = g.lsn => f = g
  BY <1>3 DEF LogShape, FramesApart
<1>6. F \in Bijection(FramesIn(n), a .. b - 1)
  BY <1>2, <1>4, <1>5 DEF Bijection, Injection, Surjection, IsInjective
<1>7. Cardinality(FramesIn(n)) = Cardinality(a .. b - 1)
  <2>1. IsFiniteSet(FramesIn(n))
    BY CountType
  <2>2. ExistsBijection(FramesIn(n), a .. b - 1)
    BY <1>6 DEF ExistsBijection
  <2> QED
    BY <2>1, <2>2, FS_Bijection
<1>9. a + Cardinality(a .. b - 1) = b
  <2> PICK c \in Int : c = b - 1
    OBVIOUS
  <2>1. Cardinality(a .. c) = IF a > c THEN 0 ELSE c - a + 1
    <3>1. a \in Int
      OBVIOUS
    <3> QED
      BY <3>1, FS_Interval, Zenon
  <2> QED
    BY <1>2, <2>1
<1> QED
  BY <1>7, <1>9

(* Nothing is numbered in files that hold no frames.                       *)
LEMMA EmptyRun ==
    ASSUME TypeOK, LogShape, NEW a \in DOMAIN files, NEW b \in DOMAIN files, a <= b,
           \A p \in DOMAIN files : a <= p /\ p < b => FramesIn(p) = {}
    PROVE  files[b].first = files[a].first
<1> DEFINE Bad == {p \in a .. b : files[p].first # files[a].first}
<1>1. /\ a \in Nat /\ b \in Nat
      /\ DOMAIN files = LowestFile .. LastFile /\ LowestFile \in Nat /\ LastFile \in Nat
      /\ \A p \in DOMAIN files : files[p].first \in Nat
  BY RowNumbers DEF LogShape, FilesInRow
<1>2. a .. b \subseteq DOMAIN files
  BY <1>1
<1> SUFFICES ASSUME Bad # {}
             PROVE  FALSE
  <2>1. b \in a .. b
    BY <1>1
  <2> QED
    BY <2>1
<1>3. IsFiniteSet(Bad) /\ Bad \subseteq Int
  <2>1. IsFiniteSet(a .. b) /\ a .. b \subseteq Int
    BY <1>1, FS_Interval
  <2> QED
    BY <2>1, FS_Subset
<1>4. PICK p \in Bad : \A q \in Bad : p <= q
  <2> HIDE DEF Bad
  <2> QED
    BY <1>3, MinOfFinite
<1>5. p \in Nat /\ a < p /\ p <= b /\ p - 1 \in a .. b /\ p - 1 < b
  <2>1. p # a /\ p \in a .. b
    BY <1>4
  <2> QED
    BY <1>1, <2>1
<1>6. p - 1 \notin Bad
  BY <1>4, <1>5
<1>7. p - 1 \in DOMAIN files /\ p \in DOMAIN files /\ p - 1 + 1 = p
  BY <1>2, <1>4, <1>5
<1>8. FramesIn(p - 1) = {}
  BY <1>5, <1>7
<1>9. After(p - 1) = files[p].first
  BY <1>7 DEF After
<1>10. files[p - 1].first = files[p].first
  <2>1. Cardinality(FramesIn(p - 1)) = 0
    BY <1>8, FS_EmptySet
  <2> QED
    BY <1>1, <1>7, <1>9, <2>1, CountFrames
<1> QED
  BY <1>4, <1>5, <1>6, <1>10

(* The scan numbers each segment as the files do, unless the lowest file   *)
(* has lost what says with which number the log goes on.                   *)
LEMMA ScanCounts ==
    ASSUME TypeOK, LogShape, \A n \in DOMAIN files : Empty(n) => FramesIn(n) = {},
           ~Empty(LowestFile) \/ files[LowestFile].first = 1,
           NEW n \in DOMAIN files
    PROVE  /\ NextAfter(n) = After(n)
           /\ n # LowestFile => NextBefore(n) = files[n].first
<1> DEFINE full == {p \in DOMAIN files : p < n /\ ~Empty(p)}
           low == LowestFile
<1>1. /\ n \in Nat /\ low \in Nat /\ low <= n /\ n <= LastFile /\ LastFile \in Nat
      /\ DOMAIN files = low .. LastFile /\ low \in DOMAIN files
      /\ \A p \in DOMAIN files : files[p].first \in Nat
  BY RowNumbers DEF LogShape, FilesInRow
<1> HIDE DEF low
<1>2. full = {} => NextBefore(n) = 1
  BY DEF NextBefore
<1>3. full # {} => NextBefore(n) = files[n].first
  <2> SUFFICES ASSUME full # {}
               PROVE  NextBefore(n) = files[n].first
    OBVIOUS
  <2>1. full \subseteq Int /\ IsFiniteSet(full)
    BY FS_Subset DEF TypeOK, FilesOK
  <2>2. Max(full) \in full /\ \A q \in full : q <= Max(full)
    <3> HIDE DEF full
    <3> QED
      BY <2>1, MaxOfFinite
  <2> PICK p \in full : p = Max(full) /\ \A q \in full : q <= p
    BY <2>2
  <2>3. p \in DOMAIN files /\ p < n /\ p \in Nat
    BY <1>1
  <2>4. NextBefore(n) = After(p)
    BY <2>3, CountFrames DEF NextBefore
  <2>5. p + 1 \in DOMAIN files /\ p + 1 <= n
    BY <1>1, <2>3
  <2>6. After(p) = files[p + 1].first
    BY <2>5 DEF After
  <2>7. ASSUME NEW q \in DOMAIN files, p + 1 <= q, q < n
        PROVE  FramesIn(q) = {}
    <3>1. q \notin full
      <4>1. q \in Nat /\ ~(q <= p)
        BY <1>1, <2>3, <2>7
      <4> QED
        BY <4>1
    <3> QED
      BY <2>7, <3>1
  <2>8. files[n].first = files[p + 1].first
    BY <2>5, <2>7, EmptyRun
  <2> QED
    BY <2>4, <2>6, <2>8
<1>4. full = {} /\ (Empty(low) \/ n # low) => files[n].first = 1
  <2> SUFFICES ASSUME full = {}, Empty(low) \/ n # low
               PROVE  files[n].first = 1
    OBVIOUS
  <2>1. Empty(low)
    <3>1. n # low => low < n
      BY <1>1
    <3> QED
      BY <1>1, <3>1
  <2>2. files[low].first = 1
    BY <2>1 DEF low
  <2>3. \A p \in DOMAIN files : low <= p /\ p < n => FramesIn(p) = {}
    OBVIOUS
  <2>4. files[n].first = files[low].first
    BY <1>1, <2>3, EmptyRun
  <2> QED
    BY <2>2, <2>4
<1>5. n # low => NextBefore(n) = files[n].first
  <2> HIDE DEF full
  <2> QED
    BY <1>2, <1>3, <1>4
<1>6. CASE ~Empty(n)
  BY <1>5, <1>6, CountFrames DEF NextAfter, low
<1>7. CASE Empty(n)
  <2>1. NextBefore(n) = files[n].first
    <3>1. n = low => Empty(low)
      BY <1>7
    <3> HIDE DEF full
    <3> QED
      BY <1>2, <1>3, <1>4, <3>1
  <2>2. Cardinality(FramesIn(n)) = 0
    BY <1>7, FS_EmptySet
  <2>3. files[n].first = After(n)
    BY <1>1, <2>2, CountFrames
  <2> QED
    BY <1>5, <1>7, <2>1, <2>3 DEF NextAfter, low
<1> QED
  BY <1>6, <1>7

(* The lowest file of a directory the scan accepts has not lost it.        *)
LEMMA NotHeadless ==
    ASSUME TypeOK, LogShape, Boundaries, Empty(LowestFile),
           files[LowestFile].first # 1
    PROVE  HeadlessBoundary /\ Corrupt
<1>1. LowestFile \in DOMAIN files /\ LowestFile \in DOMAIN evidence
  BY RowNumbers DEF Boundaries
<1>2. Frozen(LowestFile)
  BY <1>1 DEF Boundaries
<1>3. After(LowestFile) = files[LowestFile].first
  <2>1. Cardinality(FramesIn(LowestFile)) = 0
    BY <1>1, FS_EmptySet DEF Boundaries
  <2>2. files[LowestFile].first \in Nat
    BY <1>1, RowNumbers
  <2> QED
    BY <1>1, <2>1, <2>2, CountFrames
<1>4. evidence[LowestFile].next # 1
  BY <1>2, <1>3 DEF Frozen
<1>5. HeadlessBoundary
  BY <1>1, <1>4 DEF HeadlessBoundary
<1>6. NextAfter(LowestFile) = 1
  <2>1. {p \in DOMAIN files : p < LowestFile /\ ~Empty(p)} = {}
    <3>1. \A p \in DOMAIN files : p \in Nat /\ LowestFile <= p /\ LowestFile \in Nat
      BY RowNumbers
    <3>2. \A p \in DOMAIN files : ~(p < LowestFile)
      BY <3>1
    <3> QED
      BY <3>2
  <2> QED
    BY <2>1 DEF NextAfter, NextBefore
<1>7. CorruptSegment(LowestFile)
  BY <1>1, <1>4, <1>6 DEF CorruptSegment
<1> QED
  BY <1>1, <1>5, <1>7 DEF Corrupt

(* Unless a MANIFEST has been taken back, the scan accepts what is left    *)
(* behind.                                                                 *)
LEMMA ScanAccepts ==
    ASSUME TypeOK, LogInv, owner = "down", ~HeadlessBoundary,
           \A m \in Members : ~TakenBack(m)
    PROVE  ~Corrupt
<1>1. ~Empty(LowestFile) \/ files[LowestFile].first = 1
  BY NotHeadless DEF LogInv
<1>2. \A n \in DOMAIN files : /\ NextAfter(n) = After(n)
                              /\ n # LowestFile => NextBefore(n) = files[n].first
  BY <1>1, ScanCounts DEF LogInv, Boundaries
<1>3. ASSUME NEW n \in DOMAIN files, CorruptSegment(n)
      PROVE  FALSE
  <2>1. /\ n \in Nat /\ LowestFile \in Nat /\ LastFile \in Nat
        /\ LowestFile <= n /\ n <= LastFile
        /\ DOMAIN files = LowestFile .. LastFile
    BY RowNumbers DEF LogInv, LogShape, FilesInRow
  <2>2. n # LowestFile => n - 1 \in DOMAIN files
    BY <2>1
  <2>3. ~(n # LastFile /\ Torn(n) /\ n \notin DOMAIN evidence)
    <3>1. n # LastFile => n < Active
      BY <2>1 DEF Active
    <3> QED
      BY <3>1 DEF LogInv, Boundaries
  <2>4. n \in DOMAIN evidence =>
            evidence[n] = [length |-> files[n].length, end |-> ScanEnd(n),
                           next |-> NextAfter(n)]
    BY <1>2 DEF LogInv, Boundaries, Frozen
  <2>5. {f.lsn : f \in FramesIn(n)} = files[n].first .. NextAfter(n) - 1
    <3> PICK a \in Nat : a = files[n].first
      BY RowNumbers
    <3>1. NextAfter(n) \in Nat
      BY NextType
    <3> PICK b \in Nat : b = NextAfter(n)
      BY <3>1
    <3>2. /\ \A f \in FramesIn(n) : a <= f.lsn /\ f.lsn < b
          /\ \A k \in a .. b - 1 : \E f \in FramesIn(n) : f.lsn = k
      BY <1>2 DEF LogInv, LogShape, Numbered
    <3>3. \A f \in FramesIn(n) : f.lsn \in Nat
      BY FrameParts DEF FramesIn
    <3>4. \A f \in FramesIn(n) : f.lsn \in a .. b - 1
      BY <3>2, <3>3
    <3> QED
      BY <3>2, <3>4
  <2> QED
    BY <1>2, <1>3, <2>2, <2>3, <2>4, <2>5 DEF CorruptSegment
<1>4. ASSUME NEW f \in frames, CorruptFrame(f)
      PROVE  FALSE
  <2>1. /\ f.id \in Members /\ f \in FramesOf(f.id) /\ f.seq \in Nat
    BY FrameParts DEF FramesOf
  <2>2. f.id \in registered
    BY DEF LogInv, LogShape, FramesPlaced
  <2>3. /\ retiredAt[f.id] \in Nat \cup {None} /\ manifest[f.id] \in Nat \cup {None}
        /\ settled[f.id] \in Nat \cup {None}
    BY <2>1 DEF TypeOK, RegistryOK
  <2>4. retiredAt[f.id] # None => f.seq <= retiredAt[f.id]
    BY <2>1 DEF LogInv, ManifestsKept, ManifestKept, Live
  <2>5. retiredAt[f.id] = None => manifest[f.id] # None
    <3>1. settled[f.id] <= manifest[f.id]
      BY <2>1 DEF LogInv, ManifestsKept, ManifestKept
    <3>2. retiredAt[f.id] = None => settled[f.id] # None
      BY <2>1 DEF LogInv, ManifestsKept, ManifestKept, Live
    <3> QED
      BY <2>3, <3>1, <3>2 DEF None
  <2>6. f.seq > ScanCheckpoint(f.id) + 1 => Predecessors(f) # {}
    BY <2>1 DEF LogInv, LeftBehind, Promised
  <2>7. f.prev = NoPointer \/ Before(f.prev, f.at)
    BY DEF LogInv, LogShape, Linked
  <2>8. Predecessors(f) # {} => \E g \in Predecessors(f) :
              /\ \A h \in Predecessors(f) : h.lsn <= g.lsn
              /\ f.seq = g.seq + 1 /\ f.prev = g.at
    BY DEF LogInv, LogShape, Linked, LinkedTo
  <2>9. ~(retiredAt[f.id] # None /\ f.seq > retiredAt[f.id])
    BY <2>1, <2>3, <2>4
  <2> QED
    BY <1>4, <2>2, <2>5, <2>6, <2>7, <2>8, <2>9 DEF CorruptFrame
<1> QED
  BY <1>3, <1>4 DEF Corrupt

(* So does an open file system whatever is not corrupt: it is not headless. *)
LEMMA AcceptedCounts ==
    ASSUME TypeOK, LogShape, Boundaries, ~Corrupt
    PROVE  \A n \in DOMAIN files : NextAfter(n) = After(n)
<1>1. ~Empty(LowestFile) \/ files[LowestFile].first = 1
  BY NotHeadless
<1> QED
  BY <1>1, ScanCounts DEF Boundaries

-----------------------------------------------------------------------------
(***************************************************************************)
(* The initial state.                                                      *)
(***************************************************************************)
LEMMA InitLog == Init => LogInv
<1> SUFFICES ASSUME Init
             PROVE  LogInv
  OBVIOUS
<1>0. HeaderLen \in Nat \ {0}
  BY LengthsAssumption
<1>1. /\ frames = {} /\ DOMAIN files = {1} /\ evidence = << >> /\ lsn = 0 /\ durable = 0
      /\ files[1] = [first |-> 1, length |-> HeaderLen, synced |-> HeaderLen]
      /\ owner = "open" /\ segment = 1 /\ offset = HeaderLen /\ pc = "idle" /\ ~poison
      /\ opened = Founders /\ registered = Founders
      /\ call = NoCall
  BY DEF Init
<1>2. LowestFile = 1 /\ LastFile = 1
  <2>1. 1 .. 1 = {1}
    OBVIOUS
  <2>2. Min(1 .. 1) = 1 /\ Max(1 .. 1) = 1
    <3>1. 1 \in Int /\ 1 <= 1
      OBVIOUS
    <3> QED
      BY <3>1, RowEnds
  <2> QED
    BY <1>1, <2>1, <2>2 DEF LowestFile, LastFile
<1>3. \A n : FramesIn(n) = {}
  BY <1>1 DEF FramesIn
<1>4. \A m : FramesOf(m) = {}
  BY <1>1 DEF FramesOf
<1>5. After(1) = 1
  BY <1>1 DEF After
<1>6. LogShape
  <2>1. FilesInRow
    BY <1>1, <1>2 DEF FilesInRow
  <2>2. 1 .. 0 = {} /\ 1 - 1 = 0
    OBVIOUS
  <2>3. \A n \in DOMAIN files : Numbered(n)
    BY <1>1, <1>3, <1>5, <2>2 DEF Numbered
  <2> QED
    BY <1>1, <2>1, <2>3 DEF LogShape, FramesApart, FramesPlaced, SeqsRise, Linked
<1>7. DOMAIN evidence = {}
  BY <1>1
<1>8. ~Empty(1)
  BY <1>0, <1>1, <1>7 DEF Empty
<1>9. Boundaries
  BY <1>0, <1>1, <1>2, <1>3, <1>7, <1>8 DEF Boundaries, Active
<1>10. DurableFrames
  BY <1>1, <1>2 DEF DurableFrames
<1>11. CursorTrue /\ BusyHealthy
  BY <1>0, <1>1, <1>2, <1>3 DEF CursorTrue, BusyHealthy
<1>12. IndexTrue
  <2>1. DOMAIN segments = {1} /\ segments[1].members = << >>
    BY DEF Init
  <2>2. DOMAIN segments[1].members = {}
    BY <2>1
  <2> QED
    BY <1>1, <1>3, <2>1, <2>2 DEF IndexTrue
<1>13. \A m \in Members : /\ manifest[m] = (IF m \in Founders THEN 0 ELSE None)
                          /\ settled[m] = manifest[m] /\ retiredAt[m] = None
                          /\ sealing[m] = "no"
  BY DEF Init
<1>14. ManifestsKept
  <2>1. \A m \in Members : settled[m] <= manifest[m]
    BY <1>13 DEF None
  <2> QED
    BY <1>4, <1>13, <2>1 DEF ManifestsKept, ManifestKept, Live
<1>15. \A m \in Members : /\ member[m].checkpoint = 0 /\ member[m].seq = 0
                          /\ member[m].lsn = 0 /\ member[m].retired = FALSE
                          /\ member[m].latest = NoPointer
  BY DEF Init, FreshMember
<1>16. MembersTrue
  <2> SUFFICES ASSUME NEW m \in Members
               PROVE  MemberTrue(m)
    BY DEF MembersTrue
  <2>1. ScanCheckpoint(m) = 0
    BY <1>13 DEF ScanCheckpoint
  <2>2. Positions(m)
    BY <1>1, <1>15 DEF Positions
  <2> QED
    BY <1>1, <1>4, <1>15, <2>1, <2>2 DEF MemberTrue
<1>17. HandlesTrue
  <2>1. 0 # None
    BY DEF None
  <2> QED
    BY <1>1, <1>13, <2>1, MembersAssumption DEF HandlesTrue, HandleTrue, Live
<1>18. LeftBehind
  BY <1>1 DEF LeftBehind
<1> QED
  BY <1>6, <1>9, <1>10, <1>11, <1>12, <1>14, <1>16, <1>17, <1>18 DEF LogInv

-----------------------------------------------------------------------------
(***************************************************************************)
(* Steps of an open owner that at most sync the log.                       *)
(***************************************************************************)
(* The frames, the files and what the owner knows of them.                 *)
Physical == LogShape /\ Boundaries /\ DurableFrames /\ CursorTrue /\ IndexTrue

(* The members, their MANIFESTs and their handles.                         *)
Logical == ManifestsKept /\ MembersTrue /\ HandlesTrue

LEMMA InvParts == LogInv <=> Physical /\ Logical /\ BusyHealthy /\ LeftBehind
BY DEF LogInv, Physical, Logical

(* A sync does nothing, or makes the whole log durable.                    *)
LEMMA SyncedOrNot ==
    ASSUME TypeOK, DurableInv, Physical, owner = "open",
           SyncLocked \/ UNCHANGED <<files, durable>>
    PROVE  /\ DOMAIN files' = DOMAIN files
           /\ \A n \in DOMAIN files : files'[n].first = files[n].first
           /\ \A n \in DOMAIN files : n # segment => files'[n] = files[n]
           /\ \/ files' = files /\ durable' = durable
              \/ /\ LastFile = segment /\ durable' = lsn
                 /\ files'[segment].synced = offset /\ files'[segment].length = offset
           /\ durable <= durable' /\ durable' \in {durable, lsn}
<1>1. durable \in Nat /\ lsn \in Nat /\ durable <= lsn
  BY RowNumbers DEF DurableInv, NotesBehind
<1>2. CASE durable = lsn \/ UNCHANGED <<files, durable>>
  BY <1>1, <1>2 DEF SyncLocked, SyncedFiles
<1>3. CASE durable # lsn /\ SyncLocked
  <2>1. LastFile = segment /\ segment \in DOMAIN files
    BY <1>3 DEF Physical, CursorTrue
  <2>2. files' = [FlushedFiles EXCEPT ![segment].synced = offset]
        /\ FlushedFiles = [files EXCEPT ![segment].length = offset]
    BY <1>3 DEF SyncLocked, SyncedFiles, FlushedFiles
  <2>3. files[segment] \in [first : Nat \ {0}, length : Nat, synced : Nat]
    BY <2>1 DEF TypeOK, FilesOK
  <2>4. durable' = lsn
    BY <1>3 DEF SyncLocked
  <2> QED
    BY <1>1, <2>1, <2>2, <2>3, <2>4
<1> QED
  BY <1>2, <1>3

(* Syncing keeps what is known of frames and files.                        *)
LEMMA SyncKeepsLog ==
    ASSUME TypeOK, TypeOK', DurableInv, Physical, owner = "open",
           frames' = frames, lsn' = lsn, owner' = owner, segment' = segment,
           offset' = offset, evidence' = evidence, segments' = segments,
           registered \subseteq registered',
           SyncLocked \/ UNCHANGED <<files, durable>>,
           LastFile = segment + 1 => pc' = "roll" \/ poison'
    PROVE  /\ Physical' /\ durable <= durable' /\ durable' \in {durable, lsn}
           /\ \A n : FramesIn(n)' = FramesIn(n)
<1>0. owner' = "open"
  OBVIOUS
<1>1. /\ DOMAIN files' = DOMAIN files
      /\ \A n \in DOMAIN files : files'[n].first = files[n].first
      /\ \A n \in DOMAIN files : n # segment => files'[n] = files[n]
      /\ \/ files' = files /\ durable' = durable
         \/ /\ LastFile = segment /\ durable' = lsn
            /\ files'[segment].synced = offset /\ files'[segment].length = offset
      /\ durable <= durable' /\ durable' \in {durable, lsn}
  BY SyncedOrNot
<1>2. /\ LogShape' /\ LowestFile' = LowestFile /\ LastFile' = LastFile
      /\ \A n : FramesIn(n)' = FramesIn(n) /\ After(n)' = After(n)
  BY <1>1, LogSame DEF Physical
<1>3. /\ segment \in DOMAIN files /\ LastFile \in {segment, segment + 1}
      /\ LastFile = segment + 1 => durable = lsn /\ files[LastFile].first = lsn + 1
      /\ HeaderLen <= files[segment].synced /\ files[segment].length <= offset
      /\ \A f \in FramesIn(segment) : FrameEnd(f) <= offset
      /\ offset = HeaderLen \/ \E f \in FramesIn(segment) : FrameEnd(f) = offset
      /\ durable = lsn => files[segment].synced = offset
  BY DEF Physical, CursorTrue
<1>4. /\ HeaderLen \in Nat /\ offset \in Nat /\ segment \in Nat /\ LastFile \in Nat
      /\ lsn \in Nat /\ durable \in Nat /\ durable <= lsn
      /\ LastFile \in DOMAIN files
      /\ \A n \in DOMAIN files : /\ files[n].length \in Nat /\ files[n].synced \in Nat
                                 /\ n \in Nat /\ files[n].first \in Nat
  BY RowNumbers DEF DurableInv, NotesBehind
<1>5. files[segment].synced <= files[segment].length
  BY <1>3 DEF Physical, Boundaries
<1>6. HeaderLen <= offset /\ HeaderLen <= files[segment].length
  BY <1>3, <1>4, <1>5
<1>7. HeaderLen <= files'[segment].synced /\ files'[segment].synced <= files'[segment].length
      /\ files'[segment].length <= offset /\ files[segment].synced <= files'[segment].synced
  BY <1>1, <1>3, <1>4, <1>5, <1>6
<1>8. \A n \in DOMAIN files : files'[n].length < HeaderLen <=> files[n].length < HeaderLen
  <2>1. ~(files'[segment].length < HeaderLen) /\ ~(files[segment].length < HeaderLen)
    <3>1. files'[segment].length \in Nat /\ files'[segment].synced \in Nat
      <4>1. \/ files' = files
            \/ files'[segment].synced = offset /\ files'[segment].length = offset
        BY <1>1
      <4> QED
        BY <1>3, <1>4, <4>1
    <3>2. HeaderLen <= files'[segment].length
      BY <1>4, <1>7, <3>1
    <3>3. files[segment].length \in Nat
      BY <1>3, <1>4
    <3> QED
      BY <1>4, <1>6, <3>1, <3>2, <3>3
  <2> QED
    BY <1>1, <2>1
<1>9. \A n \in DOMAIN files : Empty(n)' = Empty(n)
  BY <1>8 DEF Empty
<1>10. \A n \in DOMAIN files : ScanEnd(n)' = ScanEnd(n)
  BY <1>2, <1>9, ScanSame
<1>11. segment \notin DOMAIN evidence /\ \A n \in DOMAIN evidence : n < segment
  <2>1. \A n \in DOMAIN evidence : n < segment
    BY DEF Physical, Boundaries, Active
  <2> QED
    BY <1>4, <2>1
<1>12. Boundaries'
  <2>1. \A n \in DOMAIN files' : Empty(n)' => FramesIn(n)' = {}
    BY <1>1, <1>2, <1>9 DEF Physical, Boundaries
  <2>2. \A n \in DOMAIN files' :
            Empty(n)' => n \in DOMAIN evidence' \/ (n = LastFile' /\ n # LowestFile')
    BY <1>1, <1>2, <1>9 DEF Physical, Boundaries
  <2>3. ASSUME NEW n \in DOMAIN evidence'
        PROVE  /\ n \in Int /\ n <= Active'
               /\ owner' = "open" => n < Active'
               /\ n \in DOMAIN files' => Frozen(n)'
    <3>1. n \in Int /\ n <= Active /\ n < Active /\ (n \in DOMAIN files => Frozen(n))
      BY DEF Physical, Boundaries
    <3>2. n # segment /\ Active' = Active
      BY <1>11 DEF Active
    <3>3. n \in DOMAIN files => Frozen(n)'
      <4> SUFFICES ASSUME n \in DOMAIN files
                   PROVE  Frozen(n)'
        OBVIOUS
      <4>1. files'[n].length = files[n].length /\ ScanEnd(n)' = ScanEnd(n)
            /\ After(n)' = After(n) /\ evidence'[n] = evidence[n]
        BY <1>1, <1>2, <1>10, <3>2
      <4> QED
        BY <3>1, <4>1 DEF Frozen
    <3> QED
      BY <1>1, <3>1, <3>2, <3>3
  <2>4. \A n \in DOMAIN files' \ DOMAIN evidence' : n < Active' => ~Torn(n)'
    <3>1. ASSUME NEW n \in DOMAIN files \ DOMAIN evidence, n < segment
          PROVE  ~Torn(n)'
      <4>1. ~Torn(n)
        BY <3>1 DEF Physical, Boundaries, Active
      <4>2. n # segment
        BY <1>4, <3>1
      <4> QED
        BY <1>1, <1>9, <1>10, <4>1, <4>2 DEF Torn
    <3> QED
      BY <1>1, <3>1 DEF Active
  <2>5. \A n \in DOMAIN files' : files'[n].synced <= files'[n].length
    BY <1>1, <1>7 DEF Physical, Boundaries
  <2> QED
    BY <1>0, <2>1, <2>2, <2>3, <2>4, <2>5 DEF Boundaries
<1>13. DurableFrames'
  <2>1. files'[LastFile'].first <= durable' + 1
    <3>1. files[LastFile].first <= durable + 1
      BY DEF Physical, DurableFrames
    <3>2. durable' \in Nat
      BY <1>1, <1>4
    <3> QED
      BY <1>1, <1>2, <1>4, <3>1, <3>2
  <2>2. ASSUME NEW f \in frames
        PROVE  \/ f.lsn <= durable' /\ Synced(f)'
               \/ /\ f.lsn > durable' /\ f.at.segment = segment' /\ owner' = "open"
                  /\ files'[segment'].synced <= f.at.offset
    <3>1. /\ f.lsn \in Nat /\ f.lsn <= lsn /\ f.at.segment \in DOMAIN files
          /\ FrameEnd(f) \in Nat
      BY FrameParts DEF Physical, LogShape, FramesPlaced
    <3>2. \/ f.lsn <= durable /\ Synced(f)
          \/ /\ f.lsn > durable /\ f.at.segment = segment
             /\ files[segment].synced <= f.at.offset
      BY DEF Physical, DurableFrames
    <3>3. CASE files' = files /\ durable' = durable
      BY <3>2, <3>3 DEF Synced, FrameEnd
    <3>4. CASE /\ LastFile = segment /\ durable' = lsn
               /\ files'[segment].synced = offset
      <4>1. CASE f.at.segment = segment
        <5>1. FrameEnd(f) <= offset
          BY <1>3, <4>1 DEF FramesIn
        <5> QED
          BY <3>1, <3>4, <4>1, <5>1 DEF Synced, FrameEnd
      <4>2. CASE f.at.segment # segment
        <5>1. Synced(f)
          BY <3>2, <4>2
        <5> QED
          BY <1>1, <3>1, <3>4, <4>2, <5>1 DEF Synced, FrameEnd
      <4> QED
        BY <4>1, <4>2
    <3> QED
      BY <1>1, <3>3, <3>4
  <2> QED
    BY <1>0, <2>1, <2>2 DEF DurableFrames
<1>14. CursorTrue'
  <2>1. LastFile' = segment' + 1 => durable' = lsn' /\ (pc' = "roll" \/ poison')
                                    /\ files'[LastFile'].first = lsn' + 1
    BY <1>1, <1>2, <1>3, <1>4
  <2>2. durable' = lsn' => files'[segment'].synced = offset'
    BY <1>1, <1>3
  <2> QED
    BY <1>1, <1>2, <1>3, <1>7, <2>1, <2>2 DEF CursorTrue
<1>15. IndexTrue'
  BY <1>0, <1>1, <1>2 DEF Physical, IndexTrue
<1> QED
  BY <1>1, <1>2, <1>12, <1>13, <1>14, <1>15 DEF Physical

(* It keeps what is known of the members whose state does not change.      *)
LEMMA SyncKeepsMembers ==
    ASSUME TypeOK, TypeOK', DurableInv, Physical, Logical, owner = "open",
           frames' = frames, lsn' = lsn, owner' = owner, segment' = segment,
           offset' = offset, durable \in Nat, durable <= durable',
           durable' \in {durable, lsn}, NEW m \in Members, member'[m] = member[m],
           manifest'[m] = manifest[m], retiredAt'[m] = retiredAt[m], Live(m)
    PROVE  MemberTrue(m)'
<1>1. MemberTrue(m)
  BY DEF Logical, MembersTrue
<1>2. FramesOf(m)' = FramesOf(m) /\ \A f \in frames : Predecessors(f)' = Predecessors(f)
  BY DEF FramesOf, Predecessors
<1>3. ScanCheckpoint(m)' = ScanCheckpoint(m)
  BY DEF ScanCheckpoint
<1>4. member[m].lsn \in Nat /\ lsn \in Nat
  BY RowNumbers DEF TypeOK, IndexOK, MemberStates
<1>5. Positions(m)'
  <2>1. CASE durable' = durable
    BY <1>1, <1>2, <2>1 DEF MemberTrue, Positions
  <2>2. CASE durable' = lsn
    <3>1. ~(member'[m].lsn > durable')
      BY <1>1, <1>4, <2>2 DEF MemberTrue
    <3> QED
      BY <3>1 DEF Positions
  <2> QED
    BY <2>1, <2>2
<1>6. \A f : LastOf(m, f) => LastOf(m, f)'
  BY <1>2 DEF LastOf
<1>7. FramesOf(m) \subseteq frames
  BY DEF FramesOf
<1> QED
  BY <1>1, <1>2, <1>3, <1>5, <1>6, <1>7 DEF MemberTrue

(* And what its MANIFEST relies on.                                        *)
LEMMA SyncKeepsManifest ==
    ASSUME TypeOK, TypeOK', ManifestsKept, frames' = frames,
           durable \in Nat, durable' \in Nat, durable <= durable',
           NEW m \in Members, manifest'[m] = manifest[m], settled'[m] = settled[m],
           retiredAt'[m] = retiredAt[m], m \in opened' => m \in opened \/ Live(m)
    PROVE  ManifestKept(m)'
<1>1. FramesOf(m)' = FramesOf(m) /\ Live(m)' = Live(m) /\ \A f \in FramesOf(m) : f \in frames
  BY DEF FramesOf, Live
<1>2. \A f \in FramesOf(m) : f.lsn \in Nat
  BY <1>1, FrameParts
<1>3. \A f \in FramesOf(m) : f.lsn <= durable => f.lsn <= durable'
  BY <1>2
<1>4. ManifestKept(m)
  BY DEF ManifestsKept
<1> QED
  BY <1>1, <1>3, <1>4 DEF ManifestKept

(* Whoever holds the mutex or lets it go: a new segment's file is waited   *)
(* for, or the owner is poisoned.                                          *)
Holding == /\ pc = "roll" => pc' = "roll" \/ poison'
           /\ poison => poison'

LEMMA StillHolding ==
    ASSUME TypeOK, LogInv, owner = "open", Holding
    PROVE  LastFile = segment + 1 => pc' = "roll" \/ poison'
BY DEF LogInv, CursorTrue, Holding

(* A handle whose member's MANIFEST and records stay as they are.          *)
LEMMA HandleStays ==
    ASSUME TypeOK, TypeOK', HandlesTrue, registered \subseteq registered',
           durable <= durable', NEW m \in Members, member'[m].lsn = member[m].lsn,
           member'[m].seq = member[m].seq,
           manifest'[m] = manifest[m], settled'[m] = settled[m],
           retiredAt'[m] = retiredAt[m], sealing'[m] = sealing[m],
           m \in opened' => m \in opened, sealing[m] # "no" => m \in opened',
           \/ call' = NoCall
           \/ call # NoCall /\ call'.id = call.id
           \/ sealing[call'.id] = "no"
    PROVE  HandleTrue(m)'
<1>1. HandleTrue(m)
  BY DEF HandlesTrue
<1>2. Live(m)' = Live(m)
  BY DEF Live
<1>3. member[m].lsn \in Nat /\ durable \in Nat /\ durable' \in Nat
  BY DEF TypeOK, IndexOK, MemberStates, CursorOK
<1>4. sealing[m] # "no" => member[m].lsn <= durable'
  BY <1>1, <1>3 DEF HandleTrue
<1>5. sealing[m] # "no" => call' = NoCall \/ call'.id # m
  BY <1>1 DEF HandleTrue
<1> QED
  BY <1>1, <1>2, <1>4, <1>5 DEF HandleTrue

(* Steps that change no member, no MANIFEST and no seal.                   *)
LEMMA QuietKeeps ==
    ASSUME TypeOK, TypeOK', DurableInv, LogInv, owner = "open",
           UNCHANGED <<frames, lsn, owner, segment, offset, evidence, segments,
                       member, manifest, settled, retiredAt, sealing>>,
           registered \subseteq registered', opened' \subseteq opened,
           \A m \in opened : sealing[m] # "no" => m \in opened',
           SyncLocked \/ UNCHANGED <<files, durable>>,
           Holding, pc' # "idle" => ~poison',
           \/ call' = NoCall
           \/ call # NoCall /\ call'.id = call.id
           \/ sealing[call'.id] = "no"
    PROVE  LogInv'
<1>1. Physical /\ Logical
  BY InvParts
<1>2. LastFile = segment + 1 => pc' = "roll" \/ poison'
  BY StillHolding
<1>3. Physical' /\ durable <= durable' /\ durable' \in {durable, lsn}
  BY <1>1, <1>2, SyncKeepsLog
<1>4. durable \in Nat /\ durable' \in Nat
  BY DEF TypeOK, CursorOK
<1>5. \A m \in Members : Live(m)' = Live(m)
  BY DEF Live
<1>6. ASSUME NEW m \in Members, Live(m)
      PROVE  MemberTrue(m)'
  <2>1. member'[m] = member[m] /\ manifest'[m] = manifest[m] /\ retiredAt'[m] = retiredAt[m]
    OBVIOUS
  <2> QED
    BY <1>1, <1>3, <1>4, <1>6, <2>1, SyncKeepsMembers
<1>7. ASSUME NEW m \in Members
      PROVE  ManifestKept(m)'
  <2>1. ManifestsKept /\ (m \in opened' => m \in opened \/ Live(m))
    BY <1>1 DEF Logical
  <2>2. manifest'[m] = manifest[m] /\ settled'[m] = settled[m] /\ retiredAt'[m] = retiredAt[m]
    OBVIOUS
  <2> QED
    BY <1>3, <1>4, <2>1, <2>2, SyncKeepsManifest
<1>8. ASSUME NEW m \in Members
      PROVE  HandleTrue(m)'
  <2>1. HandlesTrue /\ HandleTrue(m)
    BY <1>1 DEF Logical, HandlesTrue
  <2>2. sealing[m] # "no" => m \in opened'
    BY <2>1 DEF HandleTrue
  <2>3. m \in opened' => m \in opened
    OBVIOUS
  <2> QED
    BY <1>3, <2>1, <2>2, <2>3, HandleStays
<1>9. Logical'
  BY <1>5, <1>6, <1>7, <1>8 DEF Logical, ManifestsKept, MembersTrue, HandlesTrue
<1>10. BusyHealthy'
  BY DEF BusyHealthy
<1>11. LeftBehind'
  BY DEF LeftBehind
<1> QED
  BY <1>3, <1>9, <1>10, <1>11 DEF LogInv, Physical, Logical

(* The steps of a call that only decide or wait, an error, a sync, the     *)
(* begin of a call, a registration, a member closed.                       *)
LEMMA QuietStep ==
    ASSUME TypeOK, TypeOK', DurableInv, LogInv,
           \/ Preflight \/ AppendRefused \/ GcReturn \/ IoError \/ Sync
           \/ \E m \in Members : \/ \E raws \in Batches : BeginAppend(m, raws)
                                 \/ Register(m) \/ Close(m)
    PROVE  LogInv'
<1>1. BusyHealthy /\ (pc # "idle" => owner = "open") /\ CallersOpen
      /\ (pc \in {"preflight", "append", "roll"} => call \in Calls)
  BY DEF LogInv, TypeOK, CallOK, DurableInv
<1>2. \A m \in Members : HandleTrue(m)
  BY DEF LogInv, HandlesTrue
<1>3. \A m \in opened : m \in Members
  BY DEF TypeOK, HandlesOK
<1>4. NoCall \notin Calls
  BY CallsAreNotNoCall
<1>5. CASE Preflight \/ AppendRefused
  <2>1. /\ pc \in {"preflight", "append"} /\ owner = "open" /\ ~poison /\ call # NoCall
        /\ UNCHANGED <<files, durable>>
        /\ UNCHANGED <<frames, lsn, owner, segment, offset, evidence, segments, member,
                       manifest, settled, retiredAt, sealing, registered, opened>>
    BY <1>1, <1>4, <1>5 DEF Preflight, AppendRefused, BusyHealthy, disk, index, cursor
  <2>2. call' = NoCall \/ call'.id = call.id
    <3>1. call \in Calls
      BY <1>1, <2>1
    <3> QED
      BY <1>5, <3>1 DEF Preflight, AppendRefused, Collect, Reject, Calls
  <2>3. pc' # "idle" => ~poison'
    BY <1>5, <2>1 DEF Preflight, AppendRefused, Collect, Reject
  <2>4. Holding
    BY <2>1 DEF Holding
  <2> QED
    BY <2>1, <2>2, <2>3, <2>4, QuietKeeps
<1>6. CASE GcReturn
  <2>1. /\ pc = "gc" /\ owner = "open" /\ ~poison /\ poison' = poison
        /\ UNCHANGED <<files, durable>>
        /\ UNCHANGED <<frames, lsn, owner, segment, offset, evidence, segments, member,
                       manifest, settled, retiredAt, sealing, registered, opened>>
    BY <1>1, <1>6 DEF GcReturn, BusyHealthy, disk, index, cursor
  <2>2. call' = NoCall \/ (call # NoCall /\ call'.id = call.id)
    BY <1>6 DEF GcReturn
  <2>3. Holding
    BY <2>1 DEF Holding
  <2> QED
    BY <2>1, <2>2, <2>3, QuietKeeps
<1>7. CASE IoError
  <2>1. /\ owner = "open" /\ poison' = TRUE /\ pc' = "idle" /\ call' = NoCall
        /\ UNCHANGED <<files, durable>>
        /\ UNCHANGED <<frames, lsn, owner, segment, offset, evidence, segments, member,
                       manifest, settled, retiredAt, sealing, registered, opened>>
    BY <1>7 DEF IoError, disk, index, cursor
  <2>2. Holding
    BY <2>1 DEF Holding
  <2> QED
    BY <2>1, <2>2, QuietKeeps
<1>8. CASE Sync
  <2>1. /\ owner = "open" /\ pc = "idle" /\ pc' = "idle" /\ poison' = poison /\ SyncLocked
        /\ call' = NoCall
        /\ UNCHANGED <<frames, lsn, owner, segment, offset, evidence, segments, member,
                       manifest, settled, retiredAt, sealing, registered, opened>>
    BY <1>1, <1>8 DEF Sync, Locked, index, CallersOpen
  <2>2. Holding
    BY <2>1 DEF Holding
  <2> QED
    BY <2>1, <2>2, QuietKeeps
<1>9. ASSUME NEW m \in Members, NEW raws \in Batches, BeginAppend(m, raws)
      PROVE  LogInv'
  <2>1. /\ owner = "open" /\ pc = "idle" /\ ~poison /\ poison' = poison
        /\ sealing[m] = "no" /\ UNCHANGED <<files, durable>>
        /\ UNCHANGED <<frames, lsn, owner, segment, offset, evidence, segments, member,
                       manifest, settled, retiredAt, sealing, registered, opened>>
    BY <1>9 DEF BeginAppend, Locked, disk, index, cursor
  <2>2. call'.id = m
    BY <1>9 DEF BeginAppend, NoCall
  <2>3. Holding
    BY <2>1 DEF Holding
  <2> QED
    BY <2>1, <2>2, <2>3, QuietKeeps
<1>10. ASSUME NEW m \in Members, Register(m)
       PROVE  LogInv'
  <2>1. /\ owner = "open" /\ pc = "idle" /\ ~poison /\ pc' = "idle" /\ call' = NoCall
        /\ UNCHANGED <<files, durable>> /\ registered \subseteq registered'
        /\ UNCHANGED <<frames, lsn, owner, segment, offset, evidence, segments, member,
                       manifest, settled, retiredAt, sealing, opened>>
    BY <1>1, <1>10 DEF Register, Locked, cursor, CallersOpen
  <2>2. Holding
    BY <2>1 DEF Holding
  <2> QED
    BY <2>1, <2>2, QuietKeeps
<1>11. ASSUME NEW m \in Members, Close(m)
       PROVE  LogInv'
  <2>1. /\ pc = "idle" /\ pc' = "idle" /\ poison' = poison /\ call' = NoCall
        /\ UNCHANGED <<files, durable>> /\ m \in opened /\ sealing[m] = "no"
        /\ opened' = opened \ {m}
        /\ UNCHANGED <<frames, lsn, owner, segment, offset, evidence, segments, member,
                       manifest, settled, retiredAt, sealing, registered>>
    BY <1>1, <1>11 DEF Close, disk, index, cursor, CallersOpen
  <2>2. owner = "open"
    BY <1>1, <2>1 DEF CallersOpen
  <2>3. Holding
    BY <2>1 DEF Holding
  <2>4. /\ opened' \subseteq opened /\ \A k \in opened : sealing[k] # "no" => k \in opened'
    BY <2>1
  <2> QED
    BY <2>1, <2>2, <2>3, <2>4, QuietKeeps
<1> QED
  BY <1>5, <1>6, <1>7, <1>8, <1>9, <1>10, <1>11

(* A member that notes what a sync has made durable.                       *)
LEMMA NotedMember ==
    ASSUME TypeOK, TypeOK', MembersTrue, Physical, owner = "open",
           frames' = frames, lsn' = lsn, owner' = owner, segment' = segment,
           offset' = offset, NEW m \in Members, Live(m),
           member'[m].checkpoint = member[m].checkpoint, member'[m].seq = member[m].seq,
           member'[m].lsn = member[m].lsn, member'[m].latest = member[m].latest,
           member'[m].retired = member[m].retired, member'[m].lsn <= durable',
           ScanCheckpoint(m)' = ScanCheckpoint(m)
    PROVE  MemberTrue(m)'
<1>1. MemberTrue(m)
  BY DEF MembersTrue
<1>2. FramesOf(m)' = FramesOf(m) /\ \A f \in frames : Predecessors(f)' = Predecessors(f)
  BY DEF FramesOf, Predecessors
<1>3. Positions(m)'
  <2>1. member'[m].lsn \in Nat /\ durable' \in Nat
    BY DEF TypeOK, IndexOK, MemberStates, CursorOK
  <2>2. ~(member'[m].lsn > durable')
    BY <2>1
  <2> QED
    BY <2>2 DEF Positions
<1>4. \A f : LastOf(m, f)' <=> LastOf(m, f)
  BY <1>2 DEF LastOf
<1>5. FramesOf(m) \subseteq frames
  BY DEF FramesOf
<1> QED
  BY <1>1, <1>2, <1>3, <1>4, <1>5 DEF MemberTrue

(* What a step of one member does to the others, given that it at most     *)
(* syncs.                                                                  *)
LEMMA OthersStay ==
    ASSUME TypeOK, TypeOK', DurableInv, LogInv, owner = "open",
           UNCHANGED <<frames, lsn, owner, segment, offset, evidence, segments, registered>>,
           SyncLocked \/ UNCHANGED <<files, durable>>,
           Holding, pc' # "idle" => ~poison', NEW m \in Members,
           call' = NoCall \/ call' = call,
           \A k \in Members : k # m =>
               /\ member'[k] = member[k] /\ manifest'[k] = manifest[k]
               /\ settled'[k] = settled[k] /\ retiredAt'[k] = retiredAt[k]
               /\ sealing'[k] = sealing[k] /\ (k \in opened' <=> k \in opened),
           Live(m)' => MemberTrue(m)', ManifestKept(m)', HandleTrue(m)'
    PROVE  LogInv'
<1>1. Physical /\ Logical
  BY InvParts
<1>2. LastFile = segment + 1 => pc' = "roll" \/ poison'
  BY StillHolding
<1>3. Physical' /\ durable <= durable' /\ durable' \in {durable, lsn}
  BY <1>1, <1>2, SyncKeepsLog
<1>4. durable \in Nat /\ durable' \in Nat
  BY DEF TypeOK, CursorOK
<1>5. \A k \in Members : k # m => Live(k)' = Live(k)
  BY DEF Live
<1>6. ASSUME NEW k \in Members, Live(k), k # m
      PROVE  MemberTrue(k)'
  <2>1. member'[k] = member[k] /\ manifest'[k] = manifest[k] /\ retiredAt'[k] = retiredAt[k]
    BY <1>6
  <2> QED
    BY <1>1, <1>3, <1>4, <1>6, <2>1, SyncKeepsMembers
<1>7. ASSUME NEW k \in Members, k # m
      PROVE  ManifestKept(k)'
  <2>1. ManifestsKept /\ (k \in opened' => k \in opened \/ Live(k))
    BY <1>1, <1>7 DEF Logical
  <2>2. manifest'[k] = manifest[k] /\ settled'[k] = settled[k] /\ retiredAt'[k] = retiredAt[k]
    BY <1>7
  <2> QED
    BY <1>3, <1>4, <2>1, <2>2, SyncKeepsManifest
<1>8. ASSUME NEW k \in Members, k # m
      PROVE  HandleTrue(k)'
  <2>1. HandlesTrue /\ HandleTrue(k)
    BY <1>1 DEF Logical, HandlesTrue
  <2>2. \/ call' = NoCall
        \/ call # NoCall /\ call'.id = call.id
        \/ sealing[call'.id] = "no"
    OBVIOUS
  <2>3. (k \in opened' => k \in opened) /\ (sealing[k] # "no" => k \in opened')
    BY <1>8, <2>1 DEF HandleTrue
  <2>4. /\ member'[k].lsn = member[k].lsn /\ member'[k].seq = member[k].seq
        /\ manifest'[k] = manifest[k] /\ settled'[k] = settled[k]
        /\ retiredAt'[k] = retiredAt[k] /\ sealing'[k] = sealing[k]
        /\ registered \subseteq registered'
    BY <1>8
  <2> QED
    BY <1>3, <2>1, <2>2, <2>3, <2>4, HandleStays
<1>9. Logical'
  BY <1>5, <1>6, <1>7, <1>8 DEF Logical, ManifestsKept, MembersTrue, HandlesTrue
<1>10. BusyHealthy'
  BY DEF BusyHealthy
<1>11. LeftBehind'
  BY DEF LeftBehind
<1> QED
  BY <1>3, <1>9, <1>10, <1>11 DEF LogInv, Physical, Logical

(* What a member's step may rely on, and how it may sync.                  *)
LEMMA SyncedUpTo ==
    ASSUME TypeOK, TypeOK', DurableInv, Physical, owner = "open", NEW m \in Members,
           Live(m), MembersTrue, SyncUpTo(m)
    PROVE  /\ SyncLocked \/ UNCHANGED <<files, durable>>
           /\ durable <= durable' /\ member[m].lsn <= durable'
<1>1. /\ durable \in Nat /\ durable <= lsn /\ lsn \in Nat /\ member[m].lsn \in Nat
  BY DEF TypeOK, CursorOK, IndexOK, MemberStates, DurableInv, NotesBehind
<1>2. member[m].lsn <= lsn
  BY DEF MembersTrue, MemberTrue
<1> QED
  BY <1>1, <1>2 DEF SyncUpTo, SyncLocked

LEMMA SyncMemberLog ==
    ASSUME TypeOK, TypeOK', DurableInv, LogInv, NEW m \in Members,
           SyncMember(m) \/ SealSync(m)
    PROVE  LogInv'
<1>1. /\ owner = "open" /\ pc = "idle" /\ ~poison /\ m \in opened /\ sealing[m] = "no"
      /\ SyncUpTo(m)
      /\ member' = [member EXCEPT ![m].durableSeq = member[m].seq,
                                  ![m].durablePointer = member[m].latest]
      /\ sealing' = sealing \/ sealing' = [sealing EXCEPT ![m] = "synced"]
      /\ UNCHANGED <<frames, lsn, owner, segment, offset, evidence, segments, registered,
                     manifest, settled, retiredAt, opened, pc, poison, call>>
  BY DEF SyncMember, SealSync, MemberSyncLocked, Locked
<1>2. Physical /\ Logical
  BY InvParts
<1>3. HandleTrue(m) /\ Live(m) /\ ManifestsKept /\ MembersTrue
  BY <1>1, <1>2 DEF Logical, HandlesTrue, HandleTrue
<1>4. /\ SyncLocked \/ UNCHANGED <<files, durable>>
      /\ durable <= durable' /\ member[m].lsn <= durable'
  BY <1>1, <1>2, <1>3, SyncedUpTo
<1>5. member \in [Members -> MemberStates] /\ sealing \in [Members -> {"no", "synced", "published"}]
  BY DEF TypeOK, IndexOK, HandlesOK
<1>6. /\ member'[m].checkpoint = member[m].checkpoint /\ member'[m].seq = member[m].seq
      /\ member'[m].lsn = member[m].lsn /\ member'[m].latest = member[m].latest
      /\ member'[m].retired = member[m].retired
      /\ \A k \in Members : k # m => member'[k] = member[k] /\ sealing'[k] = sealing[k]
      /\ sealing'[m] \in {"no", "synced"}
  BY <1>1, <1>5 DEF MemberStates
<1>7. MemberTrue(m)'
  <2>1. ScanCheckpoint(m)' = ScanCheckpoint(m)
    BY <1>1 DEF ScanCheckpoint
  <2> QED
    BY <1>1, <1>2, <1>3, <1>4, <1>6, <2>1, NotedMember
<1>8. ManifestKept(m)'
  <2>1. durable \in Nat /\ durable' \in Nat
    BY DEF TypeOK, CursorOK
  <2>2. m \in opened' => m \in opened \/ Live(m)
    BY <1>3
  <2>3. manifest'[m] = manifest[m] /\ settled'[m] = settled[m] /\ retiredAt'[m] = retiredAt[m]
    BY <1>1
  <2> QED
    BY <1>1, <1>3, <1>4, <2>1, <2>2, <2>3, SyncKeepsManifest
<1>9. call' = NoCall
  BY <1>1 DEF DurableInv, CallersOpen
<1>10. HandleTrue(m)'
  <2>1. Live(m)' = Live(m)
    BY <1>1 DEF Live
  <2> QED
    BY <1>1, <1>3, <1>4, <1>6, <1>9, <2>1 DEF HandleTrue
<1>11. Holding /\ (pc' # "idle" => ~poison')
  BY <1>1 DEF Holding
<1>12. \A k \in Members : k # m =>
           /\ member'[k] = member[k] /\ manifest'[k] = manifest[k]
           /\ settled'[k] = settled[k] /\ retiredAt'[k] = retiredAt[k]
           /\ sealing'[k] = sealing[k] /\ (k \in opened' <=> k \in opened)
  BY <1>1, <1>6
<1> QED
  BY <1>1, <1>4, <1>7, <1>8, <1>9, <1>10, <1>11, <1>12, OthersStay

(* A member that has never been opened is opened where it is.              *)
LEMMA UnopenedMember ==
    ASSUME TypeOK, DurableInv, LogInv, owner = "open", NEW m \in Members,
           Live(m), manifest[m] # None, ~member[m].initialized
    PROVE  /\ manifest[m] = member[m].checkpoint /\ manifest[m] = member[m].seq
           /\ member[m].seq = 0 /\ member[m].durableSeq = 0
<1>1. member[m].seq = 0 /\ member[m].durableSeq = 0
  BY DEF DurableInv, UnopenedEmpty, Live
<1>2. manifest[m] \in Nat /\ member[m].checkpoint \in Nat
  BY DEF TypeOK, RegistryOK, IndexOK, MemberStates
<1>3. ScanCheckpoint(m) = manifest[m]
  BY DEF ScanCheckpoint, Live
<1>4. member[m].checkpoint <= manifest[m] /\ manifest[m] <= member[m].seq
  BY <1>3 DEF LogInv, MembersTrue, MemberTrue
<1> QED
  BY <1>1, <1>2, <1>4

LEMMA OpenMemberLog ==
    ASSUME TypeOK, TypeOK', DurableInv, LogInv, NEW m \in Members, OpenMember(m)
    PROVE  LogInv'
<1>1. /\ owner = "open" /\ pc = "idle" /\ ~poison /\ m \notin opened /\ m \in registered
      /\ SyncUpTo(m) /\ manifest[m] # None /\ Live(m)
      /\ settled' = [settled EXCEPT ![m] = manifest[m]] /\ opened' = opened \cup {m}
      /\ member' = IF member[m].initialized THEN member
                   ELSE [member EXCEPT ![m].initialized = TRUE,
                                       ![m].checkpoint = manifest[m],
                                       ![m].seq = manifest[m],
                                       ![m].durableSeq = manifest[m]]
      /\ UNCHANGED <<frames, lsn, owner, segment, offset, evidence, segments, registered,
                     manifest, retiredAt, sealing, pc, poison, call>>
  BY DEF OpenMember, Locked, Live
<1>2. Physical /\ Logical
  BY InvParts
<1>3. HandleTrue(m) /\ ManifestKept(m) /\ ManifestsKept /\ MembersTrue
  BY <1>2 DEF Logical, HandlesTrue, ManifestsKept
<1>4. /\ SyncLocked \/ UNCHANGED <<files, durable>>
      /\ durable <= durable' /\ member[m].lsn <= durable'
  BY <1>1, <1>2, <1>3, SyncedUpTo
<1>5. /\ member \in [Members -> MemberStates] /\ settled \in [Members -> Nat \cup {None}]
      /\ manifest \in [Members -> Nat \cup {None}]
  BY DEF TypeOK, IndexOK, RegistryOK
<1>6. \A k \in Members : k # m => member'[k] = member[k] /\ settled'[k] = settled[k]
  BY <1>1, <1>5
<1>7. /\ member'[m].checkpoint = member[m].checkpoint /\ member'[m].seq = member[m].seq
      /\ member'[m].lsn = member[m].lsn /\ member'[m].latest = member[m].latest
      /\ member'[m].retired = member[m].retired
  <2>1. CASE member[m].initialized
    BY <1>1, <2>1
  <2>2. CASE ~member[m].initialized
    <3>1. manifest[m] = member[m].checkpoint /\ manifest[m] = member[m].seq
      BY <1>1, <2>2, UnopenedMember
    <3>2. member' = [member EXCEPT ![m].initialized = TRUE,
                                   ![m].checkpoint = manifest[m],
                                   ![m].seq = manifest[m],
                                   ![m].durableSeq = manifest[m]]
      BY <1>1, <2>2
    <3> QED
      BY <1>5, <3>1, <3>2 DEF MemberStates
  <2> QED
    BY <2>1, <2>2
<1>8. MemberTrue(m)'
  <2>1. ScanCheckpoint(m)' = ScanCheckpoint(m)
    BY <1>1 DEF ScanCheckpoint
  <2> QED
    BY <1>1, <1>2, <1>3, <1>4, <1>7, <2>1, NotedMember
<1>9. Live(m)' /\ settled'[m] = manifest'[m] /\ manifest'[m] = manifest[m]
  BY <1>1, <1>5 DEF Live
<1>10. ManifestKept(m)'
  <2>1. manifest[m] \in Nat /\ durable \in Nat /\ durable' \in Nat
    BY <1>1, <1>5 DEF TypeOK, CursorOK
  <2>2. FramesOf(m)' = FramesOf(m) /\ \A f \in FramesOf(m) : f.lsn \in Nat
    BY <1>1, FrameParts DEF FramesOf
  <2>3. \A f \in FramesOf(m) : f.lsn <= durable => f.lsn <= durable'
    BY <1>4, <2>1, <2>2
  <2> QED
    BY <1>1, <1>3, <1>9, <2>1, <2>2, <2>3 DEF ManifestKept, None
<1>11. call' = NoCall
  BY <1>1 DEF DurableInv, CallersOpen
<1>12. HandleTrue(m)'
  <2>1. sealing'[m] = "no"
    BY <1>1, <1>3 DEF HandleTrue
  <2> QED
    BY <1>1, <1>9, <2>1 DEF HandleTrue
<1>13. Holding /\ (pc' # "idle" => ~poison')
  BY <1>1 DEF Holding
<1>14. \A k \in Members : k # m =>
           /\ member'[k] = member[k] /\ manifest'[k] = manifest[k]
           /\ settled'[k] = settled[k] /\ retiredAt'[k] = retiredAt[k]
           /\ sealing'[k] = sealing[k] /\ (k \in opened' <=> k \in opened)
  BY <1>1, <1>6
<1> QED
  BY <1>1, <1>4, <1>8, <1>10, <1>11, <1>12, <1>13, <1>14, OthersStay

(* The initial MANIFEST of a member that has accepted nothing.             *)
LEMMA PublishInitialLog ==
    ASSUME TypeOK, TypeOK', DurableInv, LogInv, NEW m \in Members, PublishInitial(m)
    PROVE  LogInv'
<1>1. /\ owner = "open" /\ m \in registered /\ manifest[m] = None /\ Live(m)
      /\ manifest' = [manifest EXCEPT ![m] = 0]
      /\ settled' = [settled EXCEPT ![m] = 0] \/ settled' = settled
      /\ poison' = poison \/ (pc = "idle" /\ poison' = TRUE)
      /\ UNCHANGED <<files, durable>>
      /\ UNCHANGED <<frames, lsn, owner, segment, offset, evidence, segments, registered,
                     member, retiredAt, sealing, opened, pc, call>>
  BY DEF PublishInitial, Live, cursor, index
<1>2. HandleTrue(m) /\ ManifestKept(m) /\ MemberTrue(m)
  BY <1>1 DEF LogInv, HandlesTrue, ManifestsKept, MembersTrue
<1>3. settled \in [Members -> Nat \cup {None}] /\ manifest \in [Members -> Nat \cup {None}]
  BY DEF TypeOK, RegistryOK
<1>4. settled[m] = None
  <2>1. settled[m] <= manifest[m] /\ settled[m] \in Nat \cup {None}
    BY <1>2, <1>3 DEF ManifestKept
  <2> QED
    BY <1>1, <2>1 DEF None
<1>5. FramesOf(m) = {} /\ FramesOf(m)' = {}
  <2>1. FramesOf(m) = {}
    BY <1>1, <1>2, <1>4 DEF ManifestKept
  <2> QED
    BY <1>1, <2>1 DEF FramesOf
<1>6. manifest'[m] = 0 /\ settled'[m] \in {0, None} /\ Live(m)' = Live(m)
  BY <1>1, <1>3, <1>4 DEF Live
<1>7. ManifestKept(m)'
  BY <1>1, <1>5, <1>6 DEF ManifestKept, None
<1>8. m \notin opened /\ sealing[m] = "no"
  BY <1>2, <1>4 DEF HandleTrue
<1>9. HandleTrue(m)'
  BY <1>1, <1>8 DEF HandleTrue
<1>10. MemberTrue(m)'
  <2>1. ScanCheckpoint(m)' = ScanCheckpoint(m)
    BY <1>1, <1>6 DEF ScanCheckpoint, Live, None
  <2>2. Positions(m)' = Positions(m)
    BY <1>1 DEF Positions, FramesOf
  <2> QED
    BY <1>1, <1>2, <1>5, <2>1, <2>2 DEF MemberTrue
<1>11. BusyHealthy
  BY DEF LogInv
<1>12. Holding /\ (pc' # "idle" => ~poison')
  BY <1>1, <1>11 DEF Holding, BusyHealthy
<1>13. \A k \in Members : k # m =>
           /\ member'[k] = member[k] /\ manifest'[k] = manifest[k]
           /\ settled'[k] = settled[k] /\ retiredAt'[k] = retiredAt[k]
           /\ sealing'[k] = sealing[k] /\ (k \in opened' <=> k \in opened)
  BY <1>1, <1>3
<1> QED
  BY <1>1, <1>7, <1>9, <1>10, <1>12, <1>13, OthersStay

(* The last record of a member whose records are all durable.              *)
LEMMA LastIsHighest ==
    ASSUME TypeOK, LogInv, owner = "open", NEW m \in Members, Live(m)
    PROVE  /\ \A f \in FramesOf(m) : f.seq <= member[m].seq
           /\ FramesOf(m) # {} => \E g \in FramesOf(m) : /\ g.seq = member[m].seq
                                                         /\ g.lsn = member[m].lsn
<1>1. MemberTrue(m)
  BY DEF LogInv, MembersTrue
<1>2. ASSUME NEW f \in FramesOf(m)
      PROVE  f.seq <= member[m].seq
  <2>1. PICK g \in frames : LastOf(m, g)
    BY <1>1 DEF MemberTrue
  <2>2. g \in frames /\ g.id = m /\ g.seq = member[m].seq /\ g.lsn = member[m].lsn
    BY <2>1 DEF LastOf, FramesOf
  <2>3. f \in frames /\ f.id = m /\ f.lsn <= member[m].lsn
    BY <1>1 DEF MemberTrue, FramesOf
  <2>4. f.lsn \in Nat /\ g.lsn \in Nat /\ f.seq \in Nat /\ g.seq \in Nat
    BY <2>2, <2>3, FrameParts
  <2>5. CASE f.lsn = g.lsn
    BY <2>2, <2>3, <2>4, <2>5 DEF LogInv, LogShape, FramesApart
  <2>6. CASE f.lsn < g.lsn
    <3>1. f.seq < g.seq
      BY <2>2, <2>3, <2>6 DEF LogInv, LogShape, SeqsRise
    <3> QED
      BY <2>2, <2>4, <3>1
  <2> QED
    BY <2>2, <2>3, <2>4, <2>5, <2>6
<1>3. FramesOf(m) # {} => \E g \in FramesOf(m) : /\ g.seq = member[m].seq
                                                 /\ g.lsn = member[m].lsn
  BY <1>1 DEF MemberTrue, LastOf
<1> QED
  BY <1>2, <1>3

LEMMA SealPublishLog ==
    ASSUME TypeOK, TypeOK', DurableInv, LogInv, NEW m \in Members, SealPublish(m)
    PROVE  LogInv'
<1>1. /\ owner = "open" /\ sealing[m] = "synced"
      /\ poison' = poison \/ (pc = "idle" /\ poison' = TRUE)
      /\ UNCHANGED <<files, durable>>
      /\ UNCHANGED <<frames, lsn, owner, segment, offset, evidence, segments, registered,
                     member, retiredAt, opened, pc, call>>
      /\ \/ /\ manifest' = [manifest EXCEPT ![m] = member[m].seq]
            /\ settled' = [settled EXCEPT ![m] = member[m].seq]
            /\ sealing' = [sealing EXCEPT ![m] = "published"]
         \/ /\ manifest' = manifest \/ manifest' = [manifest EXCEPT ![m] = member[m].seq]
            /\ settled' = settled
            /\ sealing' = [sealing EXCEPT ![m] = "no"]
  BY DEF SealPublish, cursor, index
<1>2. HandleTrue(m) /\ ManifestKept(m)
  BY DEF LogInv, HandlesTrue, ManifestsKept
<1>3. m \in opened /\ m \in registered /\ Live(m) /\ settled[m] # None
      /\ member[m].lsn <= durable
  BY <1>1, <1>2 DEF HandleTrue
<1>4. MemberTrue(m)
  BY <1>1, <1>3 DEF LogInv, MembersTrue
<1>5. /\ settled \in [Members -> Nat \cup {None}] /\ manifest \in [Members -> Nat \cup {None}]
      /\ sealing \in [Members -> {"no", "synced", "published"}]
      /\ member[m].seq \in Nat /\ member[m].checkpoint \in Nat
  BY DEF TypeOK, RegistryOK, HandlesOK, IndexOK, MemberStates
<1>6. settled[m] \in Nat /\ manifest[m] \in Nat /\ settled[m] <= manifest[m]
  <2>1. settled[m] <= manifest[m]
    BY <1>2 DEF ManifestKept
  <2> QED
    BY <1>3, <1>5, <2>1 DEF None
<1>7. ScanCheckpoint(m) = manifest[m] /\ manifest[m] <= member[m].seq
  <2>1. ScanCheckpoint(m) = manifest[m]
    BY <1>3, <1>6 DEF ScanCheckpoint, Live, None
  <2> QED
    BY <1>4, <2>1 DEF MemberTrue
<1>8. /\ manifest'[m] \in {manifest[m], member[m].seq}
      /\ \/ settled'[m] = settled[m]
         \/ settled'[m] = member[m].seq /\ manifest'[m] = member[m].seq
      /\ sealing'[m] = "no" \/ (sealing'[m] = "published" /\ manifest'[m] = member[m].seq)
      /\ \A k \in Members : k # m => /\ manifest'[k] = manifest[k] /\ settled'[k] = settled[k]
                                     /\ sealing'[k] = sealing[k]
  BY <1>1, <1>5
<1>9. settled'[m] \in Nat /\ manifest'[m] \in Nat /\ settled'[m] <= manifest'[m]
      /\ manifest[m] <= manifest'[m] /\ manifest'[m] <= member[m].seq
  BY <1>5, <1>6, <1>7, <1>8
<1>10. Live(m)' = Live(m) /\ FramesOf(m)' = FramesOf(m) /\ Live(m)
  BY <1>1, <1>3 DEF Live, FramesOf
<1>11. ManifestKept(m)'
  <2>1. ASSUME NEW f \in FramesOf(m), f.seq <= manifest'[m]
        PROVE  \E g \in FramesOf(m) : g.seq >= manifest'[m] /\ g.lsn <= durable'
    <3>1. PICK g \in FramesOf(m) : g.seq = member[m].seq /\ g.lsn = member[m].lsn
      BY <1>1, <1>3, LastIsHighest
    <3> QED
      BY <1>1, <1>3, <1>5, <1>9, <3>1
  <2>2. settled'[m] # None
    BY <1>9 DEF None
  <2> QED
    BY <1>9, <1>10, <2>1, <2>2 DEF ManifestKept
<1>12. MemberTrue(m)'
  <2>1. ScanCheckpoint(m)' = manifest'[m]
    BY <1>1, <1>3, <1>9 DEF ScanCheckpoint, Live, None
  <2>2. Positions(m)' = Positions(m)
    BY <1>1 DEF Positions, FramesOf
  <2>3. \A f : LastOf(m, f)' = LastOf(m, f)
    BY <1>1 DEF LastOf, FramesOf
  <2>4. \A f \in frames : Predecessors(f)' = Predecessors(f)
    BY <1>1 DEF Predecessors, FramesOf
  <2>5. member[m].checkpoint <= manifest'[m]
    <3>1. member[m].checkpoint <= manifest[m]
      BY <1>4, <1>7 DEF MemberTrue
    <3> QED
      BY <1>5, <1>6, <1>9, <3>1
  <2>6. FramesOf(m) \subseteq frames
    BY DEF FramesOf
  <2> QED
    BY <1>1, <1>4, <1>9, <1>10, <2>1, <2>2, <2>3, <2>4, <2>5, <2>6 DEF MemberTrue
<1>13. HandleTrue(m)'
  <2>1. call = NoCall \/ call.id # m
    BY <1>1, <1>2 DEF HandleTrue
  <2>2. settled'[m] # None
    BY <1>9 DEF None
  <2> QED
    BY <1>1, <1>3, <1>8, <1>10, <2>1, <2>2 DEF HandleTrue
<1>14. BusyHealthy
  BY DEF LogInv
<1>15. Holding /\ (pc' # "idle" => ~poison')
  BY <1>1, <1>14 DEF Holding, BusyHealthy
<1>16. \A k \in Members : k # m =>
           /\ member'[k] = member[k] /\ manifest'[k] = manifest[k]
           /\ settled'[k] = settled[k] /\ retiredAt'[k] = retiredAt[k]
           /\ sealing'[k] = sealing[k] /\ (k \in opened' <=> k \in opened)
  BY <1>1, <1>8
<1> QED
  BY <1>1, <1>11, <1>12, <1>13, <1>15, <1>16, OthersStay

LEMMA SealCheckpointLog ==
    ASSUME TypeOK, TypeOK', DurableInv, LogInv, NEW m \in Members, SealCheckpoint(m)
    PROVE  LogInv'
<1>1. /\ owner = "open" /\ pc = "idle" /\ ~poison /\ sealing[m] = "published"
      /\ member' = [member EXCEPT ![m].checkpoint = member[m].seq]
      /\ sealing' = [sealing EXCEPT ![m] = "no"] /\ poison' = poison /\ call' = call
      /\ UNCHANGED <<files, durable>>
      /\ UNCHANGED <<frames, lsn, owner, segment, offset, evidence, segments, registered,
                     manifest, settled, retiredAt, opened>>
  BY DEF SealCheckpoint, Locked, disk, cursor
<1>2. HandleTrue(m) /\ ManifestKept(m)
  BY DEF LogInv, HandlesTrue, ManifestsKept
<1>3. m \in opened /\ m \in registered /\ Live(m) /\ settled[m] # None
      /\ member[m].lsn <= durable /\ manifest[m] = member[m].seq
  BY <1>1, <1>2 DEF HandleTrue
<1>4. MemberTrue(m)
  BY <1>1, <1>3 DEF LogInv, MembersTrue
<1>5. /\ sealing \in [Members -> {"no", "synced", "published"}]
      /\ member \in [Members -> MemberStates]
      /\ member[m].seq \in Nat /\ member[m].checkpoint \in Nat /\ member[m].lsn \in Nat
      /\ durable \in Nat
  BY DEF TypeOK, HandlesOK, IndexOK, MemberStates, CursorOK
<1>6. /\ member'[m].checkpoint = member[m].seq /\ member'[m].seq = member[m].seq
      /\ member'[m].lsn = member[m].lsn /\ member'[m].latest = member[m].latest
      /\ member'[m].retired = member[m].retired
      /\ sealing'[m] = "no"
      /\ \A k \in Members : k # m => member'[k] = member[k] /\ sealing'[k] = sealing[k]
  BY <1>1, <1>5 DEF MemberStates
<1>7. ScanCheckpoint(m) = manifest[m] /\ ScanCheckpoint(m)' = manifest[m]
  <2>1. manifest[m] # None
    BY <1>3, <1>5 DEF None
  <2> QED
    BY <1>1, <1>3, <2>1 DEF ScanCheckpoint, Live
<1>8. FramesOf(m)' = FramesOf(m) /\ \A f \in frames : Predecessors(f)' = Predecessors(f)
  BY <1>1 DEF FramesOf, Predecessors
<1>9. MemberTrue(m)'
  <2>1. Positions(m)'
    <3>1. ~(member'[m].lsn > durable')
      BY <1>1, <1>3, <1>5, <1>6
    <3> QED
      BY <3>1 DEF Positions
  <2>2. \A f : LastOf(m, f)' <=> LastOf(m, f)
    BY <1>6, <1>8 DEF LastOf
  <2>3. FramesOf(m) \subseteq frames
    BY DEF FramesOf
  <2>4. ~(member'[m].seq > member'[m].checkpoint)
        /\ member'[m].checkpoint <= manifest[m] /\ manifest[m] <= member'[m].seq
    BY <1>3, <1>5, <1>6
  <2>5. \A f \in FramesOf(m) : f.seq > member'[m].checkpoint + 1 => Predecessors(f) # {}
    <3>1. member[m].checkpoint <= member[m].seq
      BY <1>3, <1>4, <1>7 DEF MemberTrue
    <3>2. \A f \in FramesOf(m) : f.seq \in Nat
      BY <2>3, FrameParts
    <3>3. \A f \in FramesOf(m) : f.seq > member[m].seq + 1 => f.seq > member[m].checkpoint + 1
      BY <1>5, <3>1, <3>2
    <3> QED
      BY <1>4, <1>6, <3>3 DEF MemberTrue
  <2> QED
    BY <1>1, <1>4, <1>6, <1>7, <1>8, <2>1, <2>2, <2>3, <2>4, <2>5 DEF MemberTrue
<1>10. ManifestKept(m)'
  <2>1. durable' \in Nat /\ (m \in opened' => m \in opened \/ Live(m)) /\ ManifestsKept
        /\ durable <= durable'
    BY <1>1, <1>3, <1>5 DEF LogInv
  <2>2. manifest'[m] = manifest[m] /\ settled'[m] = settled[m] /\ retiredAt'[m] = retiredAt[m]
    BY <1>1
  <2> QED
    BY <1>1, <1>5, <2>1, <2>2, SyncKeepsManifest
<1>11. HandleTrue(m)'
  BY <1>1, <1>3, <1>6 DEF HandleTrue, Live
<1>12. Holding /\ (pc' # "idle" => ~poison')
  BY <1>1 DEF Holding
<1>13. \A k \in Members : k # m =>
           /\ member'[k] = member[k] /\ manifest'[k] = manifest[k]
           /\ settled'[k] = settled[k] /\ retiredAt'[k] = retiredAt[k]
           /\ sealing'[k] = sealing[k] /\ (k \in opened' <=> k \in opened)
  BY <1>1, <1>6
<1> QED
  BY <1>1, <1>9, <1>10, <1>11, <1>12, <1>13, OthersStay

LEMMA RetireLog ==
    ASSUME TypeOK, TypeOK', DurableInv, LogInv, NEW m \in Members, Retire(m)
    PROVE  LogInv'
<1>1. /\ owner = "open" /\ pc = "idle" /\ ~poison /\ m \notin opened /\ Live(m)
      /\ retiredAt' = [retiredAt EXCEPT ![m] = member[m].seq]
      /\ \/ member' = [member EXCEPT ![m].retired = TRUE] /\ poison' = poison
         \/ poison' = TRUE /\ member' = member /\ pc' = pc
      /\ call' = call /\ UNCHANGED <<files, durable>>
      /\ UNCHANGED <<frames, lsn, owner, segment, offset, evidence, segments, registered,
                     manifest, settled, sealing, opened>>
  BY DEF Retire, Locked, Live, cursor
<1>2. HandleTrue(m) /\ ManifestKept(m)
  BY DEF LogInv, HandlesTrue, ManifestsKept
<1>3. /\ member \in [Members -> MemberStates] /\ member[m].seq \in Nat
      /\ retiredAt \in [Members -> Nat \cup {None}]
  BY DEF TypeOK, IndexOK, MemberStates, RegistryOK
<1>4. /\ retiredAt'[m] = member[m].seq /\ ~Live(m)'
      /\ \A k \in Members : k # m => member'[k] = member[k] /\ retiredAt'[k] = retiredAt[k]
  <2>1. member[m].seq # None
    BY <1>3 DEF None
  <2> QED
    BY <1>1, <1>3, <2>1 DEF Live
<1>5. ManifestKept(m)'
  <2>1. \A f \in FramesOf(m) : f.seq <= member[m].seq
    BY <1>1, LastIsHighest
  <2>2. FramesOf(m)' = FramesOf(m)
    BY <1>1 DEF FramesOf
  <2> QED
    BY <1>1, <1>2, <1>4, <2>1, <2>2 DEF ManifestKept
<1>6. HandleTrue(m)'
  <2>1. sealing[m] = "no"
    BY <1>1, <1>2 DEF HandleTrue
  <2> QED
    BY <1>1, <2>1 DEF HandleTrue
<1>7. Holding /\ (pc' # "idle" => ~poison')
  BY <1>1 DEF Holding
<1>8. \A k \in Members : k # m =>
          /\ member'[k] = member[k] /\ manifest'[k] = manifest[k]
          /\ settled'[k] = settled[k] /\ retiredAt'[k] = retiredAt[k]
          /\ sealing'[k] = sealing[k] /\ (k \in opened' <=> k \in opened)
  BY <1>1, <1>4
<1> QED
  BY <1>1, <1>4, <1>5, <1>6, <1>7, <1>8, OthersStay

-----------------------------------------------------------------------------
(***************************************************************************)
(* Collecting the lowest segment.                                          *)
(***************************************************************************)
(* The index begins with the lowest file.                                  *)
LEMMA LowestIsFirst ==
    ASSUME TypeOK, LogShape, CursorTrue, IndexTrue, owner = "open"
    PROVE  Lowest = LowestFile /\ LowestFile <= segment
<1>1. segment \in DOMAIN files /\ DOMAIN segments = {n \in DOMAIN files : n <= segment}
  BY DEF CursorTrue, IndexTrue
<1> PICK a \in Nat, b \in Nat, s \in Nat : a = LowestFile /\ b = LastFile /\ s = segment
  BY RowNumbers
<1>2. DOMAIN files = a .. b
  BY DEF LogShape, FilesInRow
<1>3. a <= s /\ s <= b
  BY <1>1, <1>2
<1>4. DOMAIN segments = a .. s
  BY <1>1, <1>2, <1>3
<1>5. Min(a .. s) = a
  BY <1>3, RowEnds
<1> QED
  BY <1>3, <1>4, <1>5 DEF Lowest

(* While garbage is collected there is no file behind the active segment.  *)
LEMMA Collecting ==
    ASSUME TypeOK, LogInv, pc \in {"gc", "evidence", "append", "preflight"}
    PROVE  owner = "open" /\ ~poison /\ LastFile = segment
<1>1. owner = "open" /\ ~poison
  BY DEF TypeOK, CallOK, LogInv, BusyHealthy
<1> QED
  BY <1>1 DEF LogInv, CursorTrue

LEMMA GcEvidenceLog ==
    ASSUME TypeOK, TypeOK', DurableInv, LogInv, GcEvidence
    PROVE  LogInv'
<1>1. owner = "open" /\ ~poison /\ LastFile = segment
  BY Collecting DEF GcEvidence
<1>2. /\ evidence' = evidence \/ evidence' = Restrict(evidence, DOMAIN evidence \ {Lowest - 1})
      /\ call' = call \/ call' = NoCall
      /\ pc' = "idle" \/ (pc' = "gc" /\ poison' = poison)
      /\ UNCHANGED <<frames, files, durable, lsn, owner, segment, offset, segments, registered,
                     member, manifest, settled, retiredAt, sealing, opened>>
  BY DEF GcEvidence, cursor, index
<1>3. Lowest = LowestFile
  BY <1>1, LowestIsFirst DEF LogInv
<1>4. \A n \in DOMAIN files : n # Lowest - 1
  BY <1>3, RowNumbers
<1>5. /\ DOMAIN evidence' \subseteq DOMAIN evidence
      /\ \A n \in DOMAIN evidence' : evidence'[n] = evidence[n]
      /\ \A n \in DOMAIN files : n \in DOMAIN evidence' <=> n \in DOMAIN evidence
  BY <1>2, <1>4 DEF Restrict
<1>6. LogShape' /\ LowestFile' = LowestFile /\ LastFile' = LastFile
      /\ \A n : FramesIn(n)' = FramesIn(n) /\ After(n)' = After(n)
  BY <1>2, LogSame DEF LogInv
<1>7. \A n \in DOMAIN files : /\ Empty(n)' = Empty(n) /\ ScanEnd(n)' = ScanEnd(n)
                              /\ Torn(n)' = Torn(n)
  <2>1. \A n \in DOMAIN files : Empty(n)' = Empty(n)
    BY <1>2, <1>5 DEF Empty
  <2>2. \A n \in DOMAIN files : ScanEnd(n)' = ScanEnd(n)
    BY <1>6, <2>1, ScanSame
  <2> QED
    BY <1>2, <2>1, <2>2 DEF Torn
<1>8. Boundaries'
  <2>1. Active' = Active
    BY <1>1, <1>2 DEF Active
  <2>2. \A n \in DOMAIN evidence' : n \in DOMAIN files' => Frozen(n)'
    <3>1. \A n \in DOMAIN evidence : n \in DOMAIN files => Frozen(n)
      BY DEF LogInv, Boundaries
    <3> QED
      BY <1>2, <1>5, <1>6, <1>7, <3>1 DEF Frozen
  <2>3. \A n \in DOMAIN evidence' : /\ n \in Int /\ n <= Active'
                                    /\ owner' = "open" => n < Active'
    BY <1>2, <1>5, <2>1 DEF LogInv, Boundaries
  <2>4. \A n \in DOMAIN files' : Empty(n)' => FramesIn(n)' = {}
    BY <1>2, <1>6, <1>7 DEF LogInv, Boundaries
  <2>5. \A n \in DOMAIN files' :
            Empty(n)' => n \in DOMAIN evidence' \/ (n = LastFile' /\ n # LowestFile')
    BY <1>2, <1>5, <1>6, <1>7 DEF LogInv, Boundaries
  <2>6. \A n \in DOMAIN files' \ DOMAIN evidence' : n < Active' => ~Torn(n)'
    BY <1>2, <1>5, <1>7, <2>1 DEF LogInv, Boundaries
  <2>7. \A n \in DOMAIN files' : files'[n].synced <= files'[n].length
    BY <1>2 DEF LogInv, Boundaries
  <2> QED
    BY <1>1, <1>2, <2>2, <2>3, <2>4, <2>5, <2>6, <2>7 DEF Boundaries
<1>9. DurableFrames' /\ CursorTrue' /\ IndexTrue'
  <2>1. DurableFrames'
    BY <1>2, <1>6 DEF LogInv, DurableFrames, Synced, FrameEnd
  <2>2. LastFile' # segment' + 1
    BY <1>1, <1>2, <1>6, RowNumbers
  <2>3. CursorTrue'
    BY <1>2, <1>6, <2>2 DEF LogInv, CursorTrue
  <2>4. IndexTrue'
    BY <1>2, <1>6 DEF LogInv, IndexTrue
  <2> QED
    BY <2>1, <2>3, <2>4
<1>10. Physical /\ Logical
  BY InvParts
<1>11. durable \in Nat /\ durable' = durable /\ durable <= durable'
  <2>1. durable \in Nat
    BY DEF TypeOK, CursorOK
  <2> QED
    BY <1>2, <2>1
<1>12. ASSUME NEW m \in Members, Live(m)
       PROVE  MemberTrue(m)'
  BY <1>1, <1>2, <1>10, <1>11, <1>12, SyncKeepsMembers
<1>13. ASSUME NEW m \in Members
       PROVE  ManifestKept(m)' /\ HandleTrue(m)'
  <2>1. ManifestsKept /\ HandlesTrue
    BY <1>10 DEF Logical
  <2>2. ManifestKept(m)'
    BY <1>2, <1>11, <2>1, SyncKeepsManifest
  <2>3. HandleTrue(m)
    BY <2>1 DEF HandlesTrue
  <2>4. HandleTrue(m)'
    BY <1>2, <2>3 DEF HandleTrue, Live
  <2> QED
    BY <2>2, <2>4
<1>14. \A m \in Members : Live(m)' = Live(m)
  BY <1>2 DEF Live
<1>15. Logical'
  BY <1>12, <1>13, <1>14 DEF Logical, ManifestsKept, MembersTrue, HandlesTrue
<1>16. BusyHealthy' /\ LeftBehind'
  BY <1>1, <1>2 DEF BusyHealthy, LeftBehind
<1> QED
  BY <1>6, <1>8, <1>9, <1>15, <1>16 DEF LogInv, Logical

(* What goes with the lowest segment is at or below the checkpoints.       *)
LEMMA GoneBelow ==
    ASSUME TypeOK, LogInv, owner = "open", Collectable(Lowest),
           NEW f \in FramesIn(LowestFile), f.id \in Members, Live(f.id)
    PROVE  f.seq <= member[f.id].checkpoint
<1>1. Lowest = LowestFile /\ LowestFile <= segment
  BY LowestIsFirst DEF LogInv
<1>2. LowestFile \in DOMAIN segments
  BY <1>1, RowNumbers DEF LogInv, IndexTrue
<1>3. f.id \in DOMAIN segments[LowestFile].members
      /\ f.seq <= segments[LowestFile].members[f.id]
  BY <1>2 DEF LogInv, IndexTrue
<1>4. ~member[f.id].retired
  BY DEF LogInv, MembersTrue, MemberTrue
<1>5. member[f.id].checkpoint >= segments[LowestFile].members[f.id]
  BY <1>1, <1>3, <1>4 DEF Collectable
<1>6. f.seq \in Nat /\ segments[LowestFile].members[f.id] \in Nat
      /\ member[f.id].checkpoint \in Nat
  <2>1. f \in frames
    BY DEF FramesIn
  <2> QED
    BY <1>2, <1>3, <2>1, FrameParts DEF TypeOK, IndexOK, MemberStates
<1> QED
  BY <1>3, <1>5, <1>6

(* A member keeps what it needs of the log when the lowest file goes.      *)
LEMMA UnlinkKeepsMember ==
    ASSUME TypeOK, LogInv, owner = "open",
           frames' = frames \ FramesIn(LowestFile),
           \A f \in frames' : \A g \in frames \ frames' : g.lsn < f.lsn,
           UNCHANGED <<lsn, durable, segment, offset, member, manifest, retiredAt>>,
           NEW m \in Members, Live(m),
           \A f \in FramesIn(LowestFile) : f.id = m => f.seq <= member[m].checkpoint
    PROVE  MemberTrue(m)'
<1>1. MemberTrue(m)
  BY DEF LogInv, MembersTrue
<1>2. /\ FramesOf(m)' = FramesOf(m) \ FramesIn(LowestFile)
      /\ FramesOf(m) \subseteq frames /\ FramesOf(m)' \subseteq frames'
      /\ \A f \in FramesOf(m) : f.id = m
  BY DEF FramesOf
<1>3. ScanCheckpoint(m)' = ScanCheckpoint(m)
  BY DEF ScanCheckpoint
<1>4. /\ member[m].seq \in Nat /\ member[m].lsn \in Nat /\ member[m].durableSeq \in Nat
      /\ member[m].checkpoint \in Nat
  BY DEF TypeOK, IndexOK, MemberStates
<1>5. \A f \in FramesOf(m) : /\ f.seq \in Nat /\ f.lsn \in Nat
                             /\ f.seq > member[m].checkpoint => f \in FramesOf(m)'
  <2>1. \A f \in FramesOf(m) : f.seq \in Nat /\ f.lsn \in Nat
    BY <1>2, FrameParts
  <2>2. \A f \in FramesOf(m) : f.seq > member[m].checkpoint => f \notin FramesIn(LowestFile)
    BY <1>2, <1>4, <2>1
  <2> QED
    BY <1>2, <2>1, <2>2
<1>6. FramesOf(m)' # {} => \E f \in frames' : LastOf(m, f)'
  <2> SUFFICES ASSUME NEW h \in FramesOf(m)'
               PROVE  \E f \in frames' : LastOf(m, f)'
    OBVIOUS
  <2>1. PICK f \in frames : LastOf(m, f)
    BY <1>1, <1>2 DEF MemberTrue
  <2>2. f \in FramesOf(m) /\ f.lsn = member[m].lsn
    BY <2>1 DEF LastOf
  <2>3. h.lsn <= f.lsn
    BY <1>1, <1>2, <2>2 DEF MemberTrue
  <2>4. ~(f.lsn < h.lsn)
    BY <1>2, <1>5, <2>2, <2>3
  <2>5. f \in frames'
    BY <1>2, <2>2, <2>4
  <2>6. f \in FramesOf(m)'
    BY <1>2, <2>2, <2>5
  <2> QED
    BY <2>1, <2>5, <2>6 DEF LastOf
<1>7. \A f \in FramesOf(m)' : f.lsn <= member'[m].lsn
  BY <1>1, <1>2 DEF MemberTrue
<1>8. member'[m].seq > member'[m].checkpoint => FramesOf(m)' # {}
  <2> SUFFICES ASSUME member[m].seq > member[m].checkpoint
               PROVE  FramesOf(m)' # {}
    OBVIOUS
  <2>1. PICK f \in frames : LastOf(m, f)
    BY <1>1 DEF MemberTrue
  <2> QED
    BY <1>5, <2>1 DEF LastOf
<1>9. ASSUME NEW f \in FramesOf(m)', f.seq > member[m].checkpoint + 1
      PROVE  Predecessors(f)' # {}
  <2>1. f \in FramesOf(m) /\ f \in frames /\ f.id = m
    BY <1>2
  <2>2. PICK g \in frames : LinkedTo(f, g)
    BY <1>1, <1>9, <2>1 DEF LogInv, LogShape, Linked, MemberTrue
  <2>3. g \in FramesOf(m) /\ g.lsn < f.lsn /\ f.seq = g.seq + 1
    BY <2>1, <2>2 DEF LinkedTo, Predecessors
  <2>4. g.seq > member[m].checkpoint
    BY <1>4, <1>5, <1>9, <2>1, <2>3
  <2>5. g \in FramesOf(m)'
    BY <1>5, <2>3, <2>4
  <2> QED
    BY <2>1, <2>3, <2>5 DEF Predecessors
<1>10. Positions(m)'
  <2>1. Positions(m)
    BY <1>1 DEF MemberTrue
  <2> QED
    BY <1>2, <1>4, <1>5, <2>1 DEF Positions
<1> QED
  BY <1>1, <1>3, <1>6, <1>7, <1>8, <1>9, <1>10 DEF MemberTrue

(* So does its MANIFEST.                                                   *)
LEMMA UnlinkKeepsManifest ==
    ASSUME TypeOK, LogInv,
           frames' = frames \ FramesIn(LowestFile),
           \A f \in frames' : \A g \in frames \ frames' : g.lsn < f.lsn,
           UNCHANGED <<durable, manifest, settled, retiredAt, opened>>,
           NEW m \in Members
    PROVE  ManifestKept(m)'
<1>1. ManifestKept(m)
  BY DEF LogInv, ManifestsKept
<1>2. /\ FramesOf(m)' = FramesOf(m) \ FramesIn(LowestFile)
      /\ FramesOf(m) \subseteq frames /\ FramesOf(m)' \subseteq frames'
      /\ \A f \in FramesOf(m) : f.id = m
  BY DEF FramesOf
<1>3. Live(m)' = Live(m)
  BY DEF Live
<1>4. ASSUME Live(m), NEW f \in FramesOf(m)', f.seq <= manifest[m]
      PROVE  \E g \in FramesOf(m)' : g.seq >= manifest[m] /\ g.lsn <= durable
  <2>1. f \in FramesOf(m)
    BY <1>2
  <2>2. PICK g \in FramesOf(m) : g.seq >= manifest[m] /\ g.lsn <= durable
    BY <1>1, <1>4, <2>1 DEF ManifestKept
  <2>3. g \in frames'
    <3> SUFFICES ASSUME g \notin frames'
                 PROVE  FALSE
      OBVIOUS
    <3>1. g.lsn < f.lsn /\ g \in frames /\ f \in frames /\ g.id = m /\ f.id = m
      BY <1>2, <2>1
    <3>2. g.seq < f.seq
      BY <3>1 DEF LogInv, LogShape, SeqsRise
    <3>3. f.seq \in Nat /\ g.seq \in Nat /\ manifest[m] \in Nat \cup {-1}
      BY <3>1, FrameParts DEF TypeOK, RegistryOK, None
    <3> QED
      BY <1>4, <2>2, <3>2, <3>3
  <2> QED
    BY <1>2, <2>2, <2>3
<1> QED
  BY <1>1, <1>2, <1>3, <1>4 DEF ManifestKept

LEMMA GcUnlinkLog ==
    ASSUME TypeOK, TypeOK', DurableInv, LogInv, GcUnlink
    PROVE  LogInv'
<1>1. owner = "open" /\ ~poison /\ LastFile = segment
  BY Collecting DEF GcUnlink
<1>2. Lowest = LowestFile /\ LowestFile <= segment
  BY <1>1, LowestIsFirst DEF LogInv
<1>3. /\ Collectable(Lowest) /\ Lowest # segment
      /\ files' = Restrict(files, DOMAIN files \ {LowestFile})
      /\ frames' = frames \ FramesIn(LowestFile)
      /\ segments' = Restrict(segments, DOMAIN segments \ {LowestFile})
      /\ UNCHANGED <<evidence, durable, lsn, owner, poison, segment, offset, registered,
                     call, member, manifest, settled, retiredAt, sealing, opened>>
  BY <1>2 DEF GcUnlink, Collectable, cursor
<1>4. /\ DOMAIN files' = DOMAIN files \ {LowestFile}
      /\ \A n \in DOMAIN files' : files'[n] = files[n] /\ n # LowestFile
  BY <1>3 DEF Restrict
<1>5. LowestFile # LastFile
  BY <1>1, <1>2, <1>3
<1>6. /\ LogShape' /\ LowestFile' = LowestFile + 1 /\ LastFile' = LastFile
      /\ \A n : n # LowestFile => FramesIn(n)' = FramesIn(n)
      /\ \A n \in DOMAIN files' : After(n)' = After(n)
      /\ \A f \in frames' : \A g \in frames \ frames' : g.lsn < f.lsn
  BY <1>3, <1>4, <1>5, LogFileGone DEF LogInv
<1>7. \A n \in DOMAIN files' : /\ Empty(n)' = Empty(n) /\ ScanEnd(n)' = ScanEnd(n)
                               /\ Torn(n)' = Torn(n) /\ FramesIn(n)' = FramesIn(n)
  <2>1. \A n \in DOMAIN files' : FramesIn(n)' = FramesIn(n)
    BY <1>4, <1>6
  <2>2. \A n \in DOMAIN files' : Empty(n)' = Empty(n)
    BY <1>3, <1>4 DEF Empty
  <2>3. \A n \in DOMAIN files' : ScanEnd(n)' = ScanEnd(n)
    BY <2>1, <2>2, ScanSame
  <2> QED
    BY <1>4, <2>1, <2>2, <2>3 DEF Torn
<1>8. segment \in DOMAIN files /\ segment \in DOMAIN files' /\ ~Empty(segment)
  <2>1. segment \in DOMAIN files /\ HeaderLen <= files[segment].synced
        /\ files[segment].synced <= files[segment].length
    BY <1>1 DEF LogInv, CursorTrue, Boundaries
  <2>2. segment \notin DOMAIN evidence
    <3>1. \A n \in DOMAIN evidence : n < segment
      BY <1>1 DEF LogInv, Boundaries, Active
    <3> QED
      BY <3>1, RowNumbers
  <2>3. files[segment].length \in Nat /\ files[segment].synced \in Nat /\ HeaderLen \in Nat
    BY <2>1, RowNumbers
  <2>4. ~(files[segment].length < HeaderLen)
    BY <2>1, <2>3
  <2> QED
    BY <1>1, <1>4, <1>5, <2>1, <2>2, <2>4 DEF Empty
<1>9. Boundaries'
  <2>1. Active' = Active
    BY <1>1, <1>3 DEF Active
  <2>2. \A n \in DOMAIN evidence' : n \in DOMAIN files' => Frozen(n)'
    <3>1. \A n \in DOMAIN evidence : n \in DOMAIN files => Frozen(n)
      BY DEF LogInv, Boundaries
    <3> QED
      BY <1>3, <1>4, <1>6, <1>7, <3>1 DEF Frozen
  <2>3. \A n \in DOMAIN evidence' : /\ n \in Int /\ n <= Active'
                                    /\ owner' = "open" => n < Active'
    BY <1>3, <2>1 DEF LogInv, Boundaries
  <2>4. \A n \in DOMAIN files' : Empty(n)' => FramesIn(n)' = {}
    BY <1>4, <1>7 DEF LogInv, Boundaries
  <2>5. ASSUME NEW n \in DOMAIN files', Empty(n)'
        PROVE  n \in DOMAIN evidence'
    <3>1. Empty(n) /\ n # segment
      BY <1>7, <1>8, <2>5
    <3>2. n \in DOMAIN evidence \/ n = LastFile
      BY <1>4, <3>1 DEF LogInv, Boundaries
    <3> QED
      BY <1>1, <1>3, <3>1, <3>2
  <2>6. \A n \in DOMAIN files' \ DOMAIN evidence' : n < Active' => ~Torn(n)'
    BY <1>3, <1>4, <1>7, <2>1 DEF LogInv, Boundaries
  <2>7. \A n \in DOMAIN files' : files'[n].synced <= files'[n].length
    BY <1>4 DEF LogInv, Boundaries
  <2> QED
    BY <1>1, <1>3, <2>2, <2>3, <2>4, <2>5, <2>6, <2>7 DEF Boundaries
<1>10. DurableFrames'
  <2>1. files'[LastFile'].first <= durable' + 1
    BY <1>1, <1>3, <1>4, <1>6, <1>8 DEF LogInv, DurableFrames
  <2>2. \A f \in frames' : f \in frames /\ f.at.segment \in DOMAIN files'
    BY <1>3, <1>4 DEF LogInv, LogShape, FramesPlaced, FramesIn
  <2>3. \A f \in frames' : Synced(f)' = Synced(f)
    BY <1>4, <2>2 DEF Synced, FrameEnd
  <2> QED
    BY <1>1, <1>3, <1>4, <1>8, <2>1, <2>2, <2>3 DEF LogInv, DurableFrames
<1>11. CursorTrue'
  <2>1. LastFile' # segment' + 1
    BY <1>1, <1>3, <1>6, RowNumbers
  <2>2. FramesIn(segment)' = FramesIn(segment) /\ files'[segment] = files[segment]
    BY <1>3, <1>4, <1>7, <1>8
  <2> QED
    BY <1>1, <1>3, <1>6, <1>8, <2>1, <2>2 DEF LogInv, CursorTrue
<1>12. IndexTrue'
  <2>1. /\ DOMAIN segments' = DOMAIN segments \ {LowestFile}
        /\ \A n \in DOMAIN segments' : segments'[n] = segments[n] /\ n # LowestFile
    BY <1>3 DEF Restrict
  <2>2. \A n \in DOMAIN segments' : FramesIn(n)' = FramesIn(n)
    BY <1>6, <2>1
  <2>3. DOMAIN segments' = {n \in DOMAIN files' : n <= segment'}
    BY <1>1, <1>3, <1>4, <2>1 DEF LogInv, IndexTrue
  <2> QED
    BY <1>1, <2>1, <2>2, <2>3 DEF LogInv, IndexTrue
<1>13. ASSUME NEW m \in Members, Live(m)
       PROVE  MemberTrue(m)'
  <2>1. \A f \in FramesIn(LowestFile) : f.id = m => f.seq <= member[m].checkpoint
    BY <1>1, <1>3, <1>13, GoneBelow
  <2> QED
    BY <1>1, <1>3, <1>6, <1>13, <2>1, UnlinkKeepsMember
<1>14. ASSUME NEW m \in Members
       PROVE  ManifestKept(m)' /\ HandleTrue(m)'
  <2>1. ManifestKept(m)'
    BY <1>3, <1>6, UnlinkKeepsManifest
  <2>2. HandleTrue(m)'
    BY <1>3 DEF LogInv, HandlesTrue, HandleTrue, Live
  <2> QED
    BY <2>1, <2>2
<1>15. \A m \in Members : Live(m)' = Live(m)
  BY <1>3 DEF Live
<1>16. ManifestsKept' /\ MembersTrue' /\ HandlesTrue'
  BY <1>13, <1>14, <1>15 DEF ManifestsKept, MembersTrue, HandlesTrue
<1>17. BusyHealthy' /\ LeftBehind'
  BY <1>1, <1>3 DEF BusyHealthy, LeftBehind
<1> QED
  BY <1>6, <1>9, <1>10, <1>11, <1>12, <1>16, <1>17 DEF LogInv

-----------------------------------------------------------------------------
(***************************************************************************)
(* Rolling to a new segment, and accepting records.                        *)
(***************************************************************************)
(* Syncing leaves the active segment written and synced to its last byte.  *)
LEMMA SyncedActive ==
    ASSUME TypeOK, Boundaries, CursorTrue, owner = "open"
    PROVE  /\ DOMAIN SyncedFiles = DOMAIN files
           /\ \A n \in DOMAIN files : SyncedFiles[n].first = files[n].first
           /\ \A n \in DOMAIN files : n # segment => SyncedFiles[n] = files[n]
           /\ SyncedFiles[segment].length = offset /\ SyncedFiles[segment].synced = offset
<1>1. /\ segment \in DOMAIN files /\ files[segment].length <= offset
      /\ durable = lsn => files[segment].synced = offset
      /\ files[segment].synced <= files[segment].length
  BY DEF CursorTrue, Boundaries
<1>2. files[segment] \in [first : Nat \ {0}, length : Nat, synced : Nat] /\ offset \in Nat
  BY <1>1 DEF TypeOK, FilesOK, CursorOK
<1>3. CASE durable = lsn
  <2>1. files[segment].length = offset
    BY <1>1, <1>2, <1>3
  <2> QED
    BY <1>1, <1>3, <2>1 DEF SyncedFiles
<1>4. CASE durable # lsn
  BY <1>1, <1>2, <1>4 DEF SyncedFiles, FlushedFiles
<1> QED
  BY <1>3, <1>4

LEMMA RollLog ==
    ASSUME TypeOK, TypeOK', DurableInv, LogInv, Roll
    PROVE  LogInv'
<1>1. owner = "open" /\ ~poison /\ LastFile = segment
  BY Collecting DEF Roll, Fits
<1>2. /\ files' = With(SyncedFiles, segment + 1, [first |-> lsn + 1, length |-> 0, synced |-> 0])
      /\ durable' = lsn /\ pc' = "roll"
      /\ UNCHANGED <<evidence, registered, retiredAt, manifest, settled, frames,
                     owner, poison, segment, offset, lsn, member, segments, call,
                     opened, sealing>>
  BY DEF Roll
<1>3. /\ segment \in DOMAIN files /\ HeaderLen <= offset
      /\ \A f \in FramesIn(segment) : FrameEnd(f) <= offset
      /\ offset = HeaderLen \/ \E f \in FramesIn(segment) : FrameEnd(f) = offset
  <2>1. /\ segment \in DOMAIN files /\ HeaderLen <= files[segment].synced
        /\ files[segment].length <= offset /\ files[segment].synced <= files[segment].length
        /\ \A f \in FramesIn(segment) : FrameEnd(f) <= offset
        /\ offset = HeaderLen \/ \E f \in FramesIn(segment) : FrameEnd(f) = offset
    BY <1>1 DEF LogInv, CursorTrue, Boundaries
  <2>2. /\ files[segment].length \in Nat /\ files[segment].synced \in Nat
        /\ HeaderLen \in Nat /\ offset \in Nat
    BY <2>1, RowNumbers
  <2> QED
    BY <2>1, <2>2
<1>4. segment \in Nat /\ segment + 1 \notin DOMAIN files
  BY <1>1, RowNumbers
<1>5. /\ DOMAIN files' = DOMAIN files \cup {segment + 1}
      /\ \A n \in DOMAIN files : files'[n].first = files[n].first
      /\ \A n \in DOMAIN files : n # segment => files'[n] = files[n]
      /\ files'[segment].length = offset /\ files'[segment].synced = offset
      /\ files'[segment + 1] = [first |-> lsn + 1, length |-> 0, synced |-> 0]
  <2>1. /\ DOMAIN SyncedFiles = DOMAIN files
        /\ \A n \in DOMAIN files : SyncedFiles[n].first = files[n].first
        /\ \A n \in DOMAIN files : n # segment => SyncedFiles[n] = files[n]
        /\ SyncedFiles[segment].length = offset /\ SyncedFiles[segment].synced = offset
    BY <1>1, SyncedActive DEF LogInv
  <2>2. /\ DOMAIN files' = DOMAIN files \cup {segment + 1}
        /\ \A n \in DOMAIN files : files'[n] = SyncedFiles[n]
        /\ files'[segment + 1] = [first |-> lsn + 1, length |-> 0, synced |-> 0]
    BY <1>2, <1>4, <2>1 DEF With
  <2> QED
    BY <1>3, <2>1, <2>2
<1>6. /\ LogShape' /\ LowestFile' = LowestFile /\ LastFile' = segment + 1
      /\ \A n : FramesIn(n)' = FramesIn(n)
      /\ \A n \in DOMAIN files : After(n)' = After(n)
      /\ FramesIn(segment + 1) = {}
  BY <1>1, <1>2, <1>5, LogFileAdded DEF LogInv
<1>7. segment \notin DOMAIN evidence /\ \A n \in DOMAIN evidence : n < segment
  <2>1. \A n \in DOMAIN evidence : n < segment
    BY <1>1 DEF LogInv, Boundaries, Active
  <2> QED
    BY <1>4, <2>1
<1>8. ~Empty(segment) /\ ~(offset < HeaderLen)
  <2>1. ~(files[segment].length < HeaderLen)
    <3>1. HeaderLen <= files[segment].synced /\ files[segment].synced <= files[segment].length
      BY <1>1, <1>3 DEF LogInv, CursorTrue, Boundaries
    <3>2. /\ files[segment].length \in Nat /\ files[segment].synced \in Nat /\ HeaderLen \in Nat
      BY <1>3, RowNumbers
    <3> QED
      BY <3>1, <3>2
  <2>2. ~(offset < HeaderLen)
    BY <1>3, RowNumbers
  <2> QED
    BY <1>7, <2>1, <2>2 DEF Empty
<1>9. \A n \in DOMAIN files : /\ Empty(n)' = Empty(n) /\ ScanEnd(n)' = ScanEnd(n)
                              /\ n # segment => Torn(n)' = Torn(n)
  <2>1. ASSUME NEW n \in DOMAIN files
        PROVE  Empty(n)' = Empty(n)
    <3>1. CASE n = segment
      <4>1. ~Empty(n)'
        BY <1>2, <1>5, <1>7, <1>8, <3>1 DEF Empty
      <4> QED
        BY <1>8, <3>1, <4>1 DEF Empty
    <3>2. CASE n # segment
      BY <1>2, <1>5, <3>2 DEF Empty
    <3> QED
      BY <3>1, <3>2
  <2>2. \A n \in DOMAIN files : ScanEnd(n)' = ScanEnd(n)
    BY <1>6, <2>1, ScanSame
  <2> QED
    BY <1>5, <2>1, <2>2 DEF Torn
<1>10. Boundaries'
  <2>1. Active' = segment
    BY <1>1, <1>2 DEF Active
  <2>2. ASSUME NEW n \in DOMAIN evidence', n \in DOMAIN files'
        PROVE  Frozen(n)'
    <3>1. n \in DOMAIN files /\ n # segment /\ n \in DOMAIN evidence
      BY <1>2, <1>4, <1>5, <1>7, <2>2
    <3>2. Frozen(n)
      BY <3>1 DEF LogInv, Boundaries
    <3> QED
      BY <1>2, <1>5, <1>6, <1>9, <3>1, <3>2 DEF Frozen
  <2>3. \A n \in DOMAIN evidence' : /\ n \in Int /\ n <= Active'
                                    /\ owner' = "open" => n < Active'
    <3>1. \A n \in DOMAIN evidence : n \in Int /\ n <= Active
      BY DEF LogInv, Boundaries
    <3> QED
      BY <1>1, <1>2, <1>7, <2>1, <3>1 DEF Active
  <2>4. \A n \in DOMAIN files' : Empty(n)' => FramesIn(n)' = {}
    BY <1>5, <1>6, <1>9 DEF LogInv, Boundaries
  <2>5. ASSUME NEW n \in DOMAIN files', Empty(n)'
        PROVE  n \in DOMAIN evidence' \/ (n = LastFile' /\ n # LowestFile')
    <3>1. CASE n = segment + 1
      <4>1. n # LowestFile
        BY <1>4, <3>1, RowNumbers
      <4> QED
        BY <1>6, <3>1, <4>1
    <3>2. CASE n # segment + 1
      <4>1. n \in DOMAIN files /\ Empty(n) /\ n # segment
        BY <1>5, <1>8, <1>9, <2>5, <3>2
      <4> QED
        BY <1>1, <1>2, <4>1 DEF LogInv, Boundaries
    <3> QED
      BY <3>1, <3>2
  <2>6. ASSUME NEW n \in DOMAIN files' \ DOMAIN evidence', n < Active'
        PROVE  ~Torn(n)'
    <3>1. n \in DOMAIN files \ DOMAIN evidence /\ n # segment /\ n < Active
      BY <1>1, <1>2, <1>4, <1>5, <2>1, <2>6 DEF Active
    <3> QED
      BY <1>9, <3>1 DEF LogInv, Boundaries
  <2>7. ASSUME NEW n \in DOMAIN files'
        PROVE  files'[n].synced <= files'[n].length
    <3>1. CASE n = segment \/ n = segment + 1
      <4>1. offset <= offset /\ 0 <= 0
        BY RowNumbers
      <4> QED
        BY <1>5, <3>1, <4>1
    <3>2. CASE n # segment /\ n # segment + 1
      BY <1>5, <3>2 DEF LogInv, Boundaries
    <3> QED
      BY <3>1, <3>2
  <2> QED
    BY <1>1, <1>2, <2>2, <2>3, <2>4, <2>5, <2>6, <2>7 DEF Boundaries
<1>11. DurableFrames'
  <2>1. files'[LastFile'].first <= durable' + 1
    <3>1. files'[segment + 1].first = lsn + 1 /\ lsn + 1 <= lsn + 1
      BY <1>5, RowNumbers
    <3> QED
      BY <1>2, <1>6, <3>1
  <2>2. ASSUME NEW f \in frames
        PROVE  f.lsn <= durable' /\ Synced(f)'
    <3>1. f.lsn <= lsn /\ f.at.segment \in DOMAIN files
      BY DEF LogInv, LogShape, FramesPlaced
    <3>2. CASE f.at.segment = segment
      <4>1. FrameEnd(f) <= offset
        BY <1>3, <3>2 DEF FramesIn
      <4> QED
        BY <1>2, <1>5, <3>1, <3>2, <4>1 DEF Synced, FrameEnd
    <3>3. CASE f.at.segment # segment
      <4>1. Synced(f)
        BY <3>3 DEF LogInv, DurableFrames
      <4> QED
        BY <1>2, <1>5, <3>1, <3>3, <4>1 DEF Synced, FrameEnd
    <3> QED
      BY <3>2, <3>3
  <2> QED
    BY <1>1, <1>2, <2>1, <2>2 DEF DurableFrames
<1>12. CursorTrue'
  <2>1. files'[segment + 1].first = lsn + 1 /\ offset <= offset
    BY <1>5, RowNumbers
  <2>2. segment \in DOMAIN files'
    BY <1>3, <1>5
  <2> QED
    BY <1>1, <1>2, <1>3, <1>5, <1>6, <2>1, <2>2 DEF CursorTrue
<1>13. IndexTrue'
  <2>1. ~(segment + 1 <= segment)
    BY <1>4
  <2>2. {n \in DOMAIN files' : n <= segment'} = {n \in DOMAIN files : n <= segment}
    BY <1>2, <1>5, <2>1
  <2> QED
    BY <1>1, <1>2, <1>6, <2>2 DEF LogInv, IndexTrue
<1>14. Physical /\ Logical
  BY InvParts
<1>15. durable \in Nat /\ durable' \in Nat /\ durable <= durable' /\ durable' \in {durable, lsn}
  BY <1>2 DEF TypeOK, CursorOK, DurableInv, NotesBehind
<1>16. ASSUME NEW m \in Members, Live(m)
       PROVE  MemberTrue(m)'
  BY <1>1, <1>2, <1>14, <1>15, <1>16, SyncKeepsMembers
<1>17. ASSUME NEW m \in Members
       PROVE  ManifestKept(m)' /\ HandleTrue(m)'
  <2>1. ManifestsKept /\ HandlesTrue
    BY <1>14 DEF Logical
  <2>2. ManifestKept(m)'
    BY <1>2, <1>15, <2>1, SyncKeepsManifest
  <2>3. sealing[m] # "no" => m \in opened'
    BY <1>2, <2>1 DEF HandlesTrue, HandleTrue
  <2>4. call' = NoCall \/ (call # NoCall /\ call'.id = call.id)
    BY <1>2
  <2>5. HandleTrue(m)'
    BY <1>2, <1>15, <2>1, <2>3, <2>4, HandleStays
  <2> QED
    BY <2>2, <2>5
<1>18. \A m \in Members : Live(m)' = Live(m)
  BY <1>2 DEF Live
<1>19. Logical'
  BY <1>16, <1>17, <1>18 DEF Logical, ManifestsKept, MembersTrue, HandlesTrue
<1>20. BusyHealthy' /\ LeftBehind'
  BY <1>1, <1>2 DEF BusyHealthy, LeftBehind
<1> QED
  BY <1>6, <1>10, <1>11, <1>12, <1>13, <1>19, <1>20 DEF LogInv, Logical

(* What accepting a record for a member does to the members.               *)
Accepted(m, new) ==
    /\ frames' = frames \cup {new} /\ lsn' = lsn + 1
    /\ new.id = m /\ new.seq = member[m].seq + 1 /\ new.lsn = lsn + 1
    /\ new.prev = member[m].latest
    /\ member'[m].seq = new.seq /\ member'[m].lsn = lsn + 1 /\ member'[m].latest = new.at
    /\ member'[m].checkpoint = member[m].checkpoint
    /\ member'[m].retired = member[m].retired
    /\ \/ /\ member[m].lsn <= durable
          /\ member'[m].durableSeq = member[m].seq
          /\ member'[m].durablePointer = member[m].latest
       \/ /\ member[m].lsn > durable
          /\ member'[m].durableSeq = member[m].durableSeq
          /\ member'[m].durablePointer = member[m].durablePointer
    /\ \A k \in Members : k # m => member'[k] = member[k]
    /\ call' = NoCall \/ call'.id = m

LEMMA AcceptDoes ==
    ASSUME TypeOK, call \in Calls, NEW at, Accept(at)
    PROVE  \E new : Accepted(call.id, new) /\ new.at = at /\ new.length = Length
<1> DEFINE m == call.id
           old == member[m]
           new == [id |-> m, seq |-> old.seq + 1, lsn |-> lsn + 1, prev |-> old.latest,
                   at |-> at, length |-> Length, value |-> crashes]
<1>1. m \in Members /\ member \in [Members -> MemberStates]
  BY DEF TypeOK, IndexOK, Calls
<1>2. old \in MemberStates /\ lsn \in Nat /\ durable \in Nat
  BY <1>1 DEF TypeOK, CursorOK
<1>3. /\ frames' = frames \cup {new} /\ lsn' = lsn + 1
      /\ member' = [member EXCEPT ![m] =
             [old EXCEPT !.seq = old.seq + 1, !.lsn = lsn + 1, !.latest = at,
                         !.durableSeq = IF old.lsn <= durable THEN old.seq ELSE @,
                         !.durablePointer = IF old.lsn <= durable THEN old.latest ELSE @]]
  BY DEF Accept
<1>4. member'[m] = [old EXCEPT !.seq = old.seq + 1, !.lsn = lsn + 1, !.latest = at,
                         !.durableSeq = IF old.lsn <= durable THEN old.seq ELSE @,
                         !.durablePointer = IF old.lsn <= durable THEN old.latest ELSE @]
      /\ \A k \in Members : k # m => member'[k] = member[k]
  BY <1>1, <1>3
<1>5. /\ member'[m].seq = old.seq + 1 /\ member'[m].lsn = lsn + 1 /\ member'[m].latest = at
      /\ member'[m].checkpoint = old.checkpoint /\ member'[m].retired = old.retired
      /\ member'[m].durableSeq = IF old.lsn <= durable THEN old.seq ELSE old.durableSeq
      /\ member'[m].durablePointer
             = IF old.lsn <= durable THEN old.latest ELSE old.durablePointer
  BY <1>2, <1>4 DEF MemberStates
<1>6. old.lsn <= durable \/ old.lsn > durable
  BY <1>2 DEF MemberStates
<1>7. call' = NoCall \/ call'.id = m
  BY DEF Accept, Calls
<1>8. new.id = m /\ new.seq = old.seq + 1 /\ new.lsn = lsn + 1 /\ new.prev = old.latest
      /\ new.at = at /\ new.length = Length
  OBVIOUS
<1> HIDE DEF new, old, m
<1>9. Accepted(m, new)
  <2>1. \/ /\ old.lsn <= durable /\ member'[m].durableSeq = old.seq
           /\ member'[m].durablePointer = old.latest
        \/ /\ old.lsn > durable /\ member'[m].durableSeq = old.durableSeq
           /\ member'[m].durablePointer = old.durablePointer
    <3>1. CASE old.lsn <= durable
      BY <1>5, <3>1
    <3>2. CASE ~(old.lsn <= durable)
      BY <1>5, <1>6, <3>2
    <3> QED
      BY <3>1, <3>2
  <2> QED
    BY <1>3, <1>4, <1>5, <1>7, <1>8, <2>1 DEF Accepted, old
<1> QED
  BY <1>8, <1>9 DEF m

(* The caller is open, registered and lives.                               *)
LEMMA CallerLives ==
    ASSUME TypeOK, DurableInv, LogInv, call \in Calls
    PROVE  /\ call.id \in Members /\ call.id \in registered /\ Live(call.id)
           /\ settled[call.id] # None /\ sealing[call.id] = "no"
<1>1. call # NoCall
  BY CallsAreNotNoCall
<1>2. call.id \in opened /\ call.id \in Members
  BY <1>1 DEF DurableInv, CallersOpen, Calls
<1>3. HandleTrue(call.id)
  BY <1>2 DEF LogInv, HandlesTrue
<1> QED
  BY <1>1, <1>2, <1>3 DEF HandleTrue

(* The manifest of a member that lives is not ahead of its records.        *)
LEMMA ManifestBehind ==
    ASSUME TypeOK, LogInv, owner = "open", NEW m \in Members, Live(m)
    PROVE  manifest[m] <= member[m].seq
<1>1. ScanCheckpoint(m) <= member[m].seq
  BY DEF LogInv, MembersTrue, MemberTrue
<1>2. manifest[m] \in Nat \cup {None} /\ member[m].seq \in Nat
  BY DEF TypeOK, RegistryOK, IndexOK, MemberStates
<1>3. manifest[m] # None => ScanCheckpoint(m) = manifest[m]
  BY DEF ScanCheckpoint, Live
<1> QED
  BY <1>1, <1>2, <1>3 DEF None

(* What the log has to know of a record to take it.                        *)
LEMMA AcceptedLinks ==
    ASSUME TypeOK, LogInv, owner = "open", NEW m \in Members, Live(m), NEW new,
           Accepted(m, new), new.at.segment \in Nat, new.at.offset \in Nat,
           \/ new.at = [segment |-> segment, offset |-> offset]
           \/ new.at = [segment |-> segment + 1, offset |-> HeaderLen]
    PROVE  /\ new.prev = NoPointer \/ Before(new.prev, new.at)
           /\ \A f \in FramesOf(new.id) : f.seq < new.seq
           /\ FramesOf(new.id) # {} =>
                  \E g \in frames : /\ g.id = new.id /\ new.seq = g.seq + 1 /\ new.prev = g.at
                                    /\ \A h \in FramesOf(new.id) : h.lsn <= g.lsn
<1>1. /\ new.id = m /\ new.seq = member[m].seq + 1 /\ new.prev = member[m].latest
  BY DEF Accepted
<1>2. MemberTrue(m)
  BY DEF LogInv, MembersTrue
<1>3. /\ member[m].seq \in Nat /\ member[m].latest \in Pointers
      /\ segment \in Nat /\ offset \in Nat /\ HeaderLen \in Nat
  BY RowNumbers DEF TypeOK, IndexOK, MemberStates
<1>4. new.prev = NoPointer \/ Before(new.prev, new.at)
  <2>1. \/ member[m].latest = NoPointer
        \/ Before(member[m].latest, [segment |-> segment, offset |-> offset])
    BY <1>2 DEF MemberTrue
  <2>2. member[m].latest.segment \in Nat
    BY <1>3 DEF Pointers
  <2> QED
    BY <1>1, <1>3, <2>1, <2>2 DEF Before
<1>5. \A f \in FramesOf(m) : f.seq < new.seq
  <2>1. \A f \in FramesOf(m) : f.seq <= member[m].seq
    BY LastIsHighest
  <2>2. \A f \in FramesOf(m) : f.seq \in Nat
    BY FrameParts DEF FramesOf
  <2> QED
    BY <1>1, <1>3, <2>1, <2>2
<1>6. ASSUME FramesOf(m) # {}
      PROVE  \E g \in frames : /\ g.id = m /\ new.seq = g.seq + 1 /\ new.prev = g.at
                               /\ \A h \in FramesOf(m) : h.lsn <= g.lsn
  <2>1. PICK g \in frames : LastOf(m, g)
    BY <1>2, <1>6 DEF MemberTrue
  <2>2. g.id = m /\ g.seq = member[m].seq /\ g.at = member[m].latest
        /\ g.lsn = member[m].lsn
    BY <2>1 DEF LastOf, FramesOf
  <2>3. \A h \in FramesOf(m) : h.lsn <= g.lsn
    BY <1>2, <2>2 DEF MemberTrue
  <2> QED
    BY <1>1, <2>2, <2>3
<1> QED
  BY <1>1, <1>4, <1>5, <1>6

(* A member that accepts a record.                                         *)
LEMMA AcceptKeepsCaller ==
    ASSUME TypeOK, TypeOK', DurableInv, LogInv, owner = "open", NEW m \in Members, Live(m),
           NEW new, Accepted(m, new), new \notin frames,
           FramesOf(m)' = FramesOf(m) \cup {new},
           \A f \in frames : Predecessors(f)' = Predecessors(f),
           Predecessors(new)' = FramesOf(m),
           UNCHANGED <<durable, manifest, retiredAt>>,
           Before(new.at, [segment |-> segment, offset |-> offset]')
    PROVE  MemberTrue(m)'
<1>1. /\ new.seq = member[m].seq + 1 /\ new.lsn = lsn + 1 /\ lsn' = lsn + 1
      /\ member'[m].seq = member[m].seq + 1 /\ member'[m].lsn = lsn + 1
      /\ member'[m].latest = new.at /\ member'[m].checkpoint = member[m].checkpoint
      /\ member'[m].retired = member[m].retired
      /\ frames' = frames \cup {new}
  BY DEF Accepted
<1>2. MemberTrue(m)
  BY DEF LogInv, MembersTrue
<1>3. /\ member[m].seq \in Nat /\ member[m].lsn \in Nat /\ member[m].checkpoint \in Nat
      /\ member[m].durableSeq \in Nat /\ lsn \in Nat /\ durable \in Nat
  BY RowNumbers DEF TypeOK, IndexOK, MemberStates
<1>4. \A f \in FramesOf(m) : /\ f \in frames /\ f.seq \in Nat /\ f.lsn \in Nat
                             /\ f.seq <= member[m].seq /\ f.lsn <= member[m].lsn
  <2>1. \A f \in FramesOf(m) : f \in frames
    BY DEF FramesOf
  <2>2. \A f \in FramesOf(m) : f.seq <= member[m].seq
    BY LastIsHighest
  <2> QED
    BY <1>2, <2>1, <2>2, FrameParts DEF MemberTrue
<1>5. durable <= lsn /\ member[m].durableSeq <= member[m].seq /\ member[m].lsn <= lsn
  BY <1>2 DEF DurableInv, NotesBehind, MemberTrue
<1>6. FramesOf(m) # {} => \E g \in FramesOf(m) : g.seq = member[m].seq /\ g.at = member[m].latest
  BY <1>2 DEF MemberTrue, LastOf
<1>7. member[m].checkpoint <= ScanCheckpoint(m)' /\ ScanCheckpoint(m)' <= member'[m].seq
  <2>1. ScanCheckpoint(m)' = ScanCheckpoint(m)
    BY DEF ScanCheckpoint
  <2>2. ScanCheckpoint(m) \in Nat
    BY DEF ScanCheckpoint, TypeOK, RegistryOK
  <2> QED
    BY <1>1, <1>2, <1>3, <2>1, <2>2 DEF MemberTrue
<1>8. LastOf(m, new)' /\ new \in frames'
  BY <1>1 DEF LastOf
<1>9. \A f \in FramesOf(m)' : f.lsn <= member'[m].lsn
  BY <1>1, <1>3, <1>4, <1>5
<1>10. ASSUME NEW f \in FramesOf(m)', f.seq > member[m].checkpoint + 1
       PROVE  Predecessors(f)' # {}
  <2>1. CASE f = new
    <3>1. member[m].seq > member[m].checkpoint
      BY <1>1, <1>3, <1>10, <2>1
    <3> QED
      BY <1>2, <2>1, <3>1 DEF MemberTrue
  <2>2. CASE f \in FramesOf(m)
    BY <1>2, <1>4, <1>10, <2>2 DEF MemberTrue
  <2> QED
    BY <2>1, <2>2
<1>11. Positions(m)'
  <2>1. CASE /\ member[m].lsn <= durable
             /\ member'[m].durableSeq = member[m].seq
             /\ member'[m].durablePointer = member[m].latest
    <3>1. \A f \in FramesOf(m) : f.lsn <= durable <=> f.seq <= member[m].seq
      BY <1>3, <1>4, <2>1
    <3>2. ~(new.lsn <= durable) /\ ~(new.seq <= member[m].seq)
      BY <1>1, <1>3, <1>5
    <3>3. member[m].seq > member[m].checkpoint => FramesOf(m) # {}
      BY <1>2 DEF MemberTrue
    <3> QED
      BY <1>1, <1>6, <2>1, <3>1, <3>2, <3>3 DEF Positions
  <2>2. CASE /\ member[m].lsn > durable
             /\ member'[m].durableSeq = member[m].durableSeq
             /\ member'[m].durablePointer = member[m].durablePointer
    <3>1. ~(new.lsn <= durable) /\ ~(new.seq <= member[m].durableSeq)
      BY <1>1, <1>3, <1>5
    <3>2. Positions(m)
      BY <1>2 DEF MemberTrue
    <3> QED
      BY <1>1, <2>2, <3>1, <3>2 DEF Positions
  <2> QED
    BY <2>1, <2>2 DEF Accepted
<1>12. member'[m].lsn <= lsn' /\ ~member'[m].retired
  BY <1>1, <1>2, <1>3 DEF MemberTrue
<1> QED
  BY <1>1, <1>7, <1>8, <1>9, <1>10, <1>11, <1>12 DEF MemberTrue

(* Another member, whose records and state stay.                           *)
LEMMA AcceptKeepsOther ==
    ASSUME TypeOK, TypeOK', DurableInv, LogInv, owner = "open", NEW m \in Members, Live(m),
           frames \subseteq frames', lsn' = lsn + 1,
           FramesOf(m)' = FramesOf(m), member'[m] = member[m],
           \A f \in frames : Predecessors(f)' = Predecessors(f),
           UNCHANGED <<durable, manifest, retiredAt>>,
           \A p \in Pointers : Before(p, [segment |-> segment, offset |-> offset])
                                   => Before(p, [segment |-> segment, offset |-> offset]')
    PROVE  MemberTrue(m)'
<1>1. MemberTrue(m)
  BY DEF LogInv, MembersTrue
<1>2. member[m].lsn \in Nat /\ lsn \in Nat /\ member[m].latest \in Pointers
  BY RowNumbers DEF TypeOK, IndexOK, MemberStates
<1>3. ScanCheckpoint(m)' = ScanCheckpoint(m) /\ Positions(m)' = Positions(m)
  BY DEF ScanCheckpoint, Positions
<1>4. member'[m].lsn <= lsn'
  <2>1. member[m].lsn <= lsn
    BY <1>1 DEF MemberTrue
  <2> QED
    BY <1>2, <2>1
<1>5. FramesOf(m) # {} => \E f \in frames' : LastOf(m, f)'
  BY <1>1 DEF MemberTrue, LastOf
<1>6. \A f \in FramesOf(m) : Predecessors(f)' = Predecessors(f)
  BY DEF FramesOf
<1>7. \/ member'[m].latest = NoPointer
      \/ Before(member'[m].latest, [segment |-> segment, offset |-> offset]')
  BY <1>1, <1>2 DEF MemberTrue
<1> QED
  BY <1>1, <1>3, <1>4, <1>5, <1>6, <1>7 DEF MemberTrue

LEMMA AcceptKeepsMembers ==
    ASSUME TypeOK, TypeOK', DurableInv, LogInv, owner = "open", call \in Calls,
           NEW new, Accepted(call.id, new), new \notin frames,
           \A k : FramesOf(k)' = IF k = new.id THEN FramesOf(k) \cup {new} ELSE FramesOf(k),
           \A f \in frames : Predecessors(f)' = Predecessors(f),
           Predecessors(new)' = FramesOf(new.id),
           UNCHANGED <<durable, manifest, settled, retiredAt, sealing, opened, registered>>,
           Before(new.at, [segment |-> segment, offset |-> offset]'),
           \A p \in Pointers : Before(p, [segment |-> segment, offset |-> offset])
                                   => Before(p, [segment |-> segment, offset |-> offset]')
    PROVE  Logical'
<1> PICK m \in Members : m = call.id
  BY CallerLives
<1>1. m \in registered /\ Live(m) /\ settled[m] # None /\ sealing[m] = "no"
  BY CallerLives
<1>2. /\ new.id = m /\ new.seq = member[m].seq + 1 /\ new.lsn = lsn + 1 /\ lsn' = lsn + 1
      /\ call' = NoCall \/ call'.id = m
      /\ \A k \in Members : k # m => member'[k] = member[k]
      /\ frames \subseteq frames'
  BY DEF Accepted
<1>3. /\ \A k \in Members : k # m => FramesOf(k)' = FramesOf(k)
      /\ FramesOf(m)' = FramesOf(m) \cup {new}
      /\ Predecessors(new)' = FramesOf(m)
  BY <1>2
<1>4. MemberTrue(m)'
  BY <1>1, <1>3, AcceptKeepsCaller
<1>5. ASSUME NEW k \in Members, k # m, Live(k)
      PROVE  MemberTrue(k)'
  BY <1>2, <1>3, <1>5, AcceptKeepsOther
<1>6. \A k \in Members : Live(k)' = Live(k)
  BY DEF Live
<1>7. ManifestKept(m)'
  <2>1. ~(new.seq <= manifest[m])
    <3>1. manifest[m] <= member[m].seq
      BY <1>1, ManifestBehind
    <3>2. manifest[m] \in Nat \cup {-1} /\ member[m].seq \in Nat
      BY DEF TypeOK, RegistryOK, IndexOK, MemberStates, None
    <3> QED
      BY <1>2, <3>1, <3>2
  <2>2. ManifestKept(m)
    BY DEF LogInv, ManifestsKept
  <2> QED
    BY <1>1, <1>3, <1>6, <2>1, <2>2 DEF ManifestKept
<1>8. ASSUME NEW k \in Members, k # m
      PROVE  ManifestKept(k)'
  <2>1. ManifestKept(k)
    BY DEF LogInv, ManifestsKept
  <2> QED
    BY <1>3, <1>6, <1>8, <2>1 DEF ManifestKept
<1>9. ASSUME NEW k \in Members
      PROVE  HandleTrue(k)'
  <2>1. HandleTrue(k)
    BY DEF LogInv, HandlesTrue
  <2>2. CASE k = m
    BY <1>1, <1>6, <2>1, <2>2 DEF HandleTrue
  <2>3. CASE k # m
    BY <1>2, <1>6, <2>1, <2>3 DEF HandleTrue
  <2> QED
    BY <2>2, <2>3
<1> QED
  BY <1>1, <1>4, <1>5, <1>6, <1>7, <1>8, <1>9
     DEF Logical, ManifestsKept, MembersTrue, HandlesTrue

(* The active segment has its header, and is not frozen.                   *)
LEMMA ActiveFile ==
    ASSUME TypeOK, LogInv, owner = "open"
    PROVE  /\ segment \in DOMAIN files /\ ~Empty(segment) /\ segment \notin DOMAIN evidence
           /\ \A n \in DOMAIN evidence : n < segment /\ n \in Int
           /\ HeaderLen <= files[segment].length /\ files[segment].length <= offset
           /\ files[segment].synced <= files[segment].length
           /\ HeaderLen <= files[segment].synced /\ HeaderLen <= offset
           /\ files[segment].length \in Nat /\ files[segment].synced \in Nat
<1>1. /\ segment \in DOMAIN files /\ HeaderLen <= files[segment].synced
      /\ files[segment].synced <= files[segment].length /\ files[segment].length <= offset
  BY DEF LogInv, CursorTrue, Boundaries
<1>2. /\ files[segment].length \in Nat /\ files[segment].synced \in Nat
      /\ HeaderLen \in Nat /\ offset \in Nat
  BY <1>1, RowNumbers
<1>3. \A n \in DOMAIN evidence : n < segment /\ n \in Int
  BY DEF LogInv, Boundaries, Active
<1>4. segment \notin DOMAIN evidence
  BY <1>3, RowNumbers
<1>5. HeaderLen <= files[segment].length /\ HeaderLen <= offset
      /\ ~(files[segment].length < HeaderLen)
  BY <1>1, <1>2
<1> QED
  BY <1>1, <1>2, <1>3, <1>4, <1>5 DEF Empty

LEMMA PushLog ==
    ASSUME TypeOK, TypeOK', DurableInv, LogInv, Push
    PROVE  LogInv'
<1>1. owner = "open" /\ ~poison /\ LastFile = segment /\ call \in Calls
  BY Collecting DEF Push, Fits, TypeOK, CallOK
<1>2. /\ files' = FlushedFiles \/ files' = files
      /\ offset' = offset + Length
      /\ segments' = [segments EXCEPT ![segment] =
             [length |-> @.length + Length,
              members |-> With(@.members, call.id, member[call.id].seq + 1)]]
      /\ Accept([segment |-> segment, offset |-> offset])
      /\ UNCHANGED <<evidence, registered, retiredAt, manifest, settled, owner,
                     poison, segment, durable, opened, sealing>>
  BY DEF Push
<1>3. Length \in Nat \ {0}
  BY <1>1, LengthType, LengthsAssumption
<1> PICK new : Accepted(call.id, new) /\ new.at = [segment |-> segment, offset |-> offset]
               /\ new.length = Length
  BY <1>1, <1>2, AcceptDoes
<1>4. /\ frames' = frames \cup {new} /\ lsn' = lsn + 1 /\ new.lsn = lsn + 1
      /\ new.id = call.id /\ new.at.segment = segment /\ new.at.offset = offset
      /\ new.seq = member[call.id].seq + 1
      /\ FrameEnd(new) = offset + Length
  BY DEF Accepted, FrameEnd
<1>5. /\ call.id \in Members /\ call.id \in registered /\ Live(call.id)
  BY <1>1, CallerLives
<1>6. /\ segment \in DOMAIN files /\ ~Empty(segment) /\ segment \notin DOMAIN evidence
      /\ \A n \in DOMAIN evidence : n < segment /\ n \in Int
      /\ HeaderLen <= files[segment].length /\ files[segment].length <= offset
      /\ files[segment].synced <= files[segment].length
      /\ HeaderLen <= files[segment].synced /\ HeaderLen <= offset
      /\ files[segment].length \in Nat /\ files[segment].synced \in Nat
  BY <1>1, ActiveFile
<1>7. segment \in Nat /\ offset \in Nat /\ lsn \in Nat /\ HeaderLen \in Nat /\ durable \in Nat
  BY RowNumbers
<1>8. /\ DOMAIN files' = DOMAIN files
      /\ \A n \in DOMAIN files : /\ files'[n].first = files[n].first
                                 /\ files'[n].synced = files[n].synced
                                 /\ n # segment => files'[n] = files[n]
      /\ files'[segment].length \in {files[segment].length, offset}
  <2>1. \A n \in DOMAIN files : files[n] \in [first : Nat \ {0}, length : Nat, synced : Nat]
    BY DEF TypeOK, FilesOK
  <2> QED
    BY <1>2, <1>6, <2>1 DEF FlushedFiles
<1>9. \A f \in frames : Ahead(f, new)
  <2> SUFFICES ASSUME NEW f \in frames
               PROVE  Ahead(f, new)
    OBVIOUS
  <2>1. f.at.segment \in DOMAIN files
    BY DEF LogInv, LogShape, FramesPlaced
  <2>2. f.at.segment <= segment /\ f.at.segment \in Nat
    BY <1>1, <2>1, RowNumbers
  <2>3. f.at.segment = segment => FrameEnd(f) <= offset
    BY <1>1 DEF LogInv, CursorTrue, FramesIn
  <2> QED
    BY <1>4, <1>7, <2>2, <2>3 DEF Ahead
<1>10. /\ new.prev = NoPointer \/ Before(new.prev, new.at)
       /\ \A f \in FramesOf(new.id) : f.seq < new.seq
       /\ FramesOf(new.id) # {} =>
              \E g \in frames : /\ g.id = new.id /\ new.seq = g.seq + 1 /\ new.prev = g.at
                                /\ \A h \in FramesOf(new.id) : h.lsn <= g.lsn
  BY <1>1, <1>4, <1>5, <1>7, AcceptedLinks
<1>11. /\ LogShape' /\ LowestFile' = LowestFile /\ LastFile' = LastFile
       /\ \A n : n # LastFile => FramesIn(n)' = FramesIn(n)
       /\ FramesIn(LastFile)' = FramesIn(LastFile) \cup {new}
       /\ \A n \in DOMAIN files : n # LastFile => After(n)' = After(n)
       /\ \A f \in frames : Predecessors(f)' = Predecessors(f)
       /\ Predecessors(new)' = FramesOf(new.id)
       /\ \A m : FramesOf(m)' = IF m = new.id THEN FramesOf(m) \cup {new} ELSE FramesOf(m)
       /\ new \notin frames
  <2>1. LogShape /\ HeaderLen <= new.at.offset /\ new.at.segment = LastFile
        /\ new.id \in registered
    BY <1>1, <1>4, <1>5, <1>6 DEF LogInv
  <2> QED
    BY <1>2, <1>4, <1>8, <1>9, <1>10, <2>1, LogAppended
<1>12. /\ LastFile' = segment /\ FramesIn(segment)' = FramesIn(segment) \cup {new}
       /\ \A n : n # segment => FramesIn(n)' = FramesIn(n)
  BY <1>1, <1>2, <1>11
<1>13. \A n \in DOMAIN files : Empty(n)' = Empty(n)
  <2>1. ~(files'[segment].length < HeaderLen) /\ ~(files[segment].length < HeaderLen)
    BY <1>6, <1>7, <1>8
  <2> QED
    BY <1>2, <1>8, <2>1 DEF Empty
<1>14. \A n \in DOMAIN files : n # segment => /\ ScanEnd(n)' = ScanEnd(n)
                                              /\ Torn(n)' = Torn(n)
  <2>1. \A n \in DOMAIN files : n # segment => ScanEnd(n)' = ScanEnd(n)
    BY <1>12, <1>13, ScanSame
  <2> QED
    BY <1>8, <1>13, <2>1 DEF Torn
<1>15. Boundaries'
  <2>1. Active' = segment /\ Active = segment
    BY <1>1, <1>2 DEF Active
  <2>2. ASSUME NEW n \in DOMAIN evidence'
        PROVE  /\ n \in Int /\ n <= Active' /\ n < Active'
               /\ n \in DOMAIN files' => Frozen(n)'
    <3>1. n \in DOMAIN evidence /\ n # segment
      BY <1>2, <1>6
    <3>2. n \in Int /\ n <= Active /\ n < segment /\ (n \in DOMAIN files => Frozen(n))
      BY <1>6, <3>1 DEF LogInv, Boundaries
    <3>3. n \in DOMAIN files => Frozen(n)'
      BY <1>1, <1>2, <1>8, <1>11, <1>14, <3>1, <3>2 DEF Frozen
    <3> QED
      BY <1>8, <2>1, <3>2, <3>3
  <2>3. \A n \in DOMAIN files' : Empty(n)' => FramesIn(n)' = {}
    BY <1>6, <1>8, <1>12, <1>13 DEF LogInv, Boundaries
  <2>4. \A n \in DOMAIN files' :
            Empty(n)' => n \in DOMAIN evidence' \/ (n = LastFile' /\ n # LowestFile')
    BY <1>2, <1>8, <1>11, <1>13 DEF LogInv, Boundaries
  <2>5. ASSUME NEW n \in DOMAIN files' \ DOMAIN evidence', n < Active'
        PROVE  ~Torn(n)'
    <3>1. n \in DOMAIN files \ DOMAIN evidence /\ n < Active /\ n # segment
      BY <1>2, <1>6, <1>7, <1>8, <2>1, <2>5
    <3> QED
      BY <1>14, <3>1 DEF LogInv, Boundaries
  <2>6. ASSUME NEW n \in DOMAIN files'
        PROVE  files'[n].synced <= files'[n].length
    <3>1. CASE n = segment
      BY <1>6, <1>7, <1>8, <3>1
    <3>2. CASE n # segment
      BY <1>8, <3>2 DEF LogInv, Boundaries
    <3> QED
      BY <3>1, <3>2
  <2> QED
    BY <1>1, <1>2, <2>2, <2>3, <2>4, <2>5, <2>6 DEF Boundaries
<1>16. DurableFrames'
  <2>1. files'[LastFile'].first <= durable' + 1
    BY <1>1, <1>2, <1>6, <1>8, <1>12 DEF LogInv, DurableFrames
  <2>2. ASSUME NEW f \in frames
        PROVE  \/ f.lsn <= durable' /\ Synced(f)'
               \/ /\ f.lsn > durable' /\ f.at.segment = segment' /\ owner' = "open"
                  /\ files'[segment'].synced <= f.at.offset
    <3>1. f.at.segment \in DOMAIN files
      BY DEF LogInv, LogShape, FramesPlaced
    <3>2. Synced(f)' = Synced(f)
      BY <1>8, <3>1 DEF Synced, FrameEnd
    <3> QED
      BY <1>1, <1>2, <1>6, <1>8, <3>2 DEF LogInv, DurableFrames
  <2>3. /\ new.lsn > durable' /\ new.at.segment = segment'
        /\ files'[segment'].synced <= new.at.offset
    <3>1. durable <= lsn
      BY DEF DurableInv, NotesBehind
    <3> QED
      BY <1>2, <1>4, <1>6, <1>7, <1>8, <3>1
  <2> QED
    BY <1>1, <1>2, <1>4, <2>1, <2>2, <2>3 DEF DurableFrames
<1>17. CursorTrue'
  <2>1. offset' = offset + Length /\ offset <= offset' /\ segment # segment + 1
    BY <1>2, <1>3, <1>7
  <2>2. files'[segment].length <= offset' /\ HeaderLen <= files'[segment].synced
    BY <1>6, <1>7, <1>8, <2>1, <1>3
  <2>3. \A f \in FramesIn(segment) \cup {new} : FrameEnd(f)' <= offset'
    <3>1. \A f \in FramesIn(segment) : FrameEnd(f) <= offset /\ FrameEnd(f) \in Nat
      BY <1>1, FrameParts DEF LogInv, CursorTrue, FramesIn
    <3>2. \A f \in FramesIn(segment) : FrameEnd(f) <= offset'
      BY <1>3, <1>7, <2>1, <3>1
    <3>3. FrameEnd(new) <= offset'
      BY <1>3, <1>4, <1>7, <2>1
    <3> QED
      BY <3>2, <3>3 DEF FrameEnd
  <2>4. FrameEnd(new)' = offset'
    BY <1>4, <2>1 DEF FrameEnd
  <2>5. durable' # lsn'
    <3>1. durable <= lsn
      BY DEF DurableInv, NotesBehind
    <3> QED
      BY <1>2, <1>4, <1>7, <3>1
  <2> QED
    BY <1>2, <1>6, <1>8, <1>12, <2>1, <2>2, <2>3, <2>4, <2>5 DEF CursorTrue
<1>18. IndexTrue'
  <2>1. DOMAIN segments = {n \in DOMAIN files : n <= segment} /\ segment \in DOMAIN segments
    BY <1>1, <1>6, <1>7 DEF LogInv, IndexTrue
  <2>2. /\ DOMAIN segments' = DOMAIN segments
        /\ \A n \in DOMAIN segments : n # segment => segments'[n] = segments[n]
        /\ segments'[segment].members
               = With(segments[segment].members, call.id, member[call.id].seq + 1)
    BY <1>2, <2>1
  <2>3. ASSUME NEW n \in DOMAIN segments'
        PROVE  /\ DOMAIN segments'[n].members = {f.id : f \in FramesIn(n)'}
               /\ \A f \in FramesIn(n)' : f.seq <= segments'[n].members[f.id]
    <3>1. /\ DOMAIN segments[n].members = {f.id : f \in FramesIn(n)}
          /\ \A f \in FramesIn(n) : f.seq <= segments[n].members[f.id]
      BY <1>1, <2>2 DEF LogInv, IndexTrue
    <3>2. CASE n # segment
      BY <1>12, <2>2, <3>1, <3>2
    <3>3. CASE n = segment
      <4>1. /\ DOMAIN segments'[n].members = DOMAIN segments[n].members \cup {call.id}
            /\ \A k \in DOMAIN segments'[n].members :
                   segments'[n].members[k] = IF k = call.id THEN member[call.id].seq + 1
                                             ELSE segments[n].members[k]
        BY <2>2, <3>3 DEF With
      <4>2. FramesIn(n)' = FramesIn(n) \cup {new}
        BY <1>12, <1>2, <3>3
      <4>3. DOMAIN segments'[n].members = {f.id : f \in FramesIn(n)'}
        BY <1>4, <3>1, <4>1, <4>2
      <4>4. ASSUME NEW f \in FramesIn(n)'
            PROVE  f.seq <= segments'[n].members[f.id]
        <5>1. member[call.id].seq \in Nat
          BY <1>5 DEF TypeOK, IndexOK, MemberStates
        <5>2. CASE f = new
          BY <1>4, <4>1, <5>1, <5>2
        <5>3. CASE f \in FramesIn(n) /\ f.id = call.id
          <6>1. f \in FramesOf(call.id) /\ f \in frames
            BY <5>3 DEF FramesOf, FramesIn
          <6>2. f.seq <= member[call.id].seq /\ f.seq \in Nat
            BY <1>1, <1>5, <6>1, LastIsHighest, FrameParts
          <6> QED
            BY <4>1, <5>1, <5>3, <6>2
        <5>4. CASE f \in FramesIn(n) /\ f.id # call.id
          <6>1. f.id \in DOMAIN segments'[n].members
            BY <4>3
          <6> QED
            BY <3>1, <4>1, <5>4, <6>1
        <5> QED
          BY <4>2, <5>2, <5>3, <5>4
      <4> QED
        BY <4>3, <4>4
    <3> QED
      BY <3>2, <3>3
  <2>4. DOMAIN segments' = {n \in DOMAIN files' : n <= segment'}
    BY <1>2, <1>8, <2>1, <2>2
  <2> QED
    BY <2>3, <2>4 DEF IndexTrue
<1>19. Logical'
  <2>1. Before(new.at, [segment |-> segment, offset |-> offset]')
    BY <1>2, <1>3, <1>4, <1>7 DEF Before
  <2>2. ASSUME NEW p \in Pointers, Before(p, [segment |-> segment, offset |-> offset])
        PROVE  Before(p, [segment |-> segment, offset |-> offset]')
    BY <1>2, <1>3, <1>7, <2>2 DEF Before, Pointers
  <2> QED
    BY <1>1, <1>2, <1>11, <2>1, <2>2, AcceptKeepsMembers
<1>20. BusyHealthy' /\ LeftBehind'
  BY <1>1, <1>2 DEF BusyHealthy, LeftBehind
<1> QED
  BY <1>11, <1>15, <1>16, <1>17, <1>18, <1>19, <1>20 DEF LogInv, Logical

(* A new segment's file is the last one, and nothing has been written to   *)
(* it.                                                                     *)
LEMMA RolledFile ==
    ASSUME TypeOK, LogInv, pc = "roll"
    PROVE  /\ owner = "open" /\ ~poison /\ call \in Calls /\ LastFile = segment + 1
           /\ segment + 1 \in DOMAIN files /\ segment \in DOMAIN files
           /\ durable = lsn /\ files[segment + 1].first = lsn + 1
           /\ FramesIn(segment + 1) = {}
           /\ files[segment].length = offset /\ files[segment].synced = offset
           /\ ScanEnd(segment) = offset /\ ~Torn(segment)
<1>1. /\ owner = "open" /\ ~poison /\ call \in Calls
      /\ segment + 1 \in DOMAIN files /\ segment \in DOMAIN files
  BY DEF TypeOK, CallOK, LogInv, BusyHealthy
<1>2. LastFile = segment + 1
  <2>1. segment + 1 <= LastFile /\ segment \in Nat
    BY <1>1, RowNumbers
  <2>2. LastFile \in {segment, segment + 1}
    BY <1>1 DEF LogInv, CursorTrue
  <2> QED
    BY <2>1, <2>2
<1>3. durable = lsn /\ files[segment + 1].first = lsn + 1
  BY <1>1, <1>2 DEF LogInv, CursorTrue
<1>4. FramesIn(segment + 1) = {}
  <2> SUFFICES ASSUME NEW f \in FramesIn(segment + 1)
               PROVE  FALSE
    OBVIOUS
  <2>1. files[segment + 1].first <= f.lsn
    BY <1>1 DEF LogInv, LogShape, Numbered
  <2>2. f.lsn <= lsn /\ f \in frames
    BY DEF LogInv, LogShape, FramesPlaced, FramesIn
  <2>3. f.lsn \in Nat /\ lsn \in Nat
    BY <2>2, FrameParts, RowNumbers
  <2> QED
    BY <1>3, <2>1, <2>2, <2>3
<1>5. ~Empty(segment) /\ files[segment].synced <= files[segment].length
      /\ files[segment].length <= offset /\ files[segment].length \in Nat /\ HeaderLen <= offset
  BY <1>1, ActiveFile
<1>6. /\ files[segment].synced = offset
      /\ \A f \in FramesIn(segment) : FrameEnd(f) <= offset
      /\ offset = HeaderLen \/ \E f \in FramesIn(segment) : FrameEnd(f) = offset
  BY <1>1, <1>3 DEF LogInv, CursorTrue
<1>7. files[segment].length = offset
  BY <1>5, <1>6, RowNumbers
<1>8. ScanEnd(segment) = offset
  <2>1. offset \in Nat
    BY RowNumbers
  <2> QED
    BY <1>5, <1>6, <2>1, EndsThere
<1>9. ~Torn(segment)
  <2>1. ~(offset < offset)
    BY RowNumbers
  <2> QED
    BY <1>5, <1>7, <1>8, <2>1 DEF Torn
<1> QED
  BY <1>1, <1>2, <1>3, <1>4, <1>6, <1>7, <1>8, <1>9

LEMMA PushRolledLog ==
    ASSUME TypeOK, TypeOK', DurableInv, LogInv, PushRolled
    PROVE  LogInv'
<1>1. /\ owner = "open" /\ ~poison /\ call \in Calls /\ LastFile = segment + 1
      /\ segment + 1 \in DOMAIN files /\ segment \in DOMAIN files
      /\ durable = lsn /\ files[segment + 1].first = lsn + 1
      /\ FramesIn(segment + 1) = {} /\ ~Torn(segment)
  BY RolledFile DEF PushRolled
<1>2. /\ files' = [files EXCEPT ![segment + 1].length = HeaderLen,
                                ![segment + 1].synced = HeaderLen]
      /\ segment' = segment + 1 /\ offset' = HeaderLen + Length
      /\ segments' = With(segments, segment + 1,
                          [length |-> HeaderLen + Length,
                           members |-> [m \in {call.id} |-> member[m].seq + 1]])
      /\ Accept([segment |-> segment + 1, offset |-> HeaderLen])
      /\ UNCHANGED <<evidence, registered, retiredAt, manifest, settled, owner,
                     poison, durable, opened, sealing>>
  BY DEF PushRolled
<1>3. Length \in Nat \ {0}
  BY <1>1, LengthType, LengthsAssumption
<1> PICK new : Accepted(call.id, new) /\ new.at = [segment |-> segment + 1, offset |-> HeaderLen]
               /\ new.length = Length
  BY <1>1, <1>2, AcceptDoes
<1>4. /\ frames' = frames \cup {new} /\ lsn' = lsn + 1 /\ new.lsn = lsn + 1
      /\ new.id = call.id /\ new.at.segment = segment + 1 /\ new.at.offset = HeaderLen
      /\ new.seq = member[call.id].seq + 1
      /\ FrameEnd(new) = HeaderLen + Length
  BY DEF Accepted, FrameEnd
<1>5. /\ call.id \in Members /\ call.id \in registered /\ Live(call.id)
  BY <1>1, CallerLives
<1>6. segment \in Nat /\ offset \in Nat /\ lsn \in Nat /\ HeaderLen \in Nat \ {0} /\ durable \in Nat
  BY RowNumbers
<1>7. /\ ~Empty(segment) /\ segment \notin DOMAIN evidence
      /\ \A n \in DOMAIN evidence : n < segment /\ n \in Int
  BY <1>1, ActiveFile
<1>8. segment + 1 \notin DOMAIN evidence
  BY <1>6, <1>7
<1>9. /\ DOMAIN files' = DOMAIN files
      /\ \A n \in DOMAIN files : /\ files'[n].first = files[n].first
                                 /\ n # segment + 1 => files'[n] = files[n]
      /\ files'[segment + 1].length = HeaderLen /\ files'[segment + 1].synced = HeaderLen
  <2>1. \A n \in DOMAIN files : files[n] \in [first : Nat \ {0}, length : Nat, synced : Nat]
    BY DEF TypeOK, FilesOK
  <2> QED
    BY <1>1, <1>2, <2>1
<1>10. \A f \in frames : Ahead(f, new) /\ f.at.segment # segment + 1 /\ f.at.segment \in DOMAIN files
  <2> SUFFICES ASSUME NEW f \in frames
               PROVE  Ahead(f, new) /\ f.at.segment # segment + 1 /\ f.at.segment \in DOMAIN files
    OBVIOUS
  <2>1. f.at.segment \in DOMAIN files /\ f.at.segment # segment + 1
    BY <1>1 DEF LogInv, LogShape, FramesPlaced, FramesIn
  <2>2. f.at.segment <= segment + 1 /\ f.at.segment \in Nat
    BY <1>1, <2>1, RowNumbers
  <2> QED
    BY <1>4, <1>6, <2>1, <2>2 DEF Ahead
<1>11. /\ new.prev = NoPointer \/ Before(new.prev, new.at)
       /\ \A f \in FramesOf(new.id) : f.seq < new.seq
       /\ FramesOf(new.id) # {} =>
              \E g \in frames : /\ g.id = new.id /\ new.seq = g.seq + 1 /\ new.prev = g.at
                                /\ \A h \in FramesOf(new.id) : h.lsn <= g.lsn
  <2>1. new.at.segment \in Nat /\ new.at.offset \in Nat
    BY <1>4, <1>6
  <2>2. Accepted(call.id, new) /\ call.id \in Members
        /\ new.at = [segment |-> segment + 1, offset |-> HeaderLen]
    BY <1>5
  <2> QED
    BY <1>1, <1>5, <2>1, <2>2, AcceptedLinks
<1>12. /\ LogShape' /\ LowestFile' = LowestFile /\ LastFile' = segment + 1
       /\ \A n : n # segment + 1 => FramesIn(n)' = FramesIn(n)
       /\ FramesIn(LastFile)' = {new}
       /\ \A n \in DOMAIN files : n # segment + 1 => After(n)' = After(n)
       /\ \A f \in frames : Predecessors(f)' = Predecessors(f)
       /\ Predecessors(new)' = FramesOf(new.id)
       /\ \A m : FramesOf(m)' = IF m = new.id THEN FramesOf(m) \cup {new} ELSE FramesOf(m)
       /\ new \notin frames
  <2>1. LogShape /\ HeaderLen <= new.at.offset /\ new.at.segment = LastFile
        /\ new.id \in registered
    BY <1>1, <1>4, <1>5, <1>6 DEF LogInv
  <2>2. /\ LogShape' /\ LowestFile' = LowestFile /\ LastFile' = LastFile
        /\ \A n : n # LastFile => FramesIn(n)' = FramesIn(n)
        /\ FramesIn(LastFile)' = FramesIn(LastFile) \cup {new}
        /\ \A n \in DOMAIN files : n # LastFile => After(n)' = After(n)
        /\ \A f \in frames : Predecessors(f)' = Predecessors(f)
        /\ Predecessors(new)' = FramesOf(new.id)
        /\ \A m : FramesOf(m)' = IF m = new.id THEN FramesOf(m) \cup {new} ELSE FramesOf(m)
        /\ new \notin frames
    BY <1>2, <1>4, <1>9, <1>10, <1>11, <2>1, LogAppended
  <2> QED
    BY <1>1, <2>2
<1> PICK s \in Nat : s = segment + 1
  BY <1>6
<1>13. segment' = s /\ LastFile = s /\ LastFile' = s /\ FramesIn(s)' = {new}
  <2>1. LastFile' = s /\ segment' = s /\ LastFile = s
    BY <1>1, <1>2, <1>12
  <2> QED
    BY <1>12, <2>1
<1>14. ~Empty(s)' /\ \A n \in DOMAIN files : n # s => Empty(n)' = Empty(n)
  <2>1. ~(HeaderLen < HeaderLen)
    BY <1>6
  <2> QED
    BY <1>2, <1>8, <1>9, <2>1 DEF Empty
<1>15. \A n \in DOMAIN files : n # s => /\ ScanEnd(n)' = ScanEnd(n)
                                        /\ Torn(n)' = Torn(n)
  <2>1. \A n \in DOMAIN files : n # s => ScanEnd(n)' = ScanEnd(n)
    BY <1>12, <1>14, ScanSame
  <2> QED
    BY <1>9, <1>14, <2>1 DEF Torn
<1>16. Boundaries'
  <2>1. Active' = s /\ Active = segment
    BY <1>1, <1>2 DEF Active
  <2>2. ASSUME NEW n \in DOMAIN evidence'
        PROVE  /\ n \in Int /\ n <= Active' /\ n < Active'
               /\ n \in DOMAIN files' => Frozen(n)'
    <3>1. n \in DOMAIN evidence /\ n # s
      BY <1>2, <1>8
    <3>2. n \in Int /\ n < segment /\ (n \in DOMAIN files => Frozen(n))
      BY <1>7, <3>1 DEF LogInv, Boundaries
    <3>3. n \in DOMAIN files => Frozen(n)'
      BY <1>2, <1>9, <1>12, <1>15, <3>1, <3>2 DEF Frozen
    <3>4. n <= s /\ n < s
      BY <1>6, <3>2
    <3> QED
      BY <1>9, <2>1, <3>2, <3>3, <3>4
  <2>3. \A n \in DOMAIN files' : Empty(n)' => FramesIn(n)' = {}
    BY <1>9, <1>12, <1>14 DEF LogInv, Boundaries
  <2>4. ASSUME NEW n \in DOMAIN files', Empty(n)'
        PROVE  n \in DOMAIN evidence'
    <3>1. n # s /\ Empty(n) /\ n \in DOMAIN files
      BY <1>9, <1>14, <2>4
    <3> QED
      BY <1>2, <1>13, <3>1 DEF LogInv, Boundaries
  <2>5. ASSUME NEW n \in DOMAIN files' \ DOMAIN evidence', n < Active'
        PROVE  ~Torn(n)'
    <3>1. n \in DOMAIN files \ DOMAIN evidence /\ n # s /\ n \in Nat /\ n < s
      BY <1>2, <1>9, <2>1, <2>5, RowNumbers
    <3>2. n = segment \/ n < Active
      BY <1>6, <2>1, <3>1
    <3>3. ~Torn(n)
      BY <1>1, <3>1, <3>2 DEF LogInv, Boundaries
    <3> QED
      BY <1>15, <3>1, <3>3
  <2>6. ASSUME NEW n \in DOMAIN files'
        PROVE  files'[n].synced <= files'[n].length
    <3>1. CASE n = segment + 1
      BY <1>6, <1>9, <3>1
    <3>2. CASE n # segment + 1
      BY <1>9, <3>2 DEF LogInv, Boundaries
    <3> QED
      BY <3>1, <3>2
  <2> QED
    BY <1>1, <1>2, <2>2, <2>3, <2>4, <2>5, <2>6 DEF Boundaries
<1>17. DurableFrames'
  <2>1. files'[LastFile'].first <= durable' + 1
    <3>1. files'[segment + 1].first = lsn + 1 /\ lsn + 1 <= lsn + 1
      BY <1>1, <1>6, <1>9
    <3> QED
      BY <1>1, <1>2, <1>12, <3>1
  <2>2. ASSUME NEW f \in frames
        PROVE  f.lsn <= durable' /\ Synced(f)'
    <3>1. f.lsn <= lsn /\ f.lsn \in Nat
      BY FrameParts DEF LogInv, LogShape, FramesPlaced
    <3>2. ~(f.lsn > durable)
      BY <1>1, <1>6, <3>1
    <3>3. Synced(f)
      BY <3>2 DEF LogInv, DurableFrames
    <3>4. Synced(f)' = Synced(f)
      BY <1>9, <1>10 DEF Synced, FrameEnd
    <3> QED
      BY <1>1, <1>2, <3>1, <3>3, <3>4
  <2>3. /\ new.lsn > durable' /\ new.at.segment = segment'
        /\ files'[segment'].synced <= new.at.offset
    BY <1>1, <1>2, <1>4, <1>6, <1>9
  <2> QED
    BY <1>1, <1>2, <1>4, <2>1, <2>2, <2>3 DEF DurableFrames
<1>18. CursorTrue'
  <2>1. /\ segment # segment + 1 /\ s # s + 1
        /\ HeaderLen <= offset' /\ HeaderLen <= HeaderLen /\ offset' <= offset'
    BY <1>2, <1>3, <1>6
  <2>2. FrameEnd(new)' = offset'
    BY <1>2, <1>4 DEF FrameEnd
  <2>3. durable' # lsn'
    BY <1>1, <1>2, <1>4, <1>6
  <2>4. /\ segment' \in DOMAIN files' /\ files'[segment'].length = HeaderLen
        /\ files'[segment'].synced = HeaderLen
    BY <1>1, <1>2, <1>9
  <2>5. FramesIn(segment)' = {new} /\ LastFile' = segment' /\ segment' # segment' + 1
    BY <1>13, <2>1
  <2> QED
    BY <2>1, <2>2, <2>3, <2>4, <2>5 DEF CursorTrue
<1>19. IndexTrue'
  <2>1. DOMAIN segments = {n \in DOMAIN files : n <= segment}
    BY <1>1 DEF LogInv, IndexTrue
  <2>2. s \notin DOMAIN segments
    BY <1>6, <2>1
  <2>3. /\ DOMAIN segments' = DOMAIN segments \cup {s}
        /\ \A n \in DOMAIN segments : segments'[n] = segments[n] /\ n # s
        /\ segments'[s].members = [m \in {call.id} |-> member[m].seq + 1]
    BY <1>2, <2>2 DEF With
  <2>4. DOMAIN segments' = {n \in DOMAIN files' : n <= segment'}
    <3>1. \A n \in DOMAIN files : n <= s <=> n <= segment \/ n = s
      BY <1>6, RowNumbers
    <3> QED
      BY <1>1, <1>9, <1>13, <2>1, <2>3, <3>1
  <2>5. ASSUME NEW n \in DOMAIN segments'
        PROVE  /\ DOMAIN segments'[n].members = {f.id : f \in FramesIn(n)'}
               /\ \A f \in FramesIn(n)' : f.seq <= segments'[n].members[f.id]
    <3>1. CASE n = s
      <4>1. member[call.id].seq \in Nat
        BY <1>5 DEF TypeOK, IndexOK, MemberStates
      <4>2. member[call.id].seq + 1 <= member[call.id].seq + 1
        BY <4>1
      <4>3. FramesIn(n)' = {new}
        BY <1>13, <3>1
      <4> QED
        BY <1>4, <2>3, <3>1, <4>2, <4>3
    <3>2. CASE n # s
      <4>1. n \in DOMAIN segments /\ segments'[n] = segments[n] /\ FramesIn(n)' = FramesIn(n)
        BY <1>12, <2>3, <3>2
      <4> QED
        BY <1>1, <4>1 DEF LogInv, IndexTrue
    <3> QED
      BY <3>1, <3>2
  <2> QED
    BY <2>4, <2>5 DEF IndexTrue
<1>20. Logical'
  <2>1. Before(new.at, [segment |-> segment, offset |-> offset]')
    BY <1>2, <1>3, <1>4, <1>6 DEF Before
  <2>2. ASSUME NEW p \in Pointers, Before(p, [segment |-> segment, offset |-> offset])
        PROVE  Before(p, [segment |-> segment, offset |-> offset]')
    BY <1>2, <1>3, <1>6, <2>2 DEF Before, Pointers
  <2> QED
    BY <1>1, <1>2, <1>12, <2>1, <2>2, AcceptKeepsMembers
<1>21. BusyHealthy' /\ LeftBehind'
  BY <1>1, <1>2 DEF BusyHealthy, LeftBehind
<1> QED
  BY <1>12, <1>16, <1>17, <1>18, <1>19, <1>20, <1>21 DEF LogInv, Logical

-----------------------------------------------------------------------------
(***************************************************************************)
(* A crash.                                                                *)
(***************************************************************************)
(* It takes nothing that is durable, and tears only a record it takes.     *)
LEMMA CrashParts ==
    ASSUME TypeOK, DurableInv, LogInv, NEW power \in BOOLEAN, Crash(power)
    PROVE  \E upTo \in Nat, torn \in Nat, header \in Nat :
               /\ durable <= upTo /\ upTo <= lsn
               /\ files' = Remains(upTo, torn, header) /\ Died(upTo)
               /\ (\A f \in frames : f.lsn # upTo + 1) => torn = 0
               /\ \A f \in frames : f.lsn = upTo + 1 => torn < f.length
               /\ header <= HeaderLen
<1> DEFINE lost == [f \in AtRisk(power) |-> f.lsn - 1]
           Lost == {f.lsn - 1 : f \in AtRisk(power)} \cup {lsn}
           next(u) == {g \in frames : g.lsn = u + 1}
           Tails(u) == {f.length - 1 : f \in next(u)} \cup {0}
<1>1. PICK upTo \in Min(Lost) .. lsn :
        \E torn \in 0 .. Max(Tails(upTo)) :
        \E header \in (IF TornHeaders THEN 0 .. HeaderLen ELSE {HeaderLen}) :
            files' = Remains(upTo, torn, header) /\ Died(upTo)
  BY DEF Crash
<1>2. owner = "open"
  BY DEF Crash
<1>3. lsn \in Nat /\ durable \in Nat /\ durable <= lsn
  BY RowNumbers DEF DurableInv, NotesBehind
<1>4. ASSUME NEW f \in AtRisk(power)
      PROVE  f \in frames /\ f.lsn - 1 \in Nat /\ durable <= f.lsn - 1
  <2>1. f \in frames
    BY DEF AtRisk
  <2>2. f.at.segment \in DOMAIN files /\ f.lsn \in Nat \ {0} /\ FrameEnd(f) \in Nat
    BY <2>1, FrameParts DEF LogInv, LogShape, FramesPlaced
  <2>3. files[f.at.segment].synced <= files[f.at.segment].length
        /\ files[f.at.segment].synced \in Nat /\ files[f.at.segment].length \in Nat
    BY <2>2, RowNumbers DEF LogInv, Boundaries
  <2>4. ~(FrameEnd(f) <= files[f.at.segment].synced)
    <3>1. CASE power
      BY <2>2, <2>3, <3>1 DEF AtRisk
    <3>2. CASE ~power
      <4>1. FrameEnd(f) > files[f.at.segment].length
        BY <3>2 DEF AtRisk
      <4> QED
        BY <2>2, <2>3, <4>1
    <3> QED
      BY <3>1, <3>2
  <2>5. f.lsn > durable
    BY <2>1, <2>4 DEF LogInv, DurableFrames, Synced
  <2> QED
    BY <1>3, <2>1, <2>2, <2>5
<1>5. Min(Lost) \in Int /\ durable <= Min(Lost)
  <2>1. Lost = {lost[f] : f \in AtRisk(power)} \cup {lsn}
    OBVIOUS
  <2>2. \A x \in Lost : x \in Nat /\ durable <= x
    BY <1>3, <1>4
  <2>3. IsFiniteSet(AtRisk(power))
    <3>1. AtRisk(power) \subseteq frames
      BY DEF AtRisk
    <3> QED
      BY <3>1, FS_Subset DEF TypeOK, FramesOK
  <2>4. IsFiniteSet({lost[f] : f \in AtRisk(power)})
    <3> HIDE DEF lost
    <3> QED
      BY <2>3, ImageFinite
  <2>5. IsFiniteSet(Lost) /\ Lost # {}
    <3> HIDE DEF lost
    <3> QED
      BY <2>1, <2>4, FS_AddElement
  <2> HIDE DEF Lost
  <2>6. Lost \subseteq Int
    BY <2>2
  <2>7. Min(Lost) \in Lost
    BY <2>5, <2>6, MinOfFinite
  <2> QED
    BY <2>2, <2>7
<1>6. upTo \in Nat /\ durable <= upTo /\ upTo <= lsn
  <2>1. upTo \in Int /\ Min(Lost) <= upTo /\ upTo <= lsn
    <3> HIDE DEF Lost
    <3> QED
      BY <1>1, <1>3, <1>5
  <2> HIDE DEF Lost
  <2> QED
    BY <1>3, <1>5, <2>1
<1>7. PICK torn \in 0 .. Max(Tails(upTo)),
           header \in (IF TornHeaders THEN 0 .. HeaderLen ELSE {HeaderLen}) :
            files' = Remains(upTo, torn, header) /\ Died(upTo)
  BY <1>1
<1>8. torn \in Nat /\ ((\A f \in frames : f.lsn # upTo + 1) => torn = 0)
  <2>1. torn \in Int /\ 0 <= torn
    BY <1>7
  <2>2. ASSUME \A f \in frames : f.lsn # upTo + 1
        PROVE  torn = 0
    <3>1. Tails(upTo) = {0}
      BY <2>2
    <3>2. IsFiniteSet({0}) /\ {0} \subseteq Int /\ {0} # {}
      <4>1. IsFiniteSet({0})
        BY FS_Singleton
      <4> QED
        BY <4>1
    <3>3. Max({0}) \in {0}
      BY <3>2, MaxOfFinite
    <3>4. Max(Tails(upTo)) = 0
      BY <3>1, <3>3
    <3>5. torn \in 0 .. 0
      BY <1>7, <3>4
    <3> QED
      BY <3>5
  <2> QED
    BY <2>1, <2>2
<1>9. header \in Nat /\ header <= HeaderLen
  BY LengthsAssumption
<1>10. ASSUME NEW f \in frames, f.lsn = upTo + 1
       PROVE  torn < f.length
  <2>1. next(upTo) = {f}
    BY <1>10 DEF LogInv, LogShape, FramesApart
  <2>2. Tails(upTo) = {f.length - 1} \cup {0}
    BY <2>1
  <2>3. f.length \in Nat \ {0}
    BY FrameParts
  <2>4. torn \in 0 .. Max(Tails(upTo))
    BY <1>7
  <2> DEFINE short == f.length - 1
  <2>5. short \in Nat /\ short < f.length
    BY <2>3
  <2> HIDE DEF short, Tails
  <2>6. Tails(upTo) = {short} \cup {0}
    BY <2>2 DEF short
  <2>7. IsFiniteSet({short})
    BY FS_Singleton, Zenon
  <2>8. IsFiniteSet({short} \cup {0})
    BY <2>7, FS_AddElement, Zenon
  <2>9. IsFiniteSet(Tails(upTo))
    BY <2>6, <2>8, Zenon
  <2>10. Tails(upTo) \subseteq Int /\ Tails(upTo) # {}
    BY <2>5, <2>6
  <2>11. Max(Tails(upTo)) \in Tails(upTo)
    BY <2>9, <2>10, MaxOfFinite
  <2>12. Max(Tails(upTo)) = short \/ Max(Tails(upTo)) = 0
    BY <2>6, <2>11
  <2> QED
    BY <2>3, <2>4, <2>5, <2>12
<1> QED
  BY <1>6, <1>7, <1>8, <1>9, <1>10

(* The files it leaves.                                                    *)
LEMMA CrashFiles ==
    ASSUME TypeOK, TypeOK', DurableInv, LogInv, owner = "open",
           NEW s, s = segment, NEW upTo \in Nat, NEW torn \in Nat, NEW header \in Nat,
           durable <= upTo, upTo <= lsn,
           files' = Remains(upTo, torn, header), frames' = {f \in frames : f.lsn <= upTo},
           evidence' = evidence,
           (\A f \in frames : f.lsn # upTo + 1) => torn = 0
    PROVE  /\ DOMAIN files' = DOMAIN files
           /\ \A n \in DOMAIN files : /\ files'[n].first = files[n].first
                                      /\ files'[n].synced = files'[n].length
                                      /\ n # s /\ n # s + 1
                                             => files'[n].length = files[n].length
           /\ ~Empty(s)' /\ ScanEnd(s)' <= files'[s].length
           /\ \A f \in frames' : f.at.segment = s => FrameEnd(f) <= files'[s].length
           /\ LastFile = s + 1 => /\ upTo = lsn /\ FramesIn(s + 1) = {}
                                  /\ files'[s].length = ScanEnd(s)'
<1> DEFINE kept == {f \in FramesIn(s) : f.lsn <= upTo}
           end == Max({FrameEnd(f) : f \in kept} \cup {HeaderLen})
           size(n) == IF n = s THEN end + torn
                      ELSE IF n = s + 1 THEN header ELSE files[n].length
<1>1. files' = [n \in DOMAIN files |->
                   [first |-> files[n].first, length |-> size(n), synced |-> size(n)]]
  BY DEF Remains
<1> HIDE DEF size, end
<1>2. s \in DOMAIN files /\ s \notin DOMAIN evidence
  BY ActiveFile
<1>3. /\ DOMAIN files' = DOMAIN files
      /\ \A n \in DOMAIN files : /\ files'[n].first = files[n].first
                                 /\ files'[n].length = size(n) /\ files'[n].synced = size(n)
  BY <1>1
<1>5. kept \in SUBSET frames
  BY DEF FramesIn
<1>6. end \in Nat /\ HeaderLen <= end /\ \A f \in kept : FrameEnd(f) <= end
  <2> DEFINE ends == [f \in kept |-> FrameEnd(f)]
             S == {FrameEnd(f) : f \in kept} \cup {HeaderLen}
  <2>1. end \in Nat
    BY <1>5, EndType DEF end
  <2>2. IsFiniteSet({ends[f] : f \in kept})
    <3>1. IsFiniteSet(kept)
      BY <1>5, FS_Subset DEF TypeOK, FramesOK
    <3> HIDE DEF ends, kept
    <3> QED
      BY <3>1, ImageFinite
  <2>3. {FrameEnd(f) : f \in kept} = {ends[f] : f \in kept}
    OBVIOUS
  <2>4. IsFiniteSet(S) /\ S # {} /\ HeaderLen \in S
    BY <2>2, <2>3, FS_AddElement
  <2>5. S \subseteq Int
    BY <1>5, FrameParts, LengthsAssumption
  <2>6. \A x \in S : x <= Max(S)
    <3> HIDE DEF S
    <3> QED
      BY <2>4, <2>5, MaxOfFinite
  <2>7. end = Max(S)
    BY DEF end
  <2>8. \A f \in kept : FrameEnd(f) \in S
    OBVIOUS
  <2> HIDE DEF S, kept
  <2> QED
    BY <2>1, <2>4, <2>6, <2>7, <2>8
<1>7. size(s) = end + torn
  BY DEF size
<1>8. ~(size(s) < HeaderLen) /\ end <= size(s)
  BY <1>6, <1>7, RowNumbers
<1>9. ~Empty(s)' /\ ScanEnd(s)' = end
  <2>1. ~Empty(s)'
    BY <1>2, <1>3, <1>8 DEF Empty
  <2>2. FramesIn(s)' = kept
    BY DEF FramesIn
  <2>3. {FrameEnd(f)' : f \in kept} = {FrameEnd(f) : f \in kept}
    BY DEF FrameEnd
  <2> QED
    BY <2>1, <2>2, <2>3 DEF ScanEnd, end
<1>10. ASSUME LastFile = s + 1
       PROVE  /\ upTo = lsn /\ FramesIn(s + 1) = {} /\ files'[s].length = ScanEnd(s)'
  <2>1. durable = lsn /\ files[LastFile].first = lsn + 1
    BY <1>10 DEF LogInv, CursorTrue
  <2>2. upTo = lsn /\ lsn \in Nat
    BY <2>1, RowNumbers
  <2>3. \A f \in frames : f.lsn <= lsn /\ f.lsn \in Nat
    BY FrameParts DEF LogInv, LogShape, FramesPlaced
  <2>4. torn = 0
    BY <2>2, <2>3
  <2>5. FramesIn(s + 1) = {}
    <3> SUFFICES ASSUME NEW f \in FramesIn(s + 1)
                 PROVE  FALSE
      OBVIOUS
    <3>1. LastFile \in DOMAIN files
      BY RowNumbers
    <3>2. files[LastFile].first <= f.lsn /\ f \in frames
      BY <1>10, <3>1 DEF LogInv, LogShape, Numbered, FramesIn
    <3> QED
      BY <2>1, <2>2, <2>3, <3>2
  <2> QED
    BY <1>2, <1>3, <1>6, <1>7, <1>9, <2>2, <2>4, <2>5
<1>11. \A n \in DOMAIN files : n # s /\ n # s + 1 => size(n) = files[n].length
  BY DEF size
<1>12. ASSUME NEW f \in frames', f.at.segment = s
       PROVE  FrameEnd(f) <= files'[s].length
  <2>1. f \in kept /\ f \in frames
    BY <1>12 DEF FramesIn
  <2>2. FrameEnd(f) <= end /\ FrameEnd(f) \in Nat
    BY <1>6, <2>1, FrameParts
  <2> QED
    BY <1>2, <1>3, <1>6, <1>7, <2>2
<1> QED
  BY <1>2, <1>3, <1>8, <1>9, <1>10, <1>11, <1>12

(* The MANIFEST a crash leaves still finds what it needs in the log.       *)
LEMMA CrashKeepsManifest ==
    ASSUME TypeOK, TypeOK', LogInv, NEW upTo \in Nat, durable <= upTo,
           frames' = {f \in frames : f.lsn <= upTo}, durable' = upTo,
           retiredAt' = retiredAt, opened' = {}, NEW m \in Members,
           manifest'[m] = manifest[m] \/ manifest'[m] = settled[m],
           \/ settled'[m] = manifest'[m]
           \/ settled'[m] = settled[m] /\ manifest'[m] = manifest[m]
    PROVE  ManifestKept(m)'
<1>1. ManifestKept(m)
  BY DEF LogInv, ManifestsKept
<1>2. /\ settled[m] \in Nat \cup {-1} /\ manifest[m] \in Nat \cup {-1}
      /\ settled[m] <= manifest[m] /\ durable \in Nat
  BY <1>1 DEF TypeOK, RegistryOK, CursorOK, None, ManifestKept
<1>3. settled'[m] <= manifest'[m] /\ manifest'[m] <= manifest[m] /\ manifest'[m] \in Nat \cup {-1}
  BY <1>2
<1>4. Live(m)' = Live(m)
  BY DEF Live
<1>5. FramesOf(m)' = {f \in FramesOf(m) : f.lsn <= upTo}
  BY DEF FramesOf
<1>6. \A f \in FramesOf(m) : f.lsn \in Nat /\ f.seq \in Nat
  BY FrameParts DEF FramesOf
<1>7. ASSUME Live(m), NEW f \in FramesOf(m)'
      PROVE  settled'[m] # None
  <2>1. settled[m] # None
    BY <1>1, <1>5, <1>7 DEF ManifestKept
  <2>2. settled[m] \in Nat /\ manifest[m] \in Nat
    BY <1>2, <2>1 DEF None
  <2>3. settled'[m] \in Nat
    BY <2>2
  <2> QED
    BY <2>3 DEF None
<1>8. ASSUME Live(m), NEW f \in FramesOf(m)', f.seq <= manifest'[m]
      PROVE  \E g \in FramesOf(m)' : g.seq >= manifest'[m] /\ g.lsn <= durable'
  <2>1. f \in FramesOf(m)
    BY <1>5
  <2>2. f.seq <= manifest[m]
    BY <1>2, <1>3, <1>6, <1>8, <2>1
  <2>3. PICK g \in FramesOf(m) : g.seq >= manifest[m] /\ g.lsn <= durable
    BY <1>1, <1>8, <2>1, <2>2 DEF ManifestKept
  <2>4. g.lsn <= upTo /\ g.seq >= manifest'[m]
    BY <1>2, <1>3, <1>6, <2>3
  <2> QED
    BY <1>5, <2>4
<1>9. ~Live(m) => \A f \in FramesOf(m)' : f.seq <= retiredAt'[m]
  BY <1>1, <1>5 DEF ManifestKept
<1> QED
  BY <1>3, <1>4, <1>7, <1>8, <1>9 DEF ManifestKept

(* Unless a MANIFEST the owner relied on is taken back, the log goes as    *)
(* far as was promised, and each member's records go down to its           *)
(* checkpoint: a MANIFEST that is lost before the owner relies on it was   *)
(* needed for neither.                                                     *)
LEMMA CrashLeavesBehind ==
    ASSUME TypeOK, TypeOK', DurableInv, LogInv, owner = "open",
           NEW upTo \in Nat, durable <= upTo,
           frames' = {f \in frames : f.lsn <= upTo},
           retiredAt' = retiredAt, NEW m \in Members, ~TakenBack(m)',
           promised'[m] = [seq |-> KeptSeq(m), checkpoint |-> member[m].checkpoint],
           \A f \in frames' : Predecessors(f)' = Predecessors(f)
    PROVE  Promised(m)'
<1> DEFINE said == promised'[m].seq
           found == ScanCheckpoint(m)'
<1>0. said = KeptSeq(m)
  OBVIOUS
<1>1. Live(m)' = Live(m) /\ (~Live(m) => found = retiredAt[m])
  BY DEF ScanCheckpoint, Live
<1>2. FramesOf(m)' = {f \in FramesOf(m) : f.lsn <= upTo}
  BY DEF FramesOf
<1>3. /\ \A f \in FramesOf(m) : f \in frames /\ f.lsn \in Nat /\ f.seq \in Nat
      /\ \A f \in FramesOf(m)' : f \in frames'
  BY FrameParts DEF FramesOf
<1>4. /\ member[m].seq \in Nat /\ member[m].lsn \in Nat /\ member[m].durableSeq \in Nat
      /\ member[m].checkpoint \in Nat /\ durable \in Nat
  BY DEF TypeOK, IndexOK, MemberStates, CursorOK
<1>5. found \in Nat
  BY DEF ScanCheckpoint, TypeOK, RegistryOK
<1>9. member[m].checkpoint <= found
  BY <1>4, <1>5 DEF TakenBack
<1> HIDE DEF said, found
<1>6. ManifestKept(m) /\ (Live(m) => MemberTrue(m))
  BY DEF LogInv, ManifestsKept, MembersTrue
<1>7. ASSUME Live(m)
      PROVE  \/ said <= found
             \/ \E f \in FramesOf(m)' : f.seq >= said
  <2>1. member[m].checkpoint <= found
    BY <1>9
  <2>2. CASE member[m].lsn <= durable
    <3>1. said = member[m].seq
      BY <1>0, <2>2 DEF KeptSeq
    <3>2. CASE FramesOf(m) = {}
      <4>1. ~(member[m].seq > member[m].checkpoint)
        BY <1>6, <1>7, <3>2 DEF MemberTrue
      <4> QED
        BY <1>4, <1>5, <2>1, <3>1, <4>1
    <3>3. CASE FramesOf(m) # {}
      <4>1. PICK g \in FramesOf(m) : g.seq = member[m].seq /\ g.lsn = member[m].lsn
        BY <1>7, <3>3, LastIsHighest
      <4>2. g.lsn <= upTo /\ g.seq >= member[m].seq
        BY <1>4, <2>2, <4>1
      <4> QED
        BY <1>2, <3>1, <4>2
    <3> QED
      BY <3>2, <3>3
  <2>3. CASE ~(member[m].lsn <= durable)
    <3>1. said = member[m].durableSeq /\ member[m].lsn > durable
      BY <1>0, <1>4, <2>3 DEF KeptSeq
    <3>2. Positions(m)
      BY <1>6, <1>7 DEF MemberTrue
    <3>3. CASE member[m].durableSeq > member[m].checkpoint
      <4>1. PICK f \in FramesOf(m) : f.seq = member[m].durableSeq
        BY <3>1, <3>2, <3>3 DEF Positions
      <4>2. f.lsn <= durable
        BY <1>4, <3>1, <3>2, <4>1 DEF Positions
      <4>3. f.lsn <= upTo /\ f.seq >= member[m].durableSeq
        BY <1>3, <1>4, <4>1, <4>2
      <4> QED
        BY <1>2, <3>1, <4>3
    <3>4. CASE ~(member[m].durableSeq > member[m].checkpoint)
      BY <1>4, <1>5, <2>1, <3>1, <3>4
    <3> QED
      BY <3>3, <3>4
  <2> QED
    BY <2>2, <2>3
<1>8. ASSUME NEW f \in FramesOf(m)', f.seq > found + 1
      PROVE  Predecessors(f)' # {}
  <2>1. f \in FramesOf(m) /\ f.seq \in Nat
    BY <1>2, <1>3
  <2>2. Live(m)
    <3> SUFFICES ASSUME ~Live(m)
                 PROVE  FALSE
      OBVIOUS
    <3>1. f.seq <= retiredAt[m] /\ found = retiredAt[m]
      BY <1>1, <1>6, <2>1 DEF ManifestKept
    <3> QED
      BY <1>5, <1>8, <2>1, <3>1
  <2>3. f.seq > member[m].checkpoint + 1
    BY <1>4, <1>5, <1>9, <1>8, <2>1
  <2>4. Predecessors(f) # {}
    BY <1>6, <2>1, <2>2, <2>3 DEF MemberTrue
  <2> QED
    BY <1>3, <2>4
<1> QED
  BY <1>1, <1>7, <1>8 DEF said, found, Promised

LEMMA CrashLog ==
    ASSUME TypeOK, TypeOK', DurableInv, LogInv, NEW power \in BOOLEAN, Crash(power)
    PROVE  LogInv'
<1>1. owner = "open"
  BY DEF Crash
<1> PICK upTo \in Nat, torn \in Nat, header \in Nat :
           /\ durable <= upTo /\ upTo <= lsn
           /\ files' = Remains(upTo, torn, header) /\ Died(upTo)
           /\ (\A f \in frames : f.lsn # upTo + 1) => torn = 0
  BY CrashParts
<1> PICK s \in Nat : s = segment
  BY RowNumbers
<1>2. /\ frames' = {f \in frames : f.lsn <= upTo} /\ owner' = "down" /\ poison' = FALSE
      /\ lsn' = upTo /\ durable' = upTo /\ pc' = "idle" /\ call' = NoCall /\ opened' = {}
      /\ \A m \in Members : sealing'[m] = "no"
                           /\ promised'[m] = [seq |-> KeptSeq(m),
                                              checkpoint |-> member[m].checkpoint]
      /\ UNCHANGED <<evidence, registered, retiredAt>>
  BY DEF Died
<1>3. /\ DOMAIN files' = DOMAIN files
      /\ \A n \in DOMAIN files : /\ files'[n].first = files[n].first
                                 /\ files'[n].synced = files'[n].length
                                 /\ n # s /\ n # s + 1 => files'[n].length = files[n].length
      /\ ~Empty(s)' /\ ScanEnd(s)' <= files'[s].length
      /\ \A f \in frames' : f.at.segment = s => FrameEnd(f) <= files'[s].length
      /\ LastFile = s + 1 => /\ upTo = lsn /\ FramesIn(s + 1) = {}
                             /\ files'[s].length = ScanEnd(s)'
  BY <1>1, <1>2, CrashFiles
<1>4. /\ s \in DOMAIN files /\ s \notin DOMAIN evidence /\ LastFile \in {s, s + 1}
      /\ \A n \in DOMAIN evidence : n < s /\ n \in Int
  BY <1>1, ActiveFile DEF LogInv, CursorTrue
<1>5. \A f \in frames : f.lsn \in Nat /\ f.lsn <= lsn /\ f.at.segment \in DOMAIN files
  BY FrameParts DEF LogInv, LogShape, FramesPlaced
<1>6. durable \in Nat /\ lsn \in Nat /\ LastFile \in DOMAIN files /\ LastFile \in Nat
      /\ files[LastFile].first \in Nat
  BY RowNumbers
<1>7. /\ LogShape' /\ LowestFile' = LowestFile /\ LastFile' = LastFile
      /\ \A n : n # LastFile => FramesIn(n)' = FramesIn(n)
      /\ \A n \in DOMAIN files : n # LastFile => After(n)' = After(n)
      /\ \A f \in frames' : Predecessors(f)' = Predecessors(f)
  <2>1. ASSUME NEW f \in frames, f.lsn > upTo
        PROVE  f.at.segment = LastFile
    <3>1. f.lsn > durable
      BY <1>5, <1>6, <2>1
    <3>2. f.at.segment = s
      BY <1>5, <1>6, <3>1 DEF LogInv, DurableFrames
    <3>3. LastFile # s + 1
      BY <1>3, <1>5, <1>6, <2>1
    <3> QED
      BY <1>4, <3>2, <3>3
  <2>2. files[LastFile].first <= upTo + 1
    <3>1. files[LastFile].first <= durable + 1
      BY DEF LogInv, DurableFrames
    <3> QED
      BY <1>6, <3>1
  <2> QED
    BY <1>2, <1>3, <2>1, <2>2, LogCut DEF LogInv
<1>8. \A n \in DOMAIN files : n < s => n # s /\ n # s + 1 /\ n # LastFile /\ n \in Nat
  BY <1>4, RowNumbers
<1>9. \A n \in DOMAIN files : n < s => /\ Empty(n)' = Empty(n) /\ ScanEnd(n)' = ScanEnd(n)
                                       /\ Torn(n)' = Torn(n) /\ FramesIn(n)' = FramesIn(n)
                                       /\ After(n)' = After(n)
                                       /\ files'[n].length = files[n].length
  <2>1. \A n \in DOMAIN files : n < s => /\ FramesIn(n)' = FramesIn(n) /\ After(n)' = After(n)
                                         /\ files'[n].length = files[n].length
    BY <1>3, <1>7, <1>8
  <2>2. \A n \in DOMAIN files : n < s => Empty(n)' = Empty(n)
    BY <1>2, <2>1 DEF Empty
  <2>3. \A n \in DOMAIN files : n < s => ScanEnd(n)' = ScanEnd(n)
    BY <2>1, <2>2, ScanSame
  <2> QED
    BY <2>1, <2>2, <2>3 DEF Torn
<1>10. \A n \in DOMAIN files : n < s \/ n = s \/ (n = s + 1 /\ LastFile = s + 1)
  <2>1. \A n \in DOMAIN files : n \in Nat /\ n <= LastFile
    BY RowNumbers
  <2> QED
    BY <1>4, <2>1
<1>11. Boundaries'
  <2>1. Active' = LastFile /\ Active = s
    BY <1>1, <1>2, <1>7 DEF Active
  <2>2. ASSUME NEW n \in DOMAIN files', Empty(n)'
        PROVE  /\ FramesIn(n)' = {}
               /\ n \in DOMAIN evidence' \/ (n = LastFile' /\ n # LowestFile')
    <3>1. CASE n < s
      BY <1>2, <1>3, <1>8, <1>9, <2>2, <3>1 DEF LogInv, Boundaries
    <3>2. CASE n = s + 1 /\ LastFile = s + 1
      <4>1. FramesIn(n)' = {}
        <5>1. FramesIn(n) = {}
          BY <1>3, <3>2
        <5> QED
          BY <1>2, <5>1 DEF FramesIn
      <4>2. n # LowestFile
        BY <1>4, <3>2, RowNumbers
      <4> QED
        BY <1>7, <3>2, <4>1, <4>2
    <3> QED
      BY <1>3, <1>10, <2>2, <3>1, <3>2
  <2>3. ASSUME NEW n \in DOMAIN evidence'
        PROVE  n \in Int /\ n <= Active' /\ (n \in DOMAIN files' => Frozen(n)')
    <3>1. n \in Int /\ n < s /\ n \in DOMAIN evidence
      BY <1>2, <1>4
    <3>2. n <= LastFile
      BY <1>4, <1>6, <3>1
    <3>3. n \in DOMAIN files => Frozen(n)'
      <4>1. n \in DOMAIN files => Frozen(n)
        BY <3>1 DEF LogInv, Boundaries
      <4> QED
        BY <1>2, <1>9, <3>1, <4>1 DEF Frozen
    <3> QED
      BY <1>3, <2>1, <3>1, <3>2, <3>3
  <2>4. ASSUME NEW n \in DOMAIN files' \ DOMAIN evidence', n < Active'
        PROVE  ~Torn(n)'
    <3>1. CASE n < s
      BY <1>2, <1>3, <1>9, <2>1, <3>1 DEF LogInv, Boundaries
    <3>2. CASE n = s
      <4>1. LastFile = s + 1
        BY <1>4, <2>1, <2>4, <3>2
      <4>2. files'[s].length = ScanEnd(s)' /\ ~Empty(s)'
        BY <1>3, <4>1
      <4>3. ~(ScanEnd(s)' < files'[s].length)
        <5>1. files'[s].length \in Nat
          BY <1>3, <1>4 DEF TypeOK, FilesOK
        <5> QED
          BY <4>2, <5>1
      <4> QED
        BY <3>2, <4>2, <4>3 DEF Torn
    <3>3. ~(n = s + 1 /\ LastFile = s + 1)
      BY <2>1, <2>4
    <3> QED
      BY <1>3, <1>10, <3>1, <3>2, <3>3
  <2>5. \A n \in DOMAIN files' : files'[n].synced <= files'[n].length
                                 /\ files'[n].synced = files'[n].length
    <3>1. \A n \in DOMAIN files' : files'[n].length \in Nat
      BY DEF TypeOK, FilesOK
    <3> QED
      BY <1>3, <3>1
  <2> QED
    BY <1>2, <2>2, <2>3, <2>4, <2>5 DEF Boundaries
<1>12. DurableFrames'
  <2>1. files'[LastFile'].first <= durable' + 1
    <3>1. files[LastFile].first <= durable + 1
      BY DEF LogInv, DurableFrames
    <3>2. files[LastFile].first <= upTo + 1
      BY <1>6, <3>1
    <3> QED
      BY <1>2, <1>3, <1>6, <1>7, <3>2
  <2>2. ASSUME NEW f \in frames'
        PROVE  f.lsn <= durable' /\ Synced(f)'
    <3>1. f \in frames /\ f.lsn <= upTo /\ f.at.segment \in DOMAIN files
      BY <1>2, <1>5
    <3>2. files'[f.at.segment].synced = files'[f.at.segment].length
      BY <1>3, <3>1
    <3>3. FrameEnd(f)' = FrameEnd(f) /\ FrameEnd(f) \in Nat
      BY <3>1, FrameParts DEF FrameEnd
    <3>4. CASE f.at.segment < s
      <4>1. Synced(f)
        BY <1>8, <3>1, <3>4 DEF LogInv, DurableFrames
      <4>2. files'[f.at.segment].length = files[f.at.segment].length
            /\ files[f.at.segment].synced <= files[f.at.segment].length
        BY <1>9, <3>1, <3>4 DEF LogInv, Boundaries
      <4>3. files[f.at.segment].synced \in Nat /\ files[f.at.segment].length \in Nat
        BY <3>1, RowNumbers
      <4>4. FrameEnd(f) <= files'[f.at.segment].synced
        BY <3>2, <3>3, <4>1, <4>2, <4>3 DEF Synced
      <4> QED
        BY <1>2, <3>1, <3>3, <4>4 DEF Synced
    <3>5. CASE f.at.segment = s
      <4>1. FrameEnd(f) <= files'[s].synced
        BY <1>3, <1>4, <3>5
      <4> QED
        BY <1>2, <3>1, <3>3, <3>5, <4>1 DEF Synced
    <3>6. ~(f.at.segment = s + 1 /\ LastFile = s + 1)
      BY <1>3, <3>1 DEF FramesIn
    <3> QED
      BY <1>10, <3>1, <3>4, <3>5, <3>6
  <2> QED
    BY <1>2, <2>1, <2>2 DEF DurableFrames
<1>13. \A m \in Members : /\ manifest'[m] = manifest[m] \/ manifest'[m] = settled[m]
                          /\ \/ settled'[m] = manifest'[m]
                             \/ settled'[m] = settled[m] /\ manifest'[m] = manifest[m]
  BY DEF Crash
<1>14. \A m \in Members : ManifestKept(m)'
  BY <1>2, <1>13, CrashKeepsManifest
<1>15. HandlesTrue'
  BY <1>2 DEF HandlesTrue, HandleTrue
<1>16. LeftBehind'
  <2> SUFFICES ASSUME NEW m \in Members, ~TakenBack(m)'
               PROVE  Promised(m)'
    BY DEF LeftBehind
  <2> QED
    BY <1>1, <1>2, <1>7, CrashLeavesBehind
<1>17. CursorTrue' /\ IndexTrue' /\ MembersTrue' /\ BusyHealthy'
  BY <1>2 DEF CursorTrue, IndexTrue, MembersTrue, BusyHealthy
<1> QED
  BY <1>7, <1>11, <1>12, <1>14, <1>15, <1>16, <1>17 DEF LogInv, ManifestsKept
=============================================================================
