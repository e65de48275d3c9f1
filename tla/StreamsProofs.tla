---------------------------- MODULE StreamsProofs ----------------------------
(***************************************************************************)
(* What a table answers is what the records in its log say, for all series *)
(* and fields, rows, times, durations and bounds of Streams.               *)
(*                                                                         *)
(* The first part is about the log alone: for every set of members and     *)
(* every bound the abstract log never loses a record a member still needs, *)
(* and never holds one twice.                                              *)
(*                                                                         *)
(* The rest is about a table.  The invariant says of the table in memory   *)
(* and of the one in the MANIFEST what each makes of the records it stands *)
(* for: versions with the time of their first row, retirements that no row *)
(* has ended, rows of the records in front of the MANIFEST in units above  *)
(* the floor, and the rest in the heads.  Lookups, samples and aggregates  *)
(* follow.                                                                 *)
(***************************************************************************)
EXTENDS Streams, WellFoundedInduction, SequenceTheorems, FiniteSetTheorems,
        FunctionTheorems, TLAPS

-----------------------------------------------------------------------------
(***************************************************************************)
(* The log.                                                                *)
(***************************************************************************)
(* A set of numbers with an upper bound has a largest element.             *)
LEMMA LargestExists ==
    ASSUME NEW S, S \subseteq Nat, S # {}, NEW n \in Nat, \A x \in S : x <= n
    PROVE  \E s \in S : \A r \in S : r <= s
<1> DEFINE T == {n - x : x \in S}
<1>1. T \subseteq Nat /\ T # {}
  <2>1. \A x \in S : n - x \in Nat
    OBVIOUS
  <2> QED
    BY <2>1
<1>2. PICK t \in T : \A u \in T : ~ (<<u, t>> \in OpToRel(<, Nat))
  BY <1>1, NatLessThanWellFounded, WFMin
<1>3. \A u \in T : ~ (u < t)
  BY <1>1, <1>2 DEF OpToRel
<1>4. PICK s \in S : t = n - s
  OBVIOUS
<1>5. \A r \in S : r <= s
  <2> TAKE r \in S
  <2>1. n - r \in T /\ ~ (n - r < n - s)
    BY <1>3, <1>4
  <2>2. r \in Nat /\ s \in Nat
    OBVIOUS
  <2> QED
    BY <2>1, <2>2
<1> QED
  BY <1>5

(* What SeqAt chooses.                                                     *)
LEMMA SeqAtMax ==
    ASSUME IInv, NEW m \in Members, NEW cut
    PROVE  LET kept == {log[l].seq : l \in {k \in DOMAIN log : k <= cut /\ log[k].id = m}}
                       \cup {checkpoint[m]}
           IN  SeqAt(m, cut) \in kept /\ \A r \in kept : r <= SeqAt(m, cut)
<1> DEFINE kept == {log[l].seq : l \in {k \in DOMAIN log : k <= cut /\ log[k].id = m}}
                   \cup {checkpoint[m]}
<1>1. kept \subseteq Nat /\ kept # {}
  BY DEF IInv, TypeOK, Records
<1>2. seq[m] \in Nat /\ \A r \in kept : r <= seq[m]
  BY DEF IInv, TypeOK, Bounded
<1>3. \E s \in kept : \A r \in kept : r <= s
  <2> HIDE DEF kept
  <2> QED
    BY <1>1, <1>2, LargestExists
<1> QED
  BY <1>3 DEF SeqAt

-----------------------------------------------------------------------------
(* The initial log has the invariant: it is empty.                         *)
LEMMA InitInv == Init => IInv
  BY DEF Init, IInv, TypeOK, Complete, Ordered, Bounded, Records

(* Appending: the new record has a number of its own, above all others.    *)
LEMMA AcceptInv ==
    ASSUME IInv, NEW m \in Members, NEW value \in Values, Accept(m, value)
    PROVE  IInv'
<1> DEFINE new == [id |-> m, seq |-> seq[m] + 1, value |-> value]
<1>1. /\ top \in Nat /\ top' = top + 1 /\ seq[m] \in Nat
      /\ seq' = [seq EXCEPT ![m] = seq[m] + 1]
      /\ durable' = durable /\ checkpoint' = checkpoint /\ retired' = retired
      /\ m \notin retired
  BY DEF Accept, IInv, TypeOK
<1>2. new \in Records
  BY <1>1 DEF Records
<1>3. DOMAIN log' = DOMAIN log \cup {top + 1} /\ log'[top + 1] = new
      /\ \A l \in DOMAIN log : l # top + 1 /\ log'[l] = log[l]
  BY <1>1 DEF Accept, IInv, TypeOK
<1> HIDE DEF new
<1>4. TypeOK'
  BY <1>1, <1>2, <1>3 DEF IInv, TypeOK
<1>5. Complete'
  <2> SUFFICES ASSUME NEW q \in Members \ retired,
                      NEW s \in checkpoint[q] + 1 .. seq'[q]
               PROVE  \E l \in DOMAIN log' : log'[l].id = q /\ log'[l].seq = s
    BY <1>1 DEF Complete
  <2>1. CASE q = m /\ s = seq[m] + 1
    BY <2>1, <1>3 DEF new
  <2>2. CASE ~ (q = m /\ s = seq[m] + 1)
    <3>1. s \in checkpoint[q] + 1 .. seq[q]
      BY <2>2, <1>1 DEF IInv, TypeOK
    <3>2. PICK l \in DOMAIN log : log[l].id = q /\ log[l].seq = s
      BY <3>1 DEF IInv, Complete
    <3> QED
      BY <3>2, <1>3
  <2> QED
    BY <2>1, <2>2
<1>6. Ordered'
  <2>1. \A k \in DOMAIN log : k \in Nat /\ k <= top /\ log[k].seq \in Nat
                              /\ log[k].seq <= seq[log[k].id]
    BY DEF IInv, TypeOK, Bounded, Records
  <2>2. new.id = m /\ new.seq = seq[m] + 1
    BY DEF new
  <2> SUFFICES ASSUME NEW k \in DOMAIN log', NEW l \in DOMAIN log',
                      log'[k].id = log'[l].id
               PROVE  k < l <=> log'[k].seq < log'[l].seq
    BY DEF Ordered
  <2>3. CASE k \in DOMAIN log /\ l \in DOMAIN log
    BY <2>3, <1>3 DEF IInv, Ordered
  <2>4. CASE k \in DOMAIN log /\ l = top + 1
    <3>1. log'[k] = log[k] /\ log[k].id = m /\ log'[l].seq = seq[m] + 1
      BY <2>4, <1>3, <2>2
    <3> QED
      BY <3>1, <2>1, <2>4, <1>1
  <2>5. CASE k = top + 1 /\ l \in DOMAIN log
    <3>1. log'[l] = log[l] /\ log[l].id = m /\ log'[k].seq = seq[m] + 1
      BY <2>5, <1>3, <2>2
    <3> QED
      BY <3>1, <2>1, <2>5, <1>1
  <2>6. CASE k = top + 1 /\ l = top + 1
    BY <2>6, <2>2, <1>1, <1>3
  <2> QED
    BY <2>3, <2>4, <2>5, <2>6, <1>3
<1>7. Bounded'
  <2>1. \A l \in DOMAIN log : log[l].seq \in Nat /\ log[l].id \in Members
    BY DEF IInv, TypeOK, Records
  <2>2. \A q \in Members : seq[q] \in Nat /\ checkpoint[q] \in Nat
                           /\ (seq'[q] = seq[q] \/ (q = m /\ seq'[q] = seq[q] + 1))
    BY <1>1 DEF IInv, TypeOK
  <2>3. new.id = m /\ new.seq = seq[m] + 1 /\ seq'[m] = seq[m] + 1
    BY <1>1 DEF new, IInv, TypeOK
  <2>4. \A l \in DOMAIN log' : log'[l].seq <= seq'[log'[l].id]
    BY <1>1, <1>3, <2>1, <2>2, <2>3 DEF IInv, Bounded
  <2>5. \A q \in Members : checkpoint'[q] <= seq'[q]
    BY <1>1, <2>2 DEF IInv, Bounded
  <2>6. \A q \in retired' : checkpoint'[q] = seq'[q]
    BY <1>1, <2>2 DEF IInv, Bounded, TypeOK
  <2> QED
    BY <2>4, <2>5, <2>6 DEF Bounded
<1> QED
  BY <1>4, <1>5, <1>6, <1>7 DEF IInv

(* A sync changes none of the records.                                     *)
LEMMA PersistInv ==
    ASSUME IInv, Persist
    PROVE  IInv'
  BY DEF Persist, IInv, TypeOK, Complete, Ordered, Bounded, Records

(* A checkpoint gives up all of a member's records, so it needs none.      *)
LEMMA CheckpointInv ==
    ASSUME IInv, NEW m \in Members, Checkpoint(m) \/ Retire(m)
    PROVE  IInv'
<1>1. /\ UNCHANGED <<log, top, durable, seq>>
      /\ checkpoint' = [checkpoint EXCEPT ![m] = seq[m]]
      /\ retired' = retired \/ retired' = retired \cup {m}
  BY DEF Checkpoint, Retire
<1>2. TypeOK'
  BY <1>1 DEF IInv, TypeOK, Records
<1>3. \A q \in Members : \/ q = m /\ checkpoint'[q] = seq[q]
                         \/ q # m /\ checkpoint'[q] = checkpoint[q]
  BY <1>1 DEF IInv, TypeOK
<1>4. \A q \in Members : seq[q] \in Nat
  BY DEF IInv, TypeOK
<1>5. Complete'
  BY <1>1, <1>3, <1>4 DEF IInv, Complete
<1>6. Ordered' /\ Bounded'
  BY <1>1, <1>3, <1>4 DEF IInv, TypeOK, Ordered, Bounded
<1> QED
  BY <1>2, <1>5, <1>6 DEF IInv

(* What is forgotten has been given up, so nobody misses it.               *)
LEMMA ForgetInv ==
    ASSUME IInv, Forget
    PROVE  IInv'
<1>1. PICK low \in 1 .. top + 1 :
        /\ \A l \in DOMAIN log : l < low => log[l].seq <= checkpoint[log[l].id]
        /\ log' = [l \in DOMAIN log \cap (low .. top) |-> log[l]]
        /\ UNCHANGED <<top, durable, seq, checkpoint, retired>>
  BY DEF Forget
<1>2. DOMAIN log' \subseteq DOMAIN log /\ \A l \in DOMAIN log' : log'[l] = log[l]
  BY <1>1
<1>3. TypeOK' /\ Ordered' /\ Bounded'
  BY <1>1, <1>2 DEF IInv, TypeOK, Ordered, Bounded
<1>4. Complete'
  <2> SUFFICES ASSUME NEW m \in Members \ retired,
                      NEW s \in checkpoint[m] + 1 .. seq[m]
               PROVE  \E l \in DOMAIN log' : log'[l].id = m /\ log'[l].seq = s
    BY <1>1 DEF Complete
  <2>1. PICK l \in DOMAIN log : log[l].id = m /\ log[l].seq = s
    BY DEF IInv, Complete
  <2>2. checkpoint[m] \in Nat /\ seq[m] \in Nat /\ l \in 1 .. top /\ top \in Nat
    BY DEF IInv, TypeOK
  <2>3. ~ (l < low)
    BY <1>1, <2>1, <2>2
  <2>4. l \in DOMAIN log'
    BY <1>1, <2>2, <2>3
  <2> QED
    BY <1>2, <2>1, <2>4
<1> QED
  BY <1>3, <1>4 DEF IInv

(* A crash cuts every member's records at the same place, so what is left  *)
(* of each of them is a prefix.                                            *)
LEMMA CrashInv ==
    ASSUME IInv, Crash
    PROVE  IInv'
<1>1. /\ checkpoint' \in [Members -> Nat] /\ UNCHANGED retired
      /\ \A m \in Members : checkpoint'[m] \in checkpoint[m] .. SeqAt(m, durable)
  BY DEF Crash
<1>2. PICK cut \in durable .. top :
        /\ top' = cut /\ durable' = cut
        /\ log' = [l \in DOMAIN log \cap (1 .. cut) |-> log[l]]
        /\ seq' = [m \in Members |-> SeqAt(m, cut)]
  BY DEF Crash
<1>3. durable \in Nat /\ cut \in Nat /\ top \in Nat /\ durable <= cut
  BY <1>2 DEF IInv, TypeOK
<1>4. DOMAIN log' = {l \in DOMAIN log : l <= cut}
      /\ \A l \in DOMAIN log' : log'[l] = log[l]
  BY <1>2, <1>3 DEF IInv, TypeOK
<1>5. ASSUME NEW m \in Members
      PROVE  /\ checkpoint[m] \in Nat /\ checkpoint'[m] \in Nat
             /\ checkpoint[m] <= checkpoint'[m]
             /\ checkpoint[m] <= seq'[m] /\ seq'[m] \in Nat
             /\ \/ seq'[m] = checkpoint[m]
                \/ \E l \in DOMAIN log' : log'[l].id = m /\ log'[l].seq = seq'[m]
             /\ \A l \in DOMAIN log' : log'[l].id = m => log'[l].seq <= seq'[m]
             /\ checkpoint'[m] <= seq'[m]
  <2>1. /\ checkpoint[m] \in Nat /\ checkpoint'[m] \in Nat
        /\ checkpoint'[m] \in checkpoint[m] .. SeqAt(m, durable)
        /\ \A l \in DOMAIN log : log[l].seq \in Nat /\ l \in Nat
    BY <1>1 DEF IInv, TypeOK, Records
  <2>2. /\ \/ seq'[m] = checkpoint[m]
           \/ \E l \in DOMAIN log' : log'[l].id = m /\ log'[l].seq = seq'[m]
        /\ checkpoint[m] <= seq'[m]
        /\ \A l \in DOMAIN log' : log'[l].id = m => log'[l].seq <= seq'[m]
    BY <1>2, <1>4, SeqAtMax
  <2>3. seq'[m] \in Nat
    BY <1>4, <2>1, <2>2
  <2>4. \/ SeqAt(m, durable) = checkpoint[m]
        \/ \E l \in DOMAIN log : /\ l <= durable /\ log[l].id = m
                                /\ SeqAt(m, durable) = log[l].seq
    BY SeqAtMax
  <2>5. SeqAt(m, durable) \in Nat /\ SeqAt(m, durable) <= seq'[m]
    <3>1. CASE SeqAt(m, durable) = checkpoint[m]
      BY <2>1, <2>2, <3>1
    <3>2. ASSUME NEW l \in DOMAIN log, l <= durable, log[l].id = m,
                 SeqAt(m, durable) = log[l].seq
          PROVE  SeqAt(m, durable) \in Nat /\ SeqAt(m, durable) <= seq'[m]
      <4>1. l \in DOMAIN log' /\ log'[l] = log[l]
        BY <1>3, <1>4, <2>1, <3>2
      <4> QED
        BY <2>1, <2>2, <3>2, <4>1
    <3> QED
      BY <2>4, <3>1, <3>2
  <2> QED
    BY <2>1, <2>2, <2>3, <2>5
<1>6. TypeOK'
  <2>1. seq' \in [Members -> Nat]
    BY <1>2, <1>5
  <2> QED
    BY <1>1, <1>2, <1>3, <1>4, <2>1 DEF IInv, TypeOK
<1>7. Ordered'
  BY <1>4 DEF IInv, Ordered
<1>8. Bounded'
  <2>1. \A m \in retired : seq'[m] = checkpoint'[m]
    <3> TAKE m \in retired
    <3>1. m \in Members /\ checkpoint[m] = seq[m] /\ seq[m] \in Nat
      BY DEF IInv, TypeOK, Bounded
    <3>2. \A l \in DOMAIN log' : log'[l].id = m => log'[l].seq <= checkpoint[m]
      BY <1>4, <3>1 DEF IInv, Bounded
    <3>3. seq'[m] <= checkpoint[m]
      BY <1>5, <3>1, <3>2
    <3> QED
      BY <1>5, <3>1, <3>3
  <2>2. \A l \in DOMAIN log' : log'[l].id \in Members
    BY <1>6 DEF TypeOK, Records
  <2> QED
    BY <1>1, <1>5, <2>1, <2>2 DEF Bounded
<1>9. Complete'
  <2> SUFFICES ASSUME NEW m \in Members \ retired,
                      NEW s \in checkpoint'[m] + 1 .. seq'[m]
               PROVE  \E l \in DOMAIN log' : log'[l].id = m /\ log'[l].seq = s
    BY <1>1 DEF Complete
  <2>1. checkpoint[m] \in Nat /\ seq'[m] \in Nat /\ seq[m] \in Nat /\ s \in Nat
        /\ s > checkpoint[m] /\ s <= seq'[m]
    BY <1>5 DEF IInv, TypeOK
  <2>2. PICK k \in DOMAIN log' : log'[k].id = m /\ log'[k].seq = seq'[m]
    BY <1>5, <2>1
  <2>3. log[k].id = m /\ log[k].seq = seq'[m] /\ seq'[m] <= seq[m] /\ k \in DOMAIN log
        /\ k <= cut /\ k \in Nat
    BY <1>4, <2>2 DEF IInv, Bounded, TypeOK
  <2>4. s \in checkpoint[m] + 1 .. seq[m]
    BY <2>1, <2>3
  <2>5. PICK l \in DOMAIN log : log[l].id = m /\ log[l].seq = s
    BY <2>4 DEF IInv, Complete
  <2>6. ~ (k < l)
    BY <2>1, <2>3, <2>5 DEF IInv, Ordered
  <2>7. l \in Nat
    BY DEF IInv, TypeOK
  <2>8. l \in DOMAIN log'
    BY <1>3, <1>4, <2>3, <2>6, <2>7
  <2> QED
    BY <1>4, <2>5, <2>8
<1> QED
  BY <1>6, <1>7, <1>8, <1>9 DEF IInv

(* The records above a member's checkpoint are always all in the log,      *)
(* each once and in order, whatever members, crashes and forgetting do.    *)
THEOREM Sound == Spec => [](TypeOK /\ Complete /\ Ordered)
<1>1. Init => IInv
  BY InitInv
<1>2. IInv /\ [Next]_vars => IInv'
  <2>1. IInv /\ UNCHANGED vars => IInv'
    BY DEF IInv, TypeOK, Complete, Ordered, Bounded, Records, vars
  <2> QED
    BY <2>1, AcceptInv, PersistInv, CheckpointInv, ForgetInv, CrashInv DEF Next
<1>3. IInv => TypeOK /\ Complete /\ Ordered
  BY DEF IInv
<1> QED
  BY <1>1, <1>2, <1>3, PTL DEF Spec

-----------------------------------------------------------------------------
(***************************************************************************)
(* What a table is after the first n records of a history h, those behind  *)
(* `from` being in memory.                                                 *)
(***************************************************************************)
RowsIn(h, from, n) == {i \in from + 1 .. n : h[i].op = "row"}
RowOf(r) == [at |-> r.at, cells |-> r.cells]

DurationIn(h, n) ==
    LET earlier == {j \in 1 .. n : h[j].op = "version"}
    IN  IF earlier = {} THEN FirstValidity ELSE h[LastBy(earlier)].validity

RetirementsIn(h, n, op, x) == {j \in 1 .. n : h[j].op = op /\ h[j][op] = x}
EndedIn(h, n, j, x, part) ==
    \E i \in 1 .. n : /\ i > j /\ h[i].op = "row" /\ h[i].at > h[j].at
                      /\ \E k \in DOMAIN h[i].cells : k[part] = x
HoldingIn(h, n, op, x, part) ==
    LET j == LastBy(RetirementsIn(h, n, op, x))
    IN  IF RetirementsIn(h, n, op, x) = {} \/ EndedIn(h, n, j, x, part) THEN {} ELSE {h[j].at}
At(f, x) == {f[y] : y \in DOMAIN f \cap {x}}
IsFunction(f) == f = [x \in DOMAIN f |-> f[x]]

LastSays(last, h, n) ==
    /\ last \in Nat
    /\ \A i \in RowsIn(h, 0, n) : h[i].at <= last
    /\ last # 0 => \E i \in RowsIn(h, 0, n) : h[i].at = last
AnyVersion == [validity : Nat, fields : SUBSET Fields, from : Nat]
InForce(versions, m, at) ==
    versions[m].from \in 1 .. at /\ \A p \in m + 1 .. Len(versions) : versions[p].from \notin 1 .. at
VersionsSay(versions, last, h, n) ==
    /\ versions \in Seq(AnyVersion) /\ Len(versions) > 0
    /\ versions[1].validity = FirstValidity
    /\ versions[Len(versions)].validity = DurationIn(h, n)
    /\ \A m \in DOMAIN versions : versions[m].from <= last
    /\ \A i \in RowsIn(h, 0, n) : \E m \in DOMAIN versions :
           InForce(versions, m, h[i].at) /\ versions[m].validity = DurationIn(h, i)
RetiredSay(retired_, h, n, op, part) ==
    /\ IsFunction(retired_)
    /\ \A x : At(retired_, x) = HoldingIn(h, n, op, x, part)
TableSays(t, h, from, n) ==
    /\ t = [versions |-> t.versions, rows |-> t.rows, series |-> t.series,
            fields |-> t.fields, last |-> t.last]
    /\ t.rows = {RowOf(h[i]) : i \in RowsIn(h, from, n)}
    /\ LastSays(t.last, h, n)
    /\ VersionsSay(t.versions, t.last, h, n)
    /\ RetiredSay(t.series, h, n, "series", 1)
    /\ RetiredSay(t.fields, h, n, "field", 2)

(* A history is of records whose rows come in the order of their times.    *)
IsHistory(h) ==
    /\ h \in Seq(Bodies)
    /\ \A i, j \in RowsIn(h, 0, Len(h)) : i < j => h[i].at < h[j].at

-----------------------------------------------------------------------------
(***************************************************************************)
(* The inductive invariant.                                                *)
(***************************************************************************)
Given == checkpoint[Db]     \* the records in the MANIFEST
HistoryOK ==
    /\ IsHistory(history) /\ Len(history) = seq[Db] /\ retired = {}
    /\ \A l \in DOMAIN log : log[l].id = Db => log[l].value = history[log[l].seq]
TablesOK ==
    /\ TableSays(catalog, history, Given, Given)
    /\ TableSays(table, history, Given, Len(history))

(* Rows are in units as long as they are above the floor.                  *)
Old == RowsIn(history, 0, Given)
Apart(u, w) == (\A r \in u, q \in w : r.at < q.at) \/ (\A r \in u, q \in w : q.at < r.at)
UnitsOK ==
    /\ UNION units = {RowOf(history[i]) : i \in {j \in Old : history[j].at >= floor}}
    /\ {} \notin units
    /\ \A u, w \in units : u = w \/ Apart(u, w)
FloorOK ==
    /\ floor \in Nat
    /\ floor # 0 => \E i \in Old : history[i].at = floor - 1

(* The newest of the expired facts of a stream is in its head, if it was   *)
(* live when it was folded.                                                *)
FactOf(i, k) == [at |-> history[i].at, value |-> history[i].cells[k]]
Expired(k) == {i \in Old : k \in DOMAIN history[i].cells /\ history[i].at < floor}
HeadsOK ==
    /\ IsFunction(heads) /\ DOMAIN heads \subseteq Keys
    /\ \A b \in buried : b[2] \in Nat /\ b[2] < floor
    /\ \A k \in Keys :
           LET i == LastBy(Expired(k))
           IN  IF k \in DOMAIN heads
               THEN Expired(k) # {} /\ heads[k] = FactOf(i, k) /\ <<k, history[i].at>> \notin buried
               ELSE Expired(k) = {} \/ <<k, history[i].at>> \in buried

StreamsInv == IInv /\ HistoryOK /\ TablesOK /\ UnitsOK /\ FloorOK /\ HeadsOK

-----------------------------------------------------------------------------
(***************************************************************************)
(* Histories.                                                              *)
(***************************************************************************)
(* What LastBy chooses.                                                    *)
LEMMA LastOf ==
    ASSUME NEW n \in Nat, NEW S \in SUBSET (1 .. n), S # {}
    PROVE  LastBy(S) \in S /\ \A j \in S : j <= LastBy(S)
<1>1. S \subseteq Nat /\ \A x \in S : x <= n
  OBVIOUS
<1>2. \E s \in S : \A r \in S : r <= s
  BY <1>1, LargestExists
<1> QED
  BY <1>2 DEF LastBy

LEMMA LastIs ==
    ASSUME NEW n \in Nat, NEW S \in SUBSET (1 .. n), NEW m \in S, \A j \in S : j <= m
    PROVE  LastBy(S) = m
<1>1. LastBy(S) \in S /\ m <= LastBy(S) /\ LastBy(S) <= m
  BY LastOf
<1>2. LastBy(S) \in Nat /\ m \in Nat
  <2>1. S \subseteq Nat
    OBVIOUS
  <2> QED
    BY <1>1, <2>1
<1> QED
  BY <1>1, <1>2

(* Nothing that is said of n records depends on the others.                *)
LEMMA SameRecords ==
    ASSUME NEW h, NEW g, NEW n \in Nat, \A i \in 1 .. n : h[i] = g[i]
    PROVE  /\ \A from \in Nat : RowsIn(h, from, n) = RowsIn(g, from, n)
           /\ \A m \in 0 .. n : DurationIn(h, m) = DurationIn(g, m)
           /\ \A op, x, part : HoldingIn(h, n, op, x, part) = HoldingIn(g, n, op, x, part)
<1>1. ASSUME NEW from \in Nat PROVE RowsIn(h, from, n) = RowsIn(g, from, n)
  <2>1. \A i \in from + 1 .. n : i \in 1 .. n
    OBVIOUS
  <2> QED
    BY <2>1 DEF RowsIn
<1>2. ASSUME NEW m \in 0 .. n PROVE DurationIn(h, m) = DurationIn(g, m)
  <2> DEFINE E(f) == {j \in 1 .. m : f[j].op = "version"}
  <2>1. \A j \in 1 .. m : h[j] = g[j]
    OBVIOUS
  <2>2. E(h) = E(g)
    BY <2>1
  <2>3. E(h) # {} => h[LastBy(E(h))] = g[LastBy(E(h))]
    <3> SUFFICES ASSUME E(h) # {} PROVE h[LastBy(E(h))] = g[LastBy(E(h))]
      OBVIOUS
    <3>1. m \in Nat /\ E(h) \in SUBSET (1 .. m)
      OBVIOUS
    <3>2. LastBy(E(h)) \in E(h)
      BY <3>1, LastOf
    <3> QED
      BY <2>1, <3>2
  <2> QED
    BY <2>2, <2>3 DEF DurationIn
<1>3. ASSUME NEW op, NEW x, NEW part
      PROVE  HoldingIn(h, n, op, x, part) = HoldingIn(g, n, op, x, part)
  <2> DEFINE R == RetirementsIn(h, n, op, x)
             j == LastBy(R)
  <2>1. RetirementsIn(g, n, op, x) = R
    BY DEF RetirementsIn
  <2>2. R # {} => j \in 1 .. n
    <3>1. R \in SUBSET (1 .. n)
      BY DEF RetirementsIn
    <3> HIDE DEF R
    <3> QED
      BY <3>1, LastOf
  <2>3. j \in 1 .. n => (EndedIn(h, n, j, x, part) <=> EndedIn(g, n, j, x, part))
    <3> HIDE DEF j
    <3> QED
      BY DEF EndedIn
  <2> HIDE DEF R
  <2> QED
    BY <2>1, <2>2, <2>3 DEF HoldingIn, R
<1> QED
  BY <1>1, <1>2, <1>3

LEMMA SameTable ==
    ASSUME NEW h, NEW g, NEW n \in Nat, \A i \in 1 .. n : h[i] = g[i],
           NEW t, NEW from \in Nat, TableSays(t, h, from, n)
    PROVE  TableSays(t, g, from, n)
<1>1. /\ RowsIn(h, from, n) = RowsIn(g, from, n) /\ RowsIn(h, 0, n) = RowsIn(g, 0, n)
      /\ \A m \in 0 .. n : DurationIn(h, m) = DurationIn(g, m)
      /\ \A op, x, part : HoldingIn(h, n, op, x, part) = HoldingIn(g, n, op, x, part)
  BY SameRecords
<1>2. /\ \A i \in RowsIn(h, from, n) : h[i] = g[i]
      /\ \A i \in RowsIn(h, 0, n) : h[i] = g[i] /\ i \in 0 .. n
  BY DEF RowsIn
<1>3. {RowOf(h[i]) : i \in RowsIn(h, from, n)} = {RowOf(g[i]) : i \in RowsIn(g, from, n)}
  BY <1>1, <1>2
<1>4. LastSays(t.last, g, n)
  BY <1>1, <1>2 DEF TableSays, LastSays
<1>5. VersionsSay(t.versions, t.last, g, n)
  <2>1. VersionsSay(t.versions, t.last, h, n)
    BY DEF TableSays
  <2>2. n \in 0 .. n
    OBVIOUS
  <2> QED
    BY <1>1, <1>2, <2>1, <2>2 DEF VersionsSay
<1>6. RetiredSay(t.series, g, n, "series", 1) /\ RetiredSay(t.fields, g, n, "field", 2)
  BY <1>1 DEF TableSays, RetiredSay
<1> QED
  BY <1>3, <1>4, <1>5, <1>6 DEF TableSays

(* The records of a history.                                               *)
LEMMA Kinds ==
    ASSUME NEW r \in Bodies
    PROVE  /\ r.op \in {"row", "version", "series", "field"}
           /\ r.op = "row" => r.at \in Timestamps /\ r.at \in Nat \ {0}
           /\ r.op = "version" => r.validity \in Nat /\ r.fields \subseteq Fields
           /\ r.op = "series" => r.at \in Nat
           /\ r.op = "field" => r.at \in Nat
BY StreamsAssumption DEF Bodies

(* One record more.                                                        *)
LEMMA DurationNext ==
    ASSUME NEW h, NEW n \in Nat
    PROVE  DurationIn(h, n + 1) =
               IF h[n + 1].op = "version" THEN h[n + 1].validity ELSE DurationIn(h, n)
<1> DEFINE E == {j \in 1 .. n : h[j].op = "version"}
           F == {j \in 1 .. n + 1 : h[j].op = "version"}
<1>1. CASE h[n + 1].op = "version"
  <2>1. n + 1 \in F /\ F \in SUBSET (1 .. n + 1) /\ \A j \in F : j <= n + 1
    BY <1>1
  <2>2. LastBy(F) = n + 1
    <3> HIDE DEF F
    <3> QED
      BY <2>1, LastIs
  <2> QED
    BY <1>1, <2>1, <2>2 DEF DurationIn
<1>2. CASE h[n + 1].op # "version"
  <2>1. E = F
    BY <1>2
  <2> QED
    BY <1>2, <2>1 DEF DurationIn
<1> QED
  BY <1>1, <1>2

LEMMA HoldingNext ==
    ASSUME NEW h, NEW n \in Nat, NEW op, op # "row", NEW x, NEW part
    PROVE  \A c : c \in HoldingIn(h, n + 1, op, x, part) <=>
               IF h[n + 1].op = op /\ h[n + 1][op] = x THEN c = h[n + 1].at
               ELSE /\ c \in HoldingIn(h, n, op, x, part)
                    /\ h[n + 1].op = "row" /\ (\E k \in DOMAIN h[n + 1].cells : k[part] = x)
                           => ~ (h[n + 1].at > c)
<1> DEFINE r == h[n + 1]
           R == RetirementsIn(h, n, op, x)
           S == RetirementsIn(h, n + 1, op, x)
           j == LastBy(R)
<1>1. CASE r.op = op /\ r[op] = x
  <2>1. n + 1 \in S /\ S \in SUBSET (1 .. n + 1) /\ \A i \in S : i <= n + 1
    BY <1>1 DEF RetirementsIn
  <2>2. LastBy(S) = n + 1
    <3> HIDE DEF S
    <3> QED
      BY <2>1, LastIs
  <2>3. ~ EndedIn(h, n + 1, n + 1, x, part)
    BY DEF EndedIn
  <2> HIDE DEF S
  <2> QED
    BY <1>1, <2>1, <2>2, <2>3 DEF HoldingIn, S
<1>2. CASE ~ (r.op = op /\ r[op] = x)
  <2>1. S = R
    BY <1>2 DEF RetirementsIn
  <2>2. R # {} => j \in 1 .. n
    <3>1. R \in SUBSET (1 .. n)
      BY DEF RetirementsIn
    <3> HIDE DEF R
    <3> QED
      BY <3>1, LastOf
  <2> DEFINE now == r.op = "row" /\ r.at > h[j].at /\ \E k \in DOMAIN r.cells : k[part] = x
  <2>3. j \in 1 .. n => (EndedIn(h, n + 1, j, x, part) <=> EndedIn(h, n, j, x, part) \/ now)
    <3> HIDE DEF j
    <3> SUFFICES ASSUME j \in 1 .. n
                 PROVE  EndedIn(h, n + 1, j, x, part) <=> EndedIn(h, n, j, x, part) \/ now
      OBVIOUS
    <3>1. 1 .. n + 1 = (1 .. n) \cup {n + 1} /\ n + 1 > j
      OBVIOUS
    <3> QED
      BY <3>1 DEF EndedIn
  <2>4. HoldingIn(h, n + 1, op, x, part) =
            IF R = {} \/ EndedIn(h, n + 1, j, x, part) THEN {} ELSE {h[j].at}
    BY <2>1 DEF HoldingIn
  <2>5. HoldingIn(h, n, op, x, part) =
            IF R = {} \/ EndedIn(h, n, j, x, part) THEN {} ELSE {h[j].at}
    BY DEF HoldingIn
  <2> DEFINE names == \E k \in DOMAIN r.cells : k[part] = x
             A == HoldingIn(h, n, op, x, part)
             B == HoldingIn(h, n + 1, op, x, part)
             ended == EndedIn(h, n, j, x, part)
             ended2 == EndedIn(h, n + 1, j, x, part)
             c == h[j].at
  <2>6. /\ B = IF R = {} \/ ended2 THEN {} ELSE {c}
        /\ A = IF R = {} \/ ended THEN {} ELSE {c}
        /\ R # {} => (ended2 <=> ended \/ (r.op = "row" /\ r.at > c /\ names))
    BY <2>2, <2>3, <2>4, <2>5
  <2> HIDE DEF names, A, B, ended, ended2, c, R
  <2>7. \A d : d \in B <=> d \in A /\ (r.op = "row" /\ names => ~ (r.at > d))
    <3>1. CASE R = {} \/ ended
      BY <2>6, <3>1
    <3>2. CASE R # {} /\ ~ ended
      <4>1. A = {c}
        BY <2>6, <3>2
      <4>2. B = IF r.op = "row" /\ r.at > c /\ names THEN {} ELSE {c}
        BY <2>6, <3>2
      <4> QED
        BY <4>1, <4>2
    <3> QED
      BY <3>1, <3>2
  <2> QED
    BY <1>2, <2>7 DEF A, B, names
<1> QED
  BY <1>1, <1>2

-----------------------------------------------------------------------------
(***************************************************************************)
(* What Apply makes of a table.                                            *)
(***************************************************************************)
LEMMA RowsNext ==
    ASSUME NEW h, NEW from \in Nat, NEW n \in Nat, from <= n
    PROVE  \A i : i \in RowsIn(h, from, n + 1) <=>
                     i \in RowsIn(h, from, n) \/ (i = n + 1 /\ h[n + 1].op = "row")
<1>1. from + 1 .. n + 1 = (from + 1 .. n) \cup {n + 1}
  OBVIOUS
<1> QED
  BY <1>1 DEF RowsIn

LEMMA RowsStay ==
    ASSUME NEW h, NEW n \in Nat, h[n + 1].op # "row"
    PROVE  RowsIn(h, 0, n + 1) = RowsIn(h, 0, n)
<1>1. 0 + 1 .. n + 1 = (0 + 1 .. n) \cup {n + 1}
  OBVIOUS
<1> QED
  BY <1>1 DEF RowsIn

LEMMA AtWithout ==
    ASSUME NEW f, NEW S, IsFunction(f)
    PROVE  /\ IsFunction(Without(f, S))
           /\ \A x : At(Without(f, S), x) = IF x \in S THEN {} ELSE At(f, x)
BY DEF Without, At, IsFunction

LEMMA AtWith ==
    ASSUME NEW f, NEW y, NEW v, IsFunction(f)
    PROVE  /\ IsFunction(With(f, y, v))
           /\ \A x : At(With(f, y, v), x) = IF x = y THEN {v} ELSE At(f, x)
BY DEF With, At, IsFunction

(* A record that is no row, and no version either.                         *)
LEMMA VersionsStay ==
    ASSUME NEW h, NEW n \in Nat, NEW versions, NEW last, VersionsSay(versions, last, h, n),
           h[n + 1].op \in {"series", "field"}
    PROVE  VersionsSay(versions, last, h, n + 1)
<1>1. RowsIn(h, 0, n + 1) = RowsIn(h, 0, n)
  BY RowsStay
<1>2. DurationIn(h, n + 1) = DurationIn(h, n)
  BY DurationNext
<1> QED
  BY <1>1, <1>2 DEF VersionsSay

LEMMA VersionsGrow ==
    ASSUME NEW h, NEW n \in Nat, NEW versions, NEW last \in Nat, VersionsSay(versions, last, h, n),
           h[n + 1] \in Bodies, h[n + 1].op = "version"
    PROVE  VersionsSay(Append(versions, Version(h[n + 1])), last, h, n + 1)
<1> DEFINE r == h[n + 1]
           v == Version(r)
           new == Append(versions, v)
           L == Len(versions)
<1>1. v \in AnyVersion /\ v.from = 0 /\ v.validity = r.validity
  <2>1. r.validity \in Nat /\ r.fields \subseteq Fields
    BY Kinds
  <2> QED
    BY <2>1 DEF Version, AnyVersion, Inactive
<1>2. versions \in Seq(AnyVersion) /\ L \in Nat /\ L > 0
  BY DEF VersionsSay
<1> HIDE DEF v
<1>3. /\ new \in Seq(AnyVersion) /\ Len(new) = L + 1
      /\ \A m \in 1 .. L : new[m] = versions[m]
      /\ new[L + 1] = v
  BY <1>1, <1>2
<1> HIDE DEF new, L
<1>4. DOMAIN new = 1 .. L + 1 /\ DOMAIN versions = 1 .. L
  BY <1>2, <1>3 DEF L
<1>5. RowsIn(h, 0, n + 1) = RowsIn(h, 0, n)
  BY RowsStay
<1>6. DurationIn(h, n + 1) = r.validity
  BY DurationNext
<1>7. ASSUME NEW i \in RowsIn(h, 0, n)
      PROVE  \E m \in DOMAIN new : InForce(new, m, h[i].at) /\ new[m].validity = DurationIn(h, i)
  <2>1. PICK m \in DOMAIN versions :
            InForce(versions, m, h[i].at) /\ versions[m].validity = DurationIn(h, i)
    BY DEF VersionsSay
  <2>2. m \in 1 .. L /\ m \in DOMAIN new
    BY <1>2, <1>4
  <2>3. \A p \in m + 1 .. L + 1 : p \in m + 1 .. L \/ p = L + 1
    BY <1>2, <2>2
  <2>4. \A p \in m + 1 .. L : p \in 1 .. L
    BY <1>2, <2>2
  <2>5. InForce(new, m, h[i].at)
    BY SMTT(30), <1>1, <1>3, <2>1, <2>2, <2>3, <2>4 DEF InForce, L
  <2> QED
    BY <1>3, <2>1, <2>2, <2>5
<1>8. \A m \in DOMAIN new : new[m].from <= last
  <2> SUFFICES ASSUME NEW m \in DOMAIN new
               PROVE  new[m].from <= last
    OBVIOUS
  <2>1. CASE m = L + 1
    BY <1>1, <1>3, <2>1
  <2>2. CASE m # L + 1
    BY <1>2, <1>3, <1>4, <2>2 DEF VersionsSay
  <2> QED
    BY <2>1, <2>2
<1>9. new[1].validity = FirstValidity
  BY <1>2, <1>3 DEF VersionsSay
<1>10. new[Len(new)].validity = DurationIn(h, n + 1)
  BY <1>1, <1>3, <1>6
<1>11. Len(new) > 0
  BY <1>2, <1>3
<1>12. VersionsSay(new, last, h, n + 1)
  BY <1>3, <1>5, <1>7, <1>8, <1>9, <1>10, <1>11 DEF VersionsSay
<1> QED
  BY <1>12 DEF new, v

(* A row brings the last version into force.                               *)
LEMMA VersionsActivate ==
    ASSUME NEW h, NEW n \in Nat, NEW versions, NEW last \in Nat, VersionsSay(versions, last, h, n),
           LastSays(last, h, n), h[n + 1].op = "row", h[n + 1].at \in Nat, h[n + 1].at > last,
           \A i \in RowsIn(h, 0, n) : h[i].at \in Nat,
           NEW new,
           new = [versions EXCEPT ![Len(versions)].from = IF @ = Inactive THEN h[n + 1].at ELSE @]
    PROVE  VersionsSay(new, h[n + 1].at, h, n + 1)
<1> DEFINE r == h[n + 1]
           L == Len(versions)
<1>1. /\ versions \in Seq(AnyVersion) /\ L \in Nat /\ L > 0 /\ DOMAIN versions = 1 .. L
      /\ \A m \in 1 .. L : versions[m] \in AnyVersion
  BY DEF VersionsSay
<1> DEFINE from == IF versions[L].from = 0 THEN r.at ELSE versions[L].from
           v == [versions[L] EXCEPT !.from = from]
<1>2. /\ from \in Nat /\ from # 0 /\ from <= r.at
      /\ versions[L].from = 0 => from > last
      /\ versions[L].from # 0 => from = versions[L].from
  BY SMTT(30), <1>1 DEF VersionsSay, AnyVersion
<1>3. v \in AnyVersion /\ v.from = from /\ v.validity = versions[L].validity
  <2>1. versions[L] \in AnyVersion
    BY <1>1
  <2> HIDE DEF from, L
  <2> QED
    BY <1>2, <2>1 DEF AnyVersion
<1>4. new = [versions EXCEPT ![L] = v]
  BY <1>1 DEF Inactive
<1> HIDE DEF v, from
<1>5. /\ new \in Seq(AnyVersion) /\ Len(new) = L /\ DOMAIN new = 1 .. L
      /\ \A m \in 1 .. L : m # L => new[m] = versions[m]
      /\ new[L] = v
  BY <1>1, <1>3, <1>4
<1> HIDE DEF L
<1>6. \A i : i \in RowsIn(h, 0, n + 1) <=> i \in RowsIn(h, 0, n) \/ i = n + 1
  BY RowsNext
<1>7. DurationIn(h, n + 1) = DurationIn(h, n)
  BY DurationNext
<1>8. versions[L].validity = DurationIn(h, n)
  BY DEF VersionsSay, L
<1>9. ASSUME NEW i \in RowsIn(h, 0, n)
      PROVE  \E m \in DOMAIN new : InForce(new, m, h[i].at) /\ new[m].validity = DurationIn(h, i)
  <2>1. PICK m \in DOMAIN versions :
            InForce(versions, m, h[i].at) /\ versions[m].validity = DurationIn(h, i)
    BY DEF VersionsSay
  <2>2. h[i].at <= last /\ h[i].at \in Nat
    BY DEF LastSays
  <2>3. m \in 1 .. L /\ \A p \in m + 1 .. L : p \in 1 .. L
    BY <1>1, <2>1
  <2>4. \A p \in 1 .. L : versions[p].from \notin 1 .. h[i].at => new[p].from \notin 1 .. h[i].at
    BY <1>1, <1>2, <1>3, <1>5, <2>2
  <2>5. \A p \in 1 .. L : versions[p].from # 0 => new[p].from = versions[p].from
    BY <1>2, <1>3, <1>5
  <2>6. versions[m].from \in 1 .. h[i].at /\ versions[m].from # 0
    BY <2>1, <2>2 DEF InForce
  <2>7. new[m].from = versions[m].from /\ new[m].validity = versions[m].validity
    BY <1>3, <1>5, <2>3, <2>5, <2>6
  <2>8. InForce(new, m, h[i].at)
    BY <1>5, <2>1, <2>3, <2>4, <2>6, <2>7 DEF InForce, L
  <2> QED
    BY <1>5, <2>1, <2>3, <2>7, <2>8
<1>10. InForce(new, L, r.at) /\ L \in DOMAIN new /\ new[L].validity = DurationIn(h, n + 1)
  <2>1. new[L].from \in 1 .. r.at
    <3>1. from \in 1 .. r.at
      BY <1>2
    <3> QED
      BY <1>3, <1>5, <3>1
  <2>2. \A p \in L + 1 .. Len(new) : FALSE
    BY <1>1, <1>5
  <2> QED
    BY <1>1, <1>3, <1>5, <1>7, <1>8, <2>1, <2>2 DEF InForce
<1>11. \A m \in DOMAIN new : new[m].from <= r.at
  <2> SUFFICES ASSUME NEW m \in DOMAIN new
               PROVE  new[m].from <= r.at
    OBVIOUS
  <2>1. CASE m = L
    BY <1>2, <1>3, <1>5, <2>1
  <2>2. CASE m # L
    <3>1. versions[m].from \in Nat /\ versions[m].from <= last /\ new[m] = versions[m]
      BY <1>1, <1>5, <2>2 DEF VersionsSay, AnyVersion
    <3> QED
      BY <3>1
  <2> QED
    BY <2>1, <2>2
<1>12. new[1].validity = FirstValidity
  <2>1. versions[1].validity = FirstValidity
    BY DEF VersionsSay
  <2> QED
    BY <1>1, <1>3, <1>5, <2>1
<1>13. new[Len(new)].validity = DurationIn(h, n + 1)
  BY <1>5, <1>10
<1>14. \A i \in RowsIn(h, 0, n + 1) : \E m \in DOMAIN new :
          InForce(new, m, h[i].at) /\ new[m].validity = DurationIn(h, i)
  BY <1>6, <1>9, <1>10
<1> QED
  BY <1>1, <1>5, <1>11, <1>12, <1>13, <1>14 DEF VersionsSay

(* The retirements behind which a row comes end.                           *)
LEMMA RetiredNext ==
    ASSUME NEW h, NEW n \in Nat, NEW f, NEW op \in {"series", "field"}, NEW part,
           RetiredSay(f, h, n, op, part), h[n + 1].op = "row",
           NEW S, S = {x \in DOMAIN f : /\ h[n + 1].at > f[x]
                                        /\ \E k \in DOMAIN h[n + 1].cells : k[part] = x}
    PROVE  RetiredSay(Without(f, S), h, n + 1, op, part)
<1> DEFINE r == h[n + 1]
           new == Without(f, S)
<1>1. IsFunction(f) /\ \A x : At(f, x) = HoldingIn(h, n, op, x, part)
  BY DEF RetiredSay
<1>2. IsFunction(new) /\ \A x : At(new, x) = IF x \in S THEN {} ELSE At(f, x)
  BY <1>1, AtWithout
<1>3. ASSUME NEW x
      PROVE  At(new, x) = HoldingIn(h, n + 1, op, x, part)
  <2> DEFINE names == \E k \in DOMAIN r.cells : k[part] = x
             A == HoldingIn(h, n, op, x, part)
             B == HoldingIn(h, n + 1, op, x, part)
  <2>1. \A c : c \in B <=> c \in A /\ (names => ~ (r.at > c))
    BY HoldingNext
  <2>2. A = At(f, x)
    BY <1>1
  <2>3. At(new, x) = IF x \in S THEN {} ELSE A
    BY <1>2, <2>2
  <2>4. x \in S <=> x \in DOMAIN f /\ r.at > f[x] /\ names
    OBVIOUS
  <2>5. A = IF x \in DOMAIN f THEN {f[x]} ELSE {}
    BY <2>2 DEF At
  <2> HIDE DEF A, B, names, new
  <2>6. At(new, x) = B
    BY <2>1, <2>3, <2>4, <2>5
  <2> QED
    BY <2>6 DEF B
<1> QED
  BY <1>2, <1>3 DEF RetiredSay

LEMMA RetiredAgain ==
    ASSUME NEW h, NEW n \in Nat, NEW f, NEW op \in {"series", "field"}, NEW part,
           RetiredSay(f, h, n, op, part), h[n + 1].op = op
    PROVE  RetiredSay(With(f, h[n + 1][op], h[n + 1].at), h, n + 1, op, part)
<1> DEFINE r == h[n + 1]
           new == With(f, r[op], r.at)
<1>1. IsFunction(f) /\ \A x : At(f, x) = HoldingIn(h, n, op, x, part)
  BY DEF RetiredSay
<1>2. IsFunction(new) /\ \A x : At(new, x) = IF x = r[op] THEN {r.at} ELSE At(f, x)
  BY <1>1, AtWith
<1>3. ASSUME NEW x
      PROVE  \A c : c \in HoldingIn(h, n + 1, op, x, part) <=>
                 IF r[op] = x THEN c = r.at ELSE c \in HoldingIn(h, n, op, x, part)
  BY HoldingNext
<1> HIDE DEF new, r
<1>4. ASSUME NEW x
      PROVE  At(new, x) = HoldingIn(h, n + 1, op, x, part)
  <2>1. CASE x = r[op]
    <3>1. At(new, x) = {r.at}
      BY <1>2, <2>1
    <3>2. \A c : c \in HoldingIn(h, n + 1, op, x, part) <=> c = r.at
      BY <1>3, <2>1
    <3> QED
      BY <3>1, <3>2
  <2>2. CASE x # r[op]
    <3>1. At(new, x) = HoldingIn(h, n, op, x, part)
      BY <1>1, <1>2, <2>2
    <3>2. \A c : c \in HoldingIn(h, n + 1, op, x, part) <=> c \in HoldingIn(h, n, op, x, part)
      BY <1>3, <2>2
    <3> QED
      BY <3>1, <3>2
  <2> QED
    BY <2>1, <2>2
<1>5. RetiredSay(new, h, n + 1, op, part)
  BY <1>2, <1>4 DEF RetiredSay
<1> QED
  BY <1>5 DEF new, r

LEMMA RetiredStay ==
    ASSUME NEW h, NEW n \in Nat, NEW f, NEW op \in {"series", "field"}, NEW part,
           RetiredSay(f, h, n, op, part), h[n + 1].op # op, h[n + 1].op # "row"
    PROVE  RetiredSay(f, h, n + 1, op, part)
<1>1. ASSUME NEW x
      PROVE  HoldingIn(h, n + 1, op, x, part) = HoldingIn(h, n, op, x, part)
  <2>1. \A c : c \in HoldingIn(h, n + 1, op, x, part) <=> c \in HoldingIn(h, n, op, x, part)
    BY HoldingNext
  <2> QED
    BY <2>1
<1> QED
  BY <1>1 DEF RetiredSay

(* The table after one record more is the table with that record applied.  *)
LEMMA ApplySays ==
    ASSUME NEW h, IsHistory(h), NEW from \in Nat, NEW n \in Nat, from <= n, n < Len(h),
           NEW t, TableSays(t, h, from, n)
    PROVE  TableSays(Apply(t, h[n + 1]), h, from, n + 1)
<1> DEFINE r == h[n + 1]
           u == Apply(t, r)
<1>1. Len(h) \in Nat /\ n + 1 \in 1 .. Len(h) /\ r \in Bodies
  BY DEF IsHistory
<1>2. \A i \in RowsIn(h, 0, n) : h[i].at \in Nat /\ i \in 1 .. n
  <2> SUFFICES ASSUME NEW i \in RowsIn(h, 0, n)
               PROVE  h[i].at \in Nat /\ i \in 1 .. n
    OBVIOUS
  <2>1. i \in 1 .. n /\ h[i].op = "row" /\ i \in 1 .. Len(h)
    BY <1>1 DEF RowsIn
  <2>2. h[i] \in Bodies
    BY <2>1 DEF IsHistory
  <2> QED
    BY <2>1, <2>2, Kinds
<1>3. /\ t = [versions |-> t.versions, rows |-> t.rows, series |-> t.series,
              fields |-> t.fields, last |-> t.last]
      /\ t.rows = {RowOf(h[i]) : i \in RowsIn(h, from, n)}
      /\ LastSays(t.last, h, n) /\ t.last \in Nat
      /\ VersionsSay(t.versions, t.last, h, n)
      /\ RetiredSay(t.series, h, n, "series", 1)
      /\ RetiredSay(t.fields, h, n, "field", 2)
  BY DEF TableSays, LastSays
<1>4. /\ \A i : i \in RowsIn(h, 0, n + 1) <=> i \in RowsIn(h, 0, n) \/ (i = n + 1 /\ r.op = "row")
      /\ \A i : i \in RowsIn(h, from, n + 1) <=>
                   i \in RowsIn(h, from, n) \/ (i = n + 1 /\ r.op = "row")
  BY RowsNext
<1>5. r.op # "row" => LastSays(t.last, h, n + 1)
  BY <1>3, <1>4 DEF LastSays
<1>6. r.op # "row" => t.rows = {RowOf(h[i]) : i \in RowsIn(h, from, n + 1)}
  BY <1>3, <1>4
<1>7. CASE r.op = "row"
  <2>1. r.at \in Nat \ {0}
    BY <1>1, <1>7, Kinds
  <2>2. r.at > t.last
    <3>1. CASE t.last = 0
      BY <2>1, <3>1
    <3>2. CASE t.last # 0
      <4>1. PICK i \in RowsIn(h, 0, n) : h[i].at = t.last
        BY <1>3, <3>2 DEF LastSays
      <4>2. /\ i \in RowsIn(h, 0, Len(h)) /\ n + 1 \in RowsIn(h, 0, Len(h)) /\ i < n + 1
        BY <1>1, <1>2, <1>7 DEF RowsIn
      <4>3. h[i].at < r.at
        BY <4>2 DEF IsHistory
      <4> QED
        BY <2>1, <4>1, <4>3, <1>3
    <3> QED
      BY <3>1, <3>2
  <2> DEFINE L == Len(t.versions)
             vs == [t.versions EXCEPT ![L].from = IF @ = Inactive THEN r.at ELSE @]
             rows == t.rows \cup {[at |-> r.at, cells |-> r.cells]}
             S == {x \in DOMAIN t.series : /\ r.at > t.series[x]
                                           /\ \E k \in DOMAIN r.cells : k[1] = x}
             F == {x \in DOMAIN t.fields : /\ r.at > t.fields[x]
                                           /\ \E k \in DOMAIN r.cells : k[2] = x}
             ss == Without(t.series, S)
             fs == Without(t.fields, F)
  <2>3. u = [versions |-> vs, rows |-> rows, series |-> ss, fields |-> fs, last |-> r.at]
    <3>1. u = ApplyRow(t, r)
      BY <1>7 DEF Apply
    <3>2. ApplyRow(t, r) = [t EXCEPT !.versions[L].from = IF @ = Inactive THEN r.at ELSE @,
                                     !.rows = rows, !.series = ss, !.fields = fs, !.last = r.at]
      BY DEF ApplyRow
    <3> HIDE DEF rows, ss, fs
    <3> QED
      BY <1>3, <3>1, <3>2
  <2>4. VersionsSay(vs, r.at, h, n + 1)
    BY <1>2, <1>3, <1>7, <2>1, <2>2, VersionsActivate
  <2>5. RetiredSay(ss, h, n + 1, "series", 1)
    BY <1>3, <1>7, RetiredNext
  <2>6. RetiredSay(fs, h, n + 1, "field", 2)
    BY <1>3, <1>7, RetiredNext
  <2>7. rows = {RowOf(h[i]) : i \in RowsIn(h, from, n + 1)}
    BY <1>3, <1>4, <1>7 DEF RowOf
  <2>8. LastSays(r.at, h, n + 1)
    BY <1>2, <1>3, <1>4, <1>7, <2>1, <2>2 DEF LastSays
  <2> HIDE DEF u, vs, rows, ss, fs
  <2> QED
    BY <2>3, <2>4, <2>5, <2>6, <2>7, <2>8 DEF TableSays, u
<1>8. CASE r.op = "version"
  <2> DEFINE vs == Append(t.versions, Version(r))
  <2>1. u = [versions |-> vs, rows |-> t.rows, series |-> t.series, fields |-> t.fields,
             last |-> t.last]
    BY <1>3, <1>8 DEF Apply
  <2>2. VersionsSay(vs, t.last, h, n + 1)
    BY <1>1, <1>3, <1>8, VersionsGrow
  <2>3. RetiredSay(t.series, h, n + 1, "series", 1)
    BY <1>3, <1>8, RetiredStay
  <2>4. RetiredSay(t.fields, h, n + 1, "field", 2)
    BY <1>3, <1>8, RetiredStay
  <2> HIDE DEF u, vs
  <2>5. /\ LastSays(u.last, h, n + 1) /\ VersionsSay(u.versions, u.last, h, n + 1)
        /\ RetiredSay(u.series, h, n + 1, "series", 1) /\ RetiredSay(u.fields, h, n + 1, "field", 2)
    BY <1>5, <1>8, <2>1, <2>2, <2>3, <2>4
  <2>6. u.rows = {RowOf(h[i]) : i \in RowsIn(h, from, n + 1)}
    BY <1>6, <1>8, <2>1
  <2>7. TableSays(u, h, from, n + 1)
    BY <2>1, <2>5, <2>6 DEF TableSays
  <2> QED
    BY <2>7 DEF u
<1>9. CASE r.op = "series"
  <2> DEFINE ss == With(t.series, r.series, r.at)
  <2>1. u = [versions |-> t.versions, rows |-> t.rows, series |-> ss, fields |-> t.fields,
             last |-> t.last]
    BY <1>3, <1>9 DEF Apply
  <2>2. VersionsSay(t.versions, t.last, h, n + 1)
    BY <1>3, <1>9, VersionsStay
  <2>3. RetiredSay(ss, h, n + 1, "series", 1)
    BY <1>3, <1>9, RetiredAgain
  <2>4. RetiredSay(t.fields, h, n + 1, "field", 2)
    BY <1>3, <1>9, RetiredStay
  <2> HIDE DEF u, ss
  <2>5. /\ LastSays(u.last, h, n + 1) /\ VersionsSay(u.versions, u.last, h, n + 1)
        /\ RetiredSay(u.series, h, n + 1, "series", 1) /\ RetiredSay(u.fields, h, n + 1, "field", 2)
    BY <1>5, <1>9, <2>1, <2>2, <2>3, <2>4
  <2>6. u.rows = {RowOf(h[i]) : i \in RowsIn(h, from, n + 1)}
    BY <1>6, <1>9, <2>1
  <2>7. TableSays(u, h, from, n + 1)
    BY <2>1, <2>5, <2>6 DEF TableSays
  <2> QED
    BY <2>7 DEF u
<1>10. CASE r.op = "field"
  <2> DEFINE fs == With(t.fields, r.field, r.at)
  <2>1. u = [versions |-> t.versions, rows |-> t.rows, series |-> t.series, fields |-> fs,
             last |-> t.last]
    BY <1>3, <1>10 DEF Apply
  <2>2. VersionsSay(t.versions, t.last, h, n + 1)
    BY <1>3, <1>10, VersionsStay
  <2>3. RetiredSay(t.series, h, n + 1, "series", 1)
    BY <1>3, <1>10, RetiredStay
  <2>4. RetiredSay(fs, h, n + 1, "field", 2)
    BY <1>3, <1>10, RetiredAgain
  <2> HIDE DEF u, fs
  <2>5. /\ LastSays(u.last, h, n + 1) /\ VersionsSay(u.versions, u.last, h, n + 1)
        /\ RetiredSay(u.series, h, n + 1, "series", 1) /\ RetiredSay(u.fields, h, n + 1, "field", 2)
    BY <1>5, <1>10, <2>1, <2>2, <2>3, <2>4
  <2>6. u.rows = {RowOf(h[i]) : i \in RowsIn(h, from, n + 1)}
    BY <1>6, <1>10, <2>1
  <2>7. TableSays(u, h, from, n + 1)
    BY <2>1, <2>5, <2>6 DEF TableSays
  <2> QED
    BY <2>7 DEF u
<1> QED
  BY <1>1, <1>7, <1>8, <1>9, <1>10, Kinds

-----------------------------------------------------------------------------
(***************************************************************************)
(* What a table tells of a fact.                                           *)
(***************************************************************************)
LEMMA RowIn ==
    ASSUME NEW h, IsHistory(h), NEW n \in Nat, n <= Len(h), NEW i \in RowsIn(h, 0, n)
    PROVE  /\ i \in 1 .. n /\ i \in Nat /\ h[i].op = "row"
           /\ h[i].at \in Nat \ {0}
           /\ i \in RowsIn(h, 0, Len(h))
<1>1. Len(h) \in Nat /\ i \in 1 .. n /\ h[i].op = "row" /\ i \in 1 .. Len(h)
  BY DEF RowsIn, IsHistory
<1>2. h[i] \in Bodies
  BY <1>1 DEF IsHistory
<1> QED
  BY <1>1, <1>2, Kinds DEF RowsIn

LEMMA DurationType ==
    ASSUME NEW h, IsHistory(h), NEW n \in Nat, n <= Len(h)
    PROVE  DurationIn(h, n) \in Nat
<1> DEFINE E == {j \in 1 .. n : h[j].op = "version"}
<1>1. CASE E = {}
  BY <1>1, StreamsAssumption DEF DurationIn
<1>2. CASE E # {}
  <2>1. E \in SUBSET (1 .. n)
    OBVIOUS
  <2>2. LastBy(E) \in E
    <3> HIDE DEF E
    <3> QED
      BY <1>2, <2>1, LastOf
  <2>3. LastBy(E) \in 1 .. Len(h) /\ h[LastBy(E)].op = "version"
    <3>1. LastBy(E) \in 1 .. n /\ Len(h) \in Nat
      BY <2>2 DEF IsHistory
    <3> QED
      BY <2>2, <3>1
  <2>4. h[LastBy(E)] \in Bodies
    BY <2>3 DEF IsHistory
  <2>5. h[LastBy(E)].validity \in Nat
    BY <2>3, <2>4, Kinds
  <2> QED
    BY <1>2, <2>5 DEF DurationIn
<1> QED
  BY <1>1, <1>2

LEMMA VersionFound ==
    ASSUME NEW h, IsHistory(h), NEW n \in Nat, n <= Len(h), NEW from, NEW t,
           TableSays(t, h, from, n), NEW i \in RowsIn(h, 0, n)
    PROVE  VersionOf(t, h[i].at).validity = DurationIn(h, i)
<1> DEFINE vs == t.versions
           at == h[i].at
<1>1. vs \in Seq(AnyVersion) /\ Len(vs) \in Nat /\ DOMAIN vs = 1 .. Len(vs)
  BY DEF TableSays, VersionsSay
<1>2. PICK m \in DOMAIN vs : InForce(vs, m, at) /\ vs[m].validity = DurationIn(h, i)
  BY DEF TableSays, VersionsSay
<1>3. ASSUME NEW p \in DOMAIN vs, InForce(vs, p, at)
      PROVE  p = m
  <2>1. p \in Nat /\ m \in Nat /\ p \in 1 .. Len(vs) /\ m \in 1 .. Len(vs)
    BY <1>1
  <2>2. ~ (p < m)
    <3>1. p < m => m \in p + 1 .. Len(vs)
      BY <1>1, <2>1
    <3> QED
      BY <1>2, <1>3, <3>1 DEF InForce
  <2>3. ~ (m < p)
    <3>1. m < p => p \in m + 1 .. Len(vs)
      BY <1>1, <2>1
    <3> QED
      BY <1>2, <1>3, <3>1 DEF InForce
  <2> QED
    BY <2>1, <2>2, <2>3
<1>4. VersionOf(t, at) = vs[CHOOSE p \in DOMAIN vs : InForce(vs, p, at)]
  BY DEF VersionOf, InForce
<1>5. (CHOOSE p \in DOMAIN vs : InForce(vs, p, at)) = m
  BY <1>2, <1>3
<1> QED
  BY <1>2, <1>4, <1>5

(* A retirement holds from one time on, or not at all.                     *)
LEMMA HoldingType ==
    ASSUME NEW h, IsHistory(h), NEW op \in {"series", "field"}, NEW x, NEW part
    PROVE  \/ HoldingIn(h, Len(h), op, x, part) = {}
           \/ \E c \in Nat : HoldingIn(h, Len(h), op, x, part) = {c}
<1> DEFINE R == RetirementsIn(h, Len(h), op, x)
           j == LastBy(R)
<1>1. Len(h) \in Nat /\ R \in SUBSET (1 .. Len(h))
  BY DEF RetirementsIn, IsHistory
<1>2. CASE R = {}
  BY <1>2 DEF HoldingIn
<1>3. CASE R # {}
  <2>1. j \in R
    <3> HIDE DEF R
    <3> QED
      BY <1>1, <1>3, LastOf
  <2>2. j \in 1 .. Len(h) /\ h[j].op = op
    <3> HIDE DEF j
    <3> QED
      BY <2>1 DEF RetirementsIn
  <2>3. h[j] \in Bodies
    BY <2>2 DEF IsHistory
  <2>4. h[j].at \in Nat
    BY <2>2, <2>3, Kinds
  <2> QED
    BY <2>4 DEF HoldingIn
<1> QED
  BY <1>2, <1>3

LEMMA VisibleIsLive ==
    ASSUME IsHistory(history), catalog.versions[1].validity = FirstValidity,
           TableSays(table, history, Given, Len(history)),
           NEW k, NEW i \in RowsIn(history, 0, Len(history)), NEW at \in Nat,
           NEW fact, fact.at = history[i].at
    PROVE  Visible(table, k, fact, at) <=> Live(k, i, at)
<1> DEFINE n == Len(history)
           A == HoldingIn(history, n, "series", k[1], 1)
           B == HoldingIn(history, n, "field", k[2], 2)
           C == A \cup B
<1>1. n \in Nat /\ DOMAIN history = 1 .. n /\ n <= n
  BY DEF IsHistory
<1>2. /\ i \in 1 .. n /\ i \in Nat /\ fact.at \in Nat
  BY <1>1, RowIn
<1>3. Holding("series", k[1], 1) = A /\ Holding("field", k[2], 2) = B
  BY <1>1 DEF Holding, HoldingIn, RetirementsIn, EndedIn
<1>4. CutoffsOf(table, k) = C
  <2>1. /\ At(table.series, k[1]) = A /\ At(table.fields, k[2]) = B
    BY DEF TableSays, RetiredSay
  <2> QED
    BY <2>1 DEF CutoffsOf, At
<1>5. (A = {} \/ \E c \in Nat : A = {c}) /\ (B = {} \/ \E c \in Nat : B = {c})
  <2> HIDE DEF n
  <2>1. A = {} \/ \E c \in Nat : A = {c}
    BY <1>1, HoldingType
  <2>2. B = {} \/ \E c \in Nat : B = {c}
    BY <1>1, HoldingType
  <2> QED
    BY <2>1, <2>2
<1> HIDE DEF A, B, n
<1>6. C = {} \/ \E c \in C : c \in Nat /\ \A d \in C : d \in Nat /\ d <= c
  <2>1. CASE A = {} \/ B = {}
    BY <1>5, <2>1
  <2>2. CASE A # {} /\ B # {}
    <3>1. PICK a, b \in Nat : A = {a} /\ B = {b}
      BY <1>5, <2>2
    <3>2. a <= b \/ b <= a
      BY <3>1
    <3> QED
      BY <3>1, <3>2
  <2> QED
    BY <2>1, <2>2
<1>7. DurationAt(i) = DurationIn(history, i)
  BY DEF DurationAt, DurationIn
<1>8. VersionOf(table, fact.at).validity = DurationIn(history, i)
  BY <1>1, VersionFound DEF n
<1>9. DurationIn(history, i) \in Nat
  BY <1>1, <1>2, DurationType DEF n
<1> DEFINE D == DurationIn(history, i)
<1> HIDE DEF D
<1>10. StillValid(VersionOf(table, fact.at).validity, fact, at)
          <=> (DurationAt(i) = Forever \/ at < history[i].at + DurationAt(i))
  <2>1. at - fact.at < D <=> at < fact.at + D
    BY <1>2, <1>9 DEF D
  <2> QED
    BY <1>7, <1>8, <2>1 DEF StillValid, D
<1> HIDE DEF C
<1>11. (C # {} => ~ (at > (CHOOSE c \in C : \A d \in C : d <= c)
                     /\ fact.at <= (CHOOSE c \in C : \A d \in C : d <= c)))
          <=> ~ Retired(k, history[i].at, at)
  <2>1. Retired(k, history[i].at, at) <=>
            \E c \in C : (\A d \in C : d <= c) /\ history[i].at <= c /\ c < at
    BY <1>3 DEF Retired, C
  <2>2. CASE C = {}
    BY <2>1, <2>2
  <2>3. CASE C # {}
    <3>1. PICK c \in C : c \in Nat /\ \A d \in C : d \in Nat /\ d <= c
      BY <1>6, <2>3
    <3>2. \A e \in C : (\A d \in C : d <= e) => e = c
      <4> SUFFICES ASSUME NEW e \in C, \A d \in C : d <= e
                   PROVE  e = c
        OBVIOUS
      <4>1. e \in Nat /\ e <= c /\ c <= e
        BY <3>1
      <4> QED
        BY <3>1, <4>1
    <3>3. (CHOOSE e \in C : \A d \in C : d <= e) = c
      BY <3>1, <3>2
    <3>4. Retired(k, history[i].at, at) <=> history[i].at <= c /\ c < at
      BY <2>1, <3>1, <3>2
    <3> QED
      BY <2>3, <3>1, <3>3, <3>4
  <2> QED
    BY <2>2, <2>3
<1> QED
  BY <1>4, <1>10, <1>11 DEF Visible, Live

-----------------------------------------------------------------------------
(***************************************************************************)
(* What is found of a stream.                                              *)
(***************************************************************************)
LEMMA FactsAre ==
    ASSUME NEW S, NEW k, NEW rows, rows = {RowOf(history[i]) : i \in S}
    PROVE  FactsIn(rows, k) = {FactOf(i, k) : i \in {j \in S : k \in DOMAIN history[j].cells}}
<1> DEFINE A == FactsIn(rows, k)
           B == {FactOf(i, k) : i \in {j \in S : k \in DOMAIN history[j].cells}}
<1>1. ASSUME NEW f \in A PROVE f \in B
  <2>1. PICK r \in rows : k \in DOMAIN r.cells /\ f = [at |-> r.at, value |-> r.cells[k]]
    BY DEF FactsIn
  <2>2. PICK i \in S : r = RowOf(history[i])
    OBVIOUS
  <2>3. r.at = history[i].at /\ r.cells = history[i].cells
    BY <2>2 DEF RowOf
  <2>4. f = FactOf(i, k) /\ k \in DOMAIN history[i].cells
    BY <2>1, <2>3 DEF FactOf
  <2> QED
    BY <2>4
<1>2. ASSUME NEW f \in B PROVE f \in A
  <2>1. PICK i \in S : k \in DOMAIN history[i].cells /\ f = FactOf(i, k)
    OBVIOUS
  <2> DEFINE r == RowOf(history[i])
  <2>2. r \in rows /\ r.at = history[i].at /\ r.cells = history[i].cells
    BY DEF RowOf
  <2>3. f = [at |-> r.at, value |-> r.cells[k]] /\ k \in DOMAIN r.cells
    BY <2>1, <2>2 DEF FactOf
  <2> HIDE DEF r
  <2> QED
    BY <2>2, <2>3 DEF FactsIn
<1> QED
  BY <1>1, <1>2

LEMMA NewestOf ==
    ASSUME IsHistory(history), NEW k, NEW S, S \subseteq RowsIn(history, 0, Len(history)), S # {}
    PROVE  /\ LastBy(S) \in S
           /\ Newest({FactOf(i, k) : i \in S}) = FactOf(LastBy(S), k)
<1> DEFINE m == LastBy(S)
           F == {FactOf(i, k) : i \in S}
<1>1. Len(history) \in Nat /\ S \in SUBSET (1 .. Len(history))
  BY DEF RowsIn, IsHistory
<1>2. m \in S /\ \A j \in S : j <= m
  BY <1>1, LastOf
<1> HIDE DEF m
<1>3. \A j \in S : j \in Nat /\ history[j].at \in Nat /\ (j # m => history[j].at < history[m].at)
  <2> SUFFICES ASSUME NEW j \in S
               PROVE  j \in Nat /\ history[j].at \in Nat /\ (j # m => history[j].at < history[m].at)
    OBVIOUS
  <2>1. j \in RowsIn(history, 0, Len(history)) /\ m \in RowsIn(history, 0, Len(history))
    BY <1>2
  <2>2. j \in Nat /\ m \in Nat /\ history[j].at \in Nat
    BY <1>1, <2>1, RowIn
  <2>3. j # m => j < m
    BY <1>2, <2>2
  <2> QED
    BY <2>1, <2>2, <2>3 DEF IsHistory
<1>4. FactOf(m, k) \in F /\ \A g \in F : g.at <= FactOf(m, k).at
  BY <1>2, <1>3 DEF FactOf
<1>5. \A f \in F : (\A g \in F : g.at <= f.at) => f = FactOf(m, k)
  <2> SUFFICES ASSUME NEW j \in S, \A g \in F : g.at <= FactOf(j, k).at
               PROVE  j = m
    OBVIOUS
  <2>1. FactOf(m, k).at <= FactOf(j, k).at
    BY <1>4
  <2>2. history[m].at <= history[j].at
    BY <2>1 DEF FactOf
  <2>3. history[m].at \in Nat /\ history[j].at \in Nat
    BY <1>2, <1>3
  <2> QED
    BY <1>3, <2>2, <2>3
<1> HIDE DEF F
<1>6. Newest(F) = FactOf(m, k)
  BY <1>4, <1>5 DEF Newest
<1> QED
  BY <1>2, <1>6 DEF F, m

(* What was accepted of a stream up to a time.                             *)
LEMMA UptoRows ==
    ASSUME IsHistory(history), NEW k, NEW at
    PROVE  \A i : i \in Upto(k, at) <=>
                     /\ i \in RowsIn(history, 0, Len(history)) /\ k \in DOMAIN history[i].cells
                     /\ history[i].at <= at
<1>1. Len(history) \in Nat /\ DOMAIN history = 1 .. Len(history)
  BY DEF IsHistory
<1> QED
  BY <1>1 DEF Upto, RowsOf, RowsIn

(* Rows in memory are above the floor.                                     *)
LEMMA AboveFloor ==
    ASSUME HistoryOK, FloorOK, Given \in Nat, Given <= Len(history),
           NEW i \in RowsIn(history, 0, Len(history)), i > Given
    PROVE  history[i].at >= floor
<1>1. IsHistory(history) /\ Len(history) \in Nat /\ history[i].at \in Nat /\ i \in Nat /\ floor \in Nat
  BY RowIn DEF HistoryOK, FloorOK, IsHistory
<1>2. CASE floor = 0
  BY <1>1, <1>2
<1>3. CASE floor # 0
  <2>1. PICK j \in Old : history[j].at = floor - 1
    BY <1>3 DEF FloorOK
  <2>2. j \in RowsIn(history, 0, Len(history)) /\ j <= Given /\ j \in Nat
    BY <1>1, <2>1, RowIn DEF Old
  <2>3. j < i
    BY <1>1, <2>2
  <2>4. history[j].at < history[i].at
    BY <1>1, <2>2, <2>3 DEF IsHistory
  <2> QED
    BY <1>1, <1>3, <2>1, <2>4
<1> QED
  BY <1>2, <1>3

LEMMA ShownIs ==
    ASSUME NEW k, NEW i, NEW at, NEW fact, fact = FactOf(i, k)
    PROVE  Shown(k, fact, at) =
               IF Visible(table, k, fact, at)
               THEN [at |-> history[i].at, value |-> history[i].cells[k],
                     carried |-> history[i].at < at]
               ELSE None
<1> DEFINE a == history[i].at
           v == history[i].cells[k]
           c == fact.at < at
<1>1. fact = [at |-> a, value |-> v] /\ fact.at = a
  BY DEF FactOf
<1> HIDE DEF a, v, c
<1>2. fact # None
  <2>1. "at" \in DOMAIN fact /\ "at" \notin DOMAIN None
    BY <1>1 DEF None
  <2> QED
    BY <2>1
<1> QED
  BY <1>1, <1>2 DEF Shown, a, v, c

LEMMA ValueIsTrue ==
    ASSUME StreamsInv, Given \in Nat, Given <= Len(history),
           NEW k \in Keys, NEW at \in Nat, floor <= at + 1
    PROVE  ValueAt(k, at) = TrueAnswer(k, at)
<1> DEFINE n == Len(history)
           U == Upto(k, at)
           i == LastBy(U)
           all == RowsIn(history, 0, n)
           T == {j \in U : j > Given}
           O == {j \in U : j <= Given /\ history[j].at >= floor}
           tail == {f \in FactsIn(table.rows, k) : f.at <= at}
           old == {f \in FactsIn(UNION units, k) : f.at <= at}
<1>1. /\ IsHistory(history) /\ n \in Nat /\ HistoryOK /\ FloorOK /\ floor \in Nat
      /\ TableSays(table, history, Given, n) /\ catalog.versions[1].validity = FirstValidity
  BY DEF StreamsInv, HistoryOK, IsHistory, FloorOK, TablesOK, TableSays, VersionsSay
<1>2. \A j : j \in U <=> j \in all /\ k \in DOMAIN history[j].cells /\ history[j].at <= at
  BY <1>1, UptoRows
<1>3. \A j \in all : j \in Nat /\ j \in 1 .. n /\ history[j].at \in Nat
  BY <1>1, RowIn
<1>4. tail = {FactOf(j, k) : j \in T}
  <2> DEFINE S == RowsIn(history, Given, n)
  <2>1. table.rows = {RowOf(history[j]) : j \in S}
    BY <1>1 DEF TableSays
  <2> HIDE DEF S
  <2>2. FactsIn(table.rows, k) = {FactOf(j, k) : j \in {p \in S : k \in DOMAIN history[p].cells}}
    BY <2>1, FactsAre
  <2>3. \A j : j \in S <=> j \in all /\ j > Given
    BY <1>1, <1>3 DEF RowsIn, S
  <2>4. \A j : j \in T <=> j \in {p \in S : k \in DOMAIN history[p].cells} /\ history[j].at <= at
    BY <1>2, <2>3
  <2>5. \A j : FactOf(j, k).at = history[j].at
    BY DEF FactOf
  <2> HIDE DEF T, all
  <2>6. ASSUME NEW f \in tail PROVE f \in {FactOf(j, k) : j \in T}
    BY <2>2, <2>4, <2>5
  <2>7. ASSUME NEW j \in T PROVE FactOf(j, k) \in tail
    BY <2>2, <2>4, <2>5
  <2> QED
    BY <2>6, <2>7
<1>5. old = {FactOf(j, k) : j \in O}
  <2> DEFINE S == {j \in Old : history[j].at >= floor}
  <2>1. UNION units = {RowOf(history[j]) : j \in S}
    BY DEF StreamsInv, UnitsOK
  <2>2. \A j : j \in S <=> j \in all /\ j <= Given /\ history[j].at >= floor
    BY <1>1, <1>3 DEF RowsIn, Old
  <2> HIDE DEF S
  <2>3. FactsIn(UNION units, k) = {FactOf(j, k) : j \in {p \in S : k \in DOMAIN history[p].cells}}
    BY <2>1, FactsAre
  <2>4. \A j : j \in O <=> j \in {p \in S : k \in DOMAIN history[p].cells} /\ history[j].at <= at
    BY <1>2, <2>2
  <2>5. \A j : FactOf(j, k).at = history[j].at
    BY DEF FactOf
  <2> HIDE DEF O, all
  <2>6. ASSUME NEW f \in old PROVE f \in {FactOf(j, k) : j \in O}
    BY <2>3, <2>4, <2>5
  <2>7. ASSUME NEW j \in O PROVE FactOf(j, k) \in old
    BY <2>3, <2>4, <2>5
  <2> QED
    BY <2>6, <2>7
<1>6. U \subseteq all /\ T \subseteq U /\ O \subseteq U
  BY <1>2
<1>7. \A j \in T : history[j].at >= floor
  BY <1>1, <1>6, AboveFloor
<1>8. ASSUME NEW S, S \in {T, O}, S # {}, LastBy(S) = i
      PROVE  /\ i \in U /\ Newest({FactOf(j, k) : j \in S}) = FactOf(i, k)
             /\ <<k, history[i].at>> \notin buried
  <2>1. S \subseteq all /\ S \subseteq U
    BY <1>6, <1>8
  <2> HIDE DEF T, O, U, i
  <2>2. LastBy(S) \in S /\ Newest({FactOf(j, k) : j \in S}) = FactOf(LastBy(S), k)
    BY <1>1, <1>8, <2>1, NewestOf
  <2>3. history[i].at >= floor /\ history[i].at \in Nat
    BY <1>3, <1>7, <1>8, <2>1, <2>2 DEF O
  <2>4. \A b \in buried : b[2] \in Nat /\ b[2] < floor
    BY DEF StreamsInv, HeadsOK
  <2>5. <<k, history[i].at>>[2] = history[i].at
    OBVIOUS
  <2>6. <<k, history[i].at>> \notin buried
    BY <1>1, <2>3, <2>4, <2>5
  <2> QED
    BY <1>8, <2>1, <2>2, <2>6
<1>9. U # {} => i \in U /\ \A j \in U : j <= i
  <2>1. U \in SUBSET (1 .. n)
    BY <1>3, <1>6
  <2> HIDE DEF U
  <2> QED
    BY <1>1, <2>1, LastOf
(* What both say when the last fact is found.                              *)
<1>10. ASSUME i \in U, Predecessor(k, at) = FactOf(i, k), <<k, history[i].at>> \notin buried
       PROVE  ValueAt(k, at) = TrueAnswer(k, at)
  <2>1. i \in all
    BY <1>6, <1>10
  <2>2. FactOf(i, k).at = history[i].at
    BY DEF FactOf
  <2> HIDE DEF U, i
  <2>3. Visible(table, k, FactOf(i, k), at) <=> Live(k, i, at)
    BY <1>1, <2>1, <2>2, VisibleIsLive
  <2>4. ValueAt(k, at) = IF Live(k, i, at)
                         THEN [at |-> history[i].at, value |-> history[i].cells[k],
                               carried |-> history[i].at < at]
                         ELSE None
    BY <1>10, <2>3, ShownIs DEF ValueAt
  <2> QED
    BY <1>10, <2>4 DEF TrueAnswer, U, i
<1>11. ASSUME Predecessor(k, at) = None, U = {} \/ <<k, history[i].at>> \in buried
       PROVE  ValueAt(k, at) = TrueAnswer(k, at)
  <2>1. ValueAt(k, at) = None
    BY <1>11 DEF ValueAt, Shown
  <2> QED
    BY <1>11, <2>1 DEF TrueAnswer
<1>12. CASE T # {}
  <2>1. LastBy(T) = i
    <3>1. U # {} /\ T \in SUBSET (1 .. n)
      BY <1>3, <1>6, <1>12
    <3>2. PICK t \in T : TRUE
      BY <1>12
    <3>3. i \in U /\ t <= i /\ t > Given
      BY <1>6, <1>9, <3>1, <3>2
    <3>4. i \in Nat /\ t \in Nat
      BY <1>3, <1>6, <3>2, <3>3
    <3>5. i \in T
      BY <3>3, <3>4
    <3>6. \A j \in T : j <= i
      BY <1>6, <1>9
    <3> HIDE DEF T, i
    <3> QED
      BY <1>1, <3>1, <3>5, <3>6, LastIs
  <2>2. Predecessor(k, at) = Newest(tail)
    <3>1. tail # {}
      BY <1>4, <1>12
    <3> QED
      BY <3>1 DEF Predecessor
  <2> QED
    BY <1>4, <1>8, <1>10, <1>12, <2>1, <2>2
<1>13. CASE T = {} /\ O # {}
  <2>1. LastBy(O) = i
    <3>1. U # {} /\ O \in SUBSET (1 .. n)
      BY <1>3, <1>6, <1>13
    <3>2. PICK t \in O : TRUE
      BY <1>13
    <3>3. i \in U /\ t <= i
      BY <1>6, <1>9, <3>1, <3>2
    <3>4. i \in Nat /\ t \in Nat /\ history[t].at \in Nat /\ history[i].at \in Nat
          /\ i \in all /\ t \in all
      BY <1>3, <1>6, <3>2, <3>3
    <3>5. ~ (i > Given)
      BY <1>13, <3>3
    <3>6. history[t].at <= history[i].at
      <4>1. t = i \/ t < i
        BY <3>3, <3>4
      <4>2. t < i => history[t].at < history[i].at
        BY <1>1, <3>4 DEF IsHistory
      <4> QED
        BY <3>4, <4>1, <4>2
    <3>7. history[t].at >= floor
      BY <3>2
    <3>8. i \in O
      BY <1>1, <3>3, <3>4, <3>5, <3>6, <3>7
    <3>9. \A j \in O : j <= i
      BY <1>6, <1>9
    <3> HIDE DEF O, i
    <3> QED
      BY <1>1, <3>1, <3>8, <3>9, LastIs
  <2>2. Predecessor(k, at) = Newest(old)
    <3>1. tail = {} /\ old # {}
      BY <1>4, <1>5, <1>13
    <3> QED
      BY <3>1 DEF Predecessor
  <2> QED
    BY <1>5, <1>8, <1>10, <1>13, <2>1, <2>2
<1>14. CASE T = {} /\ O = {}
  <2>1. U = Expired(k)
    <3>1. ASSUME NEW j
          PROVE  j \in U <=> j \in Expired(k)
      <4>1. j \in Old <=> j \in all /\ j <= Given
        BY <1>1, <1>3 DEF Old, RowsIn
      <4>2. j \in Expired(k) <=> j \in Old /\ k \in DOMAIN history[j].cells /\ history[j].at < floor
        BY DEF Expired
      <4>3. j \in all => j \in Nat /\ history[j].at \in Nat
        BY <1>3
      <4>4. j \notin T /\ j \notin O
        BY <1>14
      <4>5. j \in U => j <= Given /\ history[j].at < floor
        BY <1>1, <1>6, <4>3, <4>4
      <4>6. j \in all /\ history[j].at < floor => history[j].at <= at
        BY <1>1, <4>3
      <4> QED
        BY <1>2, <4>1, <4>2, <4>5, <4>6
    <3> QED
      BY <3>1
  <2>2. tail = {} /\ old = {}
    BY <1>4, <1>5, <1>14
  <2>3. IF k \in DOMAIN heads
        THEN U # {} /\ heads[k] = FactOf(i, k) /\ <<k, history[i].at>> \notin buried
        ELSE U = {} \/ <<k, history[i].at>> \in buried
    BY <2>1 DEF StreamsInv, HeadsOK
  <2>4. Predecessor(k, at) = IF k \in DOMAIN heads /\ heads[k].at <= at THEN heads[k] ELSE None
    BY <2>2 DEF Predecessor
  <2>5. CASE k \in DOMAIN heads
    <3>1. i \in U /\ history[i].at <= at
      BY <1>2, <1>9, <2>3, <2>5
    <3>2. heads[k].at = history[i].at
      BY <2>3, <2>5 DEF FactOf
    <3> QED
      BY <1>10, <2>3, <2>4, <2>5, <3>1, <3>2
  <2>6. CASE k \notin DOMAIN heads
    BY <1>11, <2>3, <2>4, <2>6
  <2> QED
    BY <2>5, <2>6
<1> QED
  BY <1>12, <1>13, <1>14

LEMMA GivenBound ==
    ASSUME IInv, HistoryOK
    PROVE  /\ Given \in Nat /\ Len(history) \in Nat /\ Given <= Len(history)
           /\ DOMAIN history = 1 .. Len(history)
BY StreamsAssumption DEF IInv, TypeOK, Bounded, HistoryOK, IsHistory, Given

LEMMA LookupsAre ==
    ASSUME StreamsInv
    PROVE  LookupsTrue
<1>1. /\ IInv /\ HistoryOK /\ FloorOK /\ IsHistory(history) /\ floor \in Nat
      /\ LastSays(table.last, history, Len(history))
  BY DEF StreamsInv, HistoryOK, FloorOK, TablesOK, TableSays
<1>2. Given \in Nat /\ Len(history) \in Nat /\ Given <= Len(history)
  BY <1>1, GivenBound
<1> SUFFICES ASSUME NEW k \in Asked
             PROVE  /\ \A at \in {t \in Timestamps : floor <= t} : ValueAt(k, at) = TrueAnswer(k, at)
                    /\ LatestOf(k) = TrueAnswer(k, table.last)
  BY DEF LookupsTrue
<1>3. k \in Keys
  BY DEF Asked
<1>4. ASSUME NEW at \in Timestamps, floor <= at
      PROVE  ValueAt(k, at) = TrueAnswer(k, at)
  <2>1. at \in Nat /\ floor <= at + 1
    BY <1>1, <1>4, StreamsAssumption
  <2> QED
    BY <1>2, <1>3, <2>1, ValueIsTrue
<1>5. LatestOf(k) = TrueAnswer(k, table.last)
  <2>1. CASE table.last = 0
    <3>1. Upto(k, 0) = {}
      <4> SUFFICES ASSUME NEW i \in Upto(k, 0)
                   PROVE  FALSE
        OBVIOUS
      <4>1. i \in RowsIn(history, 0, Len(history)) /\ history[i].at <= 0
        BY <1>1, UptoRows
      <4>2. history[i].at \in Nat \ {0}
        BY <1>1, <1>2, <4>1, RowIn
      <4> QED
        BY <4>1, <4>2
    <3> QED
      BY <2>1, <3>1 DEF LatestOf, TrueAnswer
  <2>2. CASE table.last # 0
    <3>1. table.last \in Nat /\ \A i \in RowsIn(history, 0, Len(history)) : history[i].at <= table.last
      BY <1>1 DEF LastSays
    <3>2. floor <= table.last + 1
      <4>1. CASE floor = 0
        BY <3>1, <4>1
      <4>2. CASE floor # 0
        <5>1. PICK i \in Old : history[i].at = floor - 1
          BY <1>1, <4>2 DEF FloorOK
        <5>2. i \in RowsIn(history, 0, Len(history))
          BY <1>2 DEF Old, RowsIn
        <5> QED
          BY <1>1, <3>1, <5>1, <5>2
      <4> QED
        BY <4>1, <4>2
    <3>3. ValueAt(k, table.last) = TrueAnswer(k, table.last)
      BY <1>2, <1>3, <3>1, <3>2, ValueIsTrue
    <3> QED
      BY <2>2, <3>3 DEF LatestOf
  <2> QED
    BY <2>1, <2>2
<1> QED
  BY <1>4, <1>5

-----------------------------------------------------------------------------
(***************************************************************************)
(* The invariant holds at the start, and each operation keeps it.          *)
(***************************************************************************)
LEMMA StartSays ==
    ASSUME Start
    PROVE  StreamsInv
<1> DEFINE v == Version([validity |-> FirstValidity, fields |-> FirstFields])
           t == [versions |-> <<v>>, rows |-> {}, series |-> <<>>, fields |-> <<>>, last |-> 0]
<1>1. /\ Init /\ history = <<>> /\ catalog = t /\ table = t
      /\ units = {} /\ heads = <<>> /\ floor = 0 /\ buried = {}
  BY DEF Start
<1>2. IInv
  BY <1>1, InitInv
<1>3. Given = 0 /\ seq[Db] = 0 /\ retired = {} /\ DOMAIN log = {}
  BY <1>1, StreamsAssumption DEF Init, Given
<1>4. \A h, from : RowsIn(h, from, 0) = {} \/ from \notin Nat
  <2>1. \A from \in Nat : from + 1 .. 0 = {}
    OBVIOUS
  <2> QED
    BY <2>1 DEF RowsIn
<1>5. Len(history) = 0 /\ RowsIn(history, 0, 0) = {} /\ Old = {}
  BY <1>1, <1>3, <1>4 DEF Old
<1>6. HistoryOK
  <2>1. history \in Seq(Bodies)
    BY <1>1
  <2> QED
    BY <1>3, <1>5, <2>1 DEF HistoryOK, IsHistory
<1>7. TableSays(t, history, 0, 0)
  <2>1. v \in AnyVersion /\ v.from = 0 /\ v.validity = FirstValidity
    BY StreamsAssumption DEF Version, AnyVersion, Inactive
  <2> HIDE DEF v
  <2>2. DurationIn(history, 0) = FirstValidity
    BY DEF DurationIn
  <2>3. VersionsSay(<<v>>, 0, history, 0)
    <3>1. <<v>> \in Seq(AnyVersion) /\ Len(<<v>>) = 1 /\ DOMAIN <<v>> = 1 .. 1 /\ <<v>>[1] = v
      BY <2>1
    <3>2. \A m \in DOMAIN <<v>> : <<v>>[m].from <= 0
      BY <2>1, <3>1
    <3> QED
      BY <1>5, <2>1, <2>2, <3>1, <3>2 DEF VersionsSay
  <2>4. \A op, part : RetiredSay(<<>>, history, 0, op, part)
    <3>1. IsFunction(<<>>) /\ DOMAIN <<>> = {}
      BY DEF IsFunction
    <3>2. \A x : At(<<>>, x) = {}
      BY <3>1 DEF At
    <3>3. \A op, x, part : HoldingIn(history, 0, op, x, part) = {}
      BY DEF HoldingIn, RetirementsIn
    <3> QED
      BY <3>1, <3>2, <3>3 DEF RetiredSay
  <2>5. LastSays(0, history, 0)
    BY <1>5 DEF LastSays
  <2> QED
    BY <1>5, <2>3, <2>4, <2>5 DEF TableSays
<1> HIDE DEF t
<1>8. TablesOK
  BY <1>1, <1>3, <1>5, <1>7 DEF TablesOK
<1>9. UnitsOK /\ FloorOK
  BY <1>1, <1>5 DEF UnitsOK, FloorOK
<1>10. HeadsOK
  <2>1. \A k : Expired(k) = {}
    BY <1>5 DEF Expired
  <2>2. IsFunction(heads) /\ DOMAIN heads = {}
    BY <1>1 DEF IsFunction
  <2> QED
    BY <1>1, <2>1, <2>2 DEF HeadsOK
<1> QED
  BY <1>2, <1>6, <1>8, <1>9, <1>10 DEF StreamsInv

(* What is in the MANIFEST is not touched by what leaves the records there *)
(* as they are.                                                            *)
LEMMA SealedStay ==
    ASSUME StreamsInv, Given' = Given, UNCHANGED <<sealed, buried>>,
           \A i \in 1 .. Given : history'[i] = history[i]
    PROVE  /\ UnitsOK' /\ FloorOK' /\ HeadsOK'
           /\ TableSays(catalog', history', Given', Given')
<1>1. /\ units' = units /\ catalog' = catalog /\ heads' = heads /\ floor' = floor /\ buried' = buried
      /\ Given \in Nat /\ Given <= Len(history) /\ Len(history) \in Nat
  BY GivenBound DEF sealed, StreamsInv
<1>2. TableSays(catalog', history', Given', Given')
  <2>1. TableSays(catalog, history, Given, Given)
    BY DEF StreamsInv, TablesOK
  <2>2. TableSays(catalog, history', Given, Given)
    BY <1>1, <2>1, SameTable
  <2> QED
    BY <1>1, <2>2
<1>3. Old' = Old /\ \A i \in Old : history'[i] = history[i] /\ i \in 1 .. Given
  <2>1. RowsIn(history', 0, Given) = RowsIn(history, 0, Given)
    BY <1>1, SameRecords
  <2> QED
    BY <2>1 DEF Old, RowsIn
<1>4. UnitsOK'
  <2>1. UnitsOK
    BY DEF StreamsInv
  <2> QED
    BY <1>1, <1>3, <2>1 DEF UnitsOK, Apart
<1>5. FloorOK'
  <2>1. FloorOK
    BY DEF StreamsInv
  <2> QED
    BY <1>1, <1>3, <2>1 DEF FloorOK
<1>6. HeadsOK'
  <2>1. HeadsOK
    BY DEF StreamsInv
  <2>2. \A k : Expired(k)' = Expired(k)
    BY <1>1, <1>3 DEF Expired
  <2>3. ASSUME NEW k, Expired(k) # {}
        PROVE  LastBy(Expired(k)) \in Old
    <3>1. Expired(k) \in SUBSET (1 .. Given) /\ Expired(k) \subseteq Old
      BY <1>3 DEF Expired
    <3> QED
      BY <1>1, <2>3, <3>1, LastOf
  <2> SUFFICES ASSUME NEW k \in Keys
               PROVE  LET i == LastBy(Expired(k))
                      IN  IF k \in DOMAIN heads
                          THEN /\ Expired(k) # {}
                               /\ heads[k] = [at |-> history'[i].at, value |-> history'[i].cells[k]]
                               /\ <<k, history'[i].at>> \notin buried
                          ELSE Expired(k) = {} \/ <<k, history'[i].at>> \in buried
    BY <1>1, <2>1, <2>2 DEF HeadsOK, FactOf
  <2> DEFINE i == LastBy(Expired(k))
  <2>4. IF k \in DOMAIN heads
        THEN Expired(k) # {} /\ heads[k] = FactOf(i, k) /\ <<k, history[i].at>> \notin buried
        ELSE Expired(k) = {} \/ <<k, history[i].at>> \in buried
    BY <2>1 DEF HeadsOK
  <2>5. Expired(k) # {} => history'[i] = history[i]
    <3> SUFFICES ASSUME Expired(k) # {}
                 PROVE  history'[i] = history[i]
      OBVIOUS
    <3>1. i \in Old
      BY <2>3
    <3> HIDE DEF i
    <3> QED
      BY <1>3, <3>1
  <2> HIDE DEF i
  <2> QED
    BY <2>4, <2>5 DEF i, FactOf
<1> QED
  BY <1>2, <1>4, <1>5, <1>6

(* The log and the history, when neither has more than before.             *)
LEMMA SyncSays ==
    ASSUME StreamsInv, Sync \/ Collect
    PROVE  StreamsInv'
<1>1. /\ Persist \/ Forget
      /\ table' = table /\ history' = history /\ UNCHANGED <<sealed, buried>>
  BY DEF Sync, Collect
<1>2. /\ seq' = seq /\ checkpoint' = checkpoint /\ retired' = retired
      /\ DOMAIN log' \subseteq DOMAIN log /\ \A l \in DOMAIN log' : log'[l] = log[l]
  BY <1>1 DEF Persist, Forget
<1>3. IInv'
  BY <1>1, PersistInv, ForgetInv DEF StreamsInv
<1>4. Given' = Given
  BY <1>2 DEF Given
<1>5. HistoryOK'
  BY <1>1, <1>2 DEF StreamsInv, HistoryOK
<1>6. UnitsOK' /\ FloorOK' /\ HeadsOK' /\ TableSays(catalog', history', Given', Given')
  BY <1>1, <1>4, SealedStay
<1>7. TablesOK'
  BY <1>1, <1>4, <1>6 DEF StreamsInv, TablesOK
<1> QED
  BY <1>3, <1>5, <1>6, <1>7 DEF StreamsInv

(* A record more, which comes behind the rows there are if it is a row.    *)
LEMMA MutateSays ==
    ASSUME StreamsInv, NEW r \in Values, Mutate(r)
    PROVE  StreamsInv'
<1> DEFINE n == Len(history)
<1>1. /\ Valid(table, r) /\ Accept(Db, r) /\ table' = Apply(table, r)
      /\ history' = Append(history, r) /\ UNCHANGED <<sealed, buried>>
      /\ r \in Bodies /\ Db \in Members
  BY StreamsAssumption, ValuesAssumption DEF Mutate
<1>2. /\ IInv /\ HistoryOK /\ IsHistory(history) /\ history \in Seq(Bodies)
      /\ n \in Nat /\ n = seq[Db] /\ DOMAIN history = 1 .. n
      /\ Given \in Nat /\ Given <= n
      /\ TableSays(table, history, Given, n) /\ LastSays(table.last, history, n)
  BY GivenBound DEF StreamsInv, HistoryOK, IsHistory, TablesOK, TableSays
<1>3. IInv'
  BY <1>1, <1>2, AcceptInv
<1>4. /\ seq[Db] \in Nat /\ top \in Nat /\ DOMAIN log \subseteq 1 .. top
      /\ seq'[Db] = n + 1 /\ checkpoint' = checkpoint /\ retired' = retired
      /\ DOMAIN log' = DOMAIN log \cup {top + 1}
      /\ log'[top + 1] = [id |-> Db, seq |-> n + 1, value |-> r]
      /\ \A l \in DOMAIN log : log'[l] = log[l]
  BY <1>1, <1>2 DEF Accept, IInv, TypeOK
<1>5. /\ history' \in Seq(Bodies) /\ Len(history') = n + 1
      /\ \A i \in 1 .. n : history'[i] = history[i]
      /\ history'[n + 1] = r
  BY <1>1, <1>2
<1> HIDE DEF n
<1>6. \A i : i \in RowsIn(history', 0, n + 1) <=>
                i \in RowsIn(history, 0, n) \/ (i = n + 1 /\ r.op = "row")
  <2>0. n \in Nat /\ 0 \in Nat /\ 0 <= n /\ \A i \in 1 .. n : history'[i] = history[i]
    BY <1>2, <1>5
  <2>1. RowsIn(history', 0, n) = RowsIn(history, 0, n)
    BY <2>0, SameRecords
  <2>2. \A i : i \in RowsIn(history', 0, n + 1) <=>
                  i \in RowsIn(history', 0, n) \/ (i = n + 1 /\ history'[n + 1].op = "row")
    BY <2>0, RowsNext
  <2> QED
    BY <1>5, <2>1, <2>2
<1>7. IsHistory(history')
  <2> SUFFICES ASSUME NEW i \in RowsIn(history', 0, n + 1), NEW j \in RowsIn(history', 0, n + 1),
                      i < j
               PROVE  history'[i].at < history'[j].at
    BY <1>5 DEF IsHistory
  <2>1. \A m \in RowsIn(history, 0, n) : m \in 1 .. n /\ history[m].at \in Nat
    BY <1>2, RowIn DEF n
  <2>2. i \in RowsIn(history, 0, n)
    <3>1. i = n + 1 => j \in 1 .. n /\ n + 1 < j
      BY <1>2, <1>6, <2>1
    <3> QED
      BY <1>2, <1>6, <3>1
  <2>3. CASE j \in RowsIn(history, 0, n)
    BY <1>2, <1>5, <2>1, <2>2, <2>3 DEF IsHistory, n
  <2>4. CASE j = n + 1 /\ r.op = "row"
    <3>1. r.at > table.last /\ r.at \in Nat
      BY <1>1, <2>4, Kinds DEF Valid
    <3>2. history[i].at <= table.last /\ table.last \in Nat
      BY <1>2, <2>2 DEF LastSays
    <3>3. history'[i].at = history[i].at /\ history'[j].at = r.at /\ history[i].at \in Nat
      BY <1>5, <2>1, <2>2, <2>4
    <3> QED
      BY <3>1, <3>2, <3>3
  <2> QED
    BY <1>6, <2>3, <2>4
<1>8. HistoryOK'
  <2>1. ASSUME NEW l \in DOMAIN log', log'[l].id = Db
        PROVE  log'[l].value = history'[log'[l].seq]
    <3>1. CASE l = top + 1
      BY <1>4, <1>5, <3>1
    <3>2. CASE l # top + 1
      <4>1. l \in DOMAIN log /\ log'[l] = log[l]
        BY <1>4, <3>2
      <4>2. log[l].seq \in Nat \ {0} /\ log[l].seq <= n
        BY <1>2, <2>1, <4>1 DEF IInv, TypeOK, Bounded, Records
      <4>3. log[l].seq \in 1 .. n
        BY <1>2, <4>2
      <4>4. log[l].value = history[log[l].seq]
        BY <1>2, <2>1, <4>1 DEF HistoryOK
      <4> QED
        BY <1>5, <4>1, <4>3, <4>4
    <3> QED
      BY <3>1, <3>2
  <2> QED
    BY <1>2, <1>4, <1>5, <1>7, <2>1 DEF HistoryOK
<1>9. Given' = Given
  BY <1>4 DEF Given
<1>10. UnitsOK' /\ FloorOK' /\ HeadsOK' /\ TableSays(catalog', history', Given', Given')
  <2>1. \A i \in 1 .. Given : history'[i] = history[i]
    BY <1>2, <1>5
  <2> QED
    BY <1>1, <1>9, <2>1, SealedStay
<1>11. TableSays(table', history', Given', Len(history'))
  <2>1. TableSays(table, history', Given, n)
    BY <1>2, <1>5, SameTable
  <2>2. TableSays(Apply(table, history'[n + 1]), history', Given, n + 1)
    <3>1. n < Len(history')
      BY <1>2, <1>5
    <3> QED
      BY <1>2, <1>7, <2>1, <3>1, ApplySays
  <2> QED
    BY <1>1, <1>5, <1>9, <2>2
<1> QED
  BY <1>3, <1>8, <1>10, <1>11 DEF StreamsInv, TablesOK

(* A seal puts what is in memory into the MANIFEST and a unit.             *)
LEMMA SealSays ==
    ASSUME StreamsInv, Seal
    PROVE  StreamsInv'
<1> DEFINE n == Len(history)
           new == RowsIn(history, Given, n)
<1>1. /\ Checkpoint(Db) /\ checkpoint[Db] < seq[Db]
      /\ catalog' = InCatalog(table) /\ table' = InCatalog(table)
      /\ units' = units \cup ({table.rows} \ {{}})
      /\ heads' = heads /\ floor' = floor /\ history' = history /\ buried' = buried
      /\ Db \in Members
  BY StreamsAssumption DEF Seal
<1>2. /\ IInv /\ HistoryOK /\ FloorOK /\ UnitsOK /\ HeadsOK /\ IsHistory(history)
      /\ n \in Nat /\ n = seq[Db] /\ Given \in Nat /\ Given <= n
      /\ TableSays(table, history, Given, n) /\ floor \in Nat
  BY GivenBound DEF StreamsInv, HistoryOK, TablesOK, FloorOK
<1>3. IInv'
  BY <1>1, <1>2, CheckpointInv
<1>4. /\ Given' = n /\ seq' = seq /\ log' = log /\ retired' = retired
  BY <1>1, <1>2 DEF Checkpoint, Given, IInv, TypeOK
<1>5. HistoryOK'
  BY <1>1, <1>2, <1>4 DEF HistoryOK
<1>6. TableSays(InCatalog(table), history, n, n)
  <2>1. InCatalog(table) = [versions |-> table.versions, rows |-> {}, series |-> table.series,
                            fields |-> table.fields, last |-> table.last]
    <3>1. table = [versions |-> table.versions, rows |-> table.rows, series |-> table.series,
                   fields |-> table.fields, last |-> table.last]
      BY <1>2 DEF TableSays
    <3> QED
      BY <3>1 DEF InCatalog
  <2>2. RowsIn(history, n, n) = {}
    BY <1>2 DEF RowsIn
  <2> HIDE DEF n
  <2> QED
    BY <1>2, <2>1, <2>2 DEF TableSays
<1> HIDE DEF n
<1>7. TablesOK'
  BY <1>1, <1>4, <1>6 DEF TablesOK, n
<1>8. \A i : i \in RowsIn(history, 0, n) <=> i \in Old \/ i \in new
  BY <1>2 DEF RowsIn, Old
<1>9. \A i \in RowsIn(history, 0, n) : i \in Nat /\ history[i].at \in Nat
  BY <1>2, RowIn DEF n
<1>10. \A i \in new : i > Given /\ history[i].at >= floor
  <2> SUFFICES ASSUME NEW i \in new
               PROVE  i > Given /\ history[i].at >= floor
    OBVIOUS
  <2>1. i > Given /\ i \in RowsIn(history, 0, n)
    BY <1>2, <1>8 DEF RowsIn
  <2> QED
    BY <1>2, <2>1, AboveFloor DEF n
<1>11. Old' = RowsIn(history, 0, n)
  BY <1>1, <1>4 DEF Old
<1>12. table.rows = {RowOf(history[i]) : i \in new}
  BY <1>2 DEF TableSays, n
<1> HIDE DEF new
<1>13. UnitsOK'
  <2>1. ASSUME NEW u \in units, NEW p \in u, NEW q \in table.rows
        PROVE  p.at < q.at
    <3>1. PICK i \in Old : p = RowOf(history[i])
      BY <1>2 DEF UnitsOK
    <3>2. PICK j \in new : q = RowOf(history[j])
      BY <1>12
    <3>3. i <= Given /\ j > Given /\ i \in RowsIn(history, 0, n) /\ j \in RowsIn(history, 0, n)
          /\ i \in Nat /\ j \in Nat
      BY <1>2, <1>8, <1>9, <1>10 DEF Old, RowsIn
    <3>4. i < j
      BY <1>2, <3>3
    <3>5. history[i].at < history[j].at
      BY <1>2, <3>3, <3>4 DEF IsHistory, n
    <3> QED
      BY <3>1, <3>2, <3>5 DEF RowOf
  <2>2. \A u, w \in units' : u = w \/ Apart(u, w)
    <3> SUFFICES ASSUME NEW u \in units', NEW w \in units', u # w
                 PROVE  Apart(u, w)
      OBVIOUS
    <3>1. (u \in units \/ u = table.rows) /\ (w \in units \/ w = table.rows)
      BY <1>1
    <3> QED
      BY <1>2, <2>1, <3>1 DEF Apart, UnitsOK
  <2>3. ASSUME NEW x
        PROVE  x \in UNION units' <=>
                   \E i \in RowsIn(history, 0, n) : history[i].at >= floor /\ x = RowOf(history[i])
    <3>1. x \in UNION units' <=> x \in UNION units \/ x \in table.rows
      BY <1>1
    <3>2. x \in UNION units <=> \E i \in Old : history[i].at >= floor /\ x = RowOf(history[i])
      BY <1>2 DEF UnitsOK
    <3>3. x \in table.rows <=> \E i \in new : x = RowOf(history[i])
      BY <1>12
    <3> QED
      BY <1>8, <1>10, <3>1, <3>2, <3>3
  <2>4. UNION units' = {RowOf(history[i]) : i \in {j \in RowsIn(history, 0, n) : history[j].at >= floor}}
    BY <2>3
  <2>5. {} \notin units'
    BY <1>1, <1>2 DEF UnitsOK
  <2> QED
    BY <1>1, <1>11, <2>2, <2>4, <2>5 DEF UnitsOK
<1>14. FloorOK'
  BY <1>1, <1>2, <1>8, <1>11 DEF FloorOK
<1>15. HeadsOK'
  <2>1. \A k : Expired(k)' = Expired(k)
    <3>1. ASSUME NEW k, NEW i
          PROVE  i \in Expired(k)' <=> i \in Expired(k)
      <4>1. i \in Expired(k)' <=> /\ i \in RowsIn(history, 0, n)
                                  /\ k \in DOMAIN history[i].cells /\ history[i].at < floor
        BY <1>1, <1>11 DEF Expired
      <4>2. i \in Expired(k) <=> i \in Old /\ k \in DOMAIN history[i].cells /\ history[i].at < floor
        BY DEF Expired
      <4>3. i \in new => ~ (history[i].at < floor)
        BY <1>2, <1>8, <1>9, <1>10
      <4> QED
        BY <1>8, <4>1, <4>2, <4>3
    <3> QED
      BY <3>1
  <2> QED
    BY <1>1, <1>2, <2>1 DEF HeadsOK, FactOf
<1> QED
  BY <1>3, <1>5, <1>7, <1>13, <1>14, <1>15 DEF StreamsInv

-----------------------------------------------------------------------------
(***************************************************************************)
(* Retention.                                                              *)
(***************************************************************************)
(* The time of the newest of some rows.                                    *)
LEMMA MaxTsIs ==
    ASSUME IsHistory(history), NEW rows, rows # {},
           \A r \in rows : \E i \in RowsIn(history, 0, Len(history)) : r = RowOf(history[i])
    PROVE  /\ MaxTs(rows) \in Nat
           /\ \E r \in rows : r.at = MaxTs(rows)
           /\ \A r \in rows : r.at \in Nat /\ r.at <= MaxTs(rows)
<1> DEFINE n == Len(history)
           all == RowsIn(history, 0, n)
           S == {i \in all : RowOf(history[i]) \in rows}
           m == LastBy(S)
<1>1. n \in Nat /\ n <= n
  BY DEF IsHistory
<1>2. \A i \in all : i \in 1 .. n /\ i \in Nat /\ history[i].at \in Nat
  BY <1>1, RowIn
<1>3. \A i : RowOf(history[i]).at = history[i].at
  BY DEF RowOf
<1>4. m \in S /\ \A j \in S : j <= m
  <2>1. S \in SUBSET (1 .. n) /\ S # {}
    BY <1>2
  <2> HIDE DEF S, n
  <2> QED
    BY <1>1, <2>1, LastOf
<1> HIDE DEF m
<1>5. ASSUME NEW r \in rows
      PROVE  r.at \in Nat /\ r.at <= history[m].at
  <2>1. PICK i \in all : r = RowOf(history[i])
    OBVIOUS
  <2>2. i \in S /\ i <= m /\ m \in all
    BY <1>4, <2>1
  <2>3. i = m \/ i < m
    BY <1>2, <2>2
  <2>4. i < m => history[i].at < history[m].at
    BY <2>2 DEF IsHistory
  <2>5. r.at = history[i].at /\ history[i].at \in Nat /\ history[m].at \in Nat
    BY <1>2, <1>3, <2>1, <2>2
  <2> QED
    BY <2>3, <2>4, <2>5
<1>6. RowOf(history[m]) \in rows /\ history[m].at \in {r.at : r \in rows}
  BY <1>3, <1>4
<1>7. \E t \in {r.at : r \in rows} : \A r \in rows : r.at <= t
  BY <1>5, <1>6
<1>8. MaxTs(rows) \in {r.at : r \in rows} /\ \A r \in rows : r.at <= MaxTs(rows)
  BY <1>7 DEF MaxTs
<1> QED
  BY <1>5, <1>8

(* What a fold that brings the floor to nf finds of a stream, E being its  *)
(* rows below that.                                                        *)
LEMMA FoldFinds ==
    ASSUME StreamsInv, NEW nf \in Nat, nf > floor, \E o \in Old : history[o].at = nf - 1,
           NEW rows,
           \A x : x \in rows <=> \E i \in Old : /\ floor <= history[i].at /\ history[i].at < nf
                                                /\ x = RowOf(history[i]),
           NEW k \in Keys, NEW E, E = {i \in Old : k \in DOMAIN history[i].cells /\ history[i].at < nf},
           NEW found, found = FactsIn(rows, k) \cup {heads[j] : j \in DOMAIN heads \cap {k}}
    PROVE  /\ Upto(k, nf - 1) = E
           /\ found = {} => E = Expired(k) /\ k \notin DOMAIN heads
           /\ E # {} => LastBy(E) \in E
           /\ found # {} => /\ E # {} /\ Newest(found) = FactOf(LastBy(E), k)
                            /\ <<k, history[LastBy(E)].at>> \notin buried
                            /\ Visible(table, k, Newest(found), nf) <=> Live(k, LastBy(E), nf)
<1> DEFINE n == Len(history)
           all == RowsIn(history, 0, n)
           m == LastBy(E)
           N == {i \in Old : /\ k \in DOMAIN history[i].cells
                             /\ floor <= history[i].at /\ history[i].at < nf}
           hs == IF k \in DOMAIN heads THEN {LastBy(Expired(k))} ELSE {}
           F == N \cup hs
<1>1. /\ IsHistory(history) /\ n \in Nat /\ Given \in Nat /\ Given <= n
      /\ floor \in Nat /\ HeadsOK /\ HistoryOK /\ FloorOK
      /\ TableSays(table, history, Given, n) /\ catalog.versions[1].validity = FirstValidity
  BY GivenBound DEF StreamsInv, HistoryOK, FloorOK, TablesOK, TableSays, VersionsSay
<1>2. \A i \in all : i \in 1 .. n /\ i \in Nat /\ history[i].at \in Nat
  BY <1>1, RowIn
<1>3. \A i : i \in Old <=> i \in all /\ i <= Given
  BY <1>1 DEF Old, RowsIn
<1>4. \A i, j \in all : i < j => history[i].at < history[j].at
  BY <1>1 DEF IsHistory
<1> HIDE DEF all
<1>5. \A i \in E : i \in Old /\ i \in all
  BY <1>3
<1>6. E # {} => m \in E /\ \A j \in E : j <= m
  <2>1. E \in SUBSET (1 .. n)
    BY <1>2, <1>5
  <2> QED
    BY <1>1, <2>1, LastOf
<1> HIDE DEF m
<1>7. \A j \in E : history[j].at <= history[m].at
  <2> SUFFICES ASSUME NEW j \in E
               PROVE  history[j].at <= history[m].at
    OBVIOUS
  <2>1. m \in E /\ j <= m /\ m \in all /\ j \in all
    BY <1>5, <1>6
  <2>2. j \in Nat /\ m \in Nat /\ history[j].at \in Nat /\ history[m].at \in Nat
    BY <1>2, <2>1
  <2>3. j = m \/ j < m
    BY <2>1, <2>2
  <2> QED
    BY <1>4, <2>1, <2>2, <2>3
<1>8. Upto(k, nf - 1) = E
  <2>1. ASSUME NEW i \in all, history[i].at <= nf - 1
        PROVE  i \in Old /\ history[i].at < nf
    <3>1. PICK o \in Old : history[o].at = nf - 1
      OBVIOUS
    <3>2. o \in all /\ o <= Given /\ o \in Nat /\ i \in Nat /\ history[i].at \in Nat
      BY <1>2, <1>3, <3>1
    <3>3. ~ (o < i)
      BY <1>4, <2>1, <3>1, <3>2
    <3> QED
      BY <1>1, <1>3, <2>1, <3>2, <3>3
  <2>2. ASSUME NEW i \in all, history[i].at < nf
        PROVE  history[i].at <= nf - 1
    BY <1>2, <2>2
  <2>3. \A i : i \in Upto(k, nf - 1) <=>
                  i \in all /\ k \in DOMAIN history[i].cells /\ history[i].at <= nf - 1
    BY <1>1, UptoRows DEF all
  <2>4. \A i : i \in Upto(k, nf - 1) <=> i \in E
    BY <1>3, <2>1, <2>2, <2>3
  <2> QED
    BY <2>4
<1>9. \A i : i \in Expired(k) <=> i \in E /\ history[i].at < floor
  <2>1. \A i \in Old : history[i].at \in Nat
    BY <1>2, <1>3
  <2>2. \A i \in Old : history[i].at < floor => history[i].at < nf
    BY <1>1, <2>1
  <2> QED
    BY <2>2 DEF Expired
<1>10. \A i : i \in N <=> i \in E /\ floor <= history[i].at
  OBVIOUS
<1>11. \A i \in E : history[i].at < floor \/ floor <= history[i].at
  BY <1>1, <1>2, <1>5
<1>12. IF k \in DOMAIN heads
       THEN /\ Expired(k) # {} /\ heads[k] = FactOf(LastBy(Expired(k)), k)
            /\ <<k, history[LastBy(Expired(k))].at>> \notin buried
       ELSE Expired(k) = {} \/ <<k, history[LastBy(Expired(k))].at>> \in buried
  BY <1>1 DEF HeadsOK
<1>13. Expired(k) # {} => LastBy(Expired(k)) \in Expired(k)
  <2>1. Expired(k) \in SUBSET (1 .. n)
    BY <1>2, <1>5, <1>9
  <2> QED
    BY <1>1, <2>1, LastOf
<1>14. found = {FactOf(i, k) : i \in F}
  <2> DEFINE S == {i \in Old : floor <= history[i].at /\ history[i].at < nf}
  <2>1. rows = {RowOf(history[i]) : i \in S}
    BY DEF S
  <2>2. \A i : i \in {j \in S : k \in DOMAIN history[j].cells} <=> i \in N
    BY DEF S
  <2> HIDE DEF S
  <2>3. FactsIn(rows, k) = {FactOf(i, k) : i \in {j \in S : k \in DOMAIN history[j].cells}}
    BY <2>1, FactsAre
  <2>4. FactsIn(rows, k) = {FactOf(i, k) : i \in N}
    <3> HIDE DEF N
    <3> QED
      BY <2>2, <2>3
  <2>5. {heads[j] : j \in DOMAIN heads \cap {k}} = {FactOf(i, k) : i \in hs}
    <3>1. CASE k \in DOMAIN heads
      BY <1>12, <3>1
    <3>2. CASE k \notin DOMAIN heads
      BY <3>2
    <3> QED
      BY <3>1, <3>2
  <2> HIDE DEF N, hs
  <2> QED
    BY <2>4, <2>5
<1>15. found = {} <=> F = {}
  BY <1>14
<1>16. \A i \in F : i \in E
  <2>1. \A i \in hs : i \in E
    BY <1>9, <1>12, <1>13
  <2> QED
    BY <1>10, <2>1
<1>17. F # {} => m \in F
  <2> SUFFICES ASSUME F # {}, m \notin F
               PROVE  FALSE
    OBVIOUS
  <2>1. m \in E
    BY <1>6, <1>16
  <2>2. history[m].at < floor
    BY <1>10, <1>11, <2>1
  <2>3. \A j \in E : history[j].at < floor
    <3> SUFFICES ASSUME NEW j \in E PROVE history[j].at < floor
      OBVIOUS
    <3>1. history[j].at <= history[m].at /\ history[j].at \in Nat /\ history[m].at \in Nat
      BY <1>2, <1>5, <1>7, <2>1
    <3> QED
      BY <1>1, <2>2, <3>1
  <2>4. Expired(k) = E
    BY <1>9, <2>3
  <2>5. N = {}
    <3> SUFFICES ASSUME NEW j \in N PROVE FALSE
      OBVIOUS
    <3>1. j \in E /\ floor <= history[j].at /\ history[j].at < floor /\ history[j].at \in Nat
      BY <1>2, <1>5, <1>10, <2>3
    <3> QED
      BY <1>1, <3>1
  <2>6. hs = {m}
    BY <2>4, <2>5 DEF m
  <2> QED
    BY <2>6
<1> HIDE DEF F, N, hs
<1>18. ASSUME F = {}
       PROVE  E = Expired(k) /\ k \notin DOMAIN heads
  <2>1. N = {} /\ hs = {}
    BY <1>18 DEF F
  <2>2. E = Expired(k)
    BY <1>9, <1>10, <1>11, <2>1
  <2> QED
    BY <2>1, <2>2 DEF hs
<1>19. ASSUME F # {}
       PROVE  /\ E # {} /\ Newest(found) = FactOf(m, k)
              /\ <<k, history[m].at>> \notin buried
              /\ Visible(table, k, Newest(found), nf) <=> Live(k, m, nf)
  <2>1. m \in F /\ m \in E /\ m \in all
    BY <1>5, <1>16, <1>17, <1>19
  <2>2. LastBy(F) = m
    <3>1. F \in SUBSET (1 .. n) /\ \A j \in F : j <= m
      BY <1>2, <1>5, <1>6, <1>16
    <3> QED
      BY <1>1, <2>1, <3>1, LastIs
  <2>3. Newest(found) = FactOf(m, k)
    <3>1. F \subseteq all
      BY <1>5, <1>16
    <3>2. Newest({FactOf(i, k) : i \in F}) = FactOf(LastBy(F), k)
      BY <1>1, <1>19, <3>1, NewestOf DEF all
    <3> QED
      BY <1>14, <2>2, <3>2
  <2>4. <<k, history[m].at>> \notin buried
    <3>1. CASE m \in N
      <4>1. floor <= history[m].at /\ history[m].at \in Nat
        BY <1>2, <1>10, <2>1, <3>1
      <4>2. \A b \in buried : b[2] \in Nat /\ b[2] < floor
        BY <1>1 DEF HeadsOK
      <4>3. <<k, history[m].at>>[2] = history[m].at
        OBVIOUS
      <4> QED
        BY <1>1, <4>1, <4>2, <4>3
    <3>2. CASE m \in hs
      BY <1>12, <3>2 DEF hs
    <3> QED
      BY <2>1, <3>1, <3>2 DEF F
  <2>5. FactOf(m, k).at = history[m].at
    BY DEF FactOf
  <2>6. Visible(table, k, FactOf(m, k), nf) <=> Live(k, m, nf)
    BY <1>1, <2>1, <2>5, VisibleIsLive DEF all
  <2> QED
    BY <2>1, <2>3, <2>4, <2>6
<1> QED
  BY <1>6, <1>8, <1>15, <1>18, <1>19 DEF m

(* Retention lets whole units go, the oldest, and folds them into heads.   *)
LEMMA RetainSays ==
    ASSUME StreamsInv, NEW cutoff \in Timestamps, Retain(cutoff)
    PROVE  StreamsInv'
<1> DEFINE n == Len(history)
           all == RowsIn(history, 0, n)
           expired == {u \in units : MaxTs(u) < cutoff}
           rows == UNION expired
           M == MaxTs(rows)
           nf == M + 1
           E(k) == {i \in Old : k \in DOMAIN history[i].cells /\ history[i].at < nf}
           found(k) == FactsIn(rows, k) \cup {heads[j] : j \in DOMAIN heads \cap {k}}
           dead == {k \in Keys : /\ Upto(k, nf - 1) # {} /\ ~ Live(k, LastBy(Upto(k, nf - 1)), nf)}
<1>1. /\ expired # {} /\ nf > floor /\ heads' = Fold(expired, nf) /\ floor' = nf
      /\ units' = units \ expired
      /\ buried' = buried \cup {<<k, history[LastBy(Upto(k, nf - 1))].at>> : k \in dead}
      /\ UNCHANGED <<vars, table, catalog, history>>
  BY DEF Retain
<1>2. /\ IInv /\ HistoryOK /\ IsHistory(history) /\ n \in Nat /\ Given \in Nat /\ Given <= n
      /\ floor \in Nat /\ HeadsOK /\ UnitsOK /\ TablesOK /\ cutoff \in Nat
  BY GivenBound, StreamsAssumption DEF StreamsInv, HistoryOK, FloorOK
<1>3. \A i \in Old : i \in all /\ history[i].at \in Nat
  <2>1. \A i \in Old : i \in all
    BY <1>2 DEF Old, RowsIn
  <2> QED
    BY <1>2, <2>1, RowIn
<1>4. \A x : x \in UNION units <=> \E i \in Old : history[i].at >= floor /\ x = RowOf(history[i])
  BY <1>2 DEF UnitsOK
<1>5. \A i : RowOf(history[i]).at = history[i].at
  BY DEF RowOf
<1> HIDE DEF all, n
<1>6. ASSUME NEW R, R # {}, \A r \in R : r \in UNION units
      PROVE  /\ MaxTs(R) \in Nat /\ \E r \in R : r.at = MaxTs(R)
             /\ \A r \in R : r.at \in Nat /\ r.at <= MaxTs(R)
  <2>1. \A r \in R : \E i \in all : r = RowOf(history[i])
    BY <1>3, <1>4, <1>6
  <2> QED
    BY <1>2, <1>6, <2>1, MaxTsIs DEF all, n
<1>7. \A u \in units : u # {} /\ \A r \in u : r \in UNION units
  BY <1>2 DEF UnitsOK
<1>8. rows # {} /\ \A r \in rows : r \in UNION units
  BY <1>1, <1>7
<1>9. /\ M \in Nat /\ \A r \in rows : r.at \in Nat /\ r.at <= M
  BY <1>6, <1>8
<1>10. PICK e \in rows : e.at = M
  BY <1>6, <1>8
<1>11. PICK w \in expired : e \in w
  BY <1>10
<1>12. PICK o \in Old : history[o].at = nf - 1
  <2>1. PICK o \in Old : e = RowOf(history[o])
    BY <1>4, <1>8, <1>10
  <2> HIDE DEF M
  <2>2. history[o].at = M
    BY <1>5, <1>10, <2>1
  <2>3. nf - 1 = M
    BY <1>9
  <2> QED
    BY <2>2, <2>3
<1> HIDE DEF M
(* The floor parts the expired units from the others.                      *)
<1>13. ASSUME NEW u \in units, NEW r \in u
       PROVE  u \in expired <=> r.at < nf
  <2>1. u # {} /\ \A q \in u : q \in UNION units
    BY <1>7
  <2>2. MaxTs(u) \in Nat /\ r.at \in Nat
    BY <1>6, <2>1
  <2>3. u \in expired => r \in rows
    OBVIOUS
  <2>4. ASSUME u \notin expired, r.at < nf
        PROVE  FALSE
    <3>1. MaxTs(u) >= cutoff
      BY <1>2, <2>2, <2>4
    <3>2. PICK q \in u : q.at = MaxTs(u)
      BY <1>6, <2>1
    <3>3. w # {} /\ \A p \in w : p \in UNION units
      BY <1>7, <1>11
    <3>4. MaxTs(w) \in Nat /\ e.at <= MaxTs(w) /\ MaxTs(w) < cutoff
      BY <1>6, <1>11, <3>3
    <3>5. u # w /\ w \in units
      BY <1>11, <2>4
    <3>6. Apart(u, w)
      BY <1>2, <3>5 DEF UnitsOK
    <3>7. q.at < e.at \/ e.at < r.at
      BY <1>11, <3>2, <3>6 DEF Apart
    <3> HIDE DEF expired
    <3> QED
      BY <1>2, <1>9, <1>10, <2>2, <2>4, <3>1, <3>2, <3>4, <3>7
  <2>5. r \in rows => r.at < nf
    BY <1>9, <2>2
  <2> QED
    BY <2>3, <2>4, <2>5
<1>14. \A x : x \in rows <=> \E i \in Old : /\ floor <= history[i].at /\ history[i].at < nf
                                            /\ x = RowOf(history[i])
  <2>1. ASSUME NEW x
        PROVE  x \in rows <=> x \in UNION units /\ x.at < nf
    <3>1. x \in rows <=> \E u \in units : u \in expired /\ x \in u
      OBVIOUS
    <3> HIDE DEF expired
    <3>2. \A u \in units : x \in u => (u \in expired <=> x.at < nf)
      BY <1>13
    <3> QED
      BY <3>1, <3>2
  <2> HIDE DEF expired, rows
  <2> QED
    BY <1>2, <1>3, <1>4, <1>5, <2>1
<1>15. \A x : x \in UNION units' <=> \E i \in Old : history[i].at >= nf /\ x = RowOf(history[i])
  <2>1. ASSUME NEW x
        PROVE  x \in UNION units' <=> x \in UNION units /\ ~ (x.at < nf)
    <3>1. x \in UNION units' <=> \E u \in units : u \notin expired /\ x \in u
      BY <1>1
    <3> HIDE DEF expired
    <3>2. \A u \in units : x \in u => (u \in expired <=> x.at < nf)
      BY <1>13
    <3> QED
      BY <3>1, <3>2
  <2>2. \A i \in Old : ~ (history[i].at < nf) <=> history[i].at >= nf
    BY <1>3, <1>9
  <2>3. \A i \in Old : history[i].at >= nf => history[i].at >= floor
    BY <1>1, <1>2, <1>3, <1>9
  <2> HIDE DEF expired, rows, nf
  <2> QED
    BY <1>4, <1>5, <2>1, <2>2, <2>3
<1>16. Old' = Old /\ history' = history /\ Given' = Given /\ table' = table /\ catalog' = catalog
  BY <1>1 DEF vars, Given, Old
<1>17. IInv' /\ HistoryOK' /\ TablesOK'
  <2>1. IInv'
    BY <1>1, <1>2 DEF vars, IInv, TypeOK, Complete, Ordered, Bounded, Records
  <2>2. HistoryOK'
    BY <1>1, <1>2 DEF vars, HistoryOK
  <2>3. TablesOK'
    BY <1>2, <1>16 DEF TablesOK
  <2> QED
    BY <2>1, <2>2, <2>3
<1>18. UnitsOK'
  <2>1. UNION units' = {RowOf(history[i]) : i \in {j \in Old : history[j].at >= nf}}
    BY <1>15
  <2>2. {} \notin units' /\ \A u, v \in units' : u = v \/ Apart(u, v)
    BY <1>1, <1>2 DEF UnitsOK
  <2> HIDE DEF nf
  <2> QED
    BY <1>1, <1>16, <2>1, <2>2 DEF UnitsOK
<1>19. nf \in Nat /\ FloorOK'
  <2>1. nf \in Nat
    BY <1>9
  <2> HIDE DEF nf
  <2> QED
    BY <1>1, <1>12, <1>16, <2>1 DEF FloorOK
<1>20. ASSUME NEW k \in Keys
       PROVE  /\ Upto(k, nf - 1) = E(k)
              /\ found(k) = {} => E(k) = Expired(k) /\ k \notin DOMAIN heads
              /\ E(k) # {} => LastBy(E(k)) \in E(k)
              /\ found(k) # {} =>
                     /\ E(k) # {} /\ Newest(found(k)) = FactOf(LastBy(E(k)), k)
                     /\ <<k, history[LastBy(E(k))].at>> \notin buried
                     /\ Visible(table, k, Newest(found(k)), nf) <=> Live(k, LastBy(E(k)), nf)
  <2> HIDE DEF rows, nf
  <2> QED
    BY ZenonT(40), <1>1, <1>12, <1>14, <1>19, FoldFinds
<1> DEFINE live == {k \in Keys : found(k) # {} /\ Visible(table, k, Newest(found(k)), nf)}
<1>21. heads' = [k \in live |-> Newest(found(k))]
  BY <1>1 DEF Fold
<1>22. \A k : Expired(k)' = E(k)
  <2> HIDE DEF nf
  <2> QED
    BY <1>1, <1>16 DEF Expired
<1>23. dead = {k \in Keys : E(k) # {} /\ ~ Live(k, LastBy(E(k)), nf)}
  <2> HIDE DEF E, found, nf
  <2> QED
    BY <1>20
<1>24. buried' = buried \cup {<<k, history[LastBy(E(k))].at>> : k \in dead}
  <2>1. \A k \in dead : Upto(k, nf - 1) = E(k)
    <3> HIDE DEF E, found, nf
    <3> QED
      BY <1>20
  <2> HIDE DEF E, dead
  <2> QED
    BY <1>1, <2>1
<1>25. \A k : \A i \in E(k) : history[i].at \in Nat /\ history[i].at < nf
  BY <1>3
<1> HIDE DEF nf, E, found, dead
<1>26. IsFunction(heads') /\ DOMAIN heads' = live
  BY <1>21 DEF IsFunction
<1>27. ASSUME NEW b \in buried'
       PROVE  b[2] \in Nat /\ b[2] < nf
  <2>1. CASE b \in buried
    <3>1. b[2] \in Nat /\ b[2] < floor
      BY <1>2, <2>1 DEF HeadsOK
    <3> QED
      BY <1>1, <1>2, <1>19, <3>1
  <2>2. CASE \E k \in dead : b = <<k, history[LastBy(E(k))].at>>
    <3>1. PICK k \in dead : b = <<k, history[LastBy(E(k))].at>>
      BY <2>2
    <3>2. k \in Keys /\ E(k) # {}
      BY <1>23
    <3>3. LastBy(E(k)) \in E(k)
      BY <1>20, <3>2
    <3>4. b[2] = history[LastBy(E(k))].at
      BY <3>1
    <3> QED
      BY <1>25, <3>3, <3>4
  <2> QED
    BY <1>24, <2>1, <2>2
<1>28. ASSUME NEW k \in Keys
       PROVE  IF k \in DOMAIN heads'
              THEN /\ E(k) # {} /\ heads'[k] = FactOf(LastBy(E(k)), k)
                   /\ <<k, history[LastBy(E(k))].at>> \notin buried'
              ELSE E(k) = {} \/ <<k, history[LastBy(E(k))].at>> \in buried'
  <2> DEFINE m == LastBy(E(k))
             t == history[m].at
  <2>1. k \in DOMAIN heads' <=> found(k) # {} /\ Visible(table, k, Newest(found(k)), nf)
    BY <1>26
  <2>2. k \in dead <=> E(k) # {} /\ ~ Live(k, m, nf)
    BY <1>23
  <2>3. <<k, t>> \in buried' <=> <<k, t>> \in buried \/ k \in dead
    <3>1. \A j \in dead : <<k, t>> = <<j, history[LastBy(E(j))].at>> => j = k
      OBVIOUS
    <3>2. k \in dead => <<k, t>> \in {<<j, history[LastBy(E(j))].at>> : j \in dead}
      OBVIOUS
    <3> QED
      BY <1>24, <3>1, <3>2
  <2>4. CASE found(k) = {}
    <3>1. E(k) = Expired(k) /\ k \notin DOMAIN heads /\ k \notin DOMAIN heads'
      BY <1>20, <2>1, <2>4
    <3>2. Expired(k) = {} \/ <<k, history[LastBy(Expired(k))].at>> \in buried
      BY <1>2, <3>1 DEF HeadsOK
    <3> QED
      BY <1>24, <3>1, <3>2
  <2>5. CASE found(k) # {}
    <3>1. /\ E(k) # {} /\ Newest(found(k)) = FactOf(m, k) /\ <<k, t>> \notin buried
          /\ Visible(table, k, Newest(found(k)), nf) <=> Live(k, m, nf)
      BY <1>20, <2>5
    <3>2. k \in DOMAIN heads' => heads'[k] = Newest(found(k))
      BY <1>21, <1>26
    <3> HIDE DEF live, m, t
    <3>3. IF k \in DOMAIN heads'
          THEN /\ E(k) # {} /\ heads'[k] = FactOf(m, k) /\ <<k, t>> \notin buried'
          ELSE E(k) = {} \/ <<k, t>> \in buried'
      BY <2>1, <2>2, <2>3, <2>5, <3>1, <3>2
    <3> QED
      BY <3>3 DEF m, t
  <2> QED
    BY <2>4, <2>5
<1>29. HeadsOK'
  <2>1. /\ DOMAIN heads' \subseteq Keys
    BY <1>26
  <2> HIDE DEF live
  <2> QED
    BY <1>1, <1>16, <1>22, <1>26, <1>27, <1>28, <2>1 DEF HeadsOK, FactOf
<1> QED
  BY <1>17, <1>18, <1>19, <1>29 DEF StreamsInv

-----------------------------------------------------------------------------
(***************************************************************************)
(* An open replays the records behind the checkpoint, one by one.          *)
(***************************************************************************)
Applies == INSTANCE Folding WITH Step <- Apply

(* How many there are of what has the numbers c + 1 .. q.                  *)
LEMMA CountIs ==
    ASSUME NEW S, NEW f, NEW c \in Nat, NEW q \in Nat, c <= q,
           \A l \in S : f[l] \in c + 1 .. q,
           \A i \in c + 1 .. q : \E l \in S : f[l] = i,
           \A k, l \in S : f[k] = f[l] => k = l
    PROVE  Cardinality(S) = q - c
<1> DEFINE m == q - c
           g == [i \in 1 .. m |-> CHOOSE l \in S : f[l] = c + i]
<1>1. m \in Nat
  OBVIOUS
<1>2. ASSUME NEW i \in 1 .. m
      PROVE  g[i] \in S /\ f[g[i]] = c + i
  <2>1. c + i \in c + 1 .. q
    OBVIOUS
  <2>2. \E l \in S : f[l] = c + i
    BY <2>1
  <2>3. g[i] = CHOOSE l \in S : f[l] = c + i
    OBVIOUS
  <2> HIDE DEF g
  <2> QED
    BY <2>2, <2>3
<1>3. g \in [1 .. m -> S]
  BY <1>2
<1> HIDE DEF g
<1>4. \A i, j \in 1 .. m : g[i] = g[j] => i = j
  <2> SUFFICES ASSUME NEW i \in 1 .. m, NEW j \in 1 .. m, g[i] = g[j]
               PROVE  i = j
    OBVIOUS
  <2>1. c + i = c + j
    BY <1>2
  <2> QED
    BY <2>1
<1>5. \A l \in S : \E i \in 1 .. m : g[i] = l
  <2> SUFFICES ASSUME NEW l \in S
               PROVE  \E i \in 1 .. m : g[i] = l
    OBVIOUS
  <2>1. f[l] \in c + 1 .. q
    OBVIOUS
  <2>2. f[l] - c \in 1 .. m /\ c + (f[l] - c) = f[l]
    BY <2>1
  <2>3. g[f[l] - c] = l
    BY <1>2, <2>2
  <2> QED
    BY <2>2, <2>3
<1> HIDE DEF m
<1>6. ExistsBijection(1 .. m, S)
  BY <1>3, <1>4, <1>5, Fun_IsBij DEF ExistsBijection
<1>7. IsFiniteSet(1 .. m) /\ Cardinality(1 .. m) = m
  BY <1>1, FS_Interval
<1> QED
  BY <1>6, <1>7, FS_Bijection DEF m

LEMMA PendingIs ==
    ASSUME IInv', Db \notin retired', NEW h,
           \A l \in DOMAIN log' : log'[l].id = Db => log'[l].value = h[log'[l].seq]
    PROVE  /\ Given' \in Nat /\ seq'[Db] \in Nat /\ Given' <= seq'[Db]
           /\ DOMAIN Pending = 1 .. seq'[Db] - Given'
           /\ \A i \in 1 .. seq'[Db] - Given' : Pending[i] = h[Given' + i]
<1> DEFINE c == Given'
           s == seq'[Db]
           lsns == {l \in DOMAIN log' : log'[l].id = Db /\ log'[l].seq > c}
           f == [l \in DOMAIN log' |-> log'[l].seq]
           Below(l) == {k \in lsns : k <= l}
<1>1. /\ Db \in Members /\ c \in Nat /\ s \in Nat /\ c <= s /\ c = checkpoint'[Db]
  BY StreamsAssumption DEF Given, IInv, TypeOK, Bounded
<1> HIDE DEF c
<1>2. /\ \A l \in lsns : l \in Nat /\ f[l] = log'[l].seq /\ f[l] \in Nat
      /\ \A l \in lsns : f[l] \in c + 1 .. s
  <2> SUFFICES ASSUME NEW l \in lsns
               PROVE  l \in Nat /\ f[l] = log'[l].seq /\ f[l] \in Nat /\ f[l] \in c + 1 .. s
    OBVIOUS
  <2>1. l \in Nat /\ f[l] = log'[l].seq /\ f[l] \in Nat /\ f[l] <= s /\ f[l] > c
    BY DEF IInv, TypeOK, Bounded, Records
  <2> HIDE DEF f, lsns, s
  <2> QED
    BY <1>1, <2>1
<1>3. \A q \in c + 1 .. s : \E l \in lsns : f[l] = q
  <2> SUFFICES ASSUME NEW q \in c + 1 .. s
               PROVE  \E l \in lsns : f[l] = q
    OBVIOUS
  <2>1. PICK l \in DOMAIN log' : log'[l].id = Db /\ log'[l].seq = q
    BY <1>1 DEF IInv, Complete
  <2>2. q > c
    BY <1>1
  <2> QED
    BY <2>1, <2>2
<1>4. \A k, l \in lsns : k < l <=> f[k] < f[l]
  BY DEF IInv, Ordered
<1> HIDE DEF f, lsns, s, c
<1>5. \A k, l \in lsns : (f[k] = f[l] => k = l) /\ (k <= l <=> f[k] <= f[l])
  <2> SUFFICES ASSUME NEW k \in lsns, NEW l \in lsns
               PROVE  (f[k] = f[l] => k = l) /\ (k <= l <=> f[k] <= f[l])
    OBVIOUS
  <2>1. k \in Nat /\ l \in Nat /\ f[k] \in Nat /\ f[l] \in Nat
    BY <1>2
  <2>2. (k < l <=> f[k] < f[l]) /\ (l < k <=> f[l] < f[k])
    BY <1>4
  <2> QED
    BY <2>1, <2>2
<1>6. Cardinality(lsns) = s - c
  <2>1. \A l \in lsns : f[l] \in c + 1 .. s
    BY <1>2
  <2>2. \A k, l \in lsns : f[k] = f[l] => k = l
    BY <1>5
  <2>3. c \in Nat /\ s \in Nat /\ c <= s
    BY <1>1
  <2> QED
    BY <1>3, <2>1, <2>2, <2>3, CountIs
<1>7. ASSUME NEW l \in lsns
      PROVE  Cardinality(Below(l)) = f[l] - c
  <2>1. f[l] \in Nat /\ c <= f[l] /\ f[l] <= s
    BY <1>1, <1>2
  <2>2. \A k \in Below(l) : f[k] \in c + 1 .. f[l]
    <3> SUFFICES ASSUME NEW k \in Below(l)
                 PROVE  f[k] \in c + 1 .. f[l]
      OBVIOUS
    <3>1. k \in lsns /\ f[k] <= f[l] /\ f[k] \in Nat /\ f[k] \in c + 1 .. s
      BY <1>2, <1>5
    <3> QED
      BY <1>1, <2>1, <3>1
  <2>3. \A i \in c + 1 .. f[l] : \E k \in Below(l) : f[k] = i
    <3> SUFFICES ASSUME NEW i \in c + 1 .. f[l]
                 PROVE  \E k \in Below(l) : f[k] = i
      OBVIOUS
    <3>1. i \in c + 1 .. s /\ i <= f[l]
      BY <1>1, <2>1
    <3>2. PICK k \in lsns : f[k] = i
      BY <1>3, <3>1
    <3>3. k <= l
      BY <1>5, <3>1, <3>2
    <3> QED
      BY <3>2, <3>3
  <2>4. \A j, k \in Below(l) : f[j] = f[k] => j = k
    BY <1>5
  <2>5. c \in Nat
    BY <1>1
  <2> HIDE DEF Below
  <2> QED
    BY SMTT(30), <2>1, <2>2, <2>3, <2>4, <2>5, CountIs
<1> DEFINE lsn(i) == CHOOSE l \in lsns : Cardinality({k \in lsns : k <= l}) = i
<1>8. Pending = [i \in 1 .. Cardinality(lsns) |-> log'[lsn(i)].value]
  BY <1>1 DEF Pending, lsns, c
<1>9. ASSUME NEW i \in 1 .. s - c
      PROVE  lsn(i) \in lsns /\ f[lsn(i)] = c + i
  <2>1. c + i \in c + 1 .. s
    BY <1>1
  <2>2. PICK l \in lsns : f[l] = c + i
    BY <1>3, <2>1
  <2>3. Cardinality(Below(l)) = i
    BY <1>1, <1>7, <2>2
  <2>4. lsn(i) \in lsns /\ Cardinality(Below(lsn(i))) = i
    BY <2>3
  <2> HIDE DEF lsn, Below
  <2>5. f[lsn(i)] - c = i /\ f[lsn(i)] \in Nat
    BY <1>2, <1>7, <2>4
  <2> QED
    BY <1>1, <2>4, <2>5
<1> HIDE DEF lsn, Below
<1>10. ASSUME NEW i \in 1 .. s - c
       PROVE  log'[lsn(i)].value = h[c + i]
  <2>1. lsn(i) \in DOMAIN log' /\ log'[lsn(i)].id = Db /\ log'[lsn(i)].seq = c + i
    BY <1>2, <1>9 DEF lsns, c
  <2> QED
    BY <2>1
<1> QED
  BY <1>1, <1>6, <1>8, <1>10 DEF c, s

(* What the records since the checkpoint make of the catalog.              *)
LEMMA ReplaySays ==
    ASSUME NEW h, IsHistory(h), NEW c \in Nat, c <= Len(h), NEW base, TableSays(base, h, c, c),
           NEW s, DOMAIN s = 1 .. Len(h) - c, \A i \in 1 .. Len(h) - c : s[i] = h[c + i]
    PROVE  TableSays(FoldLeft(Apply, base, s), h, c, Len(h))
<1> DEFINE n == Len(h) - c
<1>1. n \in Nat /\ Len(h) \in Nat
  BY DEF IsHistory
<1> HIDE DEF n
<1>2. PICK f : Applies!Run(f, base, s, n) /\ Applies!Fold(base, s) = f[n]
  BY <1>1, Applies!RunExists DEF n
<1>3. FoldLeft(Apply, base, s) = f[n]
  <2>1. FoldLeft(Apply, base, s) = Applies!Fold(base, s)
    BY DEF Applies!Fold, FoldLeft, MapThenFoldSet, Applies!FoldLeft,
           Applies!MapThenFoldSet, Max, Applies!Max
  <2> QED
    BY <1>2, <2>1
<1>4. f[0] = base /\ \A k \in 1 .. n : f[k] = Apply(f[k - 1], s[k])
  BY <1>2 DEF Applies!Run
<1> DEFINE Wrong == {k \in 0 .. n : ~ TableSays(f[k], h, c, c + k)}
<1>5. ASSUME Wrong # {}
      PROVE  FALSE
  <2>1. PICK m \in Wrong : \A k \in Wrong : m <= k
    <3>1. Wrong \subseteq Nat
      OBVIOUS
    <3> HIDE DEF Wrong
    <3> QED
      BY <1>5, <3>1, Applies!LeastNumber
  <2>2. m # 0
    BY <1>4, <2>1
  <2>3. m \in Nat /\ m \in 1 .. n /\ m - 1 \in 0 .. n /\ m - 1 \notin Wrong
    BY <1>1, <2>1, <2>2
  <2>4. TableSays(f[m - 1], h, c, c + (m - 1))
    BY <2>3
  <2> DEFINE p == c + (m - 1)
  <2>5. p \in Nat /\ c <= p /\ p < Len(h) /\ p + 1 = c + m
    BY <1>1, <2>3 DEF n
  <2>6. TableSays(Apply(f[m - 1], h[p + 1]), h, c, p + 1)
    <3>1. TableSays(f[m - 1], h, c, p)
      BY <2>4
    <3> HIDE DEF p
    <3> QED
      BY <2>5, <3>1, ApplySays
  <2>7. f[m] = Apply(f[m - 1], h[p + 1])
    <3>1. s[m] = h[c + m]
      BY <2>3 DEF n
    <3> HIDE DEF p
    <3> QED
      BY <1>4, <2>3, <2>5, <3>1
  <2>8. TableSays(f[m], h, c, c + m)
    <3> HIDE DEF p
    <3> QED
      BY <2>5, <2>6, <2>7
  <2> QED
    BY <2>1, <2>8
<1>6. TableSays(f[n], h, c, c + n) /\ c + n = Len(h)
  BY <1>1, <1>5 DEF n
<1> QED
  BY <1>3, <1>6

(* A crash takes the records behind some point, and the open replays what  *)
(* is left.                                                                *)
LEMMA RestartSays ==
    ASSUME StreamsInv, Restart
    PROVE  StreamsInv'
<1> DEFINE n == seq'[Db]
<1>1. /\ Crash /\ table' = FoldLeft(Apply, catalog, Pending) /\ checkpoint' = checkpoint
      /\ history' = SubSeq(history, 1, n) /\ UNCHANGED <<sealed, buried>> /\ catalog' = catalog
  BY DEF Restart, sealed
<1>2. /\ IInv /\ HistoryOK /\ IsHistory(history) /\ history \in Seq(Bodies)
      /\ Len(history) \in Nat /\ Len(history) = seq[Db] /\ Given \in Nat /\ Given <= Len(history)
      /\ retired = {}
  BY GivenBound DEF StreamsInv, HistoryOK, IsHistory
<1>3. IInv'
  BY <1>1, <1>2, CrashInv
<1>4. PICK cut \in durable .. top :
        /\ log' = [l \in DOMAIN log \cap (1 .. cut) |-> log[l]]
        /\ seq' = [m \in Members |-> SeqAt(m, cut)]
        /\ UNCHANGED <<checkpoint, retired>>
  BY <1>1 DEF Crash
<1>5. \A l \in DOMAIN log' : l \in DOMAIN log /\ log'[l] = log[l]
  BY <1>4
<1>6. Given' = Given /\ retired' = {}
  BY <1>2, <1>4 DEF Given
<1>7. n <= Len(history)
  <2>1. n = SeqAt(Db, cut) /\ Db \in Members
    BY <1>4, StreamsAssumption
  <2>2. \/ n = checkpoint[Db]
        \/ \E l \in DOMAIN log : log[l].id = Db /\ n = log[l].seq
    BY <1>2, <2>1, SeqAtMax
  <2> QED
    BY <1>2, <2>1, <2>2 DEF IInv, Bounded
<1>8. /\ n \in Nat /\ Given <= n
  BY <1>3, <1>6, StreamsAssumption DEF IInv, TypeOK, Bounded, Given
<1> HIDE DEF n
<1>9. /\ history' \in Seq(Bodies) /\ Len(history') = n
      /\ \A i \in 1 .. n : history'[i] = history[i]
  <2>1. 1 \in 1 .. Len(history) + 1 /\ n \in 0 .. Len(history)
    BY <1>2, <1>7, <1>8
  <2> QED
    BY <1>1, <1>2, <1>7, <1>8, <2>1, SubSeqProperties
<1>10. IsHistory(history')
  <2>1. RowsIn(history', 0, n) = RowsIn(history, 0, n)
    <3>1. n \in Nat /\ 0 \in Nat /\ \A i \in 1 .. n : history'[i] = history[i]
      BY <1>8, <1>9
    <3> QED
      BY <3>1, SameRecords
  <2>2. \A i \in RowsIn(history, 0, n) : i \in RowsIn(history, 0, Len(history)) /\ i \in 1 .. n
    BY <1>2, <1>7, <1>8 DEF RowsIn
  <2> QED
    BY <1>2, <1>9, <2>1, <2>2 DEF IsHistory
<1>11. \A l \in DOMAIN log' : log'[l].id = Db => log'[l].value = history'[log'[l].seq]
  <2> SUFFICES ASSUME NEW l \in DOMAIN log', log'[l].id = Db
               PROVE  log'[l].value = history'[log'[l].seq]
    OBVIOUS
  <2>1. log'[l].seq \in Nat \ {0} /\ log'[l].seq <= n
    BY <1>3 DEF IInv, TypeOK, Bounded, Records, n
  <2>2. log'[l].seq \in 1 .. n
    BY <1>8, <2>1
  <2>3. log'[l].value = history[log'[l].seq]
    BY <1>2, <1>5 DEF HistoryOK
  <2> QED
    BY <1>9, <2>2, <2>3
<1>12. HistoryOK'
  BY <1>6, <1>9, <1>10, <1>11 DEF HistoryOK, n
<1>13. UnitsOK' /\ FloorOK' /\ HeadsOK' /\ TableSays(catalog', history', Given', Given')
  <2>1. \A i \in 1 .. Given : history'[i] = history[i]
    BY <1>2, <1>8, <1>9
  <2> QED
    BY <1>1, <1>6, <2>1, SealedStay
<1>14. TableSays(table', history', Given', Len(history'))
  <2>1. /\ DOMAIN Pending = 1 .. n - Given'
        /\ \A i \in 1 .. n - Given' : Pending[i] = history'[Given' + i]
    BY <1>3, <1>6, <1>11, PendingIs DEF n
  <2>2. Given' \in Nat /\ Given' <= Len(history')
    BY <1>2, <1>6, <1>8, <1>9
  <2>3. TableSays(catalog, history', Given', Given')
    BY <1>1, <1>13
  <2> QED
    BY <1>1, <1>9, <1>10, <2>1, <2>2, <2>3, ReplaySays
<1> QED
  BY <1>3, <1>12, <1>13, <1>14 DEF StreamsInv, TablesOK

-----------------------------------------------------------------------------
(***************************************************************************)
(* Scans.                                                                  *)
(***************************************************************************)
(* Facts at different times, counted from the oldest.                      *)
LEMMA InOrder ==
    ASSUME NEW F, IsFiniteSet(F), \A f \in F : f.at \in Nat,
           \A f, g \in F : f.at = g.at => f = g,
           NEW s, s = InTime(F)
    PROVE  \E n \in Nat : /\ DOMAIN s = 1 .. n
                          /\ \A i \in 1 .. n : s[i] \in F
                          /\ \A f \in F : \E i \in 1 .. n : s[i] = f
                          /\ \A i, j \in 1 .. n : i < j => s[i].at < s[j].at
<1> DEFINE n == Cardinality(F)
           Below(f) == {g \in F : g.at <= f.at}
           rank == [f \in F |-> Cardinality(Below(f))]
<1>1. n \in Nat
  BY FS_CardinalityType
<1>2. ASSUME NEW f \in F
      PROVE  /\ Below(f) \in SUBSET F /\ f \in Below(f) /\ IsFiniteSet(Below(f))
             /\ rank[f] \in 1 .. n
  <2>1. Below(f) \in SUBSET F /\ f \in Below(f)
    OBVIOUS
  <2> HIDE DEF Below
  <2>2. IsFiniteSet(Below(f)) /\ Cardinality(Below(f)) <= n
    BY <2>1, FS_Subset
  <2>3. Cardinality(Below(f)) \in Nat /\ Cardinality(Below(f)) # 0
    BY <2>1, <2>2, FS_CardinalityType, FS_EmptySet
  <2> QED
    BY <1>1, <2>1, <2>2, <2>3
<1>3. ASSUME NEW f \in F, NEW g \in F, f.at < g.at
      PROVE  rank[f] < rank[g]
  <2>1. Below(f) \subseteq Below(g)
    <3> SUFFICES ASSUME NEW h \in Below(f)
                 PROVE  h.at <= g.at
      OBVIOUS
    <3>1. h.at \in Nat /\ f.at \in Nat /\ g.at \in Nat /\ h.at <= f.at
      OBVIOUS
    <3> QED
      BY <1>3, <3>1
  <2>2. g \in Below(g) /\ g \notin Below(f)
    <3>1. f.at \in Nat /\ g.at \in Nat
      OBVIOUS
    <3> QED
      BY <1>3, <3>1
  <2> HIDE DEF Below
  <2>3. IsFiniteSet(Below(g)) /\ rank[f] \in Nat /\ rank[g] \in Nat
    BY <1>1, <1>2
  <2>4. /\ Cardinality(Below(f)) <= Cardinality(Below(g))
        /\ Cardinality(Below(g)) # Cardinality(Below(f))
    BY <2>1, <2>2, <2>3, FS_Subset
  <2> QED
    BY <2>3, <2>4
<1> HIDE DEF rank, n, Below
<1>4. \A f, g \in F : rank[f] = rank[g] => f = g
  <2> SUFFICES ASSUME NEW f \in F, NEW g \in F, rank[f] = rank[g]
               PROVE  f.at = g.at
    OBVIOUS
  <2>1. ~ (f.at < g.at) /\ ~ (g.at < f.at)
    <3>1. rank[f] \in 1 .. n /\ rank[f] \in Nat
      <4>1. rank[f] \in 1 .. n
        BY <1>2
      <4> QED
        BY <1>1, <4>1
    <3> QED
      BY <1>3, <3>1
  <2>2. f.at \in Nat /\ g.at \in Nat
    OBVIOUS
  <2> QED
    BY <2>1, <2>2
<1>5. rank \in Injection(F, 1 .. n)
  <2>1. rank \in [F -> 1 .. n]
    BY <1>2 DEF rank
  <2> QED
    BY <1>4, <2>1, Fun_IsInj
<1>6. \A i \in 1 .. n : \E f \in F : rank[f] = i
  <2>1. IsFiniteSet(1 .. n) /\ Cardinality(1 .. n) = n
    BY <1>1, FS_Interval
  <2>2. rank \in Surjection(F, 1 .. n)
    BY <1>5, <2>1, FS_Injection DEF n
  <2> QED
    BY <2>2 DEF Surjection
<1>7. ASSUME NEW i \in 1 .. n
      PROVE  s[i] \in F /\ rank[s[i]] = i
  <2>1. s[i] = CHOOSE f \in F : Cardinality(Below(f)) = i
    BY DEF n, InTime, Below
  <2>2. \E f \in F : Cardinality(Below(f)) = i
    BY <1>6 DEF rank
  <2>3. s[i] \in F /\ Cardinality(Below(s[i])) = i
    BY <2>1, <2>2
  <2> QED
    BY <2>3 DEF rank
<1>8. DOMAIN s = 1 .. n
  BY DEF n, InTime
<1>9. ASSUME NEW f \in F
      PROVE  \E i \in 1 .. n : s[i] = f
  <2>1. rank[f] \in 1 .. n
    BY <1>2
  <2>2. s[rank[f]] \in F /\ rank[s[rank[f]]] = rank[f]
    BY <1>7, <2>1
  <2>3. s[rank[f]] = f
    BY <1>4, <2>2
  <2> QED
    BY <2>1, <2>3
<1>10. ASSUME NEW i \in 1 .. n, NEW j \in 1 .. n, i < j
       PROVE  s[i].at < s[j].at
  <2>1. s[i] \in F /\ s[j] \in F /\ rank[s[i]] = i /\ rank[s[j]] = j
    BY <1>7
  <2>2. s[i].at \in Nat /\ s[j].at \in Nat
    BY <2>1
  <2>3. ~ (s[j].at < s[i].at) /\ s[i].at # s[j].at
    <3>1. s[j].at < s[i].at => j < i
      BY <1>3, <2>1
    <3>2. s[i].at = s[j].at => i = j
      BY <2>1
    <3> QED
      BY <1>10, <3>1, <3>2
  <2> QED
    BY <2>2, <2>3
<1> QED
  BY <1>1, <1>7, <1>8, <1>9, <1>10

(* What is stored of a stream: what was accepted of it at or above the     *)
(* floor, in memory what is behind the checkpoint.                         *)
LEMMA StoredIs ==
    ASSUME StreamsInv, NEW k
    PROVE  /\ \A x : x \in FactsIn(table.rows, k) <=>
                        \E i \in RowsIn(history, 0, Len(history)) :
                            k \in DOMAIN history[i].cells /\ i > Given /\ x = FactOf(i, k)
           /\ \A x : x \in FactsIn(UNION units, k) <=>
                        \E i \in RowsIn(history, 0, Len(history)) :
                            /\ k \in DOMAIN history[i].cells /\ ~ (i > Given)
                            /\ history[i].at >= floor /\ x = FactOf(i, k)
           /\ \A x : x \in Stored(k) <=>
                        \E i \in RowsIn(history, 0, Len(history)) :
                            k \in DOMAIN history[i].cells /\ history[i].at >= floor /\ x = FactOf(i, k)
<1> DEFINE n == Len(history)
           all == RowsIn(history, 0, n)
           T == RowsIn(history, Given, n)
           O == {j \in Old : history[j].at >= floor}
<1>1. /\ IsHistory(history) /\ n \in Nat /\ HistoryOK /\ FloorOK
      /\ Given \in Nat /\ Given <= n
      /\ TableSays(table, history, Given, n)
  BY GivenBound DEF StreamsInv, HistoryOK, TablesOK
<1>2. \A j \in all : j \in Nat /\ j \in 1 .. n
  BY <1>1, RowIn
<1>3. /\ \A j : j \in T <=> j \in all /\ j > Given
      /\ \A j : j \in O <=> j \in all /\ ~ (j > Given) /\ history[j].at >= floor
  <2>1. \A j : j \in T <=> j \in all /\ j > Given
    BY <1>1, <1>2 DEF RowsIn
  <2>2. \A j : j \in Old <=> j \in all /\ ~ (j > Given)
    BY <1>1, <1>2 DEF RowsIn, Old
  <2> QED
    BY <2>1, <2>2
<1>4. /\ table.rows = {RowOf(history[j]) : j \in T}
      /\ UNION units = {RowOf(history[j]) : j \in O}
  BY <1>1 DEF TableSays, StreamsInv, UnitsOK
<1>5. \A j \in all : j > Given => history[j].at >= floor
  BY <1>1, AboveFloor
<1> HIDE DEF T, O, all, n
<1>6. /\ FactsIn(table.rows, k) = {FactOf(i, k) : i \in {j \in T : k \in DOMAIN history[j].cells}}
      /\ FactsIn(UNION units, k) = {FactOf(i, k) : i \in {j \in O : k \in DOMAIN history[j].cells}}
  BY <1>4, FactsAre
<1>7. /\ \A x : x \in FactsIn(table.rows, k) <=>
                   \E i \in all : k \in DOMAIN history[i].cells /\ i > Given /\ x = FactOf(i, k)
      /\ \A x : x \in FactsIn(UNION units, k) <=>
                   \E i \in all : /\ k \in DOMAIN history[i].cells /\ ~ (i > Given)
                                  /\ history[i].at >= floor /\ x = FactOf(i, k)
  BY <1>3, <1>6
<1>8. \A x : x \in Stored(k) <=> x \in FactsIn(table.rows, k) \/ x \in FactsIn(UNION units, k)
  BY DEF Stored
<1>9. ASSUME NEW x
      PROVE  x \in Stored(k) <=>
                 \E i \in all : k \in DOMAIN history[i].cells /\ history[i].at >= floor /\ x = FactOf(i, k)
  BY <1>5, <1>7, <1>8
<1> QED
  BY <1>7, <1>9 DEF all, n

(* A scan has the facts of its range, each once and the oldest first.      *)
LEMMA ScanIs ==
    ASSUME StreamsInv, NEW k, NEW start, NEW end
    PROVE  \E n \in Nat :
               /\ DOMAIN Scan(k, start, end) = 1 .. n
               /\ \A i \in 1 .. n : Scan(k, start, end)[i] \in Between(k, start, end)
               /\ \A f \in Between(k, start, end) : \E i \in 1 .. n : Scan(k, start, end)[i] = f
               /\ \A i, j \in 1 .. n : i < j => Scan(k, start, end)[i].at < Scan(k, start, end)[j].at
<1> DEFINE all == RowsIn(history, 0, Len(history))
           F == Between(k, start, end)
<1>1. IsHistory(history) /\ Len(history) \in Nat
  BY GivenBound DEF StreamsInv, HistoryOK
<1>2. \A i \in all : i \in 1 .. Len(history) /\ i \in Nat /\ history[i].at \in Nat
  BY <1>1, RowIn
<1>3. \A f \in F : \E i \in all : f = FactOf(i, k)
  BY StoredIs DEF Between
<1>4. \A i : FactOf(i, k).at = history[i].at
  BY DEF FactOf
<1>5. \A f \in F : f.at \in Nat
  BY <1>2, <1>3, <1>4
<1>6. ASSUME NEW f \in F, NEW g \in F, f.at = g.at
      PROVE  f = g
  <2>1. PICK i \in all : f = FactOf(i, k)
    BY <1>3
  <2>2. PICK j \in all : g = FactOf(j, k)
    BY <1>3
  <2>3. i \in Nat /\ j \in Nat /\ history[i].at \in Nat /\ history[i].at = history[j].at
    BY <1>2, <1>4, <1>6, <2>1, <2>2
  <2>4. ~ (i < j) /\ ~ (j < i)
    <3>1. (i < j => history[i].at < history[j].at) /\ (j < i => history[j].at < history[i].at)
      BY <1>1 DEF IsHistory
    <3> QED
      BY <2>3, <3>1
  <2> QED
    BY <2>1, <2>2, <2>3, <2>4
<1>7. IsFiniteSet(F)
  <2> DEFINE S == {i \in all : FactOf(i, k) \in F}
             g == [i \in S |-> FactOf(i, k)]
  <2>1. IsFiniteSet(1 .. Len(history))
    BY <1>1, FS_Interval
  <2>2. S \in SUBSET (1 .. Len(history))
    BY <1>2
  <2> HIDE DEF all, F
  <2>3. g \in [S -> F] /\ \A f \in F : \E i \in S : g[i] = f
    BY <1>3
  <2> HIDE DEF S, g
  <2>4. IsFiniteSet(S)
    BY <2>1, <2>2, FS_Subset
  <2>5. g \in Surjection(S, F)
    BY <2>3, Fun_IsSurj
  <2> QED
    BY <2>4, <2>5, FS_Surjection
<1> DEFINE s == Scan(k, start, end)
<1>8. s = InTime(F)
  BY DEF Scan
<1> HIDE DEF F, s
<1> QED
  BY <1>5, <1>6, <1>7, <1>8, InOrder DEF s, F

-----------------------------------------------------------------------------
(***************************************************************************)
(* Samples.                                                                *)
(***************************************************************************)
(* s has the facts of a range in the order of their times.                 *)
Lists(s, n, k, start, end) ==
    /\ \A i \in 1 .. n : s[i] \in Between(k, start, end)
    /\ \A f \in Between(k, start, end) : \E i \in 1 .. n : s[i] = f
    /\ \A i, j \in 1 .. n : i < j => s[i].at < s[j].at

(* What is in a slot when the pass over the facts has come to it.          *)
LEMMA SlotIs ==
    ASSUME StreamsInv, NEW k \in Keys, NEW start \in Nat, floor <= start, NEW end \in Nat,
           NEW n \in Nat, NEW s, Lists(s, n, k, start, end),
           NEW j \in 0 .. n, NEW at \in Nat, start <= at, at < end,
           j # 0 => s[j].at <= at, j # n => at < s[j + 1].at,
           NEW current, current = IF j = 0 THEN Predecessor(k, start) ELSE s[j]
    PROVE  Shown(k, current, at) = TrueAnswer(k, at)
<1> DEFINE all == RowsIn(history, 0, Len(history))
           B == Between(k, start, end)
<1>1. /\ IsHistory(history) /\ Len(history) \in Nat /\ Given \in Nat /\ Given <= Len(history)
      /\ FloorOK /\ HeadsOK /\ floor \in Nat
      /\ TableSays(table, history, Given, Len(history)) /\ catalog.versions[1].validity = FirstValidity
  BY GivenBound DEF StreamsInv, HistoryOK, FloorOK, TablesOK, TableSays, VersionsSay
<1>2. \A i \in all : i \in 1 .. Len(history) /\ i \in Nat /\ history[i].at \in Nat
  BY <1>1, RowIn
<1>3. \A i : FactOf(i, k).at = history[i].at
  BY DEF FactOf
<1>4. /\ \A x : x \in FactsIn(table.rows, k) <=>
                   \E i \in all : k \in DOMAIN history[i].cells /\ i > Given /\ x = FactOf(i, k)
      /\ \A x : x \in FactsIn(UNION units, k) <=>
                   \E i \in all : /\ k \in DOMAIN history[i].cells /\ ~ (i > Given)
                                  /\ history[i].at >= floor /\ x = FactOf(i, k)
      /\ \A x : x \in Stored(k) <=>
                   \E i \in all : k \in DOMAIN history[i].cells /\ history[i].at >= floor /\ x = FactOf(i, k)
  BY StoredIs
<1>5. \A x : x \in B <=> x \in Stored(k) /\ start <= x.at /\ x.at < end
  BY DEF Between
<1>6. \A f \in B : f.at \in Nat
  BY <1>2, <1>3, <1>4, <1>5
<1>0. /\ \A i \in 1 .. n : s[i] \in B
      /\ \A f \in B : \E i \in 1 .. n : s[i] = f
      /\ \A i, m \in 1 .. n : i < m => s[i].at < s[m].at
  BY DEF Lists
<1> HIDE DEF all, B
(* No fact comes between the last one passed and the time of the slot.     *)
<1>7. ASSUME NEW f \in B, f.at <= at
      PROVE  j # 0 /\ f.at <= s[j].at
  <2>1. PICK i \in 1 .. n : s[i] = f
    BY <1>0
  <2>2. ~ (j < i)
    <3> SUFFICES ASSUME j < i
                 PROVE  FALSE
      OBVIOUS
    <3>1. j # n /\ j + 1 \in 1 .. n /\ (j + 1 = i \/ j + 1 < i)
      BY <2>1
    <3>2. s[j + 1] \in B /\ s[i] \in B
      BY <1>0, <3>1
    <3>3. s[j + 1].at \in Nat /\ s[i].at \in Nat
      BY <1>6, <3>2
    <3>4. at < s[j + 1].at /\ (j + 1 = i \/ s[j + 1].at < s[i].at)
      BY <1>0, <3>1
    <3> QED
      BY <1>7, <2>1, <3>3, <3>4
  <2>3. j # 0 /\ j \in 1 .. n /\ (i = j \/ i < j)
    BY <2>1, <2>2
  <2>4. s[j] \in B /\ s[i] \in B
    BY <1>0, <2>3
  <2>5. s[j].at \in Nat /\ s[i].at \in Nat
    BY <1>6, <2>4
  <2>6. i = j \/ s[i].at < s[j].at
    BY <1>0, <2>3
  <2> QED
    BY <2>1, <2>3, <2>5, <2>6
<1>8. CASE j = 0
  <2>1. ASSUME NEW f \in Stored(k)
        PROVE  f.at <= at <=> f.at <= start
    <3>1. f.at \in Nat
      BY <1>2, <1>3, <1>4
    <3>2. f.at <= at /\ start <= f.at => f \in B
      BY <1>5, <3>1
    <3>3. f.at <= at => ~ (start <= f.at)
      BY <1>7, <1>8, <3>2
    <3> QED
      BY <3>1, <3>3
  <2>2. /\ {f \in FactsIn(table.rows, k) : f.at <= start} = {f \in FactsIn(table.rows, k) : f.at <= at}
        /\ {f \in FactsIn(UNION units, k) : f.at <= start}
              = {f \in FactsIn(UNION units, k) : f.at <= at}
    BY <2>1 DEF Stored
  <2>3. k \in DOMAIN heads => heads[k].at \in Nat /\ heads[k].at < floor
    <3> SUFFICES ASSUME k \in DOMAIN heads
                 PROVE  heads[k].at \in Nat /\ heads[k].at < floor
      OBVIOUS
    <3>1. Expired(k) # {} /\ heads[k] = FactOf(LastBy(Expired(k)), k)
      BY <1>1 DEF HeadsOK
    <3>2. \A i : i \in Expired(k) => i \in all /\ history[i].at < floor
      BY <1>1 DEF Expired, Old, RowsIn, all
    <3>3. Expired(k) \in SUBSET (1 .. Len(history))
      BY <1>2, <3>2
    <3>4. LastBy(Expired(k)) \in Expired(k)
      BY <1>1, <3>1, <3>3, LastOf
    <3> QED
      BY <1>2, <1>3, <3>1, <3>2, <3>4
  <2>4. k \in DOMAIN heads => heads[k].at <= start /\ heads[k].at <= at
    BY <1>1, <2>3
  <2>5. Predecessor(k, start) = Predecessor(k, at)
    BY <2>2, <2>4 DEF Predecessor
  <2>6. floor <= at + 1
    BY <1>1
  <2>7. ValueAt(k, at) = TrueAnswer(k, at)
    BY <1>1, <2>6, ValueIsTrue
  <2> QED
    BY <1>8, <2>5, <2>7 DEF ValueAt
<1>9. CASE j # 0
  <2>1. s[j] \in B
    BY <1>0, <1>9
  <2>2. PICK i \in all : k \in DOMAIN history[i].cells /\ history[i].at >= floor /\ s[j] = FactOf(i, k)
    BY <1>4, <1>5, <2>1
  <2>3. history[i].at <= at /\ start <= history[i].at /\ history[i].at \in Nat /\ i \in Nat
        /\ s[j].at = history[i].at
    BY <1>2, <1>3, <1>5, <1>9, <2>1, <2>2
  <2>4. \A m : m \in Upto(k, at) <=> m \in all /\ k \in DOMAIN history[m].cells /\ history[m].at <= at
    BY <1>1, UptoRows DEF all
  <2>5. ASSUME NEW m \in Upto(k, at)
        PROVE  m <= i
    <3>1. m \in all /\ m \in Nat /\ history[m].at \in Nat /\ history[m].at <= at
          /\ k \in DOMAIN history[m].cells
      BY <1>2, <2>4
    <3> SUFFICES ASSUME i < m
                 PROVE  FALSE
      BY <2>3, <3>1
    <3>2. history[i].at < history[m].at
      BY <1>1, <2>2, <3>1 DEF IsHistory, all
    <3>3. FactOf(m, k) \in B /\ FactOf(m, k).at <= at
      <4>1. history[m].at >= floor /\ start <= history[m].at /\ history[m].at < end
        <5>1. floor \in Nat
          BY <1>1
        <5> QED
          BY <2>3, <3>1, <3>2, <5>1
      <4> QED
        BY <1>3, <1>4, <1>5, <3>1, <4>1
    <3>4. history[m].at <= history[i].at
      BY <1>3, <1>7, <2>3, <3>3
    <3> QED
      BY <2>3, <3>1, <3>2, <3>4
  <2>6. LastBy(Upto(k, at)) = i
    <3>1. i \in Upto(k, at) /\ Upto(k, at) \in SUBSET (1 .. Len(history))
      BY <1>2, <2>2, <2>3, <2>4
    <3> QED
      BY <1>1, <2>5, <3>1, LastIs
  <2>7. <<k, history[i].at>> \notin buried
    <3>1. \A b \in buried : b[2] \in Nat /\ b[2] < floor
      BY <1>1 DEF HeadsOK
    <3>2. <<k, history[i].at>>[2] = history[i].at
      OBVIOUS
    <3> QED
      BY <1>1, <2>2, <2>3, <3>1, <3>2
  <2>8. Visible(table, k, FactOf(i, k), at) <=> Live(k, i, at)
    BY <1>1, <1>3, <2>2, VisibleIsLive DEF all
  <2>9. Shown(k, FactOf(i, k), at) = IF Live(k, i, at)
                                     THEN [at |-> history[i].at, value |-> history[i].cells[k],
                                           carried |-> history[i].at < at]
                                     ELSE None
    BY <2>8, ShownIs
  <2>10. Upto(k, at) # {}
    BY <2>2, <2>3, <2>4
  <2> QED
    BY <1>9, <2>2, <2>6, <2>7, <2>9, <2>10 DEF TrueAnswer
<1> QED
  BY <1>8, <1>9

(* The slots before a time are the first ones.                             *)
SlotsBefore(grid, m, next) == Cardinality({g \in 1 .. m : grid[g] < next})

LEMMA FirstSlots ==
    ASSUME NEW m \in Nat, NEW grid, \A i \in 1 .. m : grid[i] \in Nat,
           \A i, j \in 1 .. m : i < j => grid[i] < grid[j], NEW next \in Nat
    PROVE  /\ SlotsBefore(grid, m, next) \in 0 .. m
           /\ \A i \in 1 .. m : i <= SlotsBefore(grid, m, next) <=> grid[i] < next
<1> DEFINE S == {g \in 1 .. m : grid[g] < next}
           c == IF S = {} THEN 0 ELSE LastBy(S)
<1>1. c \in 0 .. m /\ (c # 0 => c \in S) /\ \A i \in S : i <= c
  <2>1. CASE S = {}
    BY <2>1
  <2>2. CASE S # {}
    <3>1. S \in SUBSET (1 .. m)
      OBVIOUS
    <3> HIDE DEF S
    <3>2. LastBy(S) \in S /\ \A i \in S : i <= LastBy(S)
      BY <2>2, <3>1, LastOf
    <3>3. LastBy(S) \in 1 .. m
      BY <3>1, <3>2
    <3> QED
      BY <2>2, <3>2, <3>3
  <2> QED
    BY <2>1, <2>2
<1> HIDE DEF c
<1>2. \A i \in 1 .. m : i \in S <=> i <= c
  <2> SUFFICES ASSUME NEW i \in 1 .. m, i <= c
               PROVE  i \in S
    BY <1>1
  <2>1. c \in S /\ c \in 1 .. m /\ (i = c \/ i < c)
    BY <1>1
  <2>2. grid[i] \in Nat /\ grid[c] \in Nat /\ grid[c] < next /\ (i = c \/ grid[i] < grid[c])
    BY <2>1
  <2> QED
    BY <2>2
<1>3. S = 1 .. c
  <2>1. \A i : i \in 1 .. c => i \in 1 .. m /\ i <= c
    BY <1>1
  <2>2. \A i : i \in S => i \in 1 .. m
    OBVIOUS
  <2>3. \A i \in 1 .. m : i <= c => i \in 1 .. c
    BY <1>1
  <2> HIDE DEF S
  <2>4. \A i : i \in S <=> i \in 1 .. c
    BY <1>2, <2>1, <2>2, <2>3
  <2> QED
    BY <2>4
<1> HIDE DEF S
<1>4. Cardinality(S) = c
  <2>1. c \in Nat
    BY <1>1
  <2>2. Cardinality(1 .. c) = c
    BY <2>1, FS_Interval
  <2> QED
    BY <1>3, <2>2
<1>5. \A i \in 1 .. m : i <= c <=> grid[i] < next
  BY <1>2 DEF S
<1>6. SlotsBefore(grid, m, next) = c
  BY <1>4 DEF S, SlotsBefore
<1> QED
  BY <1>1, <1>5, <1>6

Sampling == INSTANCE Folding WITH Step <- Visited

(* The first c slots, and the state of a pass that has filled them.        *)
SlotsTo(k, grid, c) == [i \in 1 .. c |-> TrueAnswer(k, grid[i])]
StateAt(k, grid, current, c) ==
    [key |-> k, grid |-> grid, current |-> current, slots |-> SlotsTo(k, grid, c)]

(* The times of the slots.                                                 *)
GridOf(start, step, m) == [i \in 1 .. m |-> start + (i - 1) * step]

LEMMA FilledIs ==
    ASSUME NEW k, NEW m \in Nat, NEW grid, DOMAIN grid = 1 .. m, NEW c \in Nat, NEW current, NEW next,
           NEW d \in Nat, SlotsBefore(grid, m, next) = d,
           \A i \in 1 .. d : i > c => Shown(k, current, grid[i]) = TrueAnswer(k, grid[i])
    PROVE  Filled(StateAt(k, grid, current, c), next) = StateAt(k, grid, current, d)
<1> DEFINE state == StateAt(k, grid, current, c)
           new == [i \in 1 .. d |-> IF i <= Len(SlotsTo(k, grid, c)) THEN SlotsTo(k, grid, c)[i]
                                    ELSE Shown(k, current, grid[i])]
<1>1. Len(SlotsTo(k, grid, c)) = c /\ \A i \in 1 .. c : SlotsTo(k, grid, c)[i] = TrueAnswer(k, grid[i])
  BY DEF SlotsTo
<1>2. new = SlotsTo(k, grid, d)
  <2>1. \A i \in 1 .. d : new[i] = TrueAnswer(k, grid[i])
    <3> SUFFICES ASSUME NEW i \in 1 .. d
                 PROVE  new[i] = TrueAnswer(k, grid[i])
      OBVIOUS
    <3>1. CASE i <= c
      <4>1. i \in 1 .. c
        BY <3>1
      <4> QED
        BY <1>1, <3>1, <4>1
    <3>2. CASE i > c
      BY <1>1, <3>2
    <3> QED
      BY <3>1, <3>2
  <2>2. new = [i \in 1 .. d |-> new[i]]
    OBVIOUS
  <2> HIDE DEF new
  <2>3. [i \in 1 .. d |-> new[i]] = [i \in 1 .. d |-> TrueAnswer(k, grid[i])]
    BY <2>1
  <2> QED
    BY <2>2, <2>3 DEF SlotsTo
<1>0. Cardinality({g \in DOMAIN grid : grid[g] < next}) = d
  BY DEF SlotsBefore
<1>3. Filled(state, next) = [state EXCEPT !.slots = new]
  BY <1>0 DEF Filled, StateAt
<1> HIDE DEF new
<1>4. [state EXCEPT !.slots = new] = [key |-> k, grid |-> grid, current |-> current, slots |-> new]
  BY DEF StateAt
<1> QED
  BY <1>2, <1>3, <1>4 DEF StateAt

LEMMA CurrentSet ==
    \A k, grid, a, b, c : [StateAt(k, grid, a, c) EXCEPT !.current = b] = StateAt(k, grid, b, c)
<1> SUFFICES ASSUME NEW k, NEW grid, NEW a, NEW b, NEW c
             PROVE  [StateAt(k, grid, a, c) EXCEPT !.current = b] = StateAt(k, grid, b, c)
  OBVIOUS
<1> DEFINE slots == SlotsTo(k, grid, c)
<1> HIDE DEF slots
<1>1. [[key |-> k, grid |-> grid, current |-> a, slots |-> slots] EXCEPT !.current = b]
         = [key |-> k, grid |-> grid, current |-> b, slots |-> slots]
  OBVIOUS
<1> QED
  BY <1>1 DEF StateAt, slots

LEMMA SampleIs ==
    ASSUME StreamsInv, NEW k \in Keys, NEW start \in Nat, floor <= start, NEW end \in Nat,
           NEW step, NEW m \in Nat, m = Steps(start, end, step),
           NEW grid, grid = GridOf(start, step, m), DOMAIN grid = 1 .. m,
           \A i \in 1 .. m : grid[i] \in Nat /\ start <= grid[i] /\ grid[i] < end,
           \A i, j \in 1 .. m : i < j => grid[i] < grid[j]
    PROVE  Sample(k, start, end, step) = SlotsTo(k, grid, m)
<1> DEFINE s == Scan(k, start, end)
           B == Between(k, start, end)
           Cur(j) == IF j = 0 THEN Predecessor(k, start) ELSE s[j]
           Count(next) == SlotsBefore(grid, m, next)
           C(j) == IF j = 0 THEN 0 ELSE Count(s[j].at)
           Reached(j) == StateAt(k, grid, Cur(j), C(j))
           base == [key |-> k, grid |-> grid, current |-> Predecessor(k, start), slots |-> <<>>]
<1>1. DOMAIN grid = 1 .. m
  OBVIOUS
<1>2. Sample(k, start, end, step) = Filled(FoldLeft(Visited, base, s), end).slots
  BY DEF Sample, GridOf
<1> HIDE DEF s
<1>3. PICK n \in Nat : /\ DOMAIN s = 1 .. n
                       /\ \A i \in 1 .. n : s[i] \in B
                       /\ \A f \in B : \E i \in 1 .. n : s[i] = f
                       /\ \A i, j \in 1 .. n : i < j => s[i].at < s[j].at
  BY ScanIs DEF s
<1>4. \A i \in 1 .. n : s[i].at \in Nat /\ s[i].at < end
  <2> SUFFICES ASSUME NEW i \in 1 .. n
               PROVE  s[i].at \in Nat /\ s[i].at < end
    OBVIOUS
  <2>1. s[i] \in Stored(k) /\ s[i].at < end
    BY <1>3 DEF Between
  <2>2. PICK l \in RowsIn(history, 0, Len(history)) : s[i] = FactOf(l, k)
    BY <2>1, StoredIs
  <2>3. history[l].at \in Nat
    BY GivenBound, RowIn DEF StreamsInv, HistoryOK
  <2> QED
    BY <2>1, <2>2, <2>3 DEF FactOf
<1>5. ASSUME NEW next \in Nat
      PROVE  /\ Count(next) \in 0 .. m /\ Count(next) \in Nat
             /\ \A i \in 1 .. m : i <= Count(next) <=> grid[i] < next
  <2>1. Count(next) \in 0 .. m /\ \A i \in 1 .. m : i <= Count(next) <=> grid[i] < next
    BY FirstSlots
  <2> HIDE DEF Count
  <2> QED
    BY <2>1
<1> HIDE DEF B, Count
<1>6. ASSUME NEW j \in 0 .. n
      PROVE  C(j) \in Nat
  <2>1. CASE j = 0
    BY <2>1
  <2>2. CASE j # 0
    <3>1. s[j].at \in Nat
      BY <1>4, <2>2
    <3>2. Count(s[j].at) \in Nat
      BY <1>5, <3>1
    <3> QED
      BY <2>2, <3>2
  <2> QED
    BY <2>1, <2>2
(* From one fact to the next, and to the end of the range.                 *)
<1>7. ASSUME NEW j \in 0 .. n, NEW next \in Nat, next <= end, j # n => next = s[j + 1].at
      PROVE  Filled(Reached(j), next) = StateAt(k, grid, Cur(j), Count(next))
  <2>1. ASSUME NEW i \in 1 .. Count(next), i > C(j)
        PROVE  Shown(k, Cur(j), grid[i]) = TrueAnswer(k, grid[i])
    <3>1. i \in 1 .. m /\ i <= Count(next)
      BY <1>5
    <3>2. grid[i] < next /\ grid[i] \in Nat /\ start <= grid[i] /\ grid[i] < end
      BY <1>5, <3>1
    <3>3. j # 0 => s[j].at <= grid[i]
      <4> SUFFICES ASSUME j # 0
                   PROVE  s[j].at <= grid[i]
        OBVIOUS
      <4>1. s[j].at \in Nat
        BY <1>4
      <4>2. C(j) = Count(s[j].at) /\ Count(s[j].at) \in Nat
        BY <1>5, <4>1
      <4>3. ~ (i <= Count(s[j].at))
        BY <2>1, <4>2
      <4>4. ~ (grid[i] < s[j].at)
        BY <1>5, <3>1, <4>1, <4>3
      <4> QED
        BY <3>2, <4>1, <4>4
    <3>4. j # n => grid[i] < s[j + 1].at
      BY <1>7, <3>2
    <3>5. Lists(s, n, k, start, end)
      BY <1>3 DEF B, Lists
    <3>6. Cur(j) = IF j = 0 THEN Predecessor(k, start) ELSE s[j]
      OBVIOUS
    <3> DEFINE at == grid[i]
               current == Cur(j)
    <3>8. at \in Nat /\ start <= at /\ at < end /\ (j # 0 => s[j].at <= at) /\ (j # n => at < s[j + 1].at)
      BY <3>2, <3>3, <3>4
    <3>9. current = IF j = 0 THEN Predecessor(k, start) ELSE s[j]
      BY <3>6
    <3> HIDE DEF Cur, C, at, current
    <3>10. Shown(k, current, at) = TrueAnswer(k, at)
      BY <3>5, <3>8, <3>9, SlotIs
    <3> QED
      BY <3>10 DEF at, current
  <2>2. C(j) \in Nat /\ Count(next) \in Nat
    BY <1>5, <1>6
  <2> HIDE DEF C, Cur
  <2>3. SlotsBefore(grid, m, next) = Count(next)
    BY DEF Count
  <2>4. \A i \in 1 .. Count(next) : i > C(j) => Shown(k, Cur(j), grid[i]) = TrueAnswer(k, grid[i])
    BY <2>1
  <2>5. Filled(StateAt(k, grid, Cur(j), C(j)), next) = StateAt(k, grid, Cur(j), Count(next))
    BY <1>1, <2>2, <2>3, <2>4, FilledIs
  <2> QED
    BY <2>5
<1> HIDE DEF base
<1>8. PICK f : Sampling!Run(f, base, s, n) /\ Sampling!Fold(base, s) = f[n]
  BY <1>3, Sampling!RunExists
<1>9. FoldLeft(Visited, base, s) = f[n]
  <2>1. FoldLeft(Visited, base, s) = Sampling!Fold(base, s)
    BY DEF Sampling!Fold, FoldLeft, MapThenFoldSet, Sampling!FoldLeft,
           Sampling!MapThenFoldSet, Max, Sampling!Max
  <2> QED
    BY <1>8, <2>1
<1>10. f[0] = base /\ \A j \in 1 .. n : f[j] = Visited(f[j - 1], s[j])
  BY <1>8 DEF Sampling!Run
<1>11. base = Reached(0)
  <2>1. SlotsTo(k, grid, 0) = <<>>
    BY DEF SlotsTo
  <2> QED
    BY <2>1 DEF StateAt, base
<1> DEFINE Wrong == {j \in 0 .. n : f[j] # Reached(j)}
<1>12. ASSUME Wrong # {}
       PROVE  FALSE
  <2>1. PICK j \in Wrong : \A i \in Wrong : j <= i
    <3>1. Wrong \subseteq Nat
      OBVIOUS
    <3> HIDE DEF Wrong
    <3> QED
      BY <1>12, <3>1, Sampling!LeastNumber
  <2>2. j # 0
    BY <1>10, <1>11, <2>1
  <2>3. j \in 1 .. n /\ j - 1 \in 0 .. n /\ j - 1 \notin Wrong /\ j - 1 # n /\ j - 1 + 1 = j
    BY <2>1, <2>2
  <2>4. f[j - 1] = Reached(j - 1)
    BY <2>3
  <2> DEFINE next == s[j].at
             p == j - 1
  <2>5. next \in Nat /\ next <= end
    BY <1>4, <2>3
  <2>6. p \in 0 .. n /\ p # n /\ p + 1 = j
    BY <2>3
  <2> HIDE DEF Reached, next, p
  <2>7. Filled(Reached(p), next) = StateAt(k, grid, Cur(p), Count(next))
    <3>1. next = s[p + 1].at
      BY <2>6 DEF next
    <3> QED
      BY <1>7, <2>5, <2>6, <3>1
  <2>8. f[j] = [Filled(Reached(p), next) EXCEPT !.current = s[j]]
    BY <1>10, <2>3, <2>4 DEF Visited, next, p
  <2>9. f[j] = StateAt(k, grid, s[j], Count(next))
    <3>1. f[j] = [StateAt(k, grid, Cur(p), Count(next)) EXCEPT !.current = s[j]]
      BY <2>7, <2>8
    <3> HIDE DEF Cur, C
    <3> QED
      BY <3>1, CurrentSet
  <2>10. Cur(j) = s[j] /\ C(j) = Count(next)
    BY <2>3 DEF next
  <2> QED
    BY <2>1, <2>9, <2>10 DEF Reached
<1>13. f[n] = Reached(n)
  BY <1>12
<1> HIDE DEF Reached
<1>14. Filled(Reached(n), end) = StateAt(k, grid, Cur(n), Count(end))
  BY <1>7
<1>15. Count(end) = m
  <2>1. Count(end) \in 0 .. m /\ \A i \in 1 .. m : i <= Count(end)
    BY <1>5
  <2>2. m # 0 => m \in 1 .. m
    OBVIOUS
  <2> QED
    BY <2>1, <2>2
<1> QED
  BY <1>2, <1>9, <1>13, <1>14, <1>15 DEF StateAt

-----------------------------------------------------------------------------
(***************************************************************************)
(* The times of a sample.                                                  *)
(***************************************************************************)
(* What division by a step leaves.                                         *)
LEMMA Divided ==
    ASSUME NEW a \in Nat, NEW b \in Nat, b > 0
    PROVE  /\ a \div b \in Nat /\ a % b \in Nat /\ a % b < b
           /\ b * (a \div b) + (a % b) = a
<1>1. a \div b \in Nat /\ a % b \in Nat /\ a % b < b
  OBVIOUS
<1>2. b * (a \div b) + (a % b) = a
  OBVIOUS
<1> QED
  BY <1>1, <1>2

LEMMA NoLess ==
    ASSUME NEW b \in Nat, NEW p \in Nat, NEW q \in Nat, p <= q
    PROVE  b * p <= b * q /\ b * p \in Nat
<1>1. PICK d \in Nat : q = p + d
  <2>1. q - p \in Nat /\ q = p + (q - p)
    OBVIOUS
  <2> QED
    BY <2>1
<1>2. b * q = b * p + b * d
  BY <1>1
<1>3. b * p \in Nat /\ b * d \in Nat
  BY <1>1
<1> QED
  BY <1>2, <1>3

(* A number is divided in one way only.                                    *)
LEMMA DividedOnce ==
    ASSUME NEW b \in Nat, NEW p \in Nat, NEW q \in Nat, NEW r \in Nat, NEW x \in Nat,
           r < b, x < b, b * p + r = b * q + x
    PROVE  p = q /\ r = x
<1>1. ASSUME NEW u \in Nat, NEW v \in Nat, u < v
      PROVE  b * v >= b * u + b /\ b * u \in Nat /\ b * v \in Nat
  <2>1. u + 1 \in Nat /\ u + 1 <= v
    BY <1>1
  <2>2. b * (u + 1) <= b * v /\ b * (u + 1) \in Nat /\ b * u \in Nat /\ b * v \in Nat
    BY <1>1, <2>1, NoLess
  <2>3. b * (u + 1) = b * u + b
    OBVIOUS
  <2> QED
    BY <2>2, <2>3
<1>2. ~ (p < q)
  BY <1>1
<1>3. ~ (q < p)
  BY <1>1
<1>4. p = q
  BY <1>2, <1>3
<1> QED
  BY <1>4

(* The slots are the times asked for, and as many as measure_grid says.    *)
LEMMA GridIs ==
    ASSUME NEW start \in Nat, NEW end \in Nat, start < end, NEW step \in Nat, step > 0,
           NEW m, m = Steps(start, end, step), NEW grid, grid = GridOf(start, step, m)
    PROVE  /\ m \in Nat /\ DOMAIN grid = 1 .. m
           /\ \A i \in 1 .. m : /\ grid[i] = start + (i - 1) * step
                                /\ grid[i] \in Nat /\ start <= grid[i] /\ grid[i] < end
           /\ \A i, j \in 1 .. m : i < j => grid[i] < grid[j]
           /\ Cardinality({t \in start .. end - 1 : (t - start) % step = 0}) = m
<1> DEFINE a == end - start + step - 1
           r == a % step
           asked == {t \in start .. end - 1 : (t - start) % step = 0}
           f == [t \in asked |-> (t - start) \div step + 1]
<1>1. a \in Nat
  OBVIOUS
<1>2. m \in Nat /\ r \in Nat /\ r < step /\ step * m + r = a
  <2> HIDE DEF a
  <2>1. m = a \div step
    BY DEF a, Steps
  <2> QED
    BY <1>1, <2>1, Divided
<1>3. DOMAIN grid = 1 .. m
  BY DEF GridOf
<1>4. ASSUME NEW i \in 1 .. m
      PROVE  /\ grid[i] = start + step * (i - 1) /\ grid[i] = start + (i - 1) * step
             /\ step * (i - 1) \in Nat /\ i - 1 \in Nat
             /\ grid[i] \in Nat /\ start <= grid[i] /\ grid[i] < end
  <2>1. grid[i] = start + (i - 1) * step
    BY DEF GridOf
  <2>2. i - 1 \in Nat /\ m - 1 \in Nat /\ i - 1 <= m - 1
    BY <1>2
  <2>3. step * (i - 1) <= step * (m - 1) /\ step * (i - 1) \in Nat
    BY <2>2, NoLess
  <2>4. step * (m - 1) = step * m - step
    BY <1>2
  <2>5. step * m <= a
    <3>1. step * m \in Nat
      BY <1>2
    <3> QED
      BY <1>1, <1>2, <3>1
  <2>6. step * (m - 1) < end - start
    <3>1. step * m \in Nat
      BY <1>2
    <3> QED
      BY <2>4, <2>5, <3>1
  <2>7. (i - 1) * step = step * (i - 1)
    BY <2>2
  <2>8. step * (m - 1) \in Int
    BY <2>2
  <2> QED
    BY <2>1, <2>2, <2>3, <2>6, <2>7, <2>8
<1>5. ASSUME NEW i \in 1 .. m, NEW j \in 1 .. m, i < j
      PROVE  grid[i] < grid[j]
  <2>1. i \in Nat /\ j - 1 \in Nat /\ i <= j - 1
    BY <1>2, <1>5
  <2>2. step * i <= step * (j - 1) /\ step * i \in Nat
    BY <2>1, NoLess
  <2>3. step * (i - 1) = step * i - step
    BY <2>1
  <2>4. grid[i] = start + step * (i - 1) /\ grid[j] = start + step * (j - 1)
        /\ step * (j - 1) \in Nat
    BY <1>4
  <2> QED
    BY <2>2, <2>3, <2>4
<1>6. ASSUME NEW t \in asked
      PROVE  f[t] \in 1 .. m /\ t = start + step * (f[t] - 1)
  <2> DEFINE b == t - start
             q == b \div step
  <2>1. b \in Nat /\ b % step = 0 /\ t \in start .. end - 1
    OBVIOUS
  <2>2. f[t] = q + 1
    OBVIOUS
  <2> HIDE DEF b, f
  <2>3. q \in Nat /\ step * q = b
    <3>1. q \in Nat /\ b % step \in Nat /\ step * q + (b % step) = b
      BY <2>1, Divided
    <3> QED
      BY <2>1, <3>1
  <2> HIDE DEF q
  <2>4. q < m
    <3> SUFFICES ASSUME m <= q
                 PROVE  FALSE
      BY <1>2, <2>3
    <3>1. step * m <= step * q /\ step * m \in Nat
      BY <1>2, <2>3, NoLess
    <3>2. b < end - start /\ b \in Nat
      BY <2>1 DEF b
    <3> QED
      BY <1>2, <2>3, <3>1, <3>2
  <2>5. t = start + b
    BY <2>1 DEF b
  <2> QED
    BY <1>2, <2>2, <2>3, <2>4, <2>5
<1>7. ASSUME NEW i \in 1 .. m
      PROVE  grid[i] \in asked /\ f[grid[i]] = i
  <2> DEFINE t == grid[i]
             b == t - start
  <2>1. t \in start .. end - 1 /\ b \in Nat /\ b = step * (i - 1) /\ i - 1 \in Nat
    BY <1>4
  <2> HIDE DEF t, b
  <2>2. b \div step \in Nat /\ b % step \in Nat /\ b % step < step
        /\ step * (b \div step) + (b % step) = b
    BY <2>1, Divided
  <2>3. b \div step = i - 1 /\ b % step = 0
    <3>1. step * (b \div step) + (b % step) = step * (i - 1) + 0 /\ 0 \in Nat /\ 0 < step
      BY <2>1, <2>2
    <3> QED
      BY <2>1, <2>2, <3>1, DividedOnce
  <2>4. t \in asked
    BY <2>1, <2>3 DEF b
  <2>5. f[t] = b \div step + 1
    BY <2>4 DEF b
  <2> QED
    BY <2>3, <2>4, <2>5 DEF t
<1> DEFINE c == 0
<1> HIDE DEF f, asked
<1>8. Cardinality(asked) = m - c
  <2>0. c \in Nat /\ c <= m /\ c + 1 = 1
    BY <1>2
  <2> HIDE DEF c
  <2>1. \A t \in asked : f[t] \in c + 1 .. m
    BY <1>6, <2>0
  <2>2. \A i \in c + 1 .. m : \E t \in asked : f[t] = i
    BY <1>7, <2>0
  <2>4. m \in Nat
    BY <1>2
  <2>3. \A t, u \in asked : f[t] = f[u] => t = u
    BY <1>6
  <2> QED
    BY <2>4, <2>0, <2>1, <2>2, <2>3, CountIs
<1>9. Cardinality(asked) = m
  BY <1>2, <1>8
<1> QED
  BY <1>2, <1>3, <1>4, <1>5, <1>9 DEF asked

LEMMA SamplesAre ==
    ASSUME StreamsInv
    PROVE  SamplesTrue
<1> SUFFICES ASSUME NEW k \in Asked, NEW range \in Ranges, NEW step \in Widths
             PROVE  Sample(k, range[1], range[2], step) =
                        [i \in 1 .. Cardinality({t \in range[1] .. range[2] - 1 :
                                                     (t - range[1]) % step = 0}) |->
                            TrueAnswer(k, range[1] + (i - 1) * step)]
  BY DEF SamplesTrue
<1> DEFINE start == range[1]
           end == range[2]
           m == Steps(start, end, step)
           grid == GridOf(start, step, m)
<1>1. /\ start \in Nat /\ end \in Nat /\ floor <= start /\ start < end
      /\ step \in Nat /\ step > 0 /\ k \in Keys
  BY StreamsAssumption DEF Ranges, Asked
<1> HIDE DEF start, end, m, grid
<1>2. /\ m \in Nat /\ DOMAIN grid = 1 .. m
      /\ \A i \in 1 .. m : /\ grid[i] = start + (i - 1) * step
                           /\ grid[i] \in Nat /\ start <= grid[i] /\ grid[i] < end
      /\ \A i, j \in 1 .. m : i < j => grid[i] < grid[j]
      /\ Cardinality({t \in start .. end - 1 : (t - start) % step = 0}) = m
  <2>1. m = Steps(start, end, step) /\ grid = GridOf(start, step, m)
    BY DEF m, grid
  <2> QED
    BY <1>1, <2>1, GridIs
<1>3. Sample(k, start, end, step) = SlotsTo(k, grid, m)
  <2>1. m = Steps(start, end, step) /\ grid = GridOf(start, step, m)
    BY DEF m, grid
  <2>2. \A i \in 1 .. m : grid[i] \in Nat /\ start <= grid[i] /\ grid[i] < end
    BY <1>2
  <2>3. \A i, j \in 1 .. m : i < j => grid[i] < grid[j]
    BY <1>2
  <2>4. m \in Nat /\ DOMAIN grid = 1 .. m
    BY <1>2
  <2> QED
    BY <1>1, <2>1, <2>2, <2>3, <2>4, SampleIs
<1>4. SlotsTo(k, grid, m) = [i \in 1 .. m |-> TrueAnswer(k, start + (i - 1) * step)]
  BY <1>2 DEF SlotsTo
<1> QED
  BY <1>2, <1>3, <1>4 DEF start, end

-----------------------------------------------------------------------------
(***************************************************************************)
(* Aggregates: values, and one fact more in a bucket.                      *)
(***************************************************************************)
Number(k, v) == v \in Nat /\ (k[2] \in FloatFields => v < 2 * SignBit)

(* The key of the bits of a float has their order.                         *)
LEMMA OrderIs ==
    ASSUME NEW k, NEW v, NEW w, Number(k, v), Number(k, w)
    PROVE  /\ Order(k, v) \in Nat
           /\ Before(k, v, w) <=> Order(k, v) < Order(k, w)
           /\ Order(k, v) = Order(k, w) => v = w
<1>1. v \in Nat /\ w \in Nat /\ SignBit \in Nat
  BY CellsAssumption DEF Number
<1>2. CASE k[2] \in FloatFields
  <2>1. v < 2 * SignBit /\ w < 2 * SignBit
    BY <1>2 DEF Number
  <2> QED
    BY <1>1, <1>2, <2>1 DEF Order, OrderKey, Before
<1>3. CASE k[2] \notin FloatFields
  BY <1>1, <1>3 DEF Order, Before
<1> QED
  BY <1>2, <1>3

Lower(k, values, m) == \A w \in values : Order(k, m) <= Order(k, w)
Upper(k, values, m) == \A w \in values : Order(k, w) <= Order(k, m)

LEMMA LowestIs ==
    ASSUME NEW k, NEW values, \A v \in values : Number(k, v), NEW m \in values,
           Lower(k, values, m)
    PROVE  Lowest(k, values) = [value |-> m]
<1>1. ASSUME NEW v \in values
      PROVE  (\A w \in values : ~ Before(k, w, v)) <=> v = m
  <2>1. ASSUME NEW w \in values
        PROVE  /\ Order(k, v) \in Nat /\ Order(k, w) \in Nat
               /\ Before(k, w, v) <=> Order(k, w) < Order(k, v)
               /\ Order(k, v) = Order(k, w) => v = w
    BY OrderIs
  <2>2. CASE v = m
    BY <2>1, <2>2 DEF Lower
  <2>3. CASE v # m
    <3>1. Order(k, m) < Order(k, v)
      BY <2>1, <2>3 DEF Lower
    <3> QED
      BY <2>1, <2>3, <3>1
  <2> QED
    BY <2>2, <2>3
<1>2. (CHOOSE v \in values : \A w \in values : ~ Before(k, w, v)) = m
  BY <1>1
<1> QED
  BY <1>2 DEF Lowest

LEMMA HighestIs ==
    ASSUME NEW k, NEW values, \A v \in values : Number(k, v), NEW m \in values,
           Upper(k, values, m)
    PROVE  Highest(k, values) = [value |-> m]
<1>1. ASSUME NEW v \in values
      PROVE  (\A w \in values : ~ Before(k, v, w)) <=> v = m
  <2>1. ASSUME NEW w \in values
        PROVE  /\ Order(k, v) \in Nat /\ Order(k, w) \in Nat
               /\ Before(k, v, w) <=> Order(k, v) < Order(k, w)
               /\ Order(k, v) = Order(k, w) => v = w
    BY OrderIs
  <2>2. CASE v = m
    BY <2>1, <2>2 DEF Upper
  <2>3. CASE v # m
    <3>1. Order(k, v) < Order(k, m)
      BY <2>1, <2>3 DEF Upper
    <3> QED
      BY <2>1, <2>3, <3>1
  <2> QED
    BY <2>2, <2>3
<1>2. (CHOOSE v \in values : \A w \in values : ~ Before(k, v, w)) = m
  BY <1>1
<1> QED
  BY <1>2 DEF Highest

(* A value more, compared with the extremes there were.                    *)
Extremes(k, values) ==
    values # {} => /\ \E m \in values : Lower(k, values, m)
                   /\ \E m \in values : Upper(k, values, m)
Least(k, low, v) ==
    IF low # None /\ Order(k, low.value) <= Order(k, v) THEN low ELSE [value |-> v]
Most(k, high, v) ==
    IF high # None /\ Order(k, high.value) >= Order(k, v) THEN high ELSE [value |-> v]

LEMMA NotNone == \A v : [value |-> v] # None /\ [value |-> v].value = v
<1> SUFFICES ASSUME NEW v
             PROVE  [value |-> v] # None
  OBVIOUS
<1>1. DOMAIN [value |-> v] = {"value"} /\ DOMAIN None = {"none"}
  BY DEF None
<1> QED
  BY <1>1

LEMMA ExtremesAdd ==
    ASSUME NEW k, NEW values, \A w \in values : Number(k, w), NEW v, Number(k, v),
           Extremes(k, values)
    PROVE  /\ Extremes(k, values \cup {v})
           /\ Lowest(k, values \cup {v}) = Least(k, Lowest(k, values), v)
           /\ Highest(k, values \cup {v}) = Most(k, Highest(k, values), v)
<1> DEFINE more == values \cup {v}
<1>1. \A w \in more : Number(k, w)
  OBVIOUS
<1>2. \A w \in more : Order(k, w) \in Nat
  BY <1>1, OrderIs
<1>3. CASE values = {}
  <2>1. more = {v} /\ Lower(k, more, v) /\ Upper(k, more, v)
    BY <1>2, <1>3 DEF Lower, Upper
  <2>2. Extremes(k, more)
    BY <2>1 DEF Extremes
  <2>3. Lowest(k, more) = [value |-> v] /\ Highest(k, more) = [value |-> v]
    BY <1>1, <2>1, LowestIs, HighestIs
  <2>4. Lowest(k, values) = None /\ Highest(k, values) = None
    BY <1>3 DEF Lowest, Highest
  <2> QED
    BY <2>2, <2>3, <2>4 DEF Least, Most
<1>4. CASE values # {}
  <2>1. PICK low \in values : Lower(k, values, low)
    BY <1>4 DEF Extremes
  <2>2. PICK high \in values : Upper(k, values, high)
    BY <1>4 DEF Extremes
  <2>3. Lowest(k, values) = [value |-> low] /\ Highest(k, values) = [value |-> high]
    BY <2>1, <2>2, LowestIs, HighestIs
  <2>4. /\ Order(k, low) \in Nat /\ Order(k, high) \in Nat /\ Order(k, v) \in Nat
        /\ low \in more /\ high \in more /\ v \in more
    BY <1>2
  <2>5. \E m \in more : /\ Lower(k, more, m)
                        /\ [value |-> m] = Least(k, [value |-> low], v)
    <3>1. CASE Order(k, low) <= Order(k, v)
      <4>1. Lower(k, more, low)
        BY <1>2, <2>1, <2>4, <3>1 DEF Lower
      <4>2. Least(k, [value |-> low], v) = [value |-> low]
        BY <3>1, NotNone DEF Least
      <4> QED
        BY <2>4, <4>1, <4>2
    <3>2. CASE ~ (Order(k, low) <= Order(k, v))
      <4>1. Lower(k, more, v)
        BY <1>2, <2>1, <2>4, <3>2 DEF Lower
      <4>2. Least(k, [value |-> low], v) = [value |-> v]
        BY <3>2, NotNone DEF Least
      <4> QED
        BY <2>4, <4>1, <4>2
    <3> QED
      BY <3>1, <3>2
  <2>6. \E m \in more : /\ Upper(k, more, m)
                        /\ [value |-> m] = Most(k, [value |-> high], v)
    <3>1. CASE Order(k, high) >= Order(k, v)
      <4>1. Upper(k, more, high)
        BY <1>2, <2>2, <2>4, <3>1 DEF Upper
      <4>2. Most(k, [value |-> high], v) = [value |-> high]
        BY <3>1, NotNone DEF Most
      <4> QED
        BY <2>4, <4>1, <4>2
    <3>2. CASE ~ (Order(k, high) >= Order(k, v))
      <4>1. Upper(k, more, v)
        BY <1>2, <2>2, <2>4, <3>2 DEF Upper
      <4>2. Most(k, [value |-> high], v) = [value |-> v]
        BY <3>2, NotNone DEF Most
      <4> QED
        BY <2>4, <4>1, <4>2
    <3> QED
      BY <3>1, <3>2
  <2> HIDE DEF more
  <2>7. Lowest(k, more) = Least(k, Lowest(k, values), v)
    BY <1>1, <2>3, <2>5, LowestIs
  <2>8. Highest(k, more) = Most(k, Highest(k, values), v)
    BY <1>1, <2>3, <2>6, HighestIs
  <2>9. Extremes(k, more)
    BY <2>5, <2>6 DEF Extremes
  <2> QED
    BY <2>7, <2>8, <2>9 DEF more
<1> QED
  BY <1>3, <1>4

CountedIn(k, rows) == {i \in rows : history[i].cells[k] # Null}
Vals(k, rows) == {history[i].cells[k] : i \in CountedIn(k, rows)}
Pile(k, rows) == UNION {{i} \X (1 .. history[i].cells[k]) : i \in CountedIn(k, rows)}
Bucket(from, until, partial, count, nulls, min, max, sum) ==
    [from |-> from, until |-> until, partial |-> partial, count |-> count, nulls |-> nulls,
     min |-> min, max |-> max, sum |-> sum]
SumOf(k, rows) == IF k[2] \in FloatFields THEN 0 ELSE Cardinality(Pile(k, rows))
BucketOf(k, where, rows) ==
    Bucket(where.from, where.until, where.partial, Cardinality(rows),
           Cardinality(rows \ CountedIn(k, rows)), Lowest(k, Vals(k, rows)),
           Highest(k, Vals(k, rows)), SumOf(k, rows))

(* The facts of some rows can be counted.                                  *)
Tallied(k, rows) ==
    /\ IsFiniteSet(rows) /\ IsFiniteSet(Pile(k, rows))
    /\ Extremes(k, Vals(k, rows))
    /\ \A i \in rows : history[i].cells[k] = Null \/ Number(k, history[i].cells[k])

LEMMA BucketStart ==
    ASSUME NEW k, NEW where
    PROVE  NewBucket(where) = BucketOf(k, where, {}) /\ Tallied(k, {})
<1>1. CountedIn(k, {}) = {} /\ Vals(k, {}) = {} /\ Pile(k, {}) = {}
  BY DEF CountedIn, Vals, Pile
<1>2. Cardinality({}) = 0 /\ IsFiniteSet({})
  BY FS_EmptySet
<1>3. Lowest(k, {}) = None /\ Highest(k, {}) = None
  BY DEF Lowest, Highest
<1>4. SumOf(k, {}) = 0 /\ Cardinality({} \ CountedIn(k, {})) = 0
  <2>1. {} \ {} = {}
    OBVIOUS
  <2> QED
    BY <1>1, <1>2, <2>1 DEF SumOf
<1> QED
  BY <1>1, <1>2, <1>3, <1>4 DEF NewBucket, BucketOf, Bucket, Tallied, Extremes

(* One value more in a bucket.                                            *)
LEMMA ObservedIs ==
    ASSUME NEW k, NEW from, NEW until, NEW partial, NEW count, NEW nulls, NEW min, NEW max, NEW sum,
           NEW v, NEW b, b = Bucket(from, until, partial, count, nulls, min, max, sum)
    PROVE  Observed(k, b, v) =
               IF v = Null THEN Bucket(from, until, partial, count + 1, nulls + 1, min, max, sum)
               ELSE Bucket(from, until, partial, count + 1, nulls, Least(k, min, v),
                           Most(k, max, v), IF k[2] \in FloatFields THEN 0 ELSE sum + v)
<1>1. CASE v = Null
  <2>1. Observed(k, b, v) = [b EXCEPT !.count = @ + 1, !.nulls = @ + 1]
    BY <1>1 DEF Observed
  <2>2. [b EXCEPT !.count = @ + 1, !.nulls = @ + 1]
           = Bucket(from, until, partial, count + 1, nulls + 1, min, max, sum)
    <3>1. b = [from |-> from, until |-> until, partial |-> partial, count |-> count,
               nulls |-> nulls, min |-> min, max |-> max, sum |-> sum]
      BY DEF Bucket
    <3>2. b.count = count /\ b.nulls = nulls
      BY <3>1
    <3>3. [b EXCEPT !.count = @ + 1, !.nulls = @ + 1]
             = [[b EXCEPT !.count = count + 1] EXCEPT !.nulls = nulls + 1]
      BY <3>2
    <3>4. [b EXCEPT !.count = count + 1]
             = Bucket(from, until, partial, count + 1, nulls, min, max, sum)
      BY DEF Bucket
    <3>5. [Bucket(from, until, partial, count + 1, nulls, min, max, sum) EXCEPT !.nulls = nulls + 1]
             = Bucket(from, until, partial, count + 1, nulls + 1, min, max, sum)
      BY DEF Bucket
    <3> QED
      BY <3>3, <3>4, <3>5
  <2> QED
    BY <1>1, <2>1, <2>2
<1>2. CASE v # Null
  <2> DEFINE low == Least(k, min, v)
             high == Most(k, max, v)
             total == IF k[2] \in FloatFields THEN 0 ELSE sum + v
  <2>1. Observed(k, b, v) =
           [b EXCEPT !.count = @ + 1,
                     !.min = IF @ # None /\ Order(k, @.value) <= Order(k, v) THEN @ ELSE [value |-> v],
                     !.max = IF @ # None /\ Order(k, @.value) >= Order(k, v) THEN @ ELSE [value |-> v],
                     !.sum = IF k[2] \in FloatFields THEN 0 ELSE @ + v]
    BY <1>2 DEF Observed
  <2>2. b.count = count /\ b.min = min /\ b.max = max /\ b.sum = sum
    BY DEF Bucket
  <2>3. Observed(k, b, v) =
           [b EXCEPT !.count = count + 1, !.min = low, !.max = high, !.sum = total]
    BY <2>1, <2>2 DEF Least, Most
  <2> HIDE DEF low, high, total
  <2>4. [b EXCEPT !.count = count + 1, !.min = low, !.max = high, !.sum = total]
           = Bucket(from, until, partial, count + 1, nulls, low, high, total)
    <3>1. [b EXCEPT !.count = count + 1, !.min = low, !.max = high, !.sum = total]
             = [[[[b EXCEPT !.count = count + 1] EXCEPT !.min = low] EXCEPT !.max = high]
                   EXCEPT !.sum = total]
      OBVIOUS
    <3>2. [b EXCEPT !.count = count + 1]
             = Bucket(from, until, partial, count + 1, nulls, min, max, sum)
      BY DEF Bucket
    <3>3. [Bucket(from, until, partial, count + 1, nulls, min, max, sum) EXCEPT !.min = low]
             = Bucket(from, until, partial, count + 1, nulls, low, max, sum)
      BY DEF Bucket
    <3>4. [Bucket(from, until, partial, count + 1, nulls, low, max, sum) EXCEPT !.max = high]
             = Bucket(from, until, partial, count + 1, nulls, low, high, sum)
      BY DEF Bucket
    <3>5. [Bucket(from, until, partial, count + 1, nulls, low, high, sum) EXCEPT !.sum = total]
             = Bucket(from, until, partial, count + 1, nulls, low, high, total)
      BY DEF Bucket
    <3> QED
      BY <3>1, <3>2, <3>3, <3>4, <3>5
  <2> QED
    BY <1>2, <2>3, <2>4 DEF low, high, total
<1> QED
  BY <1>1, <1>2

LEMMA BucketAdd ==
    ASSUME NEW k, NEW where, NEW rows, Tallied(k, rows), NEW i, i \notin rows,
           history[i].cells[k] = Null \/ Number(k, history[i].cells[k])
    PROVE  /\ Observed(k, BucketOf(k, where, rows), history[i].cells[k])
                 = BucketOf(k, where, rows \cup {i})
           /\ Tallied(k, rows \cup {i})
<1> DEFINE v == history[i].cells[k]
           more == rows \cup {i}
           c == CountedIn(k, rows)
<1>1. /\ IsFiniteSet(more) /\ Cardinality(more) = Cardinality(rows) + 1
      /\ Cardinality(rows) \in Nat
  BY FS_AddElement, FS_CardinalityType DEF Tallied
<1>2. c \subseteq rows
  BY DEF CountedIn
<1>3. IsFiniteSet(rows \ c) /\ Cardinality(rows \ c) \in Nat
  <2>1. rows \ c \in SUBSET rows
    OBVIOUS
  <2> QED
    BY <2>1, FS_Subset, FS_CardinalityType DEF Tallied
<1>4. \A j \in more : history[j].cells[k] = Null \/ Number(k, history[j].cells[k])
  BY DEF Tallied
<1>5. Observed(k, BucketOf(k, where, rows), v) =
          IF v = Null
          THEN Bucket(where.from, where.until, where.partial, Cardinality(rows) + 1,
                      Cardinality(rows \ c) + 1, Lowest(k, Vals(k, rows)),
                      Highest(k, Vals(k, rows)), SumOf(k, rows))
          ELSE Bucket(where.from, where.until, where.partial, Cardinality(rows) + 1,
                      Cardinality(rows \ c), Least(k, Lowest(k, Vals(k, rows)), v),
                      Most(k, Highest(k, Vals(k, rows)), v),
                      IF k[2] \in FloatFields THEN 0 ELSE SumOf(k, rows) + v)
  <2> HIDE DEF v
  <2> QED
    BY ObservedIs DEF BucketOf
<1>6. CASE v = Null
  <2>1. CountedIn(k, more) = c
    BY <1>6 DEF CountedIn
  <2>2. Vals(k, more) = Vals(k, rows) /\ Pile(k, more) = Pile(k, rows)
    BY <2>1 DEF Vals, Pile
  <2>3. more \ c = (rows \ c) \cup {i} /\ i \notin rows \ c
    BY <1>2
  <2>4. Cardinality(more \ c) = Cardinality(rows \ c) + 1
    BY <1>3, <2>3, FS_AddElement
  <2>5. SumOf(k, more) = SumOf(k, rows)
    BY <2>2 DEF SumOf
  <2>6. Tallied(k, more)
    BY <1>1, <1>4, <2>2 DEF Tallied
  <2> HIDE DEF c, v, more
  <2>7. Observed(k, BucketOf(k, where, rows), v) = BucketOf(k, where, more)
    BY <1>1, <1>5, <1>6, <2>1, <2>2, <2>4, <2>5 DEF BucketOf
  <2> QED
    BY <2>6, <2>7 DEF more, v
<1>7. CASE v # Null
  <2>1. CountedIn(k, more) = c \cup {i} /\ i \notin c
    BY <1>2, <1>7 DEF CountedIn
  <2>2. Vals(k, more) = Vals(k, rows) \cup {v}
    BY <2>1 DEF Vals
  <2>3. Pile(k, more) = Pile(k, rows) \cup ({i} \X (1 .. v))
    BY <2>1 DEF Pile
  <2>4. Number(k, v) /\ v \in Nat
    BY <1>7 DEF Number
  <2>5. \A w \in Vals(k, rows) : Number(k, w)
    BY DEF Vals, CountedIn, Tallied
  <2>6. /\ Extremes(k, Vals(k, more))
        /\ Lowest(k, Vals(k, more)) = Least(k, Lowest(k, Vals(k, rows)), v)
        /\ Highest(k, Vals(k, more)) = Most(k, Highest(k, Vals(k, rows)), v)
    <3>1. Extremes(k, Vals(k, rows))
      BY DEF Tallied
    <3> DEFINE values == Vals(k, rows)
    <3> HIDE DEF v, values
    <3>2. /\ Extremes(k, values \cup {v})
          /\ Lowest(k, values \cup {v}) = Least(k, Lowest(k, values), v)
          /\ Highest(k, values \cup {v}) = Most(k, Highest(k, values), v)
      BY <2>4, <2>5, <3>1, ExtremesAdd DEF values
    <3> QED
      BY <2>2, <3>2 DEF values
  <2>7. /\ IsFiniteSet({i} \X (1 .. v)) /\ Cardinality({i} \X (1 .. v)) = v
    <3>1. IsFiniteSet({i}) /\ Cardinality({i}) = 1
      BY FS_Singleton
    <3> HIDE DEF v
    <3>2. IsFiniteSet(1 .. v) /\ Cardinality(1 .. v) = v
      <4>1. v \in Int /\ 1 \in Int /\ (IF 1 > v THEN 0 ELSE v - 1 + 1) = v
        BY <2>4
      <4> QED
        BY <4>1, FS_Interval
    <3> DEFINE one == {i}
               units_ == 1 .. v
    <3> HIDE DEF one, units_
    <3>3. Cardinality(one \X units_) = Cardinality(one) * Cardinality(units_) /\ IsFiniteSet(one \X units_)
      BY <3>1, <3>2, FS_Product DEF one, units_
    <3>4. Cardinality(one) = 1 /\ Cardinality(units_) = v
      BY <3>1, <3>2 DEF one, units_
    <3>5. Cardinality(one \X units_) = v
      BY <2>4, <3>3, <3>4
    <3> QED
      BY <3>3, <3>5 DEF one, units_
  <2>8. Pile(k, rows) \cap ({i} \X (1 .. v)) = {}
    BY <2>1 DEF Pile
  <2>9. IsFiniteSet(Pile(k, more)) /\ Cardinality(Pile(k, more)) = Cardinality(Pile(k, rows)) + v
    <3> DEFINE a == Pile(k, rows)
               b == {i} \X (1 .. v)
    <3>1. IsFiniteSet(a) /\ IsFiniteSet(b) /\ a \cap b = {} /\ Cardinality(b) = v
      BY <2>7, <2>8 DEF Tallied
    <3> HIDE DEF a, b, v
    <3>2. Cardinality(a) \in Nat /\ Cardinality(a \cap b) = 0
      BY <3>1, FS_CardinalityType, FS_EmptySet
    <3>3. IsFiniteSet(a \cup b) /\ Cardinality(a \cup b) = Cardinality(a) + Cardinality(b) - Cardinality(a \cap b)
      BY <3>1, FS_Union
    <3>4. IsFiniteSet(a \cup b) /\ Cardinality(a \cup b) = Cardinality(a) + v
      BY <2>4, <3>1, <3>2, <3>3
    <3> QED
      BY <2>3, <3>4 DEF a, b
  <2>10. SumOf(k, more) = IF k[2] \in FloatFields THEN 0 ELSE SumOf(k, rows) + v
    BY <2>9 DEF SumOf
  <2>11. more \ CountedIn(k, more) = rows \ c
    BY <1>2, <2>1
  <2>12. Tallied(k, more)
    BY <1>1, <1>4, <2>6, <2>9 DEF Tallied
  <2> HIDE DEF c, v, more
  <2>13. Observed(k, BucketOf(k, where, rows), v) = BucketOf(k, where, more)
    BY <1>1, <1>5, <1>7, <2>6, <2>10, <2>11 DEF BucketOf
  <2> QED
    BY <2>12, <2>13 DEF more, v
<1> QED
  BY <1>6, <1>7

-----------------------------------------------------------------------------
(***************************************************************************)
(* Buckets: their times.                                                   *)
(***************************************************************************)
Until(r, width, n) == IF First(r, width, n) + width < r[2] THEN First(r, width, n) + width ELSE r[2]
IsRange(r, width) ==
    r[1] \in Nat /\ r[2] \in Nat /\ r[1] < r[2] /\ width \in Nat /\ width > 0
Index(r, width, t) == (t - r[1]) \div width
Where(r, width, n) ==
    [from |-> First(r, width, n),
     until |-> First(r, width, n) + Cardinality(Span(r, width, n)),
     partial |-> \/ Cardinality(Span(r, width, n)) < width
                 \/ MayGrow(r, width, n) \/ JustFilled(r, width, n)]

LEMMA FirstIs ==
    ASSUME NEW r, NEW width, IsRange(r, width), NEW n \in Nat
    PROVE  /\ First(r, width, n) \in Nat /\ First(r, width, n) >= r[1]
           /\ First(r, width, n + 1) = First(r, width, n) + width
<1>1. r[1] \in Nat /\ width \in Nat
  BY DEF IsRange
<1>2. width * n \in Nat /\ width * n = n * width
  <2>1. width * n \in Nat
    BY <1>1, NoLess
  <2>2. width * n = n * width
    BY <1>1
  <2> QED
    BY <2>1, <2>2
<1>3. (n + 1) * width = n * width + width
  BY <1>1
<1> QED
  BY <1>1, <1>2, <1>3 DEF First

(* A time is in one bucket.                                                *)
LEMMA SpanIs ==
    ASSUME NEW r, NEW width, IsRange(r, width), NEW t \in Nat, r[1] <= t, t < r[2]
    PROVE  /\ Index(r, width, t) \in 0 .. r[2] - r[1]
           /\ \A n \in Nat : t \in Span(r, width, n) <=> n = Index(r, width, t)
           /\ First(r, width, Index(r, width, t)) <= t
<1> DEFINE start == r[1]
           a == t - start
           q == a \div width
           x == a % width
<1>1. /\ start \in Nat /\ width \in Nat /\ width > 0 /\ r[2] \in Nat
      /\ a \in Nat /\ t = start + a /\ a <= r[2] - start
  BY DEF IsRange
<1>2. q = Index(r, width, t)
  BY DEF Index
<1> HIDE DEF a
<1>3. q \in Nat /\ x \in Nat /\ x < width /\ width * q + x = a
  BY <1>1, Divided
<1> HIDE DEF q, x
<1>4. ASSUME NEW n \in Nat
      PROVE  First(r, width, n) = start + width * n /\ First(r, width, n + 1) = start + width * n + width
             /\ width * n \in Nat
  <2>1. width * n \in Nat
    BY <1>1, NoLess
  <2>2. width * n = n * width
    BY <1>1
  <2> QED
    BY <1>1, <2>1, <2>2, FirstIs DEF First
<1>5. ASSUME NEW n \in Nat
      PROVE  t \in Span(r, width, n) <=> n = q
  <2>1. t \in start .. r[2] - 1
    BY <1>1
  <2>2. t \in Span(r, width, n) <=> start + width * n <= t /\ t < start + width * n + width
    BY <1>4, <2>1 DEF Span
  <2> DEFINE p == width * n
  <2>3. p \in Nat
    BY <1>4
  <2>4. n = q => t \in Span(r, width, n)
    <3> SUFFICES ASSUME n = q
                 PROVE  t \in Span(r, width, n)
      OBVIOUS
    <3>1. p + x = a /\ p \in Nat
      BY <1>3, <2>3
    <3>2. t \in Span(r, width, n) <=> start + p <= t /\ t < start + p + width
      BY <2>2
    <3> HIDE DEF p
    <3>3. start + p <= t /\ t < start + p + width
      BY ONLY <1>1, <1>3, <3>1
    <3> QED
      BY <3>2, <3>3
  <2>5. t \in Span(r, width, n) => n = q
    <3> SUFFICES ASSUME t \in Span(r, width, n)
                 PROVE  n = q
      OBVIOUS
    <3> DEFINE y == a - p
    <3>1. start + p <= t /\ t < start + p + width
      BY <2>2
    <3>2. y \in Nat /\ y < width /\ p + y = a
      <4> HIDE DEF p
      <4> QED
        BY ONLY <1>1, <2>3, <3>1 DEF y
    <3> HIDE DEF y
    <3>3. width * n + y = width * q + x
      BY <1>3, <3>2
    <3> HIDE DEF p
    <3> QED
      BY <1>1, <1>3, <3>2, <3>3, DividedOnce
  <2> QED
    BY <2>4, <2>5
<1>6. q <= a
  <2>1. q * 1 <= q * width
    <3>1. 1 \in Nat /\ 1 <= width
      BY <1>1
    <3> QED
      BY <1>1, <1>3, <3>1, NoLess
  <2>2. q * width = width * q /\ q * 1 = q
    BY <1>1, <1>3
  <2> DEFINE p == width * q
  <2>3. q <= p /\ p + x = a
    BY <1>3, <2>1, <2>2
  <2>4. p \in Nat
    BY <1>1, <1>3, NoLess
  <2> HIDE DEF p
  <2> QED
    BY ONLY <1>1, <1>3, <2>3, <2>4
<1>7. q \in 0 .. r[2] - start
  BY ONLY <1>1, <1>3, <1>6
<1>8. First(r, width, q) <= t
  <2>1. t \in Span(r, width, q)
    BY <1>3, <1>5
  <2> QED
    BY <2>1 DEF Span
<1> QED
  BY <1>2, <1>5, <1>7, <1>8

LEMMA SpanSize ==
    ASSUME NEW r, NEW width, IsRange(r, width), NEW n \in Nat, First(r, width, n) < r[2]
    PROVE  Cardinality(Span(r, width, n)) = Until(r, width, n) - First(r, width, n)
<1> DEFINE first == First(r, width, n)
           until == Until(r, width, n)
<1>1. /\ first \in Nat /\ first >= r[1] /\ First(r, width, n + 1) = first + width
      /\ r[1] \in Nat /\ r[2] \in Nat /\ width \in Nat /\ width > 0 /\ first < r[2]
  BY FirstIs DEF IsRange
<1>2. until = IF first + width < r[2] THEN first + width ELSE r[2]
  BY DEF Until
<1>3. Span(r, width, n) = {t \in r[1] .. r[2] - 1 : first <= t /\ t < first + width}
  BY <1>1 DEF Span
<1> HIDE DEF first, until
<1>4. Span(r, width, n) = first .. until - 1
  <2>1. ASSUME NEW t
        PROVE  t \in r[1] .. r[2] - 1 /\ first <= t /\ t < first + width <=> t \in first .. until - 1
    BY <1>1, <1>2
  <2> QED
    BY <1>3, <2>1
<1>5. Cardinality(first .. until - 1) = until - first
  <2>1. first \in Int /\ until - 1 \in Int /\ ~ (first > until - 1) /\ until - 1 - first + 1 = until - first
    BY <1>1, <1>2
  <2> QED
    BY <2>1, FS_Interval
<1> QED
  BY <1>4, <1>5 DEF first, until

(* A bucket that is not cut off may grow or has just been filled as long   *)
(* as no row of the table is behind it.                                    *)
LEMMA OpenEnded ==
    ASSUME NEW r, NEW width, IsRange(r, width), NEW n \in Nat,
           \A at \in RowTimes : at \in Nat, ~ (First(r, width, n) + width > r[2])
    PROVE  MayGrow(r, width, n) \/ JustFilled(r, width, n)
               <=> \A at \in RowTimes : at < First(r, width, n + 1)
<1> DEFINE first == First(r, width, n)
           next == First(r, width, n + 1)
<1>1. /\ first \in Nat /\ first >= r[1] /\ next = first + width
      /\ r[1] \in Nat /\ r[2] \in Nat /\ width \in Nat /\ width > 0
  BY FirstIs DEF IsRange
<1>2. Span(r, width, n) = {t \in r[1] .. r[2] - 1 : first <= t /\ t < next}
  BY DEF Span
<1>3. ~ (first + width > r[2])
  OBVIOUS
<1>4. MayGrow(r, width, n) <=> \E t \in Span(r, width, n) : \A at \in RowTimes : at < t
  BY DEF MayGrow
<1>5. JustFilled(r, width, n) <=> next - 1 \in RowTimes /\ \A at \in RowTimes : at < next
  BY DEF JustFilled
<1> HIDE DEF first, next
<1>6. next - 1 \in Span(r, width, n) /\ \A t \in Span(r, width, n) : t \in Nat /\ t < next
  BY <1>1, <1>2, <1>3
<1>7. ASSUME \A at \in RowTimes : at < next, next - 1 \notin RowTimes
      PROVE  \A at \in RowTimes : at < next - 1
  BY <1>1, <1>7
<1> QED
  BY <1>1, <1>4, <1>5, <1>6, <1>7 DEF next

(* geometry: the bucket of a fact, partial while rows may come into it or  *)
(* its last tick holds the newest row.                                     *)
LEMMA GeometryIs ==
    ASSUME StreamsInv, NEW r, NEW width, IsRange(r, width), NEW fact, fact.at \in Nat,
           r[1] <= fact.at, fact.at < r[2]
    PROVE  Geometry(r[1], r[2], width, fact) = Where(r, width, Index(r, width, fact.at))
<1> DEFINE n == Index(r, width, fact.at)
           first == First(r, width, n)
           next == First(r, width, n + 1)
           until == Until(r, width, n)
           size == Cardinality(Span(r, width, n))
<1>1. n \in Nat /\ first <= fact.at
  <2>1. n \in 0 .. r[2] - r[1] /\ first <= fact.at
    BY SpanIs
  <2> HIDE DEF n
  <2>2. r[1] \in Nat /\ r[2] \in Nat
    BY DEF IsRange
  <2> QED
    BY <2>1, <2>2
<1>2. r[1] + width * ((fact.at - r[1]) \div width) = first
  <2>1. (fact.at - r[1]) \div width = n
    BY DEF Index
  <2> HIDE DEF n
  <2>2. width * n = n * width
    BY <1>1 DEF IsRange
  <2> QED
    BY <2>1, <2>2 DEF First
<1> HIDE DEF n
<1>3. /\ first \in Nat /\ r[1] \in Nat /\ r[2] \in Nat /\ width \in Nat /\ width > 0
      /\ next = first + width
  BY <1>1, FirstIs DEF IsRange
<1>4. first < r[2]
  BY <1>1, <1>3
<1>5. size = until - first
  BY <1>1, <1>4, SpanSize
<1>6. until = IF first + width < r[2] THEN first + width ELSE r[2]
  BY DEF Until
<1>7. /\ table.last \in Nat
      /\ \A i \in RowsIn(history, 0, Len(history)) : history[i].at <= table.last
      /\ table.last # 0 => \E i \in RowsIn(history, 0, Len(history)) : history[i].at = table.last
  BY DEF StreamsInv, TablesOK, TableSays, LastSays
<1>8. /\ IsHistory(history) /\ Len(history) \in Nat /\ DOMAIN history = 1 .. Len(history)
      /\ \A i \in RowsIn(history, 0, Len(history)) : history[i].at \in Nat
  BY GivenBound, RowIn DEF StreamsInv, HistoryOK
<1>9. /\ \A at \in RowTimes : at \in Nat
      /\ (\A at \in RowTimes : at < next) <=> table.last < next
  <2>1. RowTimes = {history[i].at : i \in RowsIn(history, 0, Len(history))}
    BY <1>8 DEF RowsIn, RowTimes
  <2> HIDE DEF next
  <2>2. next \in Nat /\ 0 < next
    BY <1>3
  <2> QED
    BY <1>7, <1>8, <2>1, <2>2
<1> DEFINE last == IF first + width < r[2] THEN first + width ELSE r[2]
<1>10. Geometry(r[1], r[2], width, fact) =
           [from |-> first, until |-> last, partial |-> first + width > r[2] \/ table.last < last]
  BY <1>2 DEF Geometry
<1> DEFINE open == MayGrow(r, width, n) \/ JustFilled(r, width, n)
<1>16. ~ (first + width > r[2]) => (open <=> table.last < next)
  BY <1>1, <1>9, OpenEnded
<1>17. Where(r, width, n) = [from |-> first, until |-> first + size,
                             partial |-> size < width \/ open]
  BY DEF Where, first, size
<1> HIDE DEF first, next, until, size, open
<1>11. last = first + size
  BY <1>3, <1>4, <1>5, <1>6
<1>12. (first + width > r[2] \/ table.last < last) <=> (size < width \/ table.last < next)
  BY <1>3, <1>4, <1>5, <1>6, <1>7
<1> DEFINE partial == size < width \/ table.last < next
           says == size < width \/ open
<1>13. partial = says
  <2>1. first + width > r[2] => size < width
    BY <1>3, <1>4, <1>5, <1>6
  <2>2. partial <=> says
    BY <1>16, <2>1
  <2> QED
    BY <2>2 DEF open
<1>14. (first + width > r[2] \/ table.last < last) = partial
  BY <1>12
<1>15. Where(r, width, n) = [from |-> first, until |-> first + size, partial |-> says]
  BY <1>17
<1> HIDE DEF partial, says, last
<1> QED
  BY <1>10, <1>11, <1>13, <1>14, <1>15 DEF n, last

-----------------------------------------------------------------------------
(***************************************************************************)
(* Numbers that never fall, and those of them that are new.                *)
(***************************************************************************)
Seen(N, j) == {N[i] : i \in 1 .. j}
Rising(N, n) ==
    /\ \A j \in 1 .. n : N[j] \in Nat
    /\ \A i, j \in 1 .. n : i <= j => N[i] <= N[j]

LEMMA SeenFinite ==
    ASSUME NEW N, NEW j \in Nat
    PROVE  IsFiniteSet(Seen(N, j)) /\ Cardinality(Seen(N, j)) \in Nat
<1> DEFINE g == [i \in 1 .. j |-> N[i]]
<1>1. IsFiniteSet(1 .. j)
  BY FS_Interval
<1>2. g \in Surjection(1 .. j, Seen(N, j))
  <2>1. g \in [1 .. j -> Seen(N, j)] /\ \A x \in Seen(N, j) : \E i \in 1 .. j : g[i] = x
    BY DEF Seen
  <2> HIDE DEF g
  <2> QED
    BY <2>1, Fun_IsSurj
<1> QED
  BY <1>1, <1>2, FS_Surjection, FS_CardinalityType

LEMMA SeenNext ==
    ASSUME NEW n \in Nat, NEW N, Rising(N, n), NEW j \in 1 .. n
    PROVE  /\ Cardinality(Seen(N, j - 1)) \in Nat /\ Cardinality(Seen(N, j)) \in Nat
           /\ Cardinality(Seen(N, 0)) = 0
           /\ j > 1 => Cardinality(Seen(N, j - 1)) >= 1
           /\ Cardinality(Seen(N, j)) =
                  IF j > 1 /\ N[j] = N[j - 1] THEN Cardinality(Seen(N, j - 1))
                  ELSE Cardinality(Seen(N, j - 1)) + 1
<1>1. j \in Nat /\ j - 1 \in Nat /\ j - 1 < n
  OBVIOUS
<1>2. /\ IsFiniteSet(Seen(N, j - 1)) /\ Cardinality(Seen(N, j - 1)) \in Nat
      /\ Cardinality(Seen(N, j)) \in Nat
  BY <1>1, SeenFinite
<1>3. Seen(N, j) = Seen(N, j - 1) \cup {N[j]}
  <2>1. ASSUME NEW x
        PROVE  x \in Seen(N, j) <=> x \in Seen(N, j - 1) \/ x = N[j]
    <3>1. \A i : i \in 1 .. j <=> i \in 1 .. j - 1 \/ i = j
      BY <1>1
    <3> QED
      BY <3>1 DEF Seen
  <2> QED
    BY <2>1
<1>4. Cardinality(Seen(N, 0)) = 0
  <2>1. Seen(N, 0) = {}
    BY DEF Seen
  <2> QED
    BY <2>1, FS_EmptySet
<1>5. j > 1 => N[j - 1] \in Seen(N, j - 1) /\ Cardinality(Seen(N, j - 1)) >= 1
  <2> SUFFICES ASSUME j > 1
               PROVE  N[j - 1] \in Seen(N, j - 1) /\ Cardinality(Seen(N, j - 1)) >= 1
    OBVIOUS
  <2>1. j - 1 \in 1 .. j - 1
    BY <1>1
  <2>2. N[j - 1] \in Seen(N, j - 1)
    BY <2>1 DEF Seen
  <2>3. Cardinality(Seen(N, j - 1)) # 0
    BY <1>2, <2>2, FS_EmptySet
  <2> QED
    BY <1>2, <2>2, <2>3
<1>6. CASE j > 1 /\ N[j] = N[j - 1]
  <2>1. Seen(N, j) = Seen(N, j - 1)
    BY <1>3, <1>5, <1>6
  <2> QED
    BY <1>2, <1>4, <1>5, <1>6, <2>1
<1>7. CASE ~ (j > 1 /\ N[j] = N[j - 1])
  <2>1. N[j] \notin Seen(N, j - 1)
    <3> SUFFICES ASSUME NEW i \in 1 .. j - 1, N[i] = N[j]
                 PROVE  FALSE
      BY DEF Seen
    <3>1. j > 1 /\ i <= j - 1 /\ i \in 1 .. n /\ j - 1 \in 1 .. n /\ j - 1 <= j /\ i \in Nat
      BY <1>1
    <3>2. N[i] <= N[j - 1] /\ N[j - 1] <= N[j] /\ N[i] \in Nat /\ N[j] \in Nat /\ N[j - 1] \in Nat
      BY <3>1 DEF Rising
    <3> QED
      BY <1>7, <3>1, <3>2
  <2>2. Cardinality(Seen(N, j)) = Cardinality(Seen(N, j - 1)) + 1
    BY <1>2, <1>3, <2>1, FS_AddElement
  <2> QED
    BY <1>2, <1>4, <1>5, <1>7, <2>2
<1> QED
  BY <1>6, <1>7

(* The new number is the next of all of them, from the least.              *)
LEMMA NthSeen ==
    ASSUME NEW n \in Nat, NEW N, Rising(N, n), NEW j \in 1 .. n
    PROVE  Nth(Seen(N, n), Cardinality(Seen(N, j))) = N[j]
<1> DEFINE F == Seen(N, n)
           Below(x) == {m \in F : m <= x}
           c == Cardinality(Seen(N, j))
<1>1. F \subseteq Nat /\ IsFiniteSet(F) /\ N[j] \in F
  BY SeenFinite DEF Seen, Rising
<1>2. Below(N[j]) = Seen(N, j)
  <2>1. ASSUME NEW x \in F, x <= N[j]
        PROVE  x \in Seen(N, j)
    <3>1. PICK i \in 1 .. n : x = N[i]
      BY DEF Seen
    <3>2. CASE i <= j
      <4>1. i \in 1 .. j
        BY <3>2
      <4> QED
        BY <3>1, <4>1 DEF Seen
    <3>3. CASE ~ (i <= j)
      <4>1. N[j] <= N[i] /\ N[j] \in Nat /\ N[i] \in Nat
        BY <3>3 DEF Rising
      <4>2. x = N[j] /\ j \in 1 .. j
        BY <2>1, <3>1, <4>1
      <4> QED
        BY <4>2 DEF Seen
    <3> QED
      BY <3>2, <3>3
  <2>2. ASSUME NEW x \in Seen(N, j)
        PROVE  x \in F /\ x <= N[j]
    <3>1. PICK i \in 1 .. j : x = N[i]
      BY DEF Seen
    <3>2. i \in 1 .. n /\ i <= j
      OBVIOUS
    <3> QED
      BY <3>1, <3>2 DEF Seen, Rising
  <2> QED
    BY <2>1, <2>2
<1> HIDE DEF F
<1>3. ASSUME NEW x \in F, NEW y \in F, x < y
      PROVE  Cardinality(Below(x)) # Cardinality(Below(y))
  <2>1. Below(x) \subseteq Below(y) /\ y \in Below(y) /\ y \notin Below(x)
    <3>1. x \in Nat /\ y \in Nat
      BY <1>1
    <3>2. \A m \in F : m \in Nat /\ (m <= x => m <= y)
      BY <1>1, <1>3, <3>1
    <3>3. y <= y /\ ~ (y <= x)
      BY <1>3, <3>1
    <3> QED
      BY <3>2, <3>3
  <2>2. Below(y) \in SUBSET F
    OBVIOUS
  <2> HIDE DEF Below
  <2>3. IsFiniteSet(Below(y))
    BY <1>1, <2>2, FS_Subset
  <2> QED
    BY <2>1, <2>3, FS_Subset
<1>4. ASSUME NEW x \in F
      PROVE  Cardinality(Below(x)) = c <=> x = N[j]
  <2>1. x \in Nat /\ N[j] \in Nat /\ N[j] \in F
    BY <1>1
  <2>2. Cardinality(Below(N[j])) = c
    BY <1>2
  <2> HIDE DEF Below, c
  <2>3. x < N[j] \/ x = N[j] \/ N[j] < x
    BY <2>1
  <2> QED
    BY <1>3, <2>1, <2>2, <2>3
<1>5. (CHOOSE x \in F : Cardinality(Below(x)) = c) = N[j]
  <2> HIDE DEF Below, c
  <2> QED
    BY <1>1, <1>4
<1> QED
  BY <1>5 DEF Nth, F

-----------------------------------------------------------------------------
(***************************************************************************)
(* One pass over the facts of a range.                                     *)
(***************************************************************************)
LEMMA IndexRises ==
    ASSUME NEW r, NEW width, IsRange(r, width), NEW t \in Nat, NEW u \in Nat,
           r[1] <= t, t <= u, u < r[2]
    PROVE  Index(r, width, t) <= Index(r, width, u)
<1> DEFINE p == Index(r, width, u)
           q == Index(r, width, t)
<1>1. r[1] \in Nat /\ r[2] \in Nat /\ width \in Nat /\ r[1] <= u /\ t < r[2]
  BY DEF IsRange
<1>2. p \in Nat /\ q \in Nat /\ u \in Span(r, width, p) /\ First(r, width, q) <= t
  <2>1. /\ p \in 0 .. r[2] - r[1] /\ q \in 0 .. r[2] - r[1]
        /\ First(r, width, q) <= t
        /\ \A n \in Nat : u \in Span(r, width, n) <=> n = p
    BY <1>1, SpanIs
  <2> HIDE DEF p, q
  <2> QED
    BY <1>1, <2>1
<1> HIDE DEF p, q
<1>3. u < First(r, width, p + 1)
  BY <1>2 DEF Span
<1>4. p < q => First(r, width, p + 1) <= First(r, width, q)
  <2> SUFFICES ASSUME p < q
               PROVE  First(r, width, p + 1) <= First(r, width, q)
    OBVIOUS
  <2>1. p + 1 \in Nat /\ p + 1 <= q
    BY <1>2
  <2>2. width * (p + 1) <= width * q /\ width * (p + 1) \in Nat
    BY <1>1, <1>2, <2>1, NoLess
  <2>3. width * q \in Nat
    BY <1>1, <1>2, NoLess
  <2>4. (p + 1) * width = width * (p + 1) /\ q * width = width * q
    BY <1>1, <1>2
  <2> DEFINE a == width * (p + 1)
             b == width * q
  <2>5. First(r, width, p + 1) = r[1] + a /\ First(r, width, q) = r[1] + b
    BY <2>4 DEF First
  <2>6. a \in Nat /\ b \in Nat /\ a <= b
    BY <2>2, <2>3
  <2> HIDE DEF a, b
  <2> QED
    BY <1>1, <2>5, <2>6
<1>5. First(r, width, p + 1) \in Nat /\ First(r, width, q) \in Nat
  BY <1>2, FirstIs
<1>6. ~ (p < q)
  BY <1>2, <1>3, <1>4, <1>5
<1> QED
  BY <1>2, <1>6 DEF p, q

(* The rows of the first facts of a pass that are in one bucket.           *)
Among(ix, N, j, m) == {ix[i] : i \in {x \in 1 .. j : N[x] = m}}
Busy(k, r, width) == {n \in 0 .. r[2] - r[1] : Inside(k, r, width, n) # {}}

(* s has the facts of a range, ix their rows and N their buckets.          *)
Passes(k, r, width, s, n, ix, N) ==
    /\ n \in Nat /\ DOMAIN s = 1 .. n
    /\ \A j \in 1 .. n : /\ s[j].at \in Nat /\ r[1] <= s[j].at /\ s[j].at < r[2]
                         /\ N[j] = Index(r, width, s[j].at)
                         /\ s[j].value = history[ix[j]].cells[k]
                         /\ s[j].value = Null \/ Number(k, s[j].value)
    /\ \A i, j \in 1 .. n : i # j => ix[i] # ix[j]
    /\ Rising(N, n)
    /\ \A m \in Nat : Among(ix, N, n, m) = Inside(k, r, width, m)
    /\ Seen(N, n) = Busy(k, r, width)

LEMMA CellIs ==
    ASSUME IsHistory(history), NEW l \in RowsIn(history, 0, Len(history)),
           NEW k \in DOMAIN history[l].cells
    PROVE  history[l].cells[k] = Null \/ Number(k, history[l].cells[k])
<1>1. history[l] \in Bodies /\ history[l].op = "row"
  BY RowIn DEF IsHistory, RowsIn
<1>2. history[l].cells \in Rows
  BY <1>1 DEF Bodies
<1> QED
  BY <1>2, CellsAssumption DEF Number

LEMMA PassesIs ==
    ASSUME StreamsInv, NEW k, NEW r, NEW width, IsRange(r, width), floor <= r[1],
           NEW s, s = Scan(k, r[1], r[2])
    PROVE  \E n, ix, N : Passes(k, r, width, s, n, ix, N)
<1> DEFINE all == RowsIn(history, 0, Len(history))
           B == Between(k, r[1], r[2])
           asked == {l \in all : /\ k \in DOMAIN history[l].cells
                                 /\ r[1] <= history[l].at /\ history[l].at < r[2]}
<1>1. PICK n \in Nat : /\ DOMAIN s = 1 .. n
                       /\ \A i \in 1 .. n : s[i] \in B
                       /\ \A f \in B : \E i \in 1 .. n : s[i] = f
                       /\ \A i, j \in 1 .. n : i < j => s[i].at < s[j].at
  BY ScanIs
<1>2. /\ IsHistory(history) /\ floor \in Nat /\ Len(history) \in Nat
      /\ DOMAIN history = 1 .. Len(history)
      /\ r[1] \in Nat /\ r[2] \in Nat
  BY GivenBound DEF StreamsInv, HistoryOK, FloorOK, IsRange
<1>3. \A l \in all : l \in Nat /\ history[l].at \in Nat
  BY <1>2, RowIn
<1>4. \A x : x \in B <=> \E l \in asked : x = FactOf(l, k)
  <2>1. \A x : x \in Stored(k) <=>
            \E l \in all : k \in DOMAIN history[l].cells /\ history[l].at >= floor /\ x = FactOf(l, k)
    BY StoredIs
  <2>2. \A l : FactOf(l, k).at = history[l].at
    BY DEF FactOf
  <2>3. \A l \in all : r[1] <= history[l].at => history[l].at >= floor
    BY <1>2, <1>3
  <2> HIDE DEF all
  <2>4. ASSUME NEW x
        PROVE  x \in B <=> \E l \in asked : x = FactOf(l, k)
    BY <2>1, <2>2, <2>3 DEF Between
  <2> QED
    BY <2>4
<1>5. \A l, q \in asked : history[l].at = history[q].at => l = q
  <2> SUFFICES ASSUME NEW l \in asked, NEW q \in asked, history[l].at = history[q].at
               PROVE  l = q
    OBVIOUS
  <2>1. l \in all /\ q \in all
    OBVIOUS
  <2>2. l \in Nat /\ q \in Nat /\ history[l].at \in Nat
    BY <1>3, <2>1
  <2>3. (l < q => history[l].at < history[q].at) /\ (q < l => history[q].at < history[l].at)
    BY <1>2, <2>1 DEF IsHistory
  <2> QED
    BY <2>2, <2>3
<1> DEFINE ix == [i \in 1 .. n |-> CHOOSE l \in asked : s[i] = FactOf(l, k)]
           N == [i \in 1 .. n |-> Index(r, width, s[i].at)]
<1>6. \A i \in 1 .. n : /\ ix[i] \in asked /\ s[i] = FactOf(ix[i], k)
                        /\ s[i].at = history[ix[i]].at /\ s[i].value = history[ix[i]].cells[k]
  <2>1. \A i \in 1 .. n : ix[i] \in asked /\ s[i] = FactOf(ix[i], k)
    <3> HIDE DEF asked, B
    <3> QED
      BY <1>1, <1>4
  <2> HIDE DEF ix, asked
  <2> QED
    BY <2>1 DEF FactOf
<1>7. \A l \in asked : \E i \in 1 .. n : ix[i] = l
  <2> SUFFICES ASSUME NEW l \in asked
               PROVE  \E i \in 1 .. n : ix[i] = l
    OBVIOUS
  <2> HIDE DEF asked, B, ix
  <2>1. PICK i \in 1 .. n : s[i] = FactOf(l, k)
    BY <1>1, <1>4
  <2>2. s[i].at = history[l].at
    BY <2>1 DEF FactOf
  <2>3. ix[i] = l
    BY <1>5, <1>6, <2>2
  <2> QED
    BY <2>3
<1>8. \A j \in 1 .. n : /\ s[j].at \in Nat /\ r[1] <= s[j].at /\ s[j].at < r[2]
                        /\ N[j] = Index(r, width, s[j].at)
                        /\ s[j].value = history[ix[j]].cells[k]
                        /\ s[j].value = Null \/ Number(k, s[j].value)
  <2> SUFFICES ASSUME NEW j \in 1 .. n
               PROVE  /\ s[j].at \in Nat /\ r[1] <= s[j].at /\ s[j].at < r[2]
                      /\ N[j] = Index(r, width, s[j].at)
                      /\ s[j].value = history[ix[j]].cells[k]
                      /\ s[j].value = Null \/ Number(k, s[j].value)
    OBVIOUS
  <2> DEFINE l == ix[j]
  <2>1. /\ l \in asked /\ s[j].at = history[l].at /\ s[j].value = history[l].cells[k]
        /\ N[j] = Index(r, width, s[j].at)
    BY <1>6
  <2> HIDE DEF l, ix, N
  <2>2. /\ l \in all /\ k \in DOMAIN history[l].cells /\ r[1] <= history[l].at
        /\ history[l].at < r[2] /\ history[l].at \in Nat
    BY <1>3, <2>1
  <2> HIDE DEF asked
  <2>3. history[l].cells[k] = Null \/ Number(k, history[l].cells[k])
    BY <1>2, <2>2, CellIs
  <2> QED
    BY <2>1, <2>2, <2>3 DEF l
<1>9. \A i, j \in 1 .. n : i # j => ix[i] # ix[j]
  <2> SUFFICES ASSUME NEW i \in 1 .. n, NEW j \in 1 .. n, ix[i] = ix[j]
               PROVE  i = j
    OBVIOUS
  <2> HIDE DEF ix
  <2>1. s[i].at = s[j].at /\ s[i].at \in Nat
    BY <1>6, <1>8
  <2>2. (i < j => s[i].at < s[j].at) /\ (j < i => s[j].at < s[i].at)
    BY <1>1
  <2> QED
    BY <2>1, <2>2
<1>10. Rising(N, n)
  <2>1. ASSUME NEW j \in 1 .. n
        PROVE  N[j] \in Nat
    <3>1. N[j] = Index(r, width, s[j].at) /\ Index(r, width, s[j].at) \in 0 .. r[2] - r[1]
      BY <1>8, SpanIs
    <3> HIDE DEF N
    <3> QED
      BY <1>2, <3>1
  <2>2. ASSUME NEW i \in 1 .. n, NEW j \in 1 .. n, i <= j
        PROVE  N[i] <= N[j]
    <3>1. s[i].at <= s[j].at
      <4> HIDE DEF N, ix
      <4>1. s[i].at \in Nat /\ s[j].at \in Nat
        BY <1>8
      <4>2. i = j \/ i < j
        BY <2>2
      <4>3. i < j => s[i].at < s[j].at
        BY <1>1
      <4> QED
        BY <4>1, <4>2, <4>3
    <3>2. Index(r, width, s[i].at) <= Index(r, width, s[j].at)
      BY <1>8, <3>1, IndexRises
    <3> QED
      BY <3>2
  <2> HIDE DEF N
  <2> QED
    BY <2>1, <2>2 DEF Rising
<1>11. ASSUME NEW m \in Nat
       PROVE  Among(ix, N, n, m) = Inside(k, r, width, m)
  <2>1. ASSUME NEW l
        PROVE  l \in Inside(k, r, width, m) <=> l \in asked /\ Index(r, width, history[l].at) = m
    <3>1. l \in Inside(k, r, width, m) <=>
              l \in all /\ k \in DOMAIN history[l].cells /\ history[l].at \in Span(r, width, m)
      BY <1>2 DEF Inside, RowsOf, RowsIn
    <3>2. history[l].at \in Span(r, width, m) => r[1] <= history[l].at /\ history[l].at < r[2]
      BY <1>2 DEF Span
    <3>3. ASSUME l \in asked
          PROVE  history[l].at \in Span(r, width, m) <=> m = Index(r, width, history[l].at)
      BY <1>3, <3>3, SpanIs
    <3> HIDE DEF all
    <3> QED
      BY <3>1, <3>2, <3>3
  <2>2. ASSUME NEW l
        PROVE  l \in Among(ix, N, n, m) <=> \E i \in 1 .. n : N[i] = m /\ l = ix[i]
    BY DEF Among
  <2>3. \A i \in 1 .. n : N[i] = Index(r, width, history[ix[i]].at)
    BY <1>6
  <2> HIDE DEF ix, N, asked
  <2>4. ASSUME NEW l
        PROVE  l \in Among(ix, N, n, m) <=> l \in Inside(k, r, width, m)
    BY <1>6, <1>7, <2>1, <2>2, <2>3
  <2> QED
    BY <2>4
<1>12. Seen(N, n) = Busy(k, r, width)
  <2>1. ASSUME NEW m \in Nat
        PROVE  m \in Seen(N, n) <=> Inside(k, r, width, m) # {}
    <3>1. m \in Seen(N, n) <=> Among(ix, N, n, m) # {}
      <4> HIDE DEF ix, N
      <4> QED
        BY DEF Seen, Among
    <3> QED
      BY <1>11, <3>1
  <2>2. \A i \in 1 .. n : N[i] \in 0 .. r[2] - r[1]
    BY <1>8, SpanIs
  <2>3. 0 .. r[2] - r[1] \subseteq Nat
    BY <1>2
  <2> HIDE DEF N
  <2>4. ASSUME NEW m
        PROVE  m \in Seen(N, n) <=> m \in Busy(k, r, width)
    BY <2>1, <2>2, <2>3 DEF Seen, Busy
  <2> QED
    BY <2>4
<1> HIDE DEF ix, N
<1>13. Passes(k, r, width, s, n, ix, N)
  BY <1>1, <1>8, <1>9, <1>10, <1>11, <1>12 DEF Passes
<1> QED
  BY <1>13

-----------------------------------------------------------------------------
(***************************************************************************)
(* The state of the pass after each fact.                                  *)
(***************************************************************************)
PassState(k, r, width, b, d) ==
    [key |-> k, start |-> r[1], end |-> r[2], width |-> width, bucket |-> b, done |-> d]
Part(ix, N, j) == Among(ix, N, j, N[j])
BucketAt(k, r, width, ix, N, j) == BucketOf(k, Where(r, width, N[j]), Part(ix, N, j))
Whole(k, r, width, m) == BucketOf(k, Where(r, width, m), Inside(k, r, width, m))

(* The first c buckets of the range.                                       *)
Buckets(k, r, width, c) == [i \in 1 .. c |-> Whole(k, r, width, Nth(Busy(k, r, width), i))]
StateAfter(k, r, width, ix, N, j) ==
    IF j = 0 THEN PassState(k, r, width, None, <<>>)
    ELSE PassState(k, r, width, BucketAt(k, r, width, ix, N, j),
                   Buckets(k, r, width, Cardinality(Seen(N, j)) - 1))

LEMMA BucketIs ==
    ASSUME NEW k, NEW where, NEW rows
    PROVE  BucketOf(k, where, rows) # None /\ BucketOf(k, where, rows).from = where.from
<1>1. DOMAIN None = {"none"} /\ "from" \in DOMAIN BucketOf(k, where, rows)
  BY DEF None, BucketOf, Bucket
<1> QED
  BY <1>1 DEF BucketOf, Bucket

LEMMA FirstOnce ==
    ASSUME NEW r, NEW width, IsRange(r, width), NEW m \in Nat, NEW n \in Nat
    PROVE  Where(r, width, m).from = Where(r, width, n).from <=> m = n
<1>1. Where(r, width, m).from = r[1] + m * width /\ Where(r, width, n).from = r[1] + n * width
  BY DEF Where, First
<1>2. r[1] \in Nat /\ width \in Nat /\ width > 0
  BY DEF IsRange
<1>3. m * width = n * width => m = n
  <2> SUFFICES ASSUME m * width = n * width
               PROVE  m = n
    OBVIOUS
  <2>1. m * width = width * m /\ n * width = width * n
    BY <1>2
  <2>2. width * m + 0 = width * n + 0
    BY <2>1
  <2>3. 0 \in Nat /\ 0 < width
    BY <1>2
  <2> QED
    BY <1>2, <2>2, <2>3, DividedOnce
<1>4. m * width \in Nat /\ n * width \in Nat
  <2>1. width * m \in Nat /\ width * n \in Nat
    BY <1>2, NoLess
  <2>2. m * width = width * m /\ n * width = width * n
    BY <1>2
  <2> QED
    BY <2>1, <2>2
<1> DEFINE p == m * width
           q == n * width
<1>5. p \in Nat /\ q \in Nat /\ (p = q => m = n) /\ (m = n => p = q)
  BY <1>3, <1>4
<1>6. Where(r, width, m).from = r[1] + p /\ Where(r, width, n).from = r[1] + q
  BY <1>1
<1> HIDE DEF p, q
<1> QED
  BY <1>2, <1>5, <1>6

LEMMA CountedIs ==
    ASSUME NEW k, NEW r, NEW width, NEW b, NEW d, NEW fact, NEW where,
           Geometry(r[1], r[2], width, fact) = where
    PROVE  Counted(PassState(k, r, width, b, d), fact) =
               IF b = None THEN PassState(k, r, width, Observed(k, NewBucket(where), fact.value), d)
               ELSE IF b.from = where.from
               THEN PassState(k, r, width, Observed(k, b, fact.value), d)
               ELSE PassState(k, r, width, Observed(k, NewBucket(where), fact.value), Append(d, b))
<1> DEFINE state == PassState(k, r, width, b, d)
<1>1. /\ state.key = k /\ state.start = r[1] /\ state.end = r[2] /\ state.width = width
      /\ state.bucket = b /\ state.done = d
  BY DEF PassState
<1>2. \A new, more :
          [[state EXCEPT !.bucket = new] EXCEPT !.done = more] = PassState(k, r, width, new, more)
  <2> SUFFICES ASSUME NEW new, NEW more
               PROVE  [[state EXCEPT !.bucket = new] EXCEPT !.done = more]
                          = PassState(k, r, width, new, more)
    OBVIOUS
  <2>1. [state EXCEPT !.bucket = new] = PassState(k, r, width, new, d)
    BY DEF PassState
  <2>2. [PassState(k, r, width, new, d) EXCEPT !.done = more] = PassState(k, r, width, new, more)
    BY DEF PassState
  <2> QED
    BY <2>1, <2>2
<1> HIDE DEF state
<1> DEFINE same == b # None /\ b.from = where.from
           new == Observed(k, IF same THEN b ELSE NewBucket(where), fact.value)
           more == IF same \/ b = None THEN d ELSE Append(d, b)
<1>3. Counted(state, fact) = [state EXCEPT !.bucket = new, !.done = more]
  BY <1>1 DEF Counted
<1>4. /\ b = None => new = Observed(k, NewBucket(where), fact.value) /\ more = d
      /\ b # None /\ b.from = where.from => new = Observed(k, b, fact.value) /\ more = d
      /\ b # None /\ b.from # where.from =>
             new = Observed(k, NewBucket(where), fact.value) /\ more = Append(d, b)
  OBVIOUS
<1> HIDE DEF new, more, same
<1>5. [state EXCEPT !.bucket = new, !.done = more]
         = [[state EXCEPT !.bucket = new] EXCEPT !.done = more]
  OBVIOUS
<1>6. Counted(state, fact) = PassState(k, r, width, new, more)
  BY <1>2, <1>3, <1>5
<1> QED
  BY <1>4, <1>6 DEF state

(* The rows of a bucket when its next fact comes.                          *)
LEMMA PartNext ==
    ASSUME NEW k, NEW r, NEW width, NEW s, NEW n, NEW ix, NEW N,
           Passes(k, r, width, s, n, ix, N), NEW j \in 1 .. n
    PROVE  /\ ix[j] \notin Among(ix, N, j - 1, N[j])
           /\ Part(ix, N, j) = Among(ix, N, j - 1, N[j]) \cup {ix[j]}
           /\ j > 1 /\ N[j] = N[j - 1] => Among(ix, N, j - 1, N[j]) = Part(ix, N, j - 1)
           /\ ~ (j > 1 /\ N[j] = N[j - 1]) =>
                  /\ Among(ix, N, j - 1, N[j]) = {}
                  /\ j > 1 => Part(ix, N, j - 1) = Inside(k, r, width, N[j - 1])
<1>1. n \in Nat /\ j \in Nat /\ j - 1 \in Nat
  BY DEF Passes
<1>2. \A i : i \in 1 .. j <=> i \in 1 .. j - 1 \/ i = j
  BY <1>1
<1>3. \A i \in 1 .. j - 1 : i \in 1 .. n /\ i # j /\ i <= j /\ i <= j - 1 /\ j - 1 \in 1 .. n /\ j > 1 /\ j - 1 <= j
  BY <1>1
<1>4. ix[j] \notin Among(ix, N, j - 1, N[j])
  <2> SUFFICES ASSUME NEW i \in 1 .. j - 1, ix[i] = ix[j]
               PROVE  FALSE
    BY DEF Among
  <2> QED
    BY <1>3 DEF Passes
<1>5. Part(ix, N, j) = Among(ix, N, j - 1, N[j]) \cup {ix[j]}
  BY <1>2 DEF Part, Among
<1>6. j > 1 /\ N[j] = N[j - 1] => Among(ix, N, j - 1, N[j]) = Part(ix, N, j - 1)
  BY DEF Part
<1>7. ASSUME ~ (j > 1 /\ N[j] = N[j - 1])
      PROVE  /\ Among(ix, N, j - 1, N[j]) = {}
             /\ j > 1 => Part(ix, N, j - 1) = Inside(k, r, width, N[j - 1])
  <2>1. ASSUME NEW i \in 1 .. j - 1
        PROVE  N[i] # N[j]
    <3>1. i \in 1 .. n /\ j - 1 \in 1 .. n /\ i <= j - 1 /\ j - 1 <= j /\ j > 1
      BY <1>3
    <3>2. N[i] <= N[j - 1] /\ N[j - 1] <= N[j] /\ N[i] \in Nat /\ N[j] \in Nat /\ N[j - 1] \in Nat
      BY <3>1 DEF Passes, Rising
    <3> QED
      BY <1>7, <3>1, <3>2
  <2>2. Among(ix, N, j - 1, N[j]) = {}
    BY <2>1 DEF Among
  <2>3. j > 1 => Part(ix, N, j - 1) = Inside(k, r, width, N[j - 1])
    <3> SUFFICES ASSUME j > 1
                 PROVE  Part(ix, N, j - 1) = Inside(k, r, width, N[j - 1])
      OBVIOUS
    <3>1. j - 1 \in 1 .. n /\ j - 1 <= j /\ N[j] # N[j - 1]
      BY <1>1, <1>7
    <3>2. N[j - 1] \in Nat /\ N[j] \in Nat /\ N[j - 1] < N[j]
      BY <3>1 DEF Passes, Rising
    <3>3. ASSUME NEW i \in 1 .. n, N[i] = N[j - 1]
          PROVE  i \in 1 .. j - 1
      <4>1. CASE i <= j - 1
        BY <1>1, <4>1
      <4>2. CASE ~ (i <= j - 1)
        <5>1. j <= i
          BY <1>1, <4>2
        <5>2. N[j] <= N[i]
          BY <5>1 DEF Passes, Rising
        <5> QED
          BY <3>2, <3>3, <5>2
      <4> QED
        BY <4>1, <4>2
    <3>4. Among(ix, N, n, N[j - 1]) = Part(ix, N, j - 1)
      <4>1. \A i : i \in 1 .. n /\ N[i] = N[j - 1] <=> i \in 1 .. j - 1 /\ N[i] = N[j - 1]
        BY <1>3, <3>3
      <4> QED
        BY <4>1 DEF Part, Among
    <3> QED
      BY <3>2, <3>4 DEF Passes
  <2> QED
    BY <2>2, <2>3
<1> QED
  BY <1>4, <1>5, <1>6, <1>7

(* One bucket more behind the others.                                      *)
LEMMA BucketsNext ==
    ASSUME NEW k, NEW r, NEW width, NEW c \in Nat, c >= 1
    PROVE  Append(Buckets(k, r, width, c - 1), Whole(k, r, width, Nth(Busy(k, r, width), c)))
               = Buckets(k, r, width, c)
<1> DEFINE W(i) == Whole(k, r, width, Nth(Busy(k, r, width), i))
           d == [i \in 1 .. c - 1 |-> W(i)]
           x == W(c)
<1> HIDE DEF W
<1>1. d \in Seq({W(i) : i \in 1 .. c}) /\ Len(d) = c - 1 /\ x \in {W(i) : i \in 1 .. c}
  <2>1. c - 1 \in Nat /\ c \in 1 .. c /\ \A i \in 1 .. c - 1 : i \in 1 .. c
    OBVIOUS
  <2> QED
    BY <2>1
<1>2. \A i \in 1 .. c - 1 : d[i] = W(i)
  OBVIOUS
<1> DEFINE S == {W(i) : i \in 1 .. c}
<1> HIDE DEF d, S
<1>3. /\ DOMAIN Append(d, x) = 1 .. c /\ Append(d, x) \in Seq(S)
      /\ \A i \in 1 .. c : Append(d, x)[i] = IF i <= c - 1 THEN d[i] ELSE x
  BY <1>1 DEF S
<1>4. \A i \in 1 .. c : Append(d, x)[i] = W(i)
  BY <1>2, <1>3
<1> DEFINE a == Append(d, x)
<1>5. a = [i \in 1 .. c |-> a[i]]
  <2>1. a \in [1 .. c -> S]
    <3>1. Len(a) = c /\ a \in Seq(S)
      BY <1>1, <1>3 DEF S
    <3> HIDE DEF a
    <3> QED
      BY <3>1
  <2> HIDE DEF a
  <2> QED
    BY <2>1
<1>6. [i \in 1 .. c |-> a[i]] = [i \in 1 .. c |-> W(i)]
  <2>1. \A i \in 1 .. c : a[i] = W(i)
    BY <1>4
  <2> HIDE DEF a
  <2> QED
    BY <2>1
<1> QED
  BY <1>5, <1>6 DEF Buckets, W, d, x

LEMMA PassStep ==
    ASSUME StreamsInv, NEW k, NEW r, NEW width, IsRange(r, width), NEW s, NEW n, NEW ix, NEW N,
           Passes(k, r, width, s, n, ix, N), NEW j \in 1 .. n,
           j > 1 => Tallied(k, Part(ix, N, j - 1))
    PROVE  /\ Counted(StateAfter(k, r, width, ix, N, j - 1), s[j]) = StateAfter(k, r, width, ix, N, j)
           /\ Tallied(k, Part(ix, N, j))
<1> DEFINE where == Where(r, width, N[j])
           old == Among(ix, N, j - 1, N[j])
           v == s[j].value
           c == Cardinality(Seen(N, j))
           p == Cardinality(Seen(N, j - 1))
           stays == j > 1 /\ N[j] = N[j - 1]
<1>1. n \in Nat /\ j \in Nat /\ j - 1 \in Nat /\ Rising(N, n) /\ (j - 1 = 0 <=> ~ (j > 1))
  BY DEF Passes
<1>2. Geometry(r[1], r[2], width, s[j]) = where
  <2>1. /\ s[j].at \in Nat /\ r[1] <= s[j].at /\ s[j].at < r[2]
        /\ N[j] = Index(r, width, s[j].at)
    BY DEF Passes
  <2> QED
    BY <2>1, GeometryIs
<1>3. v = history[ix[j]].cells[k] /\ (v = Null \/ Number(k, v))
  BY DEF Passes
<1>4. /\ ix[j] \notin old /\ Part(ix, N, j) = old \cup {ix[j]}
      /\ stays => old = Part(ix, N, j - 1)
      /\ ~ stays => old = {} /\ (j > 1 => Part(ix, N, j - 1) = Inside(k, r, width, N[j - 1]))
  BY PartNext
<1>5. /\ p \in Nat /\ c \in Nat /\ (j > 1 => p >= 1)
      /\ c = IF stays THEN p ELSE p + 1
  BY <1>1, SeenNext
<1>6. Cardinality(Seen(N, 0)) = 0
  BY <1>1, SeenNext
<1>7. N[j] \in Nat /\ (j > 1 => N[j - 1] \in Nat)
  <2>1. j > 1 => j - 1 \in 1 .. n
    BY <1>1
  <2> QED
    BY <1>1, <2>1 DEF Rising
<1>8. ASSUME Tallied(k, old)
      PROVE  /\ Observed(k, BucketOf(k, where, old), v) = BucketAt(k, r, width, ix, N, j)
             /\ Tallied(k, Part(ix, N, j))
  <2>1. /\ Observed(k, BucketOf(k, where, old), v) = BucketOf(k, where, old \cup {ix[j]})
        /\ Tallied(k, old \cup {ix[j]})
    <3> DEFINE i == ix[j]
    <3>1. i \notin old /\ v = history[i].cells[k]
      BY <1>3, <1>4
    <3> HIDE DEF i, v, old, where
    <3>2. /\ Observed(k, BucketOf(k, where, old), history[i].cells[k]) = BucketOf(k, where, old \cup {i})
          /\ Tallied(k, old \cup {i})
      BY <1>3, <1>8, <3>1, BucketAdd
    <3> QED
      BY <3>1, <3>2 DEF i
  <2> QED
    BY <1>4, <2>1 DEF BucketAt
<1> DEFINE b == BucketAt(k, r, width, ix, N, j - 1)
           d == Buckets(k, r, width, p - 1)
           new == BucketAt(k, r, width, ix, N, j)
<1>9. StateAfter(k, r, width, ix, N, j) = PassState(k, r, width, new, Buckets(k, r, width, c - 1))
  BY <1>1 DEF StateAfter
<1>10. j > 1 => StateAfter(k, r, width, ix, N, j - 1) = PassState(k, r, width, b, d)
  BY <1>1 DEF StateAfter
<1>11. j > 1 => b # None /\ b.from = Where(r, width, N[j - 1]).from
  BY BucketIs DEF BucketAt
<1>12. CASE stays
  <2>1. j > 1 /\ old = Part(ix, N, j - 1) /\ c = p
    BY <1>4, <1>5, <1>12
  <2>2. b = BucketOf(k, where, old)
    BY <1>12, <2>1 DEF BucketAt
  <2>3. Observed(k, b, v) = new /\ Tallied(k, Part(ix, N, j))
    BY <1>8, <2>1, <2>2
  <2>4. b # None /\ b.from = where.from
    BY <1>11, <1>12
  <2>5. Counted(PassState(k, r, width, b, d), s[j]) = PassState(k, r, width, Observed(k, b, v), d)
    <3> HIDE DEF b, where, d
    <3> QED
      BY <1>2, <2>4, CountedIs
  <2> HIDE DEF b, d, new
  <2> QED
    BY <1>9, <1>10, <2>1, <2>3, <2>5 DEF d
<1>13. CASE ~ stays
  <2>1. old = {} /\ NewBucket(where) = BucketOf(k, where, old) /\ Tallied(k, old)
    BY <1>4, <1>13, BucketStart
  <2>2. Observed(k, NewBucket(where), v) = new /\ Tallied(k, Part(ix, N, j))
    BY <1>8, <2>1
  <2>3. c - 1 = p
    BY <1>5, <1>13
  <2>4. CASE j > 1
    <3>1. ~ (b # None /\ b.from = where.from) /\ b # None
      <4>1. N[j] # N[j - 1]
        BY <1>13, <2>4
      <4>2. Where(r, width, N[j - 1]).from # where.from
        BY <1>7, <2>4, <4>1, FirstOnce
      <4> QED
        BY <1>11, <2>4, <4>2
    <3>2. Counted(PassState(k, r, width, b, d), s[j]) =
              PassState(k, r, width, Observed(k, NewBucket(where), v), Append(d, b))
      <4> HIDE DEF b, where, d
      <4> QED
        BY <1>2, <3>1, CountedIs
    <3>3. b = Whole(k, r, width, Nth(Busy(k, r, width), p))
      <4>1. b = Whole(k, r, width, N[j - 1])
        BY <1>4, <1>13, <2>4 DEF BucketAt, Whole
      <4>2. j - 1 \in 1 .. n
        BY <1>1, <2>4
      <4>3. Nth(Seen(N, n), p) = N[j - 1]
        BY <1>1, <4>2, NthSeen
      <4>4. Seen(N, n) = Busy(k, r, width)
        BY DEF Passes
      <4> HIDE DEF b, p
      <4> QED
        BY <4>1, <4>3, <4>4
    <3>4. Append(d, b) = Buckets(k, r, width, p)
      <4>1. p \in Nat /\ p >= 1
        BY <1>5, <2>4
      <4> HIDE DEF b, p
      <4> QED
        BY <3>3, <4>1, BucketsNext DEF d
    <3> HIDE DEF b, d, new, c, p
    <3> QED
      BY <1>9, <1>10, <2>2, <2>3, <2>4, <3>2, <3>4
  <2>5. CASE ~ (j > 1)
    <3>1. j - 1 = 0
      BY <1>1, <2>5
    <3>2. StateAfter(k, r, width, ix, N, j - 1) = PassState(k, r, width, None, <<>>)
      BY <3>1 DEF StateAfter
    <3>3. Counted(PassState(k, r, width, None, <<>>), s[j]) =
              PassState(k, r, width, Observed(k, NewBucket(where), v), <<>>)
      <4> HIDE DEF where
      <4> QED
        BY <1>2, CountedIs
    <3>4. c - 1 = 0
      BY <1>6, <2>3, <3>1
    <3>5. Buckets(k, r, width, 0) = <<>>
      BY DEF Buckets
    <3> HIDE DEF new, c
    <3> QED
      BY <1>9, <2>2, <3>2, <3>3, <3>4, <3>5
  <2> QED
    BY <2>4, <2>5
<1> QED
  BY <1>12, <1>13

Counting == INSTANCE Folding WITH Step <- Counted

LEMMA AggregateIs ==
    ASSUME StreamsInv, NEW k, NEW r, NEW width, IsRange(r, width), floor <= r[1]
    PROVE  Aggregate(k, r[1], r[2], width)
               = Buckets(k, r, width, Cardinality(Busy(k, r, width)))
<1> DEFINE s == Scan(k, r[1], r[2])
           base == PassState(k, r, width, None, <<>>)
           state == FoldLeft(Counted, base, s)
<1>1. Aggregate(k, r[1], r[2], width) =
          IF state.bucket = None THEN <<>> ELSE Append(state.done, state.bucket)
  BY DEF Aggregate, PassState
<1>2. PICK n, ix, N : Passes(k, r, width, s, n, ix, N)
  <2> DEFINE t == s
  <2>1. t = Scan(k, r[1], r[2])
    OBVIOUS
  <2> HIDE DEF t
  <2>2. \E n, ix, N : Passes(k, r, width, t, n, ix, N)
    BY <2>1, PassesIs
  <2> QED
    BY <2>2 DEF t
<1> HIDE DEF s, base
<1>3. n \in Nat /\ DOMAIN s = 1 .. n /\ Rising(N, n) /\ Seen(N, n) = Busy(k, r, width)
  BY <1>2 DEF Passes
<1>4. PICK f : Counting!Run(f, base, s, n) /\ Counting!Fold(base, s) = f[n]
  BY <1>3, Counting!RunExists
<1>5. state = f[n]
  <2>1. FoldLeft(Counted, base, s) = Counting!Fold(base, s)
    BY DEF Counting!Fold, FoldLeft, MapThenFoldSet, Counting!FoldLeft,
           Counting!MapThenFoldSet, Max, Counting!Max
  <2> QED
    BY <1>4, <2>1
<1> HIDE DEF state
<1>6. f[0] = base /\ \A j \in 1 .. n : f[j] = Counted(f[j - 1], s[j])
  BY <1>4 DEF Counting!Run
<1> DEFINE Right(j) == /\ f[j] = StateAfter(k, r, width, ix, N, j)
                       /\ j # 0 => Tallied(k, Part(ix, N, j))
           Wrong == {j \in 0 .. n : ~ Right(j)}
<1>7. ASSUME Wrong # {}
      PROVE  FALSE
  <2>1. PICK j \in Wrong : \A i \in Wrong : j <= i
    <3>1. Wrong \subseteq Nat
      OBVIOUS
    <3> HIDE DEF Wrong
    <3> QED
      BY <1>7, <3>1, Counting!LeastNumber
  <2>2. j # 0
    <3>1. Right(0)
      BY <1>6 DEF StateAfter, base
    <3> QED
      BY <2>1, <3>1
  <2>3. j \in 1 .. n /\ j - 1 \in 0 .. n /\ j - 1 \notin Wrong /\ (j > 1 => j - 1 # 0)
    BY <1>3, <2>1, <2>2
  <2>4. Right(j - 1)
    BY <2>3
  <2>5. f[j] = Counted(StateAfter(k, r, width, ix, N, j - 1), s[j])
    BY <1>6, <2>3, <2>4
  <2>6. j > 1 => Tallied(k, Part(ix, N, j - 1))
    BY <2>3, <2>4
  <2>7. /\ Counted(StateAfter(k, r, width, ix, N, j - 1), s[j]) = StateAfter(k, r, width, ix, N, j)
        /\ Tallied(k, Part(ix, N, j))
    BY <1>2, <2>3, <2>6, PassStep
  <2>8. Right(j)
    BY <2>5, <2>7
  <2> QED
    BY <2>1, <2>8
<1>8. f[n] = StateAfter(k, r, width, ix, N, n)
  BY <1>3, <1>7
<1> HIDE DEF Right, Wrong
<1> DEFINE c == Cardinality(Busy(k, r, width))
<1>9. CASE n = 0
  <2>1. state = PassState(k, r, width, None, <<>>)
    BY <1>5, <1>8, <1>9 DEF StateAfter
  <2>2. state.bucket = None
    BY <2>1 DEF PassState
  <2>3. Busy(k, r, width) = {}
    BY <1>3, <1>9 DEF Seen
  <2>4. c = 0
    BY <2>3, FS_EmptySet
  <2>5. Buckets(k, r, width, 0) = <<>>
    BY DEF Buckets
  <2> QED
    BY <1>1, <2>2, <2>4, <2>5
<1>10. CASE n # 0
  <2> DEFINE b == BucketAt(k, r, width, ix, N, n)
  <2>1. state = PassState(k, r, width, b, Buckets(k, r, width, c - 1))
    BY <1>3, <1>5, <1>8, <1>10 DEF StateAfter
  <2>2. state.bucket = b /\ state.done = Buckets(k, r, width, c - 1)
    BY <2>1 DEF PassState
  <2>3. b # None
    BY BucketIs DEF BucketAt
  <2>4. n \in 1 .. n
    BY <1>3, <1>10
  <2>5. N[n] \in Nat /\ Nth(Busy(k, r, width), c) = N[n]
    <3>1. Nth(Seen(N, n), Cardinality(Seen(N, n))) = N[n]
      BY <1>3, <2>4, NthSeen
    <3> QED
      BY <1>3, <2>4, <3>1 DEF Rising
  <2>6. b = Whole(k, r, width, Nth(Busy(k, r, width), c))
    <3>1. Part(ix, N, n) = Inside(k, r, width, N[n])
      BY <1>2, <2>5 DEF Passes, Part
    <3> QED
      BY <2>5, <3>1 DEF BucketAt, Whole
  <2>7. c \in Nat /\ c >= 1
    <3>1. c \in Nat
      BY <1>3, SeenFinite
    <3>2. IsFiniteSet(Busy(k, r, width)) /\ Busy(k, r, width) # {}
      <4>1. N[n] \in Seen(N, n)
        BY <2>4 DEF Seen
      <4> QED
        BY <1>3, <4>1, SeenFinite
    <3>3. c # 0
      BY <3>2, FS_EmptySet
    <3> HIDE DEF c
    <3> QED
      BY <3>1, <3>3
  <2> HIDE DEF b, c
  <2>8. Append(Buckets(k, r, width, c - 1), b) = Buckets(k, r, width, c)
    BY <2>6, <2>7, BucketsNext
  <2> QED
    BY <1>1, <2>2, <2>3, <2>8 DEF c
<1> QED
  BY <1>9, <1>10

LEMMA AggregatesAre ==
    ASSUME StreamsInv
    PROVE  AggregatesExact
<1> SUFFICES ASSUME NEW k \in Asked, NEW r \in Ranges, NEW width \in Widths
             PROVE  Aggregate(k, r[1], r[2], width) =
                        [i \in 1 .. Cardinality(Busy(k, r, width)) |->
                            BucketWith(k, r, width, Nth(Busy(k, r, width), i),
                                       Inside(k, r, width, Nth(Busy(k, r, width), i)))]
  BY DEF AggregatesExact, Busy
<1>1. IsRange(r, width) /\ floor <= r[1]
  BY StreamsAssumption DEF Ranges, IsRange
<1>2. Aggregate(k, r[1], r[2], width) = Buckets(k, r, width, Cardinality(Busy(k, r, width)))
  BY <1>1, AggregateIs
<1>3. \A m : Whole(k, r, width, m) = BucketWith(k, r, width, m, Inside(k, r, width, m))
  <2> SUFFICES ASSUME NEW m
               PROVE  Whole(k, r, width, m) = BucketWith(k, r, width, m, Inside(k, r, width, m))
    OBVIOUS
  <2> DEFINE rows == Inside(k, r, width, m)
  <2> HIDE DEF rows
  <2>1. BucketOf(k, Where(r, width, m), rows) = BucketWith(k, r, width, m, rows)
    BY DEF BucketOf, Bucket, Where, BucketWith, CountedIn, Vals, Pile, SumOf
  <2> QED
    BY <2>1 DEF Whole, rows
<1> QED
  BY <1>2, <1>3 DEF Buckets

-----------------------------------------------------------------------------
(***************************************************************************)
(* The theorems.                                                           *)
(***************************************************************************)
LEMMA UnchangedSays ==
    ASSUME StreamsInv, UNCHANGED streamVars
    PROVE  StreamsInv'
<1>1. /\ log' = log /\ top' = top /\ durable' = durable /\ seq' = seq
      /\ checkpoint' = checkpoint /\ retired' = retired
      /\ table' = table /\ history' = history /\ UNCHANGED <<sealed, buried>>
  BY DEF streamVars, vars
<1>2. IInv'
  BY <1>1 DEF StreamsInv, IInv, TypeOK, Complete, Ordered, Bounded, Records
<1>3. HistoryOK'
  BY <1>1 DEF StreamsInv, HistoryOK, IsHistory
<1>4. /\ UnitsOK' /\ FloorOK' /\ HeadsOK'
      /\ TableSays(catalog', history', Given', Given')
  <2>1. Given' = Given
    BY <1>1 DEF Given
  <2> QED
    BY <1>1, <2>1, SealedStay
<1>5. TableSays(table', history', Given', Len(history'))
  BY <1>1 DEF StreamsInv, TablesOK, Given
<1>6. TablesOK'
  BY <1>4, <1>5 DEF TablesOK
<1> QED
  BY <1>2, <1>3, <1>4, <1>6 DEF StreamsInv

LEMMA StepSays ==
    ASSUME StreamsInv, [Step]_streamVars
    PROVE  StreamsInv'
<1>1. CASE \E r \in Values : Mutate(r)
  BY <1>1, MutateSays
<1>2. CASE Sync \/ Collect
  BY <1>2, SyncSays
<1>3. CASE Seal
  BY <1>3, SealSays
<1>4. CASE Restart
  BY <1>4, RestartSays
<1>5. CASE \E cutoff \in Timestamps : Retain(cutoff)
  BY <1>5, RetainSays
<1>6. CASE UNCHANGED streamVars
  BY <1>6, UnchangedSays
<1> QED
  BY <1>1, <1>2, <1>3, <1>4, <1>5, <1>6 DEF Step

(* value_at, latest and sample (query/primitives.rs) see exactly what the  *)
(* accepted records make visible, whatever is in the tail, in units and in *)
(* heads, for every set of series, fields, rows, times and durations, and  *)
(* a sample does in its one pass for every range and every step.           *)
THEOREM AnswersAreExact == Table => []AnswersExact
<1>1. Start => StreamsInv
  BY StartSays
<1>2. StreamsInv /\ [Step]_streamVars => StreamsInv'
  BY StepSays
<1>3. StreamsInv => AnswersExact
  BY LookupsAre, SamplesAre DEF AnswersExact
<1> QED
  BY <1>1, <1>2, <1>3, PTL DEF Table

(* aggregate (agg/fold.rs) counts every fact accepted in its range once,   *)
(* in the bucket of its time, in one pass that closes a bucket at the next *)
(* one's fact, for every set of series, fields, rows, ranges and widths.   *)
THEOREM AggregatesAreExact == Table => []AggregatesExact
<1>1. Start => StreamsInv
  BY StartSays
<1>2. StreamsInv /\ [Step]_streamVars => StreamsInv'
  BY StepSays
<1>3. StreamsInv => AggregatesExact
  BY AggregatesAre
<1> QED
  BY <1>1, <1>2, <1>3, PTL DEF Table
=============================================================================
