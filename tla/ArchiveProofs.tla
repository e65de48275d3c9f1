--------------------------- MODULE ArchiveProofs ---------------------------
(***************************************************************************)
(* For every set of bases and every bound: the owner of an archive can     *)
(* always be opened again, what an archiver has is durable and the log's   *)
(* own history, every export can be continued from where it was, and a     *)
(* base can be extended for as long as it is pinned.                       *)
(***************************************************************************)
EXTENDS Archive, SequenceTheorems, FiniteSetTheorems, TLAPS

(* The two folds of the model: the bytes of some records, and an append. *)
ChargeStep(sum, r) == sum + r.length
Sums == INSTANCE Folding WITH Step <- ChargeStep
Pushes == INSTANCE Folding WITH Step <- Push

-----------------------------------------------------------------------------
(***************************************************************************)
(* The inductive invariant.                                                *)
(***************************************************************************)
Bodies == [length : Lengths, epoch : Nat]

(* The cursor an archive that began at `a` has at sequence `seq`.          *)
At(recs, a, seq) ==
    [branch |-> a.branch, seq |-> seq, digest |-> SubSeq(recs, a.seq + 1, seq)]

(* The log: what is durable contains what is sealed, segments end there,   *)
(* and what the checkpoint still needs is there.                           *)
LogOK(recs, fst, cs, dur, check) ==
    /\ recs \in Seq(Bodies) /\ fst \in Nat \ {0} /\ cs \subseteq Nat
    /\ dur \in Nat /\ check \in Nat
    /\ dur <= Len(recs) /\ check <= dur /\ fst <= check + 1
    /\ \A c \in cs : c <= dur

(* A root that may be found after a power failure: its cursors lie on the  *)
(* durable history, no pin is behind the release, and the records behind   *)
(* the release are there.                                                  *)
OnLine(recs, a, dur, c) ==
    c = At(recs, a, c.seq) /\ c.seq \in a.seq .. dur
AuthorityOK(recs, dur, t) ==
    /\ t = [initial |-> t.initial, released |-> t.released]
    /\ t.initial = [branch |-> t.initial.branch, seq |-> t.initial.seq, digest |-> <<>>]
    /\ t.initial.seq \in Nat
    /\ OnLine(recs, t.initial, dur, t.released)
RootOK(recs, fst, dur, r) ==
    /\ r = [authority |-> r.authority, pins |-> r.pins]
    /\ r.authority = None => DOMAIN r.pins = {}
    /\ r.authority # None =>
           /\ AuthorityOK(recs, dur, r.authority)
           /\ fst <= r.authority.released.seq + 1
           /\ \A id \in DOMAIN r.pins :
                  /\ OnLine(recs, r.authority.initial, dur, r.pins[id])
                  /\ r.authority.released.seq <= r.pins[id].seq
RootsOK == root \in settled /\ \A r \in settled : RootOK(records, first, durable, r)

(* Once something has been protected, exported or frozen, every root has   *)
(* the same archive.                                                       *)
OneArchive ==
    (prot # None \/ archived # <<>> \/ DOMAIN frozen # {}) =>
        \A r \in settled : r.authority # None /\ r.authority.initial = root.authority.initial

(* What the owner protects: from a release no root is before, to the end.  *)
ProtectionOK(recs, fst, dur, p, a) ==
    /\ p = [released |-> p.released, latest |-> At(recs, a, Len(recs)), durable |-> p.durable]
    /\ OnLine(recs, a, dur, p.released)
    /\ fst <= p.released.seq + 1
    /\ dur < Len(recs) => p.durable = At(recs, a, dur)
Protected ==
    /\ prot # None =>
           /\ status = "open"
           /\ ProtectionOK(records, first, durable, prot, root.authority.initial)
           /\ \A r \in settled : prot.released.seq <= r.authority.released.seq
           /\ poison = "no" /\ pc # "authoritySync" =>
                  \A r \in settled : r.authority.released = prot.released
    /\ prot = None /\ status = "open" /\ poison = "no" /\ pc # "authoritySync" =>
           \A r \in settled : r.authority = None

(* The export index walks along the durable history.                       *)
IndexOK(recs, dur, ix, a) ==
    /\ ix = [cursor |-> ix.cursor, end |-> ix.end, remaining |-> ix.remaining,
             charged |-> ix.charged]
    /\ OnLine(recs, a, dur, ix.cursor) /\ OnLine(recs, a, dur, ix.end)
    /\ ix.cursor.seq <= ix.end.seq
    /\ ix.remaining = ix.end.seq - ix.cursor.seq
Indexed == index # None => prot # None /\ IndexOK(records, durable, index, root.authority.initial)

(* What archivers have.                                                    *)
Received ==
    /\ archived \in Seq(Bodies)
    /\ root.authority = None => archived = <<>>
    /\ root.authority # None =>
           LET start == root.authority.initial.seq
           IN  /\ start + Len(archived) <= durable
               /\ archived = SubSeq(records, start + 1, start + Len(archived))

(* Finished copies, and the pins that are still there for them.            *)
Copies ==
    \A id \in DOMAIN frozen :
        LET c == frozen[id].cursor
        IN  /\ OnLine(records, root.authority.initial, durable, c)
            /\ frozen[id].rows = SubSeq(records, 1, c.seq)
            /\ \A r \in settled : id \in DOMAIN r.pins => r.pins[id] = c

(* The call that holds the mutex.                                          *)
AllSealed == durable = Top /\ checkpoint = Top
Working ==
    /\ pc # "idle" => status = "open" /\ poison = "no"
    /\ pc \in {"authority", "authoritySync"} =>
           /\ job = [kind |-> job.kind, next |-> job.next]
           /\ AuthorityOK(records, durable, job.next)
           /\ first <= job.next.released.seq + 1
           /\ pc = "authoritySync" => root.authority = job.next
           /\ \/ /\ job.kind = "enable" /\ prot = None /\ AllSealed
                 /\ archived = <<>> /\ DOMAIN frozen = {}
                 /\ job.next.initial = job.next.released /\ job.next.released.seq = Top
                 /\ pc = "authoritySync" =>
                        \A r \in settled : r.authority \in {None, job.next} /\ DOMAIN r.pins = {}
              \/ /\ job.kind = "release" /\ prot # None
                 /\ job.next.initial = root.authority.initial
                 /\ prot.released.seq <= job.next.released.seq
                 /\ PinsAllow(root, job.next.released)
    /\ pc \in {"pin", "pinSync", "copy"} =>
           /\ job = [kind |-> job.kind, id |-> job.id, cursor |-> job.cursor]
           /\ prot # None /\ AllSealed
           /\ job.cursor = prot.latest /\ job.id \notin DOMAIN frozen
           /\ pc # "pin" => job.id \in DOMAIN root.pins /\ root.pins[job.id] = job.cursor
           /\ pc = "copy" => settled = {root}
    /\ pc = "unpin" => prot # None

Statuses ==
    /\ status \in {"open", "closed"} /\ poison \in {"no", "io"}
    /\ pc \in {"idle", "authority", "authoritySync", "pin", "pinSync", "copy", "unpin"}
    /\ crashes \in Nat
    /\ status = "closed" => pc = "idle" /\ poison = "no" /\ prot = None /\ index = None

IInv ==
    /\ LogOK(records, first, cuts, durable, checkpoint)
    /\ RootsOK /\ OneArchive /\ Protected /\ Indexed /\ Received /\ Copies /\ Working
    /\ Statuses

-----------------------------------------------------------------------------
(***************************************************************************)
(* Histories.                                                              *)
(***************************************************************************)
(* A part of two histories that agree that far is the same in both.        *)
LEMMA PartStays ==
    ASSUME NEW S, NEW s \in Seq(S), NEW t \in Seq(S), NEW m \in Nat,
           m <= Len(s), m <= Len(t), \A i \in 1 .. m : s[i] = t[i],
           NEW lo \in Nat \ {0}, NEW hi \in Nat, hi <= m
    PROVE  SubSeq(s, lo, hi) = SubSeq(t, lo, hi)
<1>1. \A i \in lo .. hi : s[i] \in S /\ t[i] \in S /\ s[i] = t[i]
  <2> TAKE i \in lo .. hi
  <2>1. i \in 1 .. m /\ i \in 1 .. Len(s) /\ i \in 1 .. Len(t)
    BY LenProperties
  <2> QED
    BY <2>1, ElementOfSeq
<1>2. /\ SubSeq(s, lo, hi) \in Seq(S)
      /\ Len(SubSeq(s, lo, hi)) = IF lo <= hi THEN hi - lo + 1 ELSE 0
      /\ \A i \in 1 .. hi - lo + 1 : SubSeq(s, lo, hi)[i] = s[lo + i - 1]
  BY <1>1, SubSeqProperties
<1>3. /\ SubSeq(t, lo, hi) \in Seq(S)
      /\ Len(SubSeq(t, lo, hi)) = IF lo <= hi THEN hi - lo + 1 ELSE 0
      /\ \A i \in 1 .. hi - lo + 1 : SubSeq(t, lo, hi)[i] = t[lo + i - 1]
  BY <1>1, SubSeqProperties
<1>4. \A i \in 1 .. Len(SubSeq(s, lo, hi)) :
          SubSeq(s, lo, hi)[i] = SubSeq(t, lo, hi)[i]
  <2> TAKE i \in 1 .. Len(SubSeq(s, lo, hi))
  <2>1. i \in 1 .. hi - lo + 1 /\ lo + i - 1 \in lo .. hi
    BY <1>2
  <2> QED
    BY <1>1, <1>2, <1>3, <2>1
<1> QED
  BY <1>2, <1>3, <1>4, SeqEqual

(* The beginning of a part is a part.                                      *)
LEMMA PartOfPart ==
    ASSUME NEW S, NEW s \in Seq(S), NEW m \in Nat \ {0}, NEW n \in Nat, n <= Len(s),
           m <= n + 1, NEW k \in Nat, k <= n - m + 1
    PROVE  /\ Len(SubSeq(s, m, n)) = n - m + 1
           /\ SubSeq(SubSeq(s, m, n), 1, k) = SubSeq(s, m, m + k - 1)
<1> DEFINE part == SubSeq(s, m, n)
<1>1. \A i \in m .. n : s[i] \in S
  <2> TAKE i \in m .. n
  <2>1. i \in 1 .. Len(s)
    BY LenProperties
  <2> QED
    BY <2>1, ElementOfSeq
<1>2. /\ part \in Seq(S) /\ Len(part) = n - m + 1
      /\ \A i \in 1 .. n - m + 1 : part[i] = s[m + i - 1]
  <2>1. /\ part \in Seq(S) /\ Len(part) = IF m <= n THEN n - m + 1 ELSE 0
        /\ \A i \in 1 .. n - m + 1 : part[i] = s[m + i - 1]
    BY <1>1, SubSeqProperties
  <2> QED
    BY <2>1
<1>3. /\ SubSeq(s, m, m + k - 1) \in Seq(S) /\ Len(SubSeq(s, m, m + k - 1)) = k
      /\ \A i \in 1 .. k : SubSeq(s, m, m + k - 1)[i] = s[m + i - 1]
  <2>1. m + k - 1 \in Int /\ \A i \in m .. m + k - 1 : s[i] \in S
    BY <1>1
  <2>2. /\ SubSeq(s, m, m + k - 1) \in Seq(S)
        /\ Len(SubSeq(s, m, m + k - 1))
               = IF m <= m + k - 1 THEN (m + k - 1) - m + 1 ELSE 0
        /\ \A i \in 1 .. (m + k - 1) - m + 1 : SubSeq(s, m, m + k - 1)[i] = s[m + i - 1]
    BY <2>1, SubSeqProperties
  <2>3. (m + k - 1) - m + 1 = k
    OBVIOUS
  <2> QED
    BY <2>2, <2>3
<1> HIDE DEF part
<1>4. /\ SubSeq(part, 1, k) \in Seq(S) /\ Len(SubSeq(part, 1, k)) = k
      /\ \A i \in 1 .. k : SubSeq(part, 1, k)[i] = part[i]
  <2>1. \A i \in 1 .. k : part[i] \in S
    <3> TAKE i \in 1 .. k
    <3>1. i \in 1 .. Len(part)
      BY <1>2
    <3> QED
      BY <1>2, <3>1, ElementOfSeq
  <2>2. /\ SubSeq(part, 1, k) \in Seq(S)
        /\ Len(SubSeq(part, 1, k)) = IF 1 <= k THEN k - 1 + 1 ELSE 0
        /\ \A i \in 1 .. k - 1 + 1 : SubSeq(part, 1, k)[i] = part[1 + i - 1]
    BY <2>1, SubSeqProperties
  <2> QED
    BY <2>2
<1>5. \A i \in 1 .. k : SubSeq(part, 1, k)[i] = SubSeq(s, m, m + k - 1)[i]
  BY <1>2, <1>3, <1>4
<1>6. SubSeq(part, 1, k) = SubSeq(s, m, m + k - 1)
  BY <1>3, <1>4, <1>5, SeqEqual
<1> QED
  BY <1>2, <1>6 DEF part

(* A cursor given another place in the history. *)
Moved(c, seq, digest) == [c EXCEPT !.seq = seq, !.digest = digest]

LEMMA MovedIs ==
    ASSUME NEW c, NEW b, NEW s, NEW d, c = [branch |-> b, seq |-> s, digest |-> d],
           NEW seq, NEW digest
    PROVE  Moved(c, seq, digest) = [branch |-> b, seq |-> seq, digest |-> digest]
<1> DEFINE e == [c EXCEPT !.seq = seq]
<1>1. e = [branch |-> b, seq |-> seq, digest |-> d]
  OBVIOUS
<1>2. Moved(c, seq, digest) = [e EXCEPT !.digest = digest]
  BY DEF Moved
<1> HIDE DEF e
<1> QED
  BY <1>1, <1>2

(* Advancing a cursor along a history.                                     *)
LEMMA AdvanceIs ==
    ASSUME NEW S, records \in Seq(S), NEW a, a.seq \in Nat,
           NEW from \in Nat, NEW to \in Nat,
           a.seq <= from, from <= to, to <= Len(records)
    PROVE  Advance(At(records, a, from), to) = At(records, a, to)
<1>1. Len(records) \in Nat
  BY LenProperties
<1>2. SubSeq(records, a.seq + 1, from) \o SubSeq(records, from + 1, to)
          = SubSeq(records, a.seq + 1, to)
  <2>1. /\ a.seq + 1 \in 1 .. Len(records) + 1 /\ from \in (a.seq + 1) - 1 .. Len(records)
        /\ to \in from .. Len(records)
    BY <1>1
  <2> QED
    BY <2>1, ConcatAdjacentSubSeq
<1> DEFINE b == a.branch
           d == SubSeq(records, a.seq + 1, from)
           c == At(records, a, from)
<1>3. c = [branch |-> b, seq |-> from, digest |-> d]
  BY DEF At
<1> HIDE DEF c
<1>4. c.seq = from /\ c.digest = d
  BY <1>3
<1> DEFINE e == c.digest \o SubSeq(records, c.seq + 1, to)
<1>5. Advance(c, to) = Moved(c, to, e)
  BY DEF Advance, Moved
<1>6. e = SubSeq(records, a.seq + 1, to)
  BY <1>2, <1>4
<1> HIDE DEF b, d, e
<1>7. Moved(c, to, e) = [branch |-> b, seq |-> to, digest |-> e]
  BY <1>3, MovedIs
<1> QED
  BY <1>5, <1>6, <1>7 DEF At, b, c

(* A cursor stays one of a history that agrees with the old one that far.  *)
Agree(recs, new, dur) ==
    /\ recs \in Seq(Bodies) /\ new \in Seq(Bodies) /\ dur \in Nat
    /\ dur <= Len(recs) /\ dur <= Len(new)
    /\ \A i \in 1 .. dur : recs[i] = new[i]

LEMMA OnLineStays ==
    ASSUME NEW recs, NEW new, NEW dur, NEW more \in Nat, Agree(recs, new, dur), dur <= more,
           NEW a, a.seq \in Nat, NEW c, OnLine(recs, a, dur, c)
    PROVE  OnLine(new, a, more, c) /\ c.seq \in Nat
<1>1. c.seq \in Nat /\ a.seq <= c.seq /\ c.seq <= dur
  BY DEF OnLine, Agree
<1>2. SubSeq(recs, a.seq + 1, c.seq) = SubSeq(new, a.seq + 1, c.seq)
  <2>1. /\ recs \in Seq(Bodies) /\ new \in Seq(Bodies) /\ dur \in Nat
        /\ dur <= Len(recs) /\ dur <= Len(new) /\ \A i \in 1 .. dur : recs[i] = new[i]
        /\ a.seq + 1 \in Nat \ {0}
    BY DEF Agree
  <2>2. \A lo \in Nat \ {0}, hi \in Nat :
            hi <= dur => SubSeq(recs, lo, hi) = SubSeq(new, lo, hi)
    BY <2>1, PartStays, ZenonT(30)
  <2> QED
    BY <1>1, <2>1, <2>2
<1>3. At(recs, a, c.seq) = At(new, a, c.seq)
  BY <1>2 DEF At
<1>4. c.seq \in a.seq .. more
  BY <1>1 DEF Agree
<1> QED
  BY <1>1, <1>3, <1>4 DEF OnLine

LEMMA AuthorityStays ==
    ASSUME NEW recs, NEW new, NEW dur, NEW more \in Nat, Agree(recs, new, dur), dur <= more,
           NEW t, AuthorityOK(recs, dur, t)
    PROVE  AuthorityOK(new, more, t)
BY OnLineStays DEF AuthorityOK

LEMMA RootStays ==
    ASSUME NEW recs, NEW new, NEW dur, NEW more \in Nat, Agree(recs, new, dur), dur <= more,
           NEW r, NEW fst, NEW next, RootOK(recs, fst, dur, r),
           r.authority # None => next <= r.authority.released.seq + 1
    PROVE  RootOK(new, next, more, r)
<1>1. CASE r.authority = None
  BY <1>1 DEF RootOK
<1>2. CASE r.authority # None
  <2>1. AuthorityOK(recs, dur, r.authority) /\ AuthorityOK(new, more, r.authority)
    BY <1>2, AuthorityStays DEF RootOK
  <2>2. r.authority.initial.seq \in Nat
    BY <2>1 DEF AuthorityOK
  <2>3. \A id \in DOMAIN r.pins :
            /\ OnLine(recs, r.authority.initial, dur, r.pins[id])
            /\ r.authority.released.seq <= r.pins[id].seq
    BY <1>2 DEF RootOK
  <2>4. \A id \in DOMAIN r.pins : OnLine(new, r.authority.initial, more, r.pins[id])
    BY <2>2, <2>3, OnLineStays
  <2> QED
    BY <1>2, <2>1, <2>3, <2>4 DEF RootOK
<1> QED
  BY <1>1, <1>2

LEMMA IndexStays ==
    ASSUME NEW recs, NEW new, NEW dur, NEW more \in Nat, Agree(recs, new, dur), dur <= more,
           NEW a, a.seq \in Nat, NEW ix, IndexOK(recs, dur, ix, a)
    PROVE  IndexOK(new, more, ix, a)
BY OnLineStays DEF IndexOK

-----------------------------------------------------------------------------
(***************************************************************************)
(* Bytes.                                                                  *)
(***************************************************************************)
LEMMA ChargeIs ==
    ASSUME NEW s
    PROVE  Charge(s) = Sums!Fold(0, s)
BY DEF Charge, ChargeStep, Sums!Fold, FoldLeft, MapThenFoldSet, Sums!FoldLeft,
       Sums!MapThenFoldSet, Max, Sums!Max

(* Fewer records, the same as far as they go, have fewer bytes.            *)
LEMMA ChargeOfPrefix ==
    ASSUME NEW s, NEW t, NEW m \in Nat, NEW n \in Nat, m <= n,
           DOMAIN s = 1 .. m, DOMAIN t = 1 .. n,
           \A k \in 1 .. n : t[k].length \in Nat,
           \A k \in 1 .. m : s[k].length = t[k].length
    PROVE  Charge(s) \in Nat /\ Charge(t) \in Nat /\ Charge(s) <= Charge(t)
<1>1. PICK f : Sums!Run(f, 0, s, m) /\ Sums!Fold(0, s) = f[m]
  BY Sums!RunExists
<1>2. PICK g : Sums!Run(g, 0, t, n) /\ Sums!Fold(0, t) = g[n]
  BY Sums!RunExists
<1>3. f[0] = 0 /\ \A k \in 1 .. m : f[k] = f[k - 1] + s[k].length
  BY <1>1 DEF Sums!Run, ChargeStep
<1>4. g[0] = 0 /\ \A k \in 1 .. n : g[k] = g[k - 1] + t[k].length
  BY <1>2 DEF Sums!Run, ChargeStep
<1> DEFINE Good(k) == g[k] \in Nat /\ (k <= m => f[k] = g[k]) /\ (k >= m => g[k] >= f[m])
           Bad == {k \in 0 .. n : ~Good(k)}
<1>5. ASSUME Bad # {}
      PROVE  FALSE
  <2>1. PICK k \in Bad : \A j \in Bad : k <= j
    <3>1. Bad \subseteq Nat
      OBVIOUS
    <3> HIDE DEF Bad
    <3> QED
      BY <1>5, <3>1, Sums!LeastNumber
  <2>2. CASE k = 0
    <3>1. m = 0 \/ ~(0 >= m)
      OBVIOUS
    <3> QED
      BY <1>3, <1>4, <2>2, <3>1
  <2>3. CASE k # 0
    <3>1. k \in 1 .. n /\ k - 1 \in 0 .. n /\ ~(k <= k - 1)
      BY <2>3
    <3>2. Good(k - 1)
      <4> HIDE DEF Good
      <4> QED
        BY <2>1, <3>1
    <3>3. g[k] = g[k - 1] + t[k].length /\ t[k].length \in Nat
      BY <1>4, <3>1
    <3>4. k <= m => f[k] = f[k - 1] + t[k].length
      BY <1>3, <3>1
    <3>5. k <= m \/ k - 1 >= m
      BY <3>1
    <3>6. Good(k)
      <4>1. g[k] \in Nat /\ g[k] >= g[k - 1]
        BY <3>2, <3>3
      <4>2. k <= m => f[k] = g[k]
        BY <3>1, <3>2, <3>3, <3>4
      <4>3. CASE k <= m
        <5>1. k >= m => k = m
          BY <3>1, <4>3
        <5> QED
          BY <4>1, <4>2, <4>3, <5>1
      <4>4. CASE k - 1 >= m
        <5>1. g[k - 1] >= f[m] /\ g[k - 1] \in Nat
          BY <3>2, <4>4
        <5>2. Good(m)
          <6>1. m \in 0 .. n /\ ~(k <= m)
            BY <3>1, <4>4
          <6> HIDE DEF Good
          <6> QED
            BY <2>1, <6>1
        <5>3. f[m] \in Int
          BY <5>2
        <5> QED
          BY <3>1, <4>1, <4>2, <4>4, <5>1, <5>3
      <4> QED
        BY <3>5, <4>3, <4>4
    <3> HIDE DEF Good
    <3> QED
      BY <2>1, <3>6
  <2> QED
    BY <2>2, <2>3
<1>6. Good(m) /\ Good(n)
  <2>1. m \in 0 .. n /\ n \in 0 .. n
    OBVIOUS
  <2> HIDE DEF Good
  <2> QED
    BY <1>5, <2>1
<1>7. f[m] = g[m] /\ f[m] \in Nat /\ g[n] \in Nat /\ f[m] <= g[n]
  BY <1>6
<1> QED
  BY <1>1, <1>2, <1>7, ChargeIs

-----------------------------------------------------------------------------
(***************************************************************************)
(* Parts of the invariant that many steps share.                           *)
(***************************************************************************)
(* What collection leaves is no longer than what nobody needs.             *)
LEMMA CollectedIs ==
    ASSUME LogOK(records, first, cuts, durable, checkpoint), NEW upTo \in Nat, NEW p,
           Limit(p) \in Nat
    PROVE  /\ Collected(upTo, p) \in Nat \ {0}
           /\ \/ Collected(upTo, p) = first
              \/ Collected(upTo, p) <= upTo + 1 /\ Collected(upTo, p) <= Limit(p) + 1
<1> DEFINE Left == {first} \cup {cut + 1 : cut \in {c \in cuts : c <= upTo /\ c <= Limit(p)}}
<1>1. /\ first \in Nat \ {0} /\ cuts \subseteq Nat /\ durable \in Nat /\ checkpoint \in Nat
      /\ checkpoint <= durable /\ first <= checkpoint + 1 /\ \A c \in cuts : c <= durable
  BY DEF LogOK
<1>2. Left \subseteq 1 .. durable + 1
  BY <1>1
<1>3. IsFiniteSet(1 .. durable + 1)
  <2>1. 1 \in Int /\ durable + 1 \in Int
    BY <1>1
  <2> QED
    BY <2>1, FS_Interval
<1>4. IsFiniteSet(Left) /\ Left \subseteq Int /\ Left # {}
  <2> HIDE DEF Left
  <2>1. IsFiniteSet(Left)
    BY <1>2, <1>3, FS_Subset
  <2>2. first \in Left
    BY DEF Left
  <2> QED
    BY <1>1, <1>2, <2>1, <2>2
<1>5. Max(Left) \in Left
  <2> HIDE DEF Left
  <2>1. Sums!Max(Left) \in Left
    <3>1. Sums!IsFiniteSet(Left)
      BY <1>4 DEF Sums!IsFiniteSet, IsFiniteSet
    <3> QED
      BY <1>4, <3>1, Sums!MaxOfFinite
  <2>2. Sums!Max(Left) = Max(Left)
    BY DEF Sums!Max, Max
  <2> QED
    BY <2>1, <2>2
<1>6. Collected(upTo, p) = Max(Left)
  BY DEF Collected
<1> DEFINE most == Max(Left)
<1>7. \/ most = first
      \/ \E c \in cuts : most = c + 1 /\ c <= upTo /\ c <= Limit(p)
  <2> HIDE DEF most
  <2>1. most \in Left
    BY <1>5 DEF most
  <2> QED
    BY <2>1
<1> HIDE DEF most
<1>8. /\ most \in Nat \ {0}
      /\ most = first \/ (most <= upTo + 1 /\ most <= Limit(p) + 1)
  BY <1>1, <1>7
<1> QED
  BY <1>6, <1>8 DEF most

(* A history agrees with itself.                                           *)
LEMMA AgreeSelf ==
    ASSUME NEW fst, NEW cs, NEW check, LogOK(records, fst, cs, durable, check)
    PROVE  Agree(records, records, durable)
BY DEF LogOK, Agree

(* The owner and the roots of a protected archive.                         *)
LEMMA ProtectedFacts ==
    ASSUME IInv, prot # None
    PROVE  /\ root.authority # None /\ AuthorityOK(records, durable, root.authority)
           /\ root.authority.initial.seq \in Nat
           /\ ProtectionOK(records, first, durable, prot, root.authority.initial)
           /\ prot.released.seq \in Nat /\ prot.released.seq <= durable
           /\ root.authority.initial.seq <= prot.released.seq
           /\ first <= prot.released.seq + 1
           /\ prot.latest.seq = Top /\ Top \in Nat
           /\ status = "open" /\ root \in settled
<1>1. root \in settled /\ root.authority # None
  BY DEF IInv, RootsOK, OneArchive
<1>2. AuthorityOK(records, durable, root.authority)
  BY <1>1 DEF IInv, RootsOK, RootOK
<1>3. root.authority.initial.seq \in Nat
  BY <1>2 DEF AuthorityOK
<1>4. ProtectionOK(records, first, durable, prot, root.authority.initial) /\ status = "open"
  BY DEF IInv, Protected
<1>5. durable \in Nat /\ Top \in Nat
  BY LenProperties DEF IInv, LogOK, Top
<1>6. prot.latest.seq = Top
  <2>1. prot.latest = At(records, root.authority.initial, Len(records))
    BY <1>4 DEF ProtectionOK
  <2> QED
    BY <2>1 DEF At, Top
<1> QED
  BY <1>1, <1>2, <1>3, <1>4, <1>5, <1>6 DEF ProtectionOK, OnLine

(* An authority is not None. *)
LEMMA AuthorityIs ==
    ASSUME NEW recs, NEW dur, NEW t, AuthorityOK(recs, dur, t)
    PROVE  t # None
<1>1. t = [initial |-> t.initial, released |-> t.released]
  BY DEF AuthorityOK
<1>2. "released" \in DOMAIN t
  BY <1>1
<1>3. "released" \notin DOMAIN None
  BY DEF None
<1> QED
  BY <1>2, <1>3

(* Steps that change the log behind what is durable, or cut it there, and  *)
(* may go back to an earlier root.                                         *)
HistoryStep ==
    /\ Agree(records, records', durable) /\ durable' \in Nat /\ durable <= durable'
    /\ \A r \in settled' : r.authority # None => first' <= r.authority.released.seq + 1
    /\ root' \in settled' /\ settled' \subseteq settled
    /\ prot' # None => prot # None \/ \A r \in settled' : r = root' /\ r.authority # None
    /\ UNCHANGED <<archived, frozen>>

LEMMA HistoryKeeps ==
    ASSUME IInv, HistoryStep
    PROVE  /\ RootsOK' /\ OneArchive' /\ Received' /\ Copies'
           /\ root.authority # None /\ root'.authority # None
                  => AuthorityOK(records', durable', root.authority)
<1> USE DEF HistoryStep
<1>1. root \in settled /\ root' \in settled
      /\ \A r \in settled : RootOK(records, first, durable, r)
  BY DEF IInv, RootsOK
<1>2. \A r \in settled' : RootOK(records', first', durable', r)
  BY <1>1, RootStays
<1>3. RootsOK'
  BY <1>2 DEF RootsOK
<1>4. OneArchive'
  BY <1>1 DEF IInv, OneArchive
<1>5. Received'
  <2>1. root'.authority = None => archived' = << >>
    BY <1>1 DEF IInv, OneArchive
  <2>2. ASSUME root'.authority # None
        PROVE  LET start == root'.authority.initial.seq
               IN  /\ start + Len(archived') <= durable'
                   /\ archived' = SubSeq(records', start + 1, start + Len(archived'))
    <3> DEFINE start == root'.authority.initial.seq
    <3>1. AuthorityOK(records, durable, root'.authority)
      BY <1>1, <2>2 DEF RootOK
    <3>2. start \in Nat /\ start <= durable /\ durable \in Nat
      BY <3>1 DEF AuthorityOK, OnLine, Agree
    <3>3. CASE archived = << >>
      <4>1. start < start + 1 /\ start + 0 = start
        BY <3>2
      <4>2. SubSeq(records', start + 1, start) = << >>
        BY <3>2, <4>1, SubSeqEmpty
      <4>3. Len(archived') = 0 /\ archived' = << >>
        BY <3>3
      <4> HIDE DEF start
      <4> QED
        BY <3>2, <4>1, <4>2, <4>3 DEF start
    <3>4. CASE archived # << >>
      <4>1. root.authority # None /\ start = root.authority.initial.seq
        BY <1>1, <3>4 DEF IInv, OneArchive
      <4>2. /\ start + Len(archived) <= durable
            /\ archived = SubSeq(records, start + 1, start + Len(archived))
        BY <4>1 DEF IInv, Received
      <4> HIDE DEF start
      <4>3. Len(archived) \in Nat
        BY LenProperties DEF IInv, Received
      <4>4. SubSeq(records, start + 1, start + Len(archived))
                = SubSeq(records', start + 1, start + Len(archived))
        <5>1. \A lo \in Nat \ {0}, hi \in Nat :
                  hi <= durable => SubSeq(records, lo, hi) = SubSeq(records', lo, hi)
          BY PartStays, ZenonT(30) DEF Agree
        <5>2. start + 1 \in Nat \ {0} /\ start + Len(archived) \in Nat
          BY <3>2, <4>3
        <5> QED
          BY <4>2, <5>1, <5>2
      <4>5. start + Len(archived) <= durable'
        BY <3>2, <4>2, <4>3
      <4> QED
        BY <4>2, <4>4, <4>5 DEF start
    <3> QED
      BY <3>3, <3>4
  <2>3. archived' \in Seq(Bodies)
    BY DEF IInv, Received
  <2> QED
    BY <2>1, <2>2, <2>3 DEF Received
<1>6. Copies'
  <2> SUFFICES ASSUME NEW id \in DOMAIN frozen
               PROVE  LET c == frozen[id].cursor
                      IN  /\ OnLine(records', root'.authority.initial, durable', c)
                          /\ frozen[id].rows = SubSeq(records', 1, c.seq)
                          /\ \A r \in settled' : id \in DOMAIN r.pins => r.pins[id] = c
    BY DEF Copies
  <2> DEFINE c == frozen[id].cursor
  <2>1. root'.authority.initial = root.authority.initial /\ root.authority # None
    BY <1>1 DEF IInv, OneArchive
  <2>2. /\ OnLine(records, root.authority.initial, durable, c)
        /\ frozen[id].rows = SubSeq(records, 1, c.seq)
        /\ \A r \in settled : id \in DOMAIN r.pins => r.pins[id] = c
    BY DEF IInv, Copies
  <2>3. root.authority.initial.seq \in Nat
    BY <1>1, <2>1 DEF RootOK, AuthorityOK
  <2>4. OnLine(records', root.authority.initial, durable', c) /\ c.seq \in Nat
    BY <2>2, <2>3, OnLineStays
  <2>5. c.seq <= durable
    BY <2>2 DEF OnLine, Agree
  <2>6. SubSeq(records, 1, c.seq) = SubSeq(records', 1, c.seq)
    <3>1. \A lo \in Nat \ {0}, hi \in Nat :
              hi <= durable => SubSeq(records, lo, hi) = SubSeq(records', lo, hi)
      BY PartStays, ZenonT(30) DEF Agree
    <3> QED
      BY <2>4, <2>5, <3>1
  <2> QED
    BY <2>1, <2>2, <2>4, <2>6
<1>7. root.authority # None => AuthorityOK(records', durable', root.authority)
  BY <1>1, AuthorityStays DEF RootOK
<1> QED
  BY <1>3, <1>4, <1>5, <1>6, <1>7

-----------------------------------------------------------------------------
(***************************************************************************)
(* Appends.                                                                *)
(***************************************************************************)
(* What an append makes of the owner's protection.                         *)
Bumped(p, end, synced, body) ==
    [p EXCEPT !.durable = IF end <= synced THEN p.latest ELSE @,
              !.latest.seq = @ + 1, !.latest.digest = Append(@, body)]
LEMMA BumpedIs ==
    ASSUME NEW p, NEW end, NEW synced, NEW body,
           p = [released |-> p.released, latest |-> p.latest, durable |-> p.durable],
           p.latest = [branch |-> p.latest.branch, seq |-> p.latest.seq,
                       digest |-> p.latest.digest]
    PROVE  Bumped(p, end, synced, body) =
              [released |-> p.released,
               latest |-> [branch |-> p.latest.branch, seq |-> p.latest.seq + 1,
                           digest |-> Append(p.latest.digest, body)],
               durable |-> IF end <= synced THEN p.latest ELSE p.durable]
<1> DEFINE rel == p.released
           last == p.latest
           b == last.branch
           q == last.seq
           d == last.digest
           du == p.durable
<1>0. /\ last = [branch |-> b, seq |-> q, digest |-> d]
      /\ p = [released |-> rel, latest |-> last, durable |-> du]
  OBVIOUS
<1> DEFINE x == IF end <= synced THEN p.latest ELSE p.durable
           p1 == [p EXCEPT !.durable = x]
           p2 == [p1 EXCEPT !.latest.seq = p1.latest.seq + 1]
           p3 == [p2 EXCEPT !.latest.digest = Append(p2.latest.digest, body)]
           l2 == [branch |-> b, seq |-> q + 1, digest |-> d]
           l3 == [branch |-> b, seq |-> q + 1, digest |-> Append(d, body)]
<1>1. Bumped(p, end, synced, body) = p3
  BY DEF Bumped
<1>2. x = IF end <= synced THEN last ELSE du
  OBVIOUS
<1> HIDE DEF x, rel, last, b, q, d, du
<1>3. p1 = [released |-> rel, latest |-> last, durable |-> x]
  BY <1>0
<1> HIDE DEF p1
<1>4. p1.latest = last /\ last.seq = q /\ [last EXCEPT !.seq = q + 1] = l2
  BY <1>0, <1>3
<1>5. p2 = [released |-> rel, latest |-> l2, durable |-> x]
  <2> DEFINE m == [p1.latest EXCEPT !.seq = p1.latest.seq + 1]
  <2>1. p2 = [p1 EXCEPT !.latest = m]
    OBVIOUS
  <2>2. m = l2
    BY <1>4
  <2> HIDE DEF m, p2, l2
  <2> QED
    BY <1>3, <2>1, <2>2
<1> HIDE DEF p2
<1>6. p2.latest = l2 /\ l2.digest = d /\ [l2 EXCEPT !.digest = Append(d, body)] = l3
  <2>1. p2.latest = l2 /\ l2.digest = d
    BY <1>5
  <2> DEFINE e == l2
  <2>2. e = [branch |-> b, seq |-> q + 1, digest |-> d]
    OBVIOUS
  <2> HIDE DEF e
  <2> DEFINE more == Append(d, body)
  <2> HIDE DEF more
  <2>3. [e EXCEPT !.digest = more] = [branch |-> b, seq |-> q + 1, digest |-> more]
    BY <2>2
  <2> QED
    BY <2>1, <2>3 DEF e, more
<1>7. p3 = [released |-> rel, latest |-> l3, durable |-> x]
  <2> DEFINE m == [p2.latest EXCEPT !.digest = Append(p2.latest.digest, body)]
  <2>1. p3 = [p2 EXCEPT !.latest = m]
    OBVIOUS
  <2>2. m = l3
    BY <1>6
  <2> HIDE DEF m, p3, l2, l3
  <2> QED
    BY <1>5, <2>1, <2>2
<1> QED
  BY <1>1, <1>2, <1>7 DEF l3, rel, last, b, q, d, du

(* A history with one record more. *)
LEMMA OneMore ==
    ASSUME NEW recs \in Seq(Bodies), NEW body \in Bodies
    PROVE  LET new == Append(recs, body)
               n == Len(recs)
           IN  /\ new \in Seq(Bodies) /\ n \in Nat /\ Len(new) = n + 1
               /\ new[n + 1] = body /\ \A i \in 1 .. n : new[i] = recs[i]
               /\ Agree(recs, new, n)
               /\ \A lo \in Nat \ {0} : lo <= n + 1 =>
                      SubSeq(new, lo, n + 1) = Append(SubSeq(recs, lo, n), body)
<1> DEFINE new == Append(recs, body)
           n == Len(recs)
<1>1. n \in Nat
  BY LenProperties
<1>2. /\ new \in Seq(Bodies) /\ Len(new) = n + 1
      /\ new[n + 1] = body /\ \A i \in 1 .. n : new[i] = recs[i]
  BY AppendProperties
<1>3. Agree(recs, new, n)
  <2> HIDE DEF new
  <2> QED
    BY <1>1, <1>2 DEF Agree
<1>4. ASSUME NEW lo \in Nat \ {0}, lo <= n + 1
      PROVE  SubSeq(new, lo, n + 1) = Append(SubSeq(recs, lo, n), body)
  <2> HIDE DEF new
  <2>1. lo \in 1 .. Len(new) /\ n + 1 \in lo .. Len(new) /\ (n + 1) - 1 = n
    BY <1>1, <1>2, <1>4
  <2>2. SubSeq(new, lo, n + 1) = SubSeq(new, lo, (n + 1) - 1) \o << new[n + 1] >>
    BY <1>2, <2>1, SubSeqRecursiveSecond
  <2>3. SubSeq(new, lo, n) = SubSeq(recs, lo, n)
    <3>1. \A l \in Nat \ {0}, hi \in Nat :
              hi <= n => SubSeq(recs, l, hi) = SubSeq(new, l, hi)
      BY <1>3, PartStays, ZenonT(30) DEF Agree
    <3>2. n <= n
      BY <1>1
    <3> QED
      BY <1>1, <3>1, <3>2
  <2>4. SubSeq(recs, lo, n) \in Seq(Bodies)
    <3>1. \A i \in lo .. n : recs[i] \in Bodies
      <4> TAKE i \in lo .. n
      <4>1. i \in 1 .. Len(recs)
        BY <1>1
      <4> QED
        BY <4>1, ElementOfSeq
    <3> QED
      BY <1>1, <3>1, SubSeqProperties
  <2>5. Append(SubSeq(recs, lo, n), body) = SubSeq(recs, lo, n) \o << body >>
    BY <2>4, AppendIsConcat
  <2> QED
    BY <1>2, <2>1, <2>2, <2>3, <2>5
<1> QED
  BY <1>1, <1>2, <1>3, <1>4

(* Protection goes along with an append.                                   *)
LEMMA ProtectionGrows ==
    ASSUME NEW recs \in Seq(Bodies), NEW body \in Bodies, NEW fst, NEW dur \in Nat,
           dur <= Len(recs), NEW synced \in {dur, Len(recs)}, NEW a, a.seq \in Nat,
           NEW p, ProtectionOK(recs, fst, dur, p, a)
    PROVE  LET next == Bumped(p, Len(recs), synced, body)
           IN  /\ ProtectionOK(Append(recs, body), fst, synced, next, a)
               /\ next.released = p.released
<1> DEFINE new == Append(recs, body)
           n == Len(recs)
           next == Bumped(p, n, synced, body)
           rel == p.released
           du == p.durable
           last == At(recs, a, n)
           b == a.branch
           d == SubSeq(recs, a.seq + 1, n)
<1>1. /\ new \in Seq(Bodies) /\ n \in Nat /\ Len(new) = n + 1 /\ Agree(recs, new, n)
      /\ \A lo \in Nat \ {0} : lo <= n + 1 =>
             SubSeq(new, lo, n + 1) = Append(SubSeq(recs, lo, n), body)
  BY OneMore
<1>2. /\ p = [released |-> rel, latest |-> last, durable |-> du]
      /\ OnLine(recs, a, dur, rel) /\ fst <= rel.seq + 1
      /\ dur < n => du = At(recs, a, dur)
  BY DEF ProtectionOK
<1>3. last = [branch |-> b, seq |-> n, digest |-> d]
  BY DEF At
<1> HIDE DEF new, n, rel, du, last, b, d, next
<1>4. next = [released |-> rel,
              latest |-> [branch |-> b, seq |-> n + 1, digest |-> Append(d, body)],
              durable |-> IF n <= synced THEN last ELSE du]
  <2>1. next = Bumped(p, n, synced, body)
    BY DEF next, n
  <2>2. /\ p.released = rel /\ p.latest = last /\ p.durable = du
        /\ last.branch = b /\ last.seq = n /\ last.digest = d
    <3>1. p = [released |-> rel, latest |-> last, durable |-> du]
      BY <1>2
    <3> QED
      BY <1>3, <3>1
  <2>3. /\ p = [released |-> p.released, latest |-> p.latest, durable |-> p.durable]
        /\ p.latest = [branch |-> p.latest.branch, seq |-> p.latest.seq,
                       digest |-> p.latest.digest]
    <3>1. p = [released |-> rel, latest |-> last, durable |-> du]
      BY <1>2
    <3> QED
      BY <1>3, <2>2, <3>1
  <2> QED
    BY <2>1, <2>2, <2>3, BumpedIs
<1>5. synced \in Nat /\ dur <= synced /\ synced <= n /\ (n <= synced => synced = n)
  BY <1>1 DEF n
<1>6. Agree(recs, new, dur)
  BY <1>1, <1>5 DEF Agree
<1>7. OnLine(new, a, synced, rel) /\ rel.seq \in Nat
  BY <1>2, <1>5, <1>6, OnLineStays
<1>8. [branch |-> b, seq |-> n + 1, digest |-> Append(d, body)] = At(new, a, n + 1)
  <2>1. a.seq <= n
    BY <1>1, <1>2, <1>5 DEF OnLine
  <2>2. SubSeq(new, a.seq + 1, n + 1) = Append(d, body)
    <3>1. a.seq + 1 \in Nat \ {0} /\ a.seq + 1 <= n + 1
      BY <1>1, <2>1
    <3> QED
      BY <1>1, <3>1 DEF d
  <2> QED
    BY <2>2 DEF At, b
<1>9. (IF n <= synced THEN last ELSE du) = At(new, a, synced)
  <2>1. \A lo \in Nat \ {0}, hi \in Nat :
            hi <= n => SubSeq(recs, lo, hi) = SubSeq(new, lo, hi)
    <3>1. Agree(recs, new, n)
      BY <1>1
    <3> QED
      BY <3>1, PartStays, ZenonT(30) DEF Agree
  <2>2. a.seq + 1 \in Nat \ {0}
    OBVIOUS
  <2>3. SubSeq(recs, a.seq + 1, synced) = SubSeq(new, a.seq + 1, synced)
    BY <1>5, <2>1, <2>2
  <2>4. At(recs, a, synced) = At(new, a, synced)
    BY <2>3 DEF At
  <2>5. CASE n <= synced
    <3>1. n = synced
      BY <1>5, <2>5
    <3> QED
      BY <2>4, <2>5, <3>1 DEF last
  <2>6. CASE ~(n <= synced)
    <3>1. synced = dur /\ dur < n
      BY <1>1, <1>5, <2>6 DEF n
    <3> QED
      BY <1>2, <2>4, <2>6, <3>1
  <2> QED
    BY <2>5, <2>6
<1>10. next.released = rel /\ next.durable = At(new, a, synced)
       /\ next = [released |-> next.released, latest |-> At(new, a, Len(new)),
                  durable |-> next.durable]
  <2> DEFINE late == [branch |-> b, seq |-> n + 1, digest |-> Append(d, body)]
             done == IF n <= synced THEN last ELSE du
  <2>1. next = [released |-> rel, latest |-> late, durable |-> done]
    BY <1>4
  <2>2. late = At(new, a, Len(new))
    BY <1>1, <1>8
  <2>3. done = At(new, a, synced)
    BY <1>9
  <2> HIDE DEF late, done
  <2> QED
    BY <2>1, <2>2, <2>3
<1>11. ProtectionOK(new, fst, synced, next, a)
  BY <1>2, <1>7, <1>10 DEF ProtectionOK
<1> QED
  BY <1>10, <1>11 DEF next, new, n, rel

(* The state of an append whose first k records have been pushed.          *)
Pushed(s, rs, k) ==
    /\ s.stopped = FALSE
    /\ LogOK(s.records, first, s.cuts, s.durable, checkpoint)
    /\ Len(s.records) = Top + k /\ \A i \in 1 .. Top : s.records[i] = records[i]
    /\ \A i \in 1 .. k : s.records[Top + i].length = rs[i].length
    /\ durable <= s.durable
    /\ prot = None => s.prot = None
    /\ prot # None => /\ s.prot # None /\ s.prot.released = prot.released
                      /\ ProtectionOK(s.records, first, s.durable, s.prot,
                                      root.authority.initial)

(* The record pushed, and the log up to it as a part.                      *)
Body(r) == [length |-> r.length, epoch |-> crashes]

LEMMA PushStays ==
    ASSUME IInv, NEW n \in Nat, NEW rs, DOMAIN rs = 1 .. n,
           \A i \in 1 .. n : rs[i].length \in Lengths /\ rs[i].rolls \in BOOLEAN,
           Fits(prot, rs), NEW k \in 1 .. n, NEW s, Pushed(s, rs, k - 1)
    PROVE  Fits(s.prot, Append(SubSeq(s.records, Top + 1, Len(s.records)), Body(rs[k])))
<1> DEFINE body == Body(rs[k])
           end == Len(s.records)
           part == SubSeq(s.records, Top + 1, end)
<1> SUFFICES ASSUME s.prot # None
             PROVE  Charge(SubSeq(records, s.prot.released.seq + 1, Top))
                        + Charge(Append(part, body)) <= MaxBytes
  BY DEF Fits
<1>1. prot # None /\ s.prot.released = prot.released
  BY DEF Pushed
<1>2. Charge(SubSeq(records, prot.released.seq + 1, Top)) + Charge(rs) <= MaxBytes
  BY <1>1 DEF Fits
<1>3. /\ s.records \in Seq(Bodies) /\ end = Top + (k - 1) /\ Top \in Nat /\ end \in Nat
      /\ records \in Seq(Bodies) /\ crashes \in Nat
      /\ \A i \in 1 .. k - 1 : s.records[Top + i].length = rs[i].length
  BY LenProperties DEF Pushed, LogOK, IInv, Statuses, Top
<1>4. Lengths \subseteq Nat /\ MaxBytes \in Nat
  BY ArchiveAssumption
<1>5. body \in Bodies /\ body.length = rs[k].length
  BY <1>3 DEF Body, Bodies
<1>6. \A i \in Top + 1 .. end : s.records[i] \in Bodies
  <2> TAKE i \in Top + 1 .. end
  <2>1. i \in 1 .. Len(s.records)
    BY <1>3
  <2> QED
    BY <1>3, <2>1, ElementOfSeq
<1>7. /\ part \in Seq(Bodies) /\ Len(part) = k - 1
      /\ \A i \in 1 .. k - 1 : part[i] = s.records[Top + i]
  <2>1. /\ part \in Seq(Bodies)
        /\ Len(part) = IF Top + 1 <= end THEN end - (Top + 1) + 1 ELSE 0
        /\ \A i \in 1 .. end - (Top + 1) + 1 : part[i] = s.records[(Top + 1) + i - 1]
    BY <1>3, <1>6, SubSeqProperties
  <2>2. end - (Top + 1) + 1 = k - 1
    BY <1>3
  <2>3. \A i \in 1 .. k - 1 : (Top + 1) + i - 1 = Top + i
    BY <1>3
  <2> HIDE DEF part, end
  <2> QED
    BY <1>3, <2>1, <2>2, <2>3
<1> HIDE DEF part, body, end
<1>8. /\ DOMAIN Append(part, body) = 1 .. k
      /\ \A i \in 1 .. k : Append(part, body)[i].length = rs[i].length
  <2> DEFINE more == Append(part, body)
  <2>1. /\ more \in Seq(Bodies) /\ Len(more) = k
        /\ \A i \in 1 .. k - 1 : more[i] = part[i]
        /\ more[k] = body
    <3>1. /\ more \in Seq(Bodies) /\ Len(more) = Len(part) + 1
          /\ \A i \in 1 .. Len(part) : more[i] = part[i]
          /\ more[Len(part) + 1] = body
      BY <1>5, <1>7, AppendProperties
    <3>2. (k - 1) + 1 = k
      OBVIOUS
    <3> HIDE DEF more
    <3> QED
      BY <1>7, <3>1, <3>2
  <2> HIDE DEF more
  <2>2. DOMAIN more = 1 .. k
    BY <2>1, LenProperties
  <2>3. \A i \in 1 .. k : i = k \/ i \in 1 .. k - 1
    OBVIOUS
  <2>4. \A i \in 1 .. k : more[i].length = rs[i].length
    BY <1>3, <1>5, <1>7, <2>1, <2>3
  <2> QED
    BY <2>2, <2>4 DEF more
<1>9. /\ Charge(Append(part, body)) \in Nat /\ Charge(rs) \in Nat
      /\ Charge(Append(part, body)) <= Charge(rs)
  <2> DEFINE more == Append(part, body)
  <2>1. /\ k \in Nat /\ k <= n /\ DOMAIN rs = 1 .. n
        /\ \A i \in 1 .. n : rs[i].length \in Nat
    <3>1. \A i \in 1 .. n : rs[i].length \in Lengths
      OBVIOUS
    <3>2. \A i \in 1 .. n : rs[i].length \in Nat
      <4> HIDE DEF body, part, end, more
      <4> QED
        BY <1>4, <3>1
    <3>3. k \in Nat /\ k <= n
      OBVIOUS
    <3> QED
      BY <3>2, <3>3
  <2>2. /\ DOMAIN more = 1 .. k
        /\ \A i \in 1 .. k : more[i].length = rs[i].length
    BY <1>8
  <2> HIDE DEF more
  <2>3. Charge(more) \in Nat /\ Charge(rs) \in Nat /\ Charge(more) <= Charge(rs)
    BY <2>1, <2>2, ChargeOfPrefix
  <2> QED
    BY <2>3 DEF more
<1>10. Charge(SubSeq(records, prot.released.seq + 1, Top)) \in Nat
  <2> DEFINE old == SubSeq(records, prot.released.seq + 1, Top)
  <2>1. prot.released.seq \in Nat
    BY <1>1, ProtectedFacts
  <2>2. \A i \in prot.released.seq + 1 .. Top : records[i] \in Bodies
    <3> TAKE i \in prot.released.seq + 1 .. Top
    <3>1. i \in 1 .. Len(records)
      BY <1>3, <2>1 DEF Top
    <3> QED
      BY <1>3, <3>1, ElementOfSeq
  <2>3. old \in Seq(Bodies)
    BY <1>3, <2>1, <2>2, SubSeqProperties
  <2> HIDE DEF old
  <2>4. Len(old) \in Nat /\ DOMAIN old = 1 .. Len(old)
        /\ \A i \in 1 .. Len(old) : old[i].length \in Nat
    <3>1. Len(old) \in Nat /\ DOMAIN old = 1 .. Len(old)
      BY <2>3, LenProperties
    <3>2. \A i \in 1 .. Len(old) : old[i] \in Bodies
      BY <2>3, ElementOfSeq
    <3> QED
      BY <1>4, <3>1, <3>2 DEF Bodies
  <2>5. Charge(old) \in Nat
    <3> DEFINE len == Len(old)
    <3>1. len \in Nat /\ len <= len /\ DOMAIN old = 1 .. len
          /\ \A i \in 1 .. len : old[i].length \in Nat
      BY <2>4
    <3> HIDE DEF len
    <3> QED
      BY <3>1, ChargeOfPrefix
  <2> QED
    BY <2>5 DEF old
<1> QED
  BY <1>1, <1>2, <1>4, <1>9, <1>10

LEMMA PushKeeps ==
    ASSUME IInv, NEW n \in Nat, NEW rs, DOMAIN rs = 1 .. n,
           \A i \in 1 .. n : rs[i].length \in Lengths /\ rs[i].rolls \in BOOLEAN,
           Fits(prot, rs), NEW k \in 1 .. n, NEW s, Pushed(s, rs, k - 1)
    PROVE  Pushed(Push(s, rs[k]), rs, k)
<1> DEFINE end == Len(s.records)
           dur == s.durable
           rolls == rs[k].rolls
           synced == IF rolls THEN end ELSE dur
           body == Body(rs[k])
           new == Append(s.records, body)
           cs == IF rolls THEN s.cuts \cup {end} ELSE s.cuts
           next == IF s.prot = None THEN None ELSE Bumped(s.prot, end, synced, body)
           t == Push(s, rs[k])
           a == root.authority.initial
<1>1. t = [records |-> new, cuts |-> cs, durable |-> synced, prot |-> next,
           stopped |-> FALSE]
  <2>1. Fits(s.prot, Append(SubSeq(s.records, Top + 1, end), body))
    BY PushStays
  <2>2. s.stopped = FALSE
    BY DEF Pushed
  <2> QED
    BY <2>1, <2>2 DEF Push, Body, Bumped
<1>2. /\ LogOK(s.records, first, s.cuts, dur, checkpoint)
      /\ end = Top + (k - 1) /\ \A i \in 1 .. Top : s.records[i] = records[i]
      /\ \A i \in 1 .. k - 1 : s.records[Top + i].length = rs[i].length
      /\ durable <= dur
  BY DEF Pushed
<1>3. /\ s.records \in Seq(Bodies) /\ end \in Nat /\ dur \in Nat /\ dur <= end
      /\ rolls \in BOOLEAN /\ Top \in Nat /\ crashes \in Nat /\ durable \in Nat
  BY <1>2, LenProperties DEF LogOK, IInv, Statuses, Top
<1>4. body \in Bodies /\ body.length = rs[k].length
  BY <1>3 DEF Body, Bodies
<1>5. synced \in {dur, end} /\ synced \in Nat /\ dur <= synced /\ synced <= end
  BY <1>3
<1>6. /\ new \in Seq(Bodies) /\ Len(new) = end + 1
      /\ new[end + 1] = body /\ \A i \in 1 .. end : new[i] = s.records[i]
  BY <1>3, <1>4, OneMore
<1>7. LogOK(new, first, cs, synced, checkpoint)
  <2>1. /\ first \in Nat \ {0} /\ s.cuts \subseteq Nat /\ checkpoint \in Nat
        /\ checkpoint <= dur /\ first <= checkpoint + 1 /\ \A c \in s.cuts : c <= dur
    BY <1>2 DEF LogOK
  <2>2. cs \subseteq Nat /\ \A c \in cs : c <= synced
    <3>1. CASE rolls
      <4>1. synced = end /\ cs = s.cuts \cup {end}
        BY <3>1
      <4> HIDE DEF synced, cs, end, dur
      <4> QED
        BY <1>3, <2>1, <4>1
    <3>2. CASE ~rolls
      BY <2>1, <3>2
    <3> QED
      BY <3>1, <3>2
  <2> HIDE DEF new, cs, synced, end, dur
  <2> QED
    BY <1>3, <1>5, <1>6, <2>1, <2>2 DEF LogOK
<1>8. /\ Len(new) = Top + k /\ \A i \in 1 .. Top : new[i] = records[i]
      /\ \A i \in 1 .. k : new[Top + i].length = rs[i].length
  <2> HIDE DEF new, body, end
  <2>1. \A i \in 1 .. Top : i \in 1 .. end
    BY <1>2, <1>3
  <2>2. \A i \in 1 .. k : i = k \/ (i \in 1 .. k - 1 /\ Top + i \in 1 .. end)
    BY <1>2, <1>3
  <2>3. end + 1 = Top + k
    BY <1>2, <1>3
  <2> QED
    BY <1>2, <1>4, <1>6, <2>1, <2>2, <2>3
<1>9. prot = None => next = None
  BY DEF Pushed
<1>10. ASSUME prot # None
       PROVE  /\ next # None /\ next.released = prot.released
              /\ ProtectionOK(new, first, synced, next, a)
  <2>1. s.prot # None /\ s.prot.released = prot.released
        /\ ProtectionOK(s.records, first, dur, s.prot, a)
    BY <1>10 DEF Pushed
  <2>2. a.seq \in Nat
    BY <1>10, ProtectedFacts
  <2> DEFINE bumped == Bumped(s.prot, end, synced, body)
  <2>3. ProtectionOK(new, first, synced, bumped, a) /\ bumped.released = prot.released
    <3> HIDE DEF a, body, synced, dur, bumped
    <3> QED
      BY <1>3, <1>4, <1>5, <2>1, <2>2, ProtectionGrows DEF bumped
  <2>4. bumped # None
    <3> HIDE DEF new, a, synced
    <3>1. DOMAIN bumped = {"released", "latest", "durable"}
      <4> HIDE DEF bumped
      <4>1. bumped = [released |-> bumped.released, latest |-> At(new, a, Len(new)),
                      durable |-> bumped.durable]
        BY <2>3 DEF ProtectionOK
      <4> QED
        BY <4>1
    <3>2. DOMAIN None = {"none"}
      BY DEF None
    <3> HIDE DEF bumped
    <3>3. "released" \in DOMAIN bumped /\ "released" \notin DOMAIN None
      BY <3>1, <3>2
    <3> QED
      BY <3>3
  <2> QED
    BY <2>1, <2>3, <2>4
<1> HIDE DEF new, cs, synced, next, a
<1>11. /\ t.records = new /\ t.cuts = cs /\ t.durable = synced /\ t.prot = next
       /\ t.stopped = FALSE
  <2> HIDE DEF t
  <2> QED
    BY <1>1
<1>12. durable <= synced
  BY <1>2, <1>3, <1>5
<1> HIDE DEF t
<1> QED
  BY <1>7, <1>8, <1>9, <1>10, <1>11, <1>12 DEF Pushed, t, a

LEMMA BatchKeeps ==
    ASSUME IInv, NEW n \in Nat, NEW rs, DOMAIN rs = 1 .. n,
           \A i \in 1 .. n : rs[i].length \in Lengths /\ rs[i].rolls \in BOOLEAN,
           Fits(prot, rs), NEW s, Pushed(s, rs, 0)
    PROVE  Pushed(FoldLeft(Push, s, rs), rs, n)
<1>1. FoldLeft(Push, s, rs) = Pushes!Fold(s, rs)
  BY DEF Pushes!Fold, FoldLeft, MapThenFoldSet, Pushes!FoldLeft, Pushes!MapThenFoldSet,
         Max, Pushes!Max
<1>2. PICK f : Pushes!Run(f, s, rs, n) /\ Pushes!Fold(s, rs) = f[n]
  BY Pushes!RunExists
<1>3. f[0] = s /\ \A k \in 1 .. n : f[k] = Push(f[k - 1], rs[k])
  BY <1>2 DEF Pushes!Run
<1> DEFINE Bad == {k \in 0 .. n : ~Pushed(f[k], rs, k)}
<1>4. ASSUME Bad # {}
      PROVE  FALSE
  <2>1. PICK k \in Bad : \A j \in Bad : k <= j
    <3>1. Bad \subseteq Nat
      OBVIOUS
    <3> HIDE DEF Bad
    <3> QED
      BY <1>4, <3>1, Sums!LeastNumber
  <2>2. CASE k = 0
    BY <1>3, <2>2
  <2>3. CASE k # 0
    <3>1. k \in 1 .. n /\ k - 1 \in 0 .. n /\ ~(k <= k - 1)
      BY <2>3
    <3>2. Pushed(f[k - 1], rs, k - 1)
      BY <2>1, <3>1
    <3>3. Pushed(Push(f[k - 1], rs[k]), rs, k)
      BY <3>1, <3>2, PushKeeps
    <3> QED
      BY <1>3, <2>1, <3>1, <3>3
  <2> QED
    BY <2>2, <2>3
<1>5. Pushed(f[n], rs, n)
  <2>1. n \in 0 .. n
    OBVIOUS
  <2> QED
    BY <1>4, <2>1
<1> QED
  BY <1>1, <1>2, <1>5

-----------------------------------------------------------------------------
(***************************************************************************)
(* Every step keeps the invariant.                                         *)
(***************************************************************************)
LEMMA IndexKept ==
    ASSUME IInv, HistoryStep, index' \in {index, None}, index' # None => prot' # None
    PROVE  Indexed'
<1> SUFFICES ASSUME index' # None
             PROVE  prot' # None
                    /\ IndexOK(records', durable', index', root'.authority.initial)
  BY DEF Indexed
<1>1. index' = index /\ prot # None /\ prot' # None
  BY DEF IInv, Indexed
<1>2. IndexOK(records, durable, index, root.authority.initial)
  BY <1>1 DEF IInv, Indexed
<1>3. root.authority.initial.seq \in Nat
  BY <1>1, ProtectedFacts
<1>4. root'.authority.initial = root.authority.initial
  BY <1>1 DEF IInv, OneArchive, RootsOK, HistoryStep
<1>5. IndexOK(records', durable', index, root.authority.initial)
  BY <1>2, <1>3, IndexStays DEF HistoryStep
<1> QED
  BY <1>1, <1>4, <1>5

LEMMA IdleWorks ==
    ASSUME pc' = "idle"
    PROVE  Working'
BY DEF Working

LEMMA AppendKeeps ==
    ASSUME IInv, NEW rs \in Batches, AppendRecords(rs)
    PROVE  IInv'
<1> DEFINE s == [records |-> records, cuts |-> cuts, durable |-> durable, prot |-> prot,
                 stopped |-> FALSE]
           t == FoldLeft(Push, s, rs)
<1>1. PICK n \in 1 .. MaxBatch : rs \in [1 .. n -> [length : Lengths, rolls : BOOLEAN]]
  BY DEF Batches
<1>2. /\ Healthy /\ Fits(prot, rs)
      /\ records' = t.records /\ cuts' = t.cuts /\ durable' = t.durable /\ prot' = t.prot
      /\ poison' = IF t.stopped THEN "wrong" ELSE "no"
      /\ UNCHANGED <<first, checkpoint, roots, index, status, pc, job, archived, frozen,
                     crashes>>
  BY DEF AppendRecords, Preflight
<1>3. Pushed(s, rs, 0)
  <2>1. LogOK(records, first, cuts, durable, checkpoint)
    BY DEF IInv
  <2>2. prot # None => ProtectionOK(records, first, durable, prot, root.authority.initial)
    BY DEF IInv, Protected
  <2>3. Top \in Nat /\ durable \in Nat
    BY <2>1, LenProperties DEF LogOK, Top
  <2>4. /\ s.records = records /\ s.cuts = cuts /\ s.durable = durable /\ s.prot = prot
        /\ s.stopped = FALSE
    OBVIOUS
  <2> HIDE DEF s
  <2> QED
    BY <2>1, <2>2, <2>3, <2>4 DEF Pushed, Top
<1>4. /\ DOMAIN rs = 1 .. n /\ n \in Nat
      /\ \A i \in 1 .. n : rs[i].length \in Lengths /\ rs[i].rolls \in BOOLEAN
  BY <1>1
<1>5. Pushed(t, rs, n)
  <2> HIDE DEF s
  <2> QED
    BY <1>2, <1>3, <1>4, BatchKeeps
<1> HIDE DEF s, t
<1>6. /\ LogOK(records', first', cuts', durable', checkpoint') /\ poison' = "no"
      /\ Len(records') = Top + n /\ \A i \in 1 .. Top : records'[i] = records[i]
      /\ durable <= durable'
      /\ prot = None => prot' = None
      /\ prot # None =>
             /\ prot' # None /\ prot'.released = prot.released
             /\ ProtectionOK(records', first', durable', prot', root'.authority.initial)
  BY <1>2, <1>5 DEF Pushed, roots
<1>7. HistoryStep
  <2>1. /\ durable \in Nat /\ durable <= Top /\ Top \in Nat
        /\ records \in Seq(Bodies) /\ records' \in Seq(Bodies) /\ durable' \in Nat
    BY <1>6, LenProperties DEF IInv, LogOK, Top
  <2>2. Agree(records, records', durable)
    BY <1>4, <1>6, <2>1 DEF Agree, Top
  <2>3. \A r \in settled : r.authority # None => first' <= r.authority.released.seq + 1
    BY <1>2 DEF IInv, RootsOK, RootOK
  <2>4. root' \in settled' /\ settled' \subseteq settled
    BY <1>2 DEF IInv, RootsOK, roots
  <2> QED
    BY <1>2, <1>6, <2>1, <2>2, <2>3, <2>4 DEF HistoryStep
<1>8. RootsOK' /\ OneArchive' /\ Received' /\ Copies'
  BY <1>7, HistoryKeeps
<1>9. pc = "idle" /\ status = "open" /\ pc' = "idle" /\ status' = "open" /\ poison = "no"
  BY <1>2 DEF Healthy
<1>10. Protected'
  <2>1. CASE prot = None
    <3>1. \A r \in settled : r.authority = None
      BY <1>9, <2>1 DEF IInv, Protected
    <3> QED
      BY <1>2, <1>6, <2>1, <3>1 DEF Protected, roots
  <2>2. CASE prot # None
    <3>1. /\ \A r \in settled : prot.released.seq <= r.authority.released.seq
          /\ \A r \in settled : r.authority.released = prot.released
      BY <1>9, <2>2 DEF IInv, Protected
    <3> QED
      BY <1>2, <1>6, <1>9, <2>2, <3>1 DEF Protected, roots
  <2> QED
    BY <2>1, <2>2
<1>11. Indexed'
  <2>1. index' # None => prot' # None
    BY <1>2, <1>6 DEF IInv, Indexed
  <2> QED
    BY <1>2, <1>7, <2>1, IndexKept
<1>12. Working'
  BY <1>9, IdleWorks
<1>13. Statuses'
  BY <1>2, <1>6, <1>9 DEF IInv, Statuses
<1> QED
  BY <1>6, <1>8, <1>10, <1>11, <1>12, <1>13 DEF IInv

LEMMA SyncKeeps ==
    ASSUME IInv, Sync
    PROVE  IInv'
<1>1. /\ Healthy /\ durable' = Top
      /\ UNCHANGED <<records, first, cuts, checkpoint, roots, prot, index, status, poison,
                     pc, job, archived, frozen, crashes>>
  BY DEF Sync
<1>2. /\ records \in Seq(Bodies) /\ Top \in Nat /\ durable \in Nat /\ durable <= Top
      /\ first \in Nat \ {0} /\ cuts \subseteq Nat /\ checkpoint \in Nat
      /\ checkpoint <= durable /\ first <= checkpoint + 1 /\ \A c \in cuts : c <= durable
  BY LenProperties DEF IInv, LogOK, Top
<1>3. LogOK(records', first', cuts', durable', checkpoint')
  <2>1. \A c \in cuts : c <= Top
    BY <1>2
  <2> QED
    BY <1>1, <1>2, <2>1 DEF LogOK, Top
<1>4. HistoryStep
  <2>1. Agree(records, records', durable)
    BY <1>1, AgreeSelf DEF IInv
  <2>2. \A r \in settled : r.authority # None => first' <= r.authority.released.seq + 1
    BY <1>1 DEF IInv, RootsOK, RootOK
  <2>3. root' \in settled' /\ settled' \subseteq settled
    BY <1>1 DEF IInv, RootsOK, roots
  <2> QED
    BY <1>1, <1>2, <2>1, <2>2, <2>3 DEF HistoryStep
<1>5. RootsOK' /\ OneArchive' /\ Received' /\ Copies'
  BY <1>4, HistoryKeeps
<1>6. pc = "idle" /\ status = "open" /\ poison = "no"
  BY <1>1 DEF Healthy
<1>7. Protected'
  <2>1. CASE prot = None
    BY <1>1, <1>6, <2>1 DEF IInv, Protected, roots
  <2>2. CASE prot # None
    <3> DEFINE a == root.authority.initial
    <3>1. /\ ProtectionOK(records, first, durable, prot, a)
          /\ a.seq \in Nat
      BY <2>2, ProtectedFacts
    <3>2. OnLine(records, a, Top, prot.released)
      <4>1. Agree(records, records, durable)
        BY AgreeSelf DEF IInv
      <4>2. OnLine(records, a, durable, prot.released)
        BY <3>1 DEF ProtectionOK
      <4> HIDE DEF a
      <4> QED
        BY <1>2, <3>1, <4>1, <4>2, OnLineStays
    <3>3. ~(Top < Len(records))
      BY <1>2 DEF Top
    <3>4. ProtectionOK(records, first, Top, prot, a)
      <4> HIDE DEF a
      <4> QED
        BY <3>1, <3>2, <3>3 DEF ProtectionOK
    <3>5. /\ \A r \in settled : prot.released.seq <= r.authority.released.seq
          /\ \A r \in settled : r.authority.released = prot.released
      BY <1>6, <2>2 DEF IInv, Protected
    <3> QED
      BY <1>1, <1>6, <2>2, <3>4, <3>5 DEF Protected, roots
  <2> QED
    BY <2>1, <2>2
<1>8. Indexed'
  <2>1. index' # None => prot' # None
    BY <1>1 DEF IInv, Indexed
  <2> QED
    BY <1>1, <1>4, <2>1, IndexKept
<1>9. Working'
  BY <1>1, <1>6, IdleWorks
<1>10. Statuses'
  BY <1>1 DEF IInv, Statuses
<1> QED
  BY <1>3, <1>5, <1>7, <1>8, <1>9, <1>10 DEF IInv

(* Sealing: everything is durable, and collection leaves what is protected. *)
LEMMA Sealed ==
    ASSUME IInv, Healthy, SealLocked, UNCHANGED <<roots, prot, archived, frozen>>
    PROVE  /\ LogOK(records', first', cuts', durable', checkpoint')
           /\ HistoryStep /\ AllSealed' /\ Top' = Top /\ Top \in Nat
           /\ first' <= Top + 1 /\ durable' = Top /\ records' = records
           /\ prot' # None =>
                  ProtectionOK(records', first', durable', prot', root'.authority.initial)
<1>1. /\ durable' = Top /\ checkpoint' = Top /\ first' = Collected(Top, prot)
      /\ records' = records /\ cuts' = cuts
  BY DEF SealLocked
<1>2. /\ records \in Seq(Bodies) /\ Top \in Nat /\ durable \in Nat /\ durable <= Top
      /\ first \in Nat \ {0} /\ cuts \subseteq Nat /\ checkpoint \in Nat
      /\ checkpoint <= durable /\ first <= checkpoint + 1 /\ \A c \in cuts : c <= durable
  BY LenProperties DEF IInv, LogOK, Top
<1>3. Limit(prot) \in Nat /\ (prot # None => Limit(prot) = prot.released.seq)
  <2>1. prot # None => prot.released.seq \in Nat
    BY ProtectedFacts
  <2> QED
    BY <1>2, <2>1 DEF Limit
<1>4. /\ first' \in Nat \ {0}
      /\ first' = first \/ (first' <= Top + 1 /\ first' <= Limit(prot) + 1)
  <2>1. LogOK(records, first, cuts, durable, checkpoint)
    BY DEF IInv
  <2> QED
    BY <1>1, <1>2, <1>3, <2>1, CollectedIs
<1>5. first' <= Top + 1
  BY <1>2, <1>4
<1>6. LogOK(records', first', cuts', durable', checkpoint')
  <2>1. \A c \in cuts : c <= Top
    BY <1>2
  <2> QED
    BY <1>1, <1>2, <1>4, <1>5, <2>1 DEF LogOK, Top
<1>7. prot # None => first' <= prot.released.seq + 1 /\ prot.released.seq \in Nat
  <2>1. prot # None => first <= prot.released.seq + 1 /\ prot.released.seq \in Nat
    BY ProtectedFacts
  <2> QED
    BY <1>3, <1>4, <2>1
<1>8. HistoryStep
  <2>1. Agree(records, records', durable)
    BY <1>1, AgreeSelf DEF IInv
  <2>2. \A r \in settled : r.authority # None => first' <= r.authority.released.seq + 1
    <3>1. CASE prot = None
      BY <3>1 DEF IInv, Protected, Healthy
    <3>2. CASE prot # None
      BY <1>7, <3>2 DEF IInv, Protected, Healthy
    <3> QED
      BY <3>1, <3>2
  <2>3. root' \in settled' /\ settled' \subseteq settled
    BY DEF IInv, RootsOK, roots
  <2> QED
    BY <1>1, <1>2, <2>1, <2>2, <2>3 DEF HistoryStep
<1>9. ASSUME prot' # None
      PROVE  ProtectionOK(records', first', durable', prot', root'.authority.initial)
  <2> DEFINE a == root.authority.initial
  <2>1. /\ ProtectionOK(records, first, durable, prot, a)
        /\ a.seq \in Nat
    BY <1>9, ProtectedFacts
  <2>2. OnLine(records, a, Top, prot.released)
    <3>1. Agree(records, records, durable)
      BY AgreeSelf DEF IInv
    <3>2. OnLine(records, a, durable, prot.released)
      BY <2>1 DEF ProtectionOK
    <3> HIDE DEF a
    <3> QED
      BY <1>2, <2>1, <3>1, <3>2, OnLineStays
  <2>3. ~(Top < Len(records))
    BY <1>2 DEF Top
  <2>4. ProtectionOK(records, first', Top, prot, a)
    <3> HIDE DEF a
    <3> QED
      BY <1>7, <1>9, <2>1, <2>2, <2>3 DEF ProtectionOK
  <2> QED
    BY <1>1, <2>4 DEF roots
<1>10. AllSealed' /\ Top' = Top
  BY <1>1 DEF AllSealed, Top
<1> QED
  BY <1>1, <1>2, <1>5, <1>6, <1>8, <1>9, <1>10

(* The owner and the root as they were.                                    *)
LEMMA StillProtected ==
    ASSUME IInv, Healthy, UNCHANGED <<roots, prot, status, poison>>, pc' # "authoritySync",
           prot' # None =>
               ProtectionOK(records', first', durable', prot', root'.authority.initial)
    PROVE  Protected'
<1>1. pc = "idle" /\ status = "open" /\ poison = "no"
  BY DEF Healthy
<1>2. CASE prot = None
  <2>1. \A r \in settled : r.authority = None
    BY <1>1, <1>2 DEF IInv, Protected
  <2> QED
    BY <1>2, <2>1 DEF Protected, roots
<1>3. CASE prot # None
  <2>1. /\ \A r \in settled : prot.released.seq <= r.authority.released.seq
        /\ \A r \in settled : r.authority.released = prot.released
    BY <1>1, <1>3 DEF IInv, Protected
  <2> QED
    BY <1>1, <1>3, <2>1 DEF Protected, roots
<1> QED
  BY <1>2, <1>3

LEMMA SealKeeps ==
    ASSUME IInv, Seal
    PROVE  IInv'
<1>1. /\ Healthy /\ SealLocked
      /\ UNCHANGED <<roots, prot, index, status, poison, pc, job, archived, frozen, crashes>>
  BY DEF Seal
<1>2. /\ LogOK(records', first', cuts', durable', checkpoint') /\ HistoryStep
      /\ prot' # None =>
             ProtectionOK(records', first', durable', prot', root'.authority.initial)
  BY <1>1, Sealed
<1>3. pc = "idle" /\ pc' = "idle"
  BY <1>1 DEF Healthy
<1>4. RootsOK' /\ OneArchive' /\ Received' /\ Copies'
  BY <1>2, HistoryKeeps
<1>5. Protected'
  BY <1>1, <1>2, <1>3, StillProtected
<1>6. Indexed'
  <2>1. index' # None => prot' # None
    BY <1>1 DEF IInv, Indexed
  <2> QED
    BY <1>1, <1>2, <2>1, IndexKept
<1>7. Working'
  BY <1>3, IdleWorks
<1>8. Statuses'
  BY <1>1 DEF IInv, Statuses
<1> QED
  BY <1>2, <1>4, <1>5, <1>6, <1>7, <1>8 DEF IInv

LEMMA BeginEnableKeeps ==
    ASSUME IInv, BeginEnable
    PROVE  IInv'
<1> DEFINE start == [branch |-> crashes, seq |-> Top, digest |-> << >>]
           next == [initial |-> start, released |-> start]
<1>1. /\ Healthy /\ prot = None /\ SealLocked /\ pc' = "authority"
      /\ job' = [kind |-> "enable", next |-> next]
      /\ UNCHANGED <<roots, prot, index, status, poison, archived, frozen, crashes>>
  BY DEF BeginEnable
<1>2. /\ LogOK(records', first', cuts', durable', checkpoint') /\ HistoryStep
      /\ AllSealed' /\ Top' = Top /\ Top \in Nat /\ first' <= Top + 1 /\ durable' = Top
  BY <1>1, Sealed
<1>3. pc = "idle" /\ status = "open" /\ poison = "no"
  BY <1>1 DEF Healthy
<1>4. RootsOK' /\ OneArchive' /\ Received' /\ Copies'
  BY <1>2, HistoryKeeps
<1>5. Protected'
  BY <1>1, StillProtected
<1>6. Indexed'
  <2>1. index = None
    BY <1>1 DEF IInv, Indexed
  <2> QED
    BY <1>1, <1>2, <2>1, IndexKept
<1>7. archived = << >> /\ DOMAIN frozen = {}
  <2>1. root.authority = None /\ root \in settled
    BY <1>1, <1>3 DEF IInv, Protected, RootsOK
  <2> QED
    BY <2>1 DEF IInv, OneArchive
<1>8. start = At(records', start, Top) /\ start.seq = Top
  <2>1. SubSeq(records', Top + 1, Top) = << >>
    <3>1. Top < Top + 1 /\ Top \in Int /\ Top + 1 \in Int
      BY <1>2
    <3> QED
      BY <3>1, SubSeqEmpty
  <2>2. start.seq = Top /\ start.branch = crashes
    OBVIOUS
  <2> QED
    BY <2>1, <2>2 DEF At
<1>9. AuthorityOK(records', durable', next) /\ next.released.seq = Top
  <2>1. next.initial = start /\ next.released = start
        /\ next = [initial |-> next.initial, released |-> next.released]
    OBVIOUS
  <2>2. start = [branch |-> start.branch, seq |-> start.seq, digest |-> << >>]
    OBVIOUS
  <2> HIDE DEF next, start
  <2>3. Top \in Top .. Top
    BY <1>2
  <2> QED
    BY <1>2, <1>8, <2>1, <2>2, <2>3 DEF AuthorityOK, OnLine
<1>10. Working'
  <2>1. /\ job' = [kind |-> job'.kind, next |-> job'.next]
        /\ job'.kind = "enable" /\ job'.next = next /\ next.initial = next.released
    BY <1>1
  <2> HIDE DEF next
  <2> QED
    BY <1>1, <1>2, <1>3, <1>7, <1>9, <2>1 DEF Working
<1>11. Statuses'
  BY <1>1, <1>3 DEF IInv, Statuses
<1> QED
  BY <1>2, <1>4, <1>5, <1>6, <1>10, <1>11 DEF IInv

LEMMA BeginBaseKeeps ==
    ASSUME IInv, NEW id \in Bases, BeginBase(id)
    PROVE  IInv'
<1>1. /\ Healthy /\ prot # None /\ id \notin DOMAIN frozen /\ SealLocked /\ pc' = "pin"
      /\ job' = [kind |-> "base", id |-> id, cursor |-> prot.latest]
      /\ UNCHANGED <<roots, prot, index, status, poison, archived, frozen, crashes>>
  BY DEF BeginBase, PinnedCursor
<1>2. /\ LogOK(records', first', cuts', durable', checkpoint') /\ HistoryStep /\ AllSealed'
      /\ prot' # None =>
             ProtectionOK(records', first', durable', prot', root'.authority.initial)
  BY <1>1, Sealed
<1>3. pc = "idle" /\ status = "open" /\ poison = "no"
  BY <1>1 DEF Healthy
<1>4. RootsOK' /\ OneArchive' /\ Received' /\ Copies'
  BY <1>2, HistoryKeeps
<1>5. Protected'
  BY <1>1, <1>2, StillProtected
<1>6. Indexed'
  BY <1>1, <1>2, IndexKept
<1>7. Working'
  <2>1. /\ job' = [kind |-> job'.kind, id |-> job'.id, cursor |-> job'.cursor]
        /\ job'.id = id /\ job'.cursor = prot'.latest
    BY <1>1
  <2> QED
    BY <1>1, <1>2, <1>3, <2>1 DEF Working
<1>8. Statuses'
  BY <1>1, <1>3 DEF IInv, Statuses
<1> QED
  BY <1>2, <1>4, <1>5, <1>6, <1>7, <1>8 DEF IInv

LEMMA PublishAuthorityKeeps ==
    ASSUME IInv, PublishAuthority
    PROVE  IInv'
<1> DEFINE next == job.next
<1>1. /\ pc = "authority" /\ root' = [root EXCEPT !.authority = next]
      /\ settled' = settled \cup {root'} /\ pc' = "authoritySync"
      /\ UNCHANGED <<log, prot, index, status, poison, job, archived, frozen, crashes>>
  BY DEF PublishAuthority, Rename
<1>2. /\ status = "open" /\ poison = "no"
      /\ job = [kind |-> job.kind, next |-> job.next]
      /\ AuthorityOK(records, durable, next) /\ first <= next.released.seq + 1
      /\ \/ /\ job.kind = "enable" /\ prot = None /\ AllSealed
            /\ archived = <<>> /\ DOMAIN frozen = {}
            /\ next.initial = next.released /\ next.released.seq = Top
         \/ /\ job.kind = "release" /\ prot # None
            /\ next.initial = root.authority.initial
            /\ prot.released.seq <= next.released.seq
            /\ PinsAllow(root, next.released)
  BY <1>1 DEF IInv, Working
<1>3. root \in settled /\ \A r \in settled : RootOK(records, first, durable, r)
  BY DEF IInv, RootsOK
<1>4. root'.authority = next /\ root'.pins = root.pins
      /\ root' = [authority |-> root'.authority, pins |-> root'.pins]
  <2>1. root = [authority |-> root.authority, pins |-> root.pins]
    BY <1>3 DEF RootOK
  <2> HIDE DEF next
  <2> QED
    BY <1>1, <2>1
<1>5. /\ records' = records /\ first' = first /\ cuts' = cuts /\ durable' = durable
      /\ checkpoint' = checkpoint
  BY <1>1 DEF log
<1>6. next # None
  BY <1>2, AuthorityIs
<1>7. LogOK(records', first', cuts', durable', checkpoint') /\ Statuses'
  BY <1>1, <1>2, <1>5 DEF IInv, Statuses
<1>8. CASE job.kind = "enable"
  <2>1. /\ prot = None /\ AllSealed /\ archived = <<>> /\ DOMAIN frozen = {}
        /\ next.initial = next.released /\ next.released.seq = Top
    BY <1>2, <1>8
  <2>2. \A r \in settled : r.authority = None /\ DOMAIN r.pins = {}
    BY <1>1, <1>2, <1>3, <2>1 DEF IInv, Protected, RootOK
  <2>3. RootOK(records, first, durable, root')
    BY <1>2, <1>3, <1>4, <2>2 DEF RootOK
  <2>4. RootsOK'
    BY <1>1, <1>3, <1>5, <2>3 DEF RootsOK
  <2>5. OneArchive' /\ Protected' /\ Copies'
    BY <1>1, <2>1 DEF OneArchive, Protected, Copies
  <2>6. Indexed'
    BY <1>1, <2>1 DEF IInv, Indexed
  <2>7. Received'
    <3>1. Top \in Nat /\ durable = Top /\ next.initial.seq = Top
      BY <2>1, LenProperties DEF IInv, LogOK, Top, AllSealed
    <3>2. SubSeq(records, Top + 1, Top) = << >>
      <4>1. Top < Top + 1 /\ Top \in Int /\ Top + 1 \in Int
        BY <3>1
      <4> QED
        BY <4>1, SubSeqEmpty
    <3>3. Len(archived') = 0 /\ archived' = << >> /\ Top + 0 = Top
      BY <1>1, <2>1, <3>1
    <3>4. archived' \in Seq(Bodies)
      BY <1>1 DEF IInv, Received
    <3> HIDE DEF next
    <3> QED
      BY <1>4, <1>5, <1>6, <3>1, <3>2, <3>3, <3>4 DEF Received
  <2>8. Working'
    <3>1. \A r \in settled' : r.authority \in {None, next} /\ DOMAIN r.pins = {}
      BY <1>1, <1>3, <1>4, <2>2
    <3> HIDE DEF next
    <3>2. AllSealed'
      BY <1>5, <2>1 DEF AllSealed, Top
    <3>3. Top' = Top
      BY <1>5 DEF Top
    <3> QED
      BY <1>1, <1>2, <1>4, <1>5, <1>8, <2>1, <3>1, <3>2, <3>3 DEF Working, next
  <2> QED
    BY <1>7, <2>4, <2>5, <2>6, <2>7, <2>8 DEF IInv
<1>9. CASE job.kind = "release"
  <2> DEFINE a == root.authority.initial
  <2>1. /\ prot # None /\ next.initial = a /\ prot.released.seq <= next.released.seq
        /\ PinsAllow(root, next.released)
    BY <1>2, <1>9
  <2>2. root'.authority.initial = a
    BY <1>4, <2>1
  <2>3. \A r \in settled : r.authority # None /\ r.authority.initial = a
    BY <2>1 DEF IInv, OneArchive
  <2>4. RootOK(records, first, durable, root')
    <3>1. \A id \in DOMAIN root.pins : OnLine(records, a, durable, root.pins[id])
      BY <1>3, <2>3 DEF RootOK
    <3>2. \A id \in DOMAIN root.pins : next.released.seq <= root.pins[id].seq
      <4>1. \A id \in DOMAIN root.pins : root.pins[id].seq >= next.released.seq
        BY <2>1 DEF PinsAllow, Pins
      <4>2. \A id \in DOMAIN root.pins : root.pins[id].seq \in Int
        BY <1>3, <2>3, <3>1 DEF OnLine, RootOK, AuthorityOK
      <4>3. next.released.seq \in Int
        BY <1>2 DEF AuthorityOK, OnLine
      <4> QED
        BY <4>1, <4>2, <4>3
    <3> HIDE DEF next, a
    <3> QED
      BY <1>2, <1>4, <1>6, <2>1, <3>1, <3>2 DEF RootOK
  <2>5. RootsOK'
    BY <1>1, <1>3, <1>5, <2>4 DEF RootsOK
  <2>6. OneArchive'
    BY <1>1, <1>4, <1>6, <2>2, <2>3 DEF OneArchive
  <2>7. Protected'
    <3>1. /\ ProtectionOK(records, first, durable, prot, a)
          /\ \A r \in settled : prot.released.seq <= r.authority.released.seq
      BY <2>1 DEF IInv, Protected
    <3>2. \A r \in settled' : prot.released.seq <= r.authority.released.seq
      BY <1>1, <1>4, <2>1, <3>1
    <3> HIDE DEF next, a
    <3> QED
      BY <1>1, <1>2, <1>5, <2>1, <2>2, <3>1, <3>2 DEF Protected
  <2>8. Indexed'
    BY <1>1, <1>5, <2>2 DEF IInv, Indexed
  <2>9. Received'
    <3>1. LET start == a.seq
          IN  /\ start + Len(archived) <= durable
              /\ archived = SubSeq(records, start + 1, start + Len(archived))
      BY <1>3, <2>3 DEF IInv, Received
    <3>2. archived' \in Seq(Bodies)
      BY <1>1 DEF IInv, Received
    <3> HIDE DEF next, a
    <3> QED
      BY <1>1, <1>4, <1>5, <1>6, <2>2, <3>1, <3>2 DEF Received
  <2>10. Copies'
    <3>1. \A id \in DOMAIN frozen :
              LET c == frozen[id].cursor
              IN  /\ OnLine(records, a, durable, c)
                  /\ frozen[id].rows = SubSeq(records, 1, c.seq)
                  /\ \A r \in settled : id \in DOMAIN r.pins => r.pins[id] = c
      BY DEF IInv, Copies
    <3> HIDE DEF a, next
    <3>2. \A id \in DOMAIN frozen :
              \A r \in settled' : id \in DOMAIN r.pins => r.pins[id] = frozen[id].cursor
      <4>1. \A id \in DOMAIN frozen :
                \A r \in settled : id \in DOMAIN r.pins => r.pins[id] = frozen[id].cursor
        BY <3>1
      <4> TAKE id \in DOMAIN frozen
      <4> TAKE r \in settled'
      <4>2. \E s \in settled : r.pins = s.pins
        BY <1>1, <1>3, <1>4
      <4> QED
        BY <4>1, <4>2
    <3> QED
      BY <1>1, <1>5, <2>2, <3>1, <3>2 DEF Copies
  <2>11. Working'
    <3>1. PinsAllow(root', next.released)
      BY <1>4, <2>1 DEF PinsAllow, Pins
    <3> HIDE DEF next
    <3> QED
      BY <1>1, <1>2, <1>4, <1>5, <1>9, <2>1, <2>2, <3>1 DEF Working, next
  <2> QED
    BY <1>7, <2>5, <2>6, <2>7, <2>8, <2>9, <2>10, <2>11 DEF IInv
<1> QED
  BY <1>2, <1>8, <1>9

LEMMA AuthorityDoneKeeps ==
    ASSUME IInv, AuthorityDone
    PROVE  IInv'
<1> DEFINE next == job.next
<1>1. /\ pc = "authoritySync" /\ root' = root /\ settled' = {root}
      /\ pc' = "idle"
      /\ UNCHANGED <<records, cuts, durable, checkpoint, index, status, poison, archived,
                     frozen, crashes>>
  BY DEF AuthorityDone, RootSynced
<1>2. /\ status = "open" /\ poison = "no" /\ root.authority = next
      /\ AuthorityOK(records, durable, next) /\ first <= next.released.seq + 1
      /\ \/ /\ job.kind = "enable" /\ prot = None /\ AllSealed
            /\ archived = <<>> /\ DOMAIN frozen = {}
            /\ next.initial = next.released /\ next.released.seq = Top
         \/ /\ job.kind = "release" /\ prot # None
            /\ prot.released.seq <= next.released.seq
            /\ PinsAllow(root, next.released)
  BY <1>1 DEF IInv, Working
<1>3. root \in settled /\ \A r \in settled : RootOK(records, first, durable, r)
  BY DEF IInv, RootsOK
<1>4. /\ records \in Seq(Bodies) /\ Top \in Nat /\ durable \in Nat /\ durable <= Top
      /\ first \in Nat \ {0} /\ cuts \subseteq Nat /\ checkpoint \in Nat
      /\ checkpoint <= durable /\ first <= checkpoint + 1 /\ \A c \in cuts : c <= durable
  BY LenProperties DEF IInv, LogOK, Top
<1>5. next # None
  BY <1>2, AuthorityIs
<1>6. /\ next.initial.seq \in Nat /\ OnLine(records, next.initial, durable, next.released)
      /\ next.released.seq \in Nat /\ next.released.seq <= durable
  <2>1. next.initial.seq \in Nat /\ OnLine(records, next.initial, durable, next.released)
    BY <1>2 DEF AuthorityOK
  <2> HIDE DEF next
  <2> QED
    BY <1>4, <2>1 DEF OnLine
<1>7. Statuses' /\ Working'
  BY <1>1, <1>2, IdleWorks DEF IInv, Statuses
<1>8. CASE job.kind = "enable"
  <2>1. /\ prot = None /\ AllSealed /\ archived = <<>> /\ DOMAIN frozen = {}
        /\ next.initial = next.released /\ next.released.seq = Top
    BY <1>2, <1>8
  <2> DEFINE p == next.released
  <2>2. prot' = [released |-> p, latest |-> p, durable |-> p] /\ first' = first
    BY <1>8 DEF AuthorityDone
  <2>3. prot'.released = p /\ prot'.latest = p /\ prot'.durable = p
        /\ prot' = [released |-> prot'.released, latest |-> prot'.latest,
                    durable |-> prot'.durable]
    <3> HIDE DEF p
    <3> QED
      BY <2>2
  <2>4. prot'.latest = At(records, next.initial, Len(records))
    <3>1. p = At(records, next.initial, p.seq)
      BY <1>6 DEF OnLine
    <3> QED
      BY <2>1, <2>3, <3>1 DEF Top
  <2>5. ProtectionOK(records, first, durable, prot', next.initial)
    <3>1. ~(durable < Len(records))
      BY <1>4, <2>1 DEF AllSealed, Top
    <3> HIDE DEF next, p
    <3> QED
      BY <1>2, <1>6, <2>3, <2>4, <3>1 DEF ProtectionOK, p
  <2>6. LogOK(records', first', cuts', durable', checkpoint')
    BY <1>1, <2>2 DEF IInv
  <2>7. RootsOK'
    BY <1>1, <1>3, <2>2 DEF RootsOK
  <2>8. OneArchive'
    BY <1>1, <1>2, <1>5 DEF OneArchive
  <2>9. Protected'
    <3>1. prot'.released.seq <= prot'.released.seq
      BY <1>6, <2>3
    <3>2. prot' # None
      <4>1. "released" \in DOMAIN prot'
        BY <2>3
      <4>2. "released" \notin DOMAIN None
        BY DEF None
      <4> QED
        BY <4>1, <4>2
    <3>3. \A r \in settled' : r.authority.released = prot'.released
      BY <1>1, <1>2, <2>3
    <3> HIDE DEF next, p
    <3> QED
      BY <1>1, <1>2, <2>2, <2>5, <3>1, <3>2, <3>3 DEF Protected
  <2>10. Indexed'
    BY <1>1, <2>1 DEF IInv, Indexed
  <2>11. Received' /\ Copies'
    BY <1>1, <2>1 DEF IInv, Received, Copies
  <2> QED
    BY <1>7, <2>6, <2>7, <2>8, <2>9, <2>10, <2>11 DEF IInv
<1>9. CASE job.kind = "release"
  <2> DEFINE a == root.authority.initial
             p == next.released
  <2>1. prot # None /\ prot.released.seq <= p.seq
    BY <1>2, <1>9
  <2>2. prot' = [prot EXCEPT !.released = p] /\ first' = Collected(checkpoint, prot')
    BY <1>9 DEF AuthorityDone
  <2>3. ProtectionOK(records, first, durable, prot, a) /\ a.seq \in Nat
    BY <2>1, ProtectedFacts
  <2>4. /\ prot'.released = p /\ prot'.latest = prot.latest /\ prot'.durable = prot.durable
        /\ prot' = [released |-> prot'.released, latest |-> prot'.latest,
                    durable |-> prot'.durable]
    <3>1. prot = [released |-> prot.released, latest |-> prot.latest,
                  durable |-> prot.durable]
      <4>1. prot = [released |-> prot.released, latest |-> At(records, a, Len(records)),
                    durable |-> prot.durable]
        BY <2>3 DEF ProtectionOK
      <4> HIDE DEF a
      <4> DEFINE last == At(records, a, Len(records))
      <4> HIDE DEF last
      <4>2. prot = [released |-> prot.released, latest |-> last, durable |-> prot.durable]
        BY <4>1 DEF last
      <4> QED
        BY <4>2
    <3> HIDE DEF p
    <3> QED
      BY <2>2, <3>1
  <2>5. prot' # None
    <3>1. "released" \in DOMAIN prot'
      BY <2>4
    <3>2. "released" \notin DOMAIN None
      BY DEF None
    <3> QED
      BY <3>1, <3>2
  <2>6. Limit(prot') = p.seq /\ p.seq \in Nat
    BY <1>6, <2>4, <2>5 DEF Limit
  <2>7. /\ first' \in Nat \ {0}
        /\ first' = first \/ (first' <= checkpoint + 1 /\ first' <= p.seq + 1)
    <3>1. LogOK(records, first, cuts, durable, checkpoint)
      BY DEF IInv
    <3> HIDE DEF p
    <3> QED
      BY <1>4, <2>2, <2>6, <3>1, CollectedIs
  <2>8. first' <= checkpoint + 1 /\ first' <= p.seq + 1
    BY <1>2, <1>4, <2>7
  <2>9. LogOK(records', first', cuts', durable', checkpoint')
    BY <1>1, <1>4, <2>7, <2>8 DEF LogOK, Top
  <2>10. HistoryStep
    <3>1. Agree(records, records', durable)
      BY <1>1, AgreeSelf DEF IInv
    <3>2. \A r \in settled' : r.authority # None => first' <= r.authority.released.seq + 1
      BY <1>1, <1>2, <2>8
    <3>3. durable <= durable'
      BY <1>1, <1>4
    <3> HIDE DEF p, a, next
    <3> QED
      BY <1>1, <1>3, <1>4, <2>1, <3>1, <3>2, <3>3 DEF HistoryStep
  <2>11. RootsOK' /\ OneArchive' /\ Received' /\ Copies'
    BY <2>10, HistoryKeeps
  <2>12. Protected'
    <3>1. OnLine(records, a, durable, p)
      BY <1>2, <1>6
    <3>2. ProtectionOK(records, first', durable, prot', a)
      <4> HIDE DEF a, p, next
      <4>1. prot.latest = At(records, a, Len(records))
        <5>1. prot = [released |-> prot.released, latest |-> At(records, a, Len(records)),
                      durable |-> prot.durable]
          BY <2>3 DEF ProtectionOK
        <5> DEFINE last == At(records, a, Len(records))
        <5> HIDE DEF last
        <5>2. prot = [released |-> prot.released, latest |-> last, durable |-> prot.durable]
          BY <5>1 DEF last
        <5>3. prot.latest = last
          BY <5>2
        <5> QED
          BY <5>3 DEF last
      <4>2. prot' = [released |-> prot'.released, latest |-> At(records, a, Len(records)),
                     durable |-> prot'.durable]
        BY <2>4, <4>1
      <4>3. durable < Len(records) => prot'.durable = At(records, a, durable)
        BY <2>3, <2>4 DEF ProtectionOK
      <4> QED
        BY <2>4, <2>8, <3>1, <4>2, <4>3 DEF ProtectionOK
    <3>3. prot'.released.seq <= prot'.released.seq
      BY <2>4, <2>6
    <3>4. \A r \in settled' : r.authority.released = prot'.released
      BY <1>1, <1>2, <2>4
    <3> HIDE DEF next, p
    <3> QED
      BY <1>1, <1>2, <2>5, <3>2, <3>3, <3>4 DEF Protected
  <2>13. Indexed'
    BY <1>1, <2>5, <2>10, IndexKept
  <2> QED
    BY <1>7, <2>9, <2>11, <2>12, <2>13 DEF IInv
<1> QED
  BY <1>2, <1>8, <1>9

LEMMA AuthorityFailsKeeps ==
    ASSUME IInv, AuthorityFails
    PROVE  IInv'
<1>1. /\ pc' = "idle" /\ poison' = "io" /\ pc # "idle"
      /\ UNCHANGED <<log, roots, prot, index, status, archived, frozen, crashes>>
  BY DEF AuthorityFails
<1>2. status = "open"
  BY <1>1 DEF IInv, Working
<1>3. LogOK(records', first', cuts', durable', checkpoint') /\ RootsOK' /\ OneArchive'
  BY <1>1 DEF IInv, RootsOK, OneArchive, log, roots
<1>4. Protected'
  BY <1>1 DEF IInv, Protected, log, roots
<1>5. Indexed' /\ Received' /\ Copies'
  BY <1>1 DEF IInv, Indexed, Received, Copies, log, roots
<1>6. Working'
  BY <1>1, IdleWorks
<1>7. Statuses'
  BY <1>1, <1>2 DEF IInv, Statuses
<1> QED
  BY <1>3, <1>4, <1>5, <1>6, <1>7 DEF IInv

-----------------------------------------------------------------------------
(***************************************************************************)
(* Exports.                                                                *)
(***************************************************************************)
LEMMA Basics ==
    ASSUME IInv
    PROVE  /\ records \in Seq(Bodies) /\ Top \in Nat /\ Top = Len(records)
           /\ durable \in Nat /\ durable <= Top
           /\ first \in Nat \ {0} /\ cuts \subseteq Nat /\ checkpoint \in Nat
           /\ checkpoint <= durable /\ first <= checkpoint + 1
           /\ \A c \in cuts : c <= durable
BY LenProperties DEF IInv, LogOK, Top

(* What archivers have lies where the archive began.                       *)
LEMMA ArchivedIs ==
    ASSUME IInv, root.authority # None
    PROVE  LET start == root.authority.initial.seq
           IN  /\ start \in Nat /\ archived \in Seq(Bodies) /\ Len(archived) \in Nat
               /\ start + Len(archived) <= durable
               /\ archived = SubSeq(records, start + 1, start + Len(archived))
<1> DEFINE start == root.authority.initial.seq
<1>1. RootOK(records, first, durable, root)
  BY DEF IInv, RootsOK
<1>2. start \in Nat
  BY <1>1 DEF RootOK, AuthorityOK
<1>3. /\ start + Len(archived) <= durable
      /\ archived = SubSeq(records, start + 1, start + Len(archived))
  BY DEF IInv, Received
<1>4. archived \in Seq(Bodies)
  BY DEF IInv, Received
<1> QED
  BY <1>2, <1>3, <1>4, LenProperties

(* A cursor an archiver holds is one of the durable history.               *)
LEMMA HeldIs ==
    ASSUME IInv, root.authority # None, NEW k \in 0 .. Len(archived)
    PROVE  LET a == root.authority.initial
           IN  /\ Held(k) = At(records, a, a.seq + k) /\ Held(k).seq = a.seq + k
               /\ OnLine(records, a, durable, Held(k))
<1> DEFINE a == root.authority.initial
           start == a.seq
           len == Len(archived)
           part == SubSeq(archived, 1, k)
<1>1. /\ start \in Nat /\ len \in Nat /\ start + len <= durable
      /\ archived = SubSeq(records, start + 1, start + len)
  BY ArchivedIs
<1>2. RootOK(records, first, durable, root)
  BY DEF IInv, RootsOK
<1>3. a = [branch |-> a.branch, seq |-> start, digest |-> <<>>]
  BY <1>2 DEF RootOK, AuthorityOK
<1>4. Held(k) = Moved(a, start + k, part)
  BY DEF Held, Moved
<1>5. part = SubSeq(records, start + 1, start + k)
  <2> HIDE DEF start, len
  <2>1. /\ start + 1 \in Nat \ {0} /\ start + len \in Nat /\ start + len <= Len(records)
        /\ start + 1 <= (start + len) + 1 /\ k \in Nat
        /\ k <= (start + len) - (start + 1) + 1
    BY <1>1, Basics DEF len
  <2>2. SubSeq(SubSeq(records, start + 1, start + len), 1, k)
            = SubSeq(records, start + 1, (start + 1) + k - 1)
    <3>1. records \in Seq(Bodies)
      BY Basics
    <3> DEFINE m == start + 1
               n == start + len
    <3>2. m \in Nat \ {0} /\ n \in Nat /\ n <= Len(records) /\ m <= n + 1
          /\ k \in Nat /\ k <= n - m + 1
      BY <2>1
    <3> HIDE DEF m, n
    <3>3. SubSeq(SubSeq(records, m, n), 1, k) = SubSeq(records, m, m + k - 1)
      BY <3>1, <3>2, PartOfPart
    <3> QED
      BY <3>3 DEF m, n
  <2>3. (start + 1) + k - 1 = start + k
    BY <1>1
  <2> QED
    BY <1>1, <2>2, <2>3
<1> HIDE DEF a, part
<1>6. Held(k) = [branch |-> a.branch, seq |-> start + k, digest |-> part]
  BY <1>3, <1>4, MovedIs
<1>7. Held(k) = At(records, a, start + k) /\ Held(k).seq = start + k
  <2>1. At(records, a, start + k) = [branch |-> a.branch, seq |-> start + k, digest |-> part]
    BY <1>5 DEF At
  <2> QED
    BY <1>6, <2>1
<1>8. start + k \in start .. durable
  BY <1>1, Basics
<1> QED
  BY <1>7, <1>8 DEF OnLine, a

(* Where exports end.                                                      *)
LEMMA EndIs ==
    ASSUME IInv, prot # None
    PROVE  LET a == root.authority.initial
           IN  DurableEnd = At(records, a, durable) /\ DurableEnd.seq = durable
               /\ OnLine(records, a, durable, DurableEnd)
<1> DEFINE a == root.authority.initial
<1>1. a.seq \in Nat /\ ProtectionOK(records, first, durable, prot, a)
      /\ a.seq <= prot.released.seq /\ prot.released.seq <= durable
      /\ prot.released.seq \in Nat
  BY ProtectedFacts
<1>2. prot.latest = At(records, a, Len(records))
  <2> DEFINE last == At(records, a, Len(records))
  <2> HIDE DEF a
  <2>1. prot = [released |-> prot.released, latest |-> last, durable |-> prot.durable]
    BY <1>1 DEF ProtectionOK
  <2> HIDE DEF last
  <2>2. prot.latest = last
    BY <2>1
  <2> QED
    BY <2>2 DEF last
<1> HIDE DEF a
<1>3. DurableEnd = At(records, a, durable)
  <2>1. CASE Top <= durable
    <3>1. durable = Len(records)
      BY <2>1, Basics
    <3> QED
      BY <1>2, <2>1, <3>1 DEF DurableEnd
  <2>2. CASE ~(Top <= durable)
    <3>1. durable < Len(records)
      BY <2>2, Basics
    <3> QED
      BY <1>1, <2>2, <3>1 DEF DurableEnd, ProtectionOK
  <2> QED
    BY <2>1, <2>2
<1>4. At(records, a, durable).seq = durable
  BY DEF At
<1>5. durable \in a.seq .. durable
  BY <1>1, Basics
<1> QED
  BY <1>3, <1>4, <1>5 DEF OnLine, a

(* The index an export finds or builds.                                    *)
LEMMA IndexIs ==
    ASSUME IInv, prot # None, NEW after,
           OnLine(records, root.authority.initial, durable, after),
           prot.released.seq <= after.seq
    PROVE  LET ix == IndexFor(after)
           IN  /\ Readable(after) /\ ix.cursor = after
               /\ IndexOK(records, durable, ix, root.authority.initial)
               /\ ix.remaining > 0 \/ after.seq = DurableEnd.seq
<1> DEFINE a == root.authority.initial
           base == Baseline(after)
<1>1. a.seq \in Nat /\ ProtectionOK(records, first, durable, prot, a)
      /\ a.seq <= prot.released.seq /\ prot.released.seq <= durable
      /\ prot.released.seq \in Nat /\ first <= prot.released.seq + 1
  BY ProtectedFacts
<1>2. after = At(records, a, after.seq) /\ after.seq \in a.seq .. durable
  BY DEF OnLine
<1>3. after.seq \in Nat /\ after.seq <= durable /\ durable <= Len(records)
      /\ durable \in Nat /\ first \in Nat
  <2> HIDE DEF a
  <2> QED
    BY <1>1, <1>2, Basics
<1>4. /\ base = At(records, a, base.seq) /\ base.seq \in Nat /\ a.seq <= base.seq
      /\ base.seq <= after.seq /\ prot.released.seq <= base.seq
  <2>1. CASE Cached(after)
    <3>1. base = after
      BY <2>1 DEF Baseline
    <3> HIDE DEF base, a
    <3> QED
      BY <1>1, <1>2, <1>3, <3>1
  <2>2. CASE ~Cached(after)
    <3>1. base = prot.released
      BY <2>2 DEF Baseline
    <3>2. prot.released = At(records, a, prot.released.seq)
      BY <1>1 DEF ProtectionOK, OnLine
    <3> HIDE DEF base, a
    <3> QED
      BY <1>1, <3>1, <3>2
  <2> QED
    BY <2>1, <2>2
<1>5. Readable(after)
  <2>1. after.seq + 1 >= first /\ base.seq + 1 >= first
    <3> HIDE DEF base, a
    <3> QED
      BY <1>1, <1>3, <1>4
  <2> QED
    BY <2>1 DEF Readable
<1>6. CASE Ready(after)
  <2>1. /\ IndexFor(after) = index /\ index.cursor = after
        /\ index.remaining > 0 \/ index.end = DurableEnd
        /\ index # None
    BY <1>6 DEF IndexFor, Ready, Cached
  <2>2. IndexOK(records, durable, index, a)
    BY <2>1 DEF IInv, Indexed
  <2>3. index.remaining > 0 \/ after.seq = DurableEnd.seq
    <3>1. /\ index.remaining = index.end.seq - index.cursor.seq
          /\ index.cursor.seq <= index.end.seq
          /\ index.cursor.seq \in a.seq .. durable /\ index.end.seq \in a.seq .. durable
      BY <2>2 DEF IndexOK, OnLine
    <3>2. index.end = DurableEnd => index.remaining > 0 \/ index.cursor.seq = DurableEnd.seq
      <4> HIDE DEF a
      <4> QED
        BY <1>1, <1>3, <3>1
    <3> QED
      BY <2>1, <3>2
  <2> QED
    BY <1>5, <2>1, <2>2, <2>3
<1>7. CASE ~Ready(after)
  <2> DEFINE ix == IndexFor(after)
             end == DurableEnd
             cost == IF end.seq = after.seq THEN 0 ELSE end.seq - base.seq
             c == Advance(base, after.seq)
  <2>1. ix = [cursor |-> c, end |-> end, remaining |-> end.seq - after.seq, charged |-> cost]
    BY <1>7 DEF IndexFor, NewIndex
  <2>2. c = after
    <3>1. records \in Seq(Bodies)
      BY Basics
    <3> HIDE DEF a, base
    <3>2. Advance(At(records, a, base.seq), after.seq) = At(records, a, after.seq)
      BY <1>1, <1>3, <1>4, <3>1, AdvanceIs
    <3> QED
      BY <1>2, <1>4, <3>2
  <2>3. end.seq = durable /\ OnLine(records, a, durable, end)
    BY EndIs
  <2> HIDE DEF ix, c, end, cost, a
  <2>4. /\ ix.cursor = after /\ ix.end = end /\ ix.remaining = end.seq - after.seq
        /\ ix = [cursor |-> ix.cursor, end |-> ix.end, remaining |-> ix.remaining,
                 charged |-> ix.charged]
    BY <2>1, <2>2
  <2>5. IndexOK(records, durable, ix, a)
    <3>1. OnLine(records, a, durable, after)
      BY DEF a
    <3> QED
      BY <1>3, <2>3, <2>4, <3>1 DEF IndexOK
  <2>6. ix.remaining > 0 \/ after.seq = end.seq
    BY <1>3, <2>3, <2>4
  <2> QED
    BY <1>5, <2>4, <2>5, <2>6 DEF ix, end, a
<1> QED
  BY <1>6, <1>7

(* A cursor that covers another one is not behind it.                      *)
LEMMA CoversIs ==
    ASSUME IInv, prot # None, NEW after,
           OnLine(records, root.authority.initial, durable, after),
           Exportable(after)
    PROVE  prot.released.seq <= after.seq /\ after.seq \in Nat
<1>1. /\ root.authority.initial.seq \in Nat /\ prot.released.seq \in Nat
  BY ProtectedFacts
<1>2. after.seq \in Nat
  BY <1>1, Basics DEF OnLine
<1> QED
  BY <1>1, <1>2 DEF Exportable, Covers

(* What archivers have after an export is the history, further than before. *)
LEMMA Patched ==
    ASSUME IInv, root.authority # None, NEW k \in 0 .. Len(archived), NEW n \in Nat,
           root.authority.initial.seq + k + n <= durable
    PROVE  LET start == root.authority.initial.seq
               new == SubSeq(archived, 1, k) \o SubSeq(records, start + k + 1, start + k + n)
                      \o SubSeq(archived, k + n + 1, Len(archived))
           IN  /\ new \in Seq(Bodies) /\ start + Len(new) <= durable
               /\ new = SubSeq(records, start + 1, start + Len(new))
<1> DEFINE start == root.authority.initial.seq
           len == Len(archived)
           front == SubSeq(archived, 1, k)
           chunk == SubSeq(records, start + k + 1, start + k + n)
           back == SubSeq(archived, k + n + 1, len)
           most == IF k + n <= len THEN len ELSE k + n
<1>1. /\ start \in Nat /\ len \in Nat /\ start + len <= durable /\ archived \in Seq(Bodies)
      /\ archived = SubSeq(records, start + 1, start + len)
  BY ArchivedIs
<1>2. records \in Seq(Bodies) /\ durable \in Nat /\ durable <= Len(records)
      /\ Len(records) \in Nat
  BY Basics
<1>3. front = SubSeq(records, start + 1, start + k)
  <2>1. Held(k) = At(records, root.authority.initial, start + k)
    BY HeldIs
  <2> DEFINE m == start + 1
             e == start + len
  <2>2. m \in Nat \ {0} /\ e \in Nat /\ e <= Len(records) /\ m <= e + 1
        /\ k \in Nat /\ k <= e - m + 1
    <3> HIDE DEF start, len
    <3> QED
      BY <1>1, <1>2 DEF len
  <2>3. m + k - 1 = start + k
    <3> HIDE DEF start
    <3> QED
      BY <1>1, <2>2
  <2> HIDE DEF m, e
  <2>4. SubSeq(SubSeq(records, m, e), 1, k) = SubSeq(records, m, m + k - 1)
    BY <1>2, <2>2, PartOfPart
  <2> QED
    BY <1>1, <2>3, <2>4 DEF m, e
<1>4. k \in Nat /\ k <= len /\ start + k + n <= durable
  BY <1>1
<1> HIDE DEF start, len
<1>5. most \in Nat /\ k + n <= most /\ len <= most /\ start + most <= durable
  BY <1>1, <1>4
<1>6. back = SubSeq(records, start + k + n + 1, start + most)
  <2>1. CASE k + n < len
    <3> DEFINE i == start + 1
               j == start + len
               m == k + n + 1
    <3>1. /\ i \in 1 .. Len(records) /\ j \in 1 .. Len(records)
          /\ m \in 1 .. j - i + 1 /\ len \in 1 .. j - i + 1
      BY <1>1, <1>2, <1>4, <2>1
    <3>2. i + m - 1 = start + k + n + 1 /\ i + len - 1 = start + most
      BY <1>1, <1>4, <2>1
    <3> HIDE DEF i, j, m, most
    <3>3. SubSeq(SubSeq(records, i, j), m, len) = SubSeq(records, i + m - 1, i + len - 1)
      BY <1>2, <3>1, SubSeqOfSubSeq
    <3> QED
      BY <1>1, <3>2, <3>3 DEF i, j, m
  <2>2. CASE ~(k + n < len)
    <3>1. most = k + n
      BY <1>1, <1>4, <2>2
    <3>2. len < k + n + 1 /\ len \in Int /\ k + n + 1 \in Int
      BY <1>1, <1>4, <2>2
    <3>3. back = << >>
      BY <3>2, SubSeqEmpty
    <3>4. start + most < start + k + n + 1 /\ start + most \in Int /\ start + k + n + 1 \in Int
      BY <1>1, <1>4, <3>1
    <3> HIDE DEF most, back
    <3> QED
      BY <3>3, <3>4, SubSeqEmpty
  <2> QED
    BY <2>1, <2>2
<1> HIDE DEF front, chunk, back, most
<1>7. front \o chunk = SubSeq(records, start + 1, start + k + n)
  <2>1. /\ start + 1 \in 1 .. Len(records) + 1
        /\ start + k \in (start + 1) - 1 .. Len(records)
        /\ start + k + n \in start + k .. Len(records)
    BY <1>1, <1>2, <1>4
  <2>2. SubSeq(records, start + 1, start + k) \o SubSeq(records, (start + k) + 1, start + k + n)
            = SubSeq(records, start + 1, start + k + n)
    BY <1>2, <2>1, ConcatAdjacentSubSeq
  <2> QED
    BY <1>3, <2>2 DEF chunk
<1>8. (front \o chunk) \o back = SubSeq(records, start + 1, start + most)
  <2> DEFINE m == start + 1
             j == start + k + n
             e == start + most
  <2>1. /\ m \in 1 .. Len(records) + 1 /\ j \in m - 1 .. Len(records) /\ e \in j .. Len(records)
    BY <1>1, <1>2, <1>4, <1>5
  <2> HIDE DEF m, j, e
  <2>2. SubSeq(records, m, j) \o SubSeq(records, j + 1, e) = SubSeq(records, m, e)
    BY <1>2, <2>1, ConcatAdjacentSubSeq
  <2> QED
    BY <1>6, <1>7, <2>2 DEF m, j, e
<1> DEFINE new == (front \o chunk) \o back
<1>9. new \in Seq(Bodies) /\ Len(new) = most
  <2>1. \A i \in start + 1 .. start + most : records[i] \in Bodies
    <3> TAKE i \in start + 1 .. start + most
    <3>1. i \in 1 .. Len(records)
      BY <1>1, <1>2, <1>5
    <3> QED
      BY <1>2, <3>1, ElementOfSeq
  <2> DEFINE part == SubSeq(records, start + 1, start + most)
  <2>2. /\ part \in Seq(Bodies)
        /\ Len(part) = IF start + 1 <= start + most THEN (start + most) - (start + 1) + 1
                       ELSE 0
    BY <1>1, <1>5, <2>1, SubSeqProperties
  <2>3. Len(part) = most
    <3> HIDE DEF part
    <3> QED
      BY <1>1, <1>5, <2>2
  <2> QED
    BY <1>8, <2>2, <2>3
<1>10. new \in Seq(Bodies) /\ start + Len(new) <= durable
       /\ new = SubSeq(records, start + 1, start + Len(new))
  BY <1>5, <1>8, <1>9
<1> QED
  BY <1>10 DEF start, len, front, chunk, back

LEMMA ExportKeeps ==
    ASSUME IInv, root.authority # None, NEW k \in 0 .. Len(archived), Export(k)
    PROVE  IInv'
<1> DEFINE after == Held(k)
           a == root.authority.initial
           start == a.seq
           ix == IndexFor(after)
<1>1. /\ Healthy /\ prot # None /\ Exportable(after)
      /\ UNCHANGED <<log, roots, prot, status, pc, job, frozen, crashes>>
  BY DEF Export
<1>2. PICK n \in 1 .. ix.remaining :
          LET left == ix.remaining - n
          IN  /\ index' = [ix EXCEPT !.cursor = Advance(@, after.seq + n),
                                     !.remaining = left,
                                     !.charged = IF left = 0 THEN 0 ELSE @]
              /\ poison' = IF left = 0 /\ index'.cursor # ix.end THEN "wrong" ELSE "no"
              /\ archived' = SubSeq(archived, 1, k)
                                 \o SubSeq(records, after.seq + 1, after.seq + n)
                                 \o SubSeq(archived, k + n + 1, Len(archived))
  BY DEF Export
<1>3. /\ after = At(records, a, start + k) /\ after.seq = start + k
      /\ OnLine(records, a, durable, after)
  BY HeldIs
<1>4. prot.released.seq <= after.seq
  <2> HIDE DEF after
  <2> QED
    BY <1>1, <1>3, CoversIs
<1>5. ix.cursor = after /\ IndexOK(records, durable, ix, a)
  <2> HIDE DEF after
  <2> QED
    BY <1>1, <1>3, <1>4, IndexIs
<1>6. /\ ix = [cursor |-> after, end |-> ix.end, remaining |-> ix.remaining,
               charged |-> ix.charged]
      /\ OnLine(records, a, durable, ix.end)
      /\ ix.remaining = ix.end.seq - after.seq
  BY <1>5 DEF IndexOK
<1>7. start \in Nat /\ durable \in Nat /\ durable <= Len(records) /\ k \in Nat
      /\ records \in Seq(Bodies)
  BY <1>1, ProtectedFacts, Basics, ArchivedIs
<1>8. ix.end.seq \in start .. durable /\ ix.end = At(records, a, ix.end.seq)
  BY <1>6 DEF OnLine
<1> HIDE DEF after, ix, a, start
<1>9. /\ n \in Nat /\ after.seq + n <= ix.end.seq /\ after.seq \in Nat
      /\ start <= after.seq /\ after.seq + n \in start .. durable
      /\ (ix.remaining - n = 0 <=> after.seq + n = ix.end.seq)
      /\ ix.remaining - n = ix.end.seq - (after.seq + n)
  <2> DEFINE e == ix.end.seq
             m == ix.remaining
             s == after.seq
  <2>1. /\ s = start + k /\ start \in Nat /\ k \in Nat /\ e \in start .. durable
        /\ m = e - s /\ n \in 1 .. m /\ durable \in Nat
    BY <1>3, <1>6, <1>7, <1>8
  <2> HIDE DEF e, m, s
  <2>2. /\ n \in Nat /\ s + n <= e /\ s \in Nat /\ start <= s /\ s + n \in start .. durable
        /\ (m - n = 0 <=> s + n = e) /\ m - n = e - (s + n)
    BY <2>1
  <2> QED
    BY <2>2 DEF e, m, s
<1>10. Advance(after, after.seq + n) = At(records, a, after.seq + n)
  <2>1. /\ a.seq <= after.seq /\ after.seq <= after.seq + n
        /\ after.seq + n <= Len(records) /\ a.seq \in Nat /\ after.seq + n \in Nat
    BY <1>7, <1>9 DEF start
  <2>2. Advance(At(records, a, after.seq), after.seq + n) = At(records, a, after.seq + n)
    BY <1>7, <1>9, <2>1, AdvanceIs
  <2> QED
    BY <1>3, <2>2
<1> DEFINE c == At(records, a, after.seq + n)
           left == ix.remaining - n
           cost == IF left = 0 THEN 0 ELSE ix.charged
<1>11. index' = [cursor |-> c, end |-> ix.end, remaining |-> left, charged |-> cost]
  <2>1. index' = [ix EXCEPT !.cursor = c, !.remaining = left, !.charged = cost]
    BY <1>2, <1>5, <1>10
  <2> HIDE DEF c, left, cost
  <2> QED
    BY <1>6, <2>1
<1>12. /\ index'.cursor = c /\ index'.end = ix.end /\ index'.remaining = left
       /\ index' = [cursor |-> index'.cursor, end |-> index'.end,
                    remaining |-> index'.remaining, charged |-> index'.charged]
  <2> HIDE DEF c, left, cost
  <2> QED
    BY <1>11
<1>13. c.seq = after.seq + n
  BY DEF At
<1>14. OnLine(records, a, durable, c)
  BY <1>9, <1>13 DEF OnLine, start
<1>15. IndexOK(records, durable, index', a)
  <2> HIDE DEF c
  <2>1. left = ix.end.seq - c.seq /\ c.seq <= ix.end.seq
    BY <1>9, <1>13
  <2> HIDE DEF left
  <2> QED
    BY <1>6, <1>12, <1>14, <2>1 DEF IndexOK
<1>16. poison' = "no"
  <2>1. left = 0 => c = ix.end
    BY <1>8, <1>9
  <2> QED
    BY <1>2, <1>12, <2>1
<1>17. /\ archived' \in Seq(Bodies) /\ start + Len(archived') <= durable
       /\ archived' = SubSeq(records, start + 1, start + Len(archived'))
  <2>1. start + k + n <= durable
    BY <1>3, <1>7, <1>9
  <2>2. archived' = SubSeq(archived, 1, k) \o SubSeq(records, start + k + 1, start + k + n)
                        \o SubSeq(archived, k + n + 1, Len(archived))
    BY <1>2, <1>3
  <2> QED
    BY <1>9, <2>1, <2>2, Patched DEF start, a
<1>18. /\ records' = records /\ first' = first /\ cuts' = cuts /\ durable' = durable
       /\ checkpoint' = checkpoint /\ root' = root /\ settled' = settled
  BY <1>1 DEF log, roots
<1>19. LogOK(records', first', cuts', durable', checkpoint') /\ RootsOK'
  BY <1>18 DEF IInv, RootsOK
<1>20. OneArchive'
  BY <1>1, <1>18 DEF IInv, OneArchive
<1>21. pc = "idle" /\ status = "open" /\ poison = "no"
  BY <1>1 DEF Healthy
<1>22. Protected'
  BY <1>1, <1>16, <1>18, <1>21 DEF IInv, Protected
<1>23. Indexed'
  BY <1>1, <1>15, <1>18 DEF Indexed, a
<1>24. Received'
  BY <1>17, <1>18 DEF Received, start, a
<1>25. Copies'
  BY <1>1, <1>18 DEF IInv, Copies
<1>26. Working' /\ Statuses'
  BY <1>1, <1>16, <1>21, IdleWorks DEF IInv, Statuses
<1> QED
  BY <1>19, <1>20, <1>22, <1>23, <1>24, <1>25, <1>26 DEF IInv

LEMMA ExportFailsKeeps ==
    ASSUME IInv, root.authority # None, NEW k \in 0 .. Len(archived), ExportFails(Held(k))
    PROVE  IInv'
<1> DEFINE after == Held(k)
<1>1. /\ Healthy /\ prot # None /\ Exportable(after)
      /\ ~(Affordable(after) /\ Readable(after) /\ IndexFor(after).cursor = after)
      /\ index' = None
      /\ poison' = IF Affordable(after) /\ ~Readable(after) THEN "wrong" ELSE "no"
      /\ UNCHANGED <<log, roots, prot, status, pc, job, archived, frozen, crashes>>
  BY DEF ExportFails
<1>2. OnLine(records, root.authority.initial, durable, after)
  BY HeldIs
<1> HIDE DEF after
<1>3. prot.released.seq <= after.seq
  BY <1>1, <1>2, CoversIs
<1>4. Readable(after)
  BY <1>1, <1>2, <1>3, IndexIs
<1>5. poison' = "no"
  BY <1>1, <1>4
<1>6. pc = "idle" /\ status = "open" /\ poison = "no"
  BY <1>1 DEF Healthy
<1>7. LogOK(records', first', cuts', durable', checkpoint') /\ RootsOK' /\ OneArchive'
  BY <1>1 DEF IInv, RootsOK, OneArchive, log, roots
<1>8. Protected'
  BY <1>1, <1>5, <1>6 DEF IInv, Protected, log, roots
<1>9. Indexed' /\ Received' /\ Copies'
  BY <1>1 DEF IInv, Indexed, Received, Copies, log, roots
<1>10. Working' /\ Statuses'
  BY <1>1, <1>5, <1>6, IdleWorks DEF IInv, Statuses
<1> QED
  BY <1>7, <1>8, <1>9, <1>10 DEF IInv

LEMMA BeginReleaseKeeps ==
    ASSUME IInv, root.authority # None, NEW k \in 0 .. Len(archived), BeginRelease(k)
    PROVE  IInv'
<1> DEFINE through == Held(k)
           a == root.authority.initial
           next == [root.authority EXCEPT !.released = through]
<1>1. /\ Healthy /\ prot # None /\ Exportable(through) /\ Releasable(through)
      /\ IF through = DurableEnd THEN UNCHANGED index ELSE IndexReady(through)
      /\ pc' = "authority" /\ job' = [kind |-> "release", next |-> next]
      /\ UNCHANGED <<log, roots, prot, status, poison, archived, frozen, crashes>>
  BY DEF BeginRelease
<1>2. OnLine(records, a, durable, through)
  BY HeldIs
<1>3. AuthorityOK(records, durable, root.authority)
  BY <1>1, ProtectedFacts
<1> HIDE DEF through
<1>4. prot.released.seq <= through.seq /\ through.seq \in Nat
  BY <1>1, <1>2, CoversIs
<1>5. next = [initial |-> a, released |-> through]
  <2> DEFINE t == root.authority
             released == t.released
  <2>1. t = [initial |-> a, released |-> released]
    BY <1>3 DEF AuthorityOK
  <2> HIDE DEF t, a, released
  <2>2. [t EXCEPT !.released = through] = [initial |-> a, released |-> through]
    BY <2>1
  <2> QED
    BY <2>2 DEF t
<1>6. next.initial = a /\ next.released = through
      /\ next = [initial |-> next.initial, released |-> next.released]
  <2> HIDE DEF next, a
  <2> QED
    BY <1>5
<1>7. AuthorityOK(records, durable, next)
  <2>1. a = [branch |-> a.branch, seq |-> a.seq, digest |-> << >>] /\ a.seq \in Nat
    BY <1>3 DEF AuthorityOK
  <2> HIDE DEF next, a
  <2> QED
    BY <1>2, <1>6, <2>1 DEF AuthorityOK
<1>8. first <= through.seq + 1
  <2>1. first <= prot.released.seq + 1 /\ prot.released.seq \in Nat /\ first \in Nat
    BY <1>1, ProtectedFacts, Basics
  <2> QED
    BY <1>4, <2>1
<1>9. index' # None => IndexOK(records, durable, index', a)
  <2>1. CASE index' = index
    BY <2>1 DEF IInv, Indexed
  <2>2. CASE index' = IndexFor(through)
    BY <1>1, <1>2, <1>4, <2>2, IndexIs
  <2> QED
    BY <1>1, <2>1, <2>2 DEF IndexReady
<1>10. pc = "idle" /\ status = "open" /\ poison = "no"
  BY <1>1 DEF Healthy
<1>11. /\ records' = records /\ first' = first /\ cuts' = cuts /\ durable' = durable
       /\ checkpoint' = checkpoint /\ root' = root /\ settled' = settled
  BY <1>1 DEF log, roots
<1>12. LogOK(records', first', cuts', durable', checkpoint') /\ RootsOK' /\ OneArchive'
  BY <1>1, <1>11 DEF IInv, RootsOK, OneArchive
<1>13. Protected'
  BY <1>1, <1>10, <1>11 DEF IInv, Protected
<1>14. Indexed'
  BY <1>1, <1>9, <1>11 DEF Indexed
<1>15. Received' /\ Copies'
  BY <1>1, <1>11 DEF IInv, Received, Copies
<1>16. Working'
  <2> HIDE DEF next
  <2>1. /\ job' = [kind |-> job'.kind, next |-> job'.next]
        /\ job'.kind = "release" /\ job'.next = next
    BY <1>1
  <2>2. PinsAllow(root', through)
    BY <1>1, <1>11 DEF Releasable, PinsAllow, Pins
  <2> QED
    BY <1>1, <1>4, <1>6, <1>7, <1>8, <1>10, <1>11, <2>1, <2>2 DEF Working
<1>17. Statuses'
  BY <1>1, <1>10 DEF IInv, Statuses
<1> QED
  BY <1>12, <1>13, <1>14, <1>15, <1>16, <1>17 DEF IInv

-----------------------------------------------------------------------------
(***************************************************************************)
(* Bases, crashes and openings.                                            *)
(***************************************************************************)
LEMMA LatestIs ==
    ASSUME IInv, prot # None
    PROVE  LET a == root.authority.initial
           IN  prot.latest = At(records, a, Top) /\ prot.latest.seq = Top
<1> DEFINE a == root.authority.initial
           last == At(records, a, Len(records))
<1>1. ProtectionOK(records, first, durable, prot, a)
  BY ProtectedFacts
<1> HIDE DEF a
<1>2. prot = [released |-> prot.released, latest |-> last, durable |-> prot.durable]
  BY <1>1 DEF ProtectionOK
<1> HIDE DEF last
<1>3. prot.latest = last
  BY <1>2
<1>4. last.seq = Top /\ last = At(records, a, Top)
  BY DEF last, At, Top
<1> QED
  BY <1>3, <1>4 DEF a

LEMMA PublishPinKeeps ==
    ASSUME IInv, PublishPin
    PROVE  IInv'
<1> DEFINE id == job.id
           c == job.cursor
           a == root.authority.initial
<1>1. /\ pc = "pin" /\ root' = [root EXCEPT !.pins = With(@, id, c)]
      /\ settled' = settled \cup {root'} /\ pc' = "pinSync"
      /\ UNCHANGED <<log, prot, index, status, poison, job, archived, frozen, crashes>>
  BY DEF PublishPin, Rename
<1>2. /\ status = "open" /\ poison = "no"
      /\ job = [kind |-> job.kind, id |-> job.id, cursor |-> job.cursor]
      /\ prot # None /\ AllSealed /\ c = prot.latest /\ id \notin DOMAIN frozen
  BY <1>1 DEF IInv, Working
<1>3. root \in settled /\ \A r \in settled : RootOK(records, first, durable, r)
  BY DEF IInv, RootsOK
<1>4. /\ root'.authority = root.authority /\ root'.pins = With(root.pins, id, c)
      /\ root' = [authority |-> root'.authority, pins |-> root'.pins]
  <2>1. root = [authority |-> root.authority, pins |-> root.pins]
    BY <1>3 DEF RootOK
  <2> DEFINE pins == With(root.pins, id, c)
  <2>2. root' = [root EXCEPT !.pins = pins]
    BY <1>1
  <2> HIDE DEF pins
  <2>3. root' = [authority |-> root.authority, pins |-> pins]
    BY <2>1, <2>2
  <2> QED
    BY <2>3 DEF pins
<1> HIDE DEF id, c
<1>5. /\ DOMAIN root'.pins = DOMAIN root.pins \cup {id} /\ root'.pins[id] = c
      /\ \A x \in DOMAIN root.pins : x # id => root'.pins[x] = root.pins[x]
  BY <1>4 DEF With
<1>6. /\ records' = records /\ first' = first /\ cuts' = cuts /\ durable' = durable
      /\ checkpoint' = checkpoint
  BY <1>1 DEF log
<1>7. /\ root.authority # None /\ AuthorityOK(records, durable, root.authority)
      /\ a.seq \in Nat /\ durable = Top /\ durable \in Nat
      /\ OnLine(records, a, durable, root.authority.released)
  BY <1>2, ProtectedFacts, Basics DEF AllSealed, AuthorityOK
<1>8. c = At(records, a, durable) /\ c.seq = durable
  BY <1>2, <1>7, LatestIs
<1> HIDE DEF a
<1>9. OnLine(records, a, durable, c) /\ root.authority.released.seq <= c.seq
  <2>1. root.authority.released.seq \in a.seq .. durable
    BY <1>7 DEF OnLine
  <2>2. durable \in a.seq .. durable /\ root.authority.released.seq <= durable
    BY <1>7, <2>1
  <2> QED
    BY <1>8, <2>2 DEF OnLine
<1>10. RootOK(records, first, durable, root')
  <2>1. RootOK(records, first, durable, root)
    BY <1>3
  <2> QED
    BY <1>4, <1>5, <1>7, <1>9, <2>1 DEF RootOK, a
<1>11. RootsOK'
  BY <1>1, <1>3, <1>6, <1>10 DEF RootsOK
<1>12. LogOK(records', first', cuts', durable', checkpoint') /\ Statuses'
  BY <1>1, <1>2, <1>6 DEF IInv, Statuses
<1>13. OneArchive'
  BY <1>1, <1>2, <1>3, <1>4 DEF IInv, OneArchive
<1>14. Protected'
  <2>1. /\ ProtectionOK(records, first, durable, prot, root.authority.initial)
        /\ \A r \in settled : prot.released.seq <= r.authority.released.seq
        /\ \A r \in settled : r.authority.released = prot.released
    BY <1>1, <1>2 DEF IInv, Protected
  <2>2. /\ \A r \in settled' : prot.released.seq <= r.authority.released.seq
        /\ \A r \in settled' : r.authority.released = prot.released
    BY <1>1, <1>3, <1>4, <2>1
  <2> QED
    BY <1>1, <1>2, <1>4, <1>6, <2>1, <2>2 DEF Protected
<1>15. Indexed' /\ Received'
  BY <1>1, <1>4, <1>6 DEF IInv, Indexed, Received
<1>16. Copies'
  <2>1. \A x \in DOMAIN frozen :
            /\ OnLine(records, a, durable, frozen[x].cursor)
            /\ frozen[x].rows = SubSeq(records, 1, frozen[x].cursor.seq)
            /\ \A r \in settled : x \in DOMAIN r.pins => r.pins[x] = frozen[x].cursor
    BY DEF IInv, Copies, a
  <2>2. \A x \in DOMAIN frozen :
            x \in DOMAIN root'.pins => root'.pins[x] = frozen[x].cursor
    BY <1>2, <1>3, <1>5, <2>1 DEF id
  <2>3. \A x \in DOMAIN frozen :
            \A r \in settled' : x \in DOMAIN r.pins => r.pins[x] = frozen[x].cursor
    BY <1>1, <2>1, <2>2
  <2> QED
    BY <1>1, <1>4, <1>6, <2>1, <2>3 DEF Copies, a
<1>17. Working'
  <2>1. AllSealed'
    BY <1>2, <1>6 DEF AllSealed, Top
  <2> QED
    BY <1>1, <1>2, <1>5, <2>1 DEF Working, id, c
<1> QED
  BY <1>11, <1>12, <1>13, <1>14, <1>15, <1>16, <1>17 DEF IInv

(* Syncing the directory forgets its earlier states.                       *)
LEMMA Settling ==
    ASSUME IInv, root' = root, settled' \subseteq settled, root \in settled',
           UNCHANGED <<log, prot, index, status, poison, archived, frozen, crashes>>,
           pc # "authoritySync", pc' # "authoritySync"
    PROVE  /\ LogOK(records', first', cuts', durable', checkpoint')
           /\ RootsOK' /\ OneArchive' /\ Protected' /\ Indexed' /\ Received' /\ Copies'
<1>1. /\ records' = records /\ first' = first /\ cuts' = cuts /\ durable' = durable
      /\ checkpoint' = checkpoint
  BY DEF log
<1>2. LogOK(records', first', cuts', durable', checkpoint')
  BY <1>1 DEF IInv
<1>3. RootsOK' /\ OneArchive'
  BY <1>1 DEF IInv, RootsOK, OneArchive
<1>4. Protected'
  BY <1>1 DEF IInv, Protected
<1>5. Indexed' /\ Received' /\ Copies'
  BY <1>1 DEF IInv, Indexed, Received, Copies
<1> QED
  BY <1>2, <1>3, <1>4, <1>5

LEMMA PinDoneKeeps ==
    ASSUME IInv, PinDone
    PROVE  IInv'
<1>1. /\ pc = "pinSync" /\ pc' = "copy" /\ root' = root /\ settled' = {root}
      /\ UNCHANGED <<log, prot, index, status, poison, job, archived, frozen, crashes>>
  BY DEF PinDone, RootSynced
<1>2. root \in settled
  BY DEF IInv, RootsOK
<1>3. /\ LogOK(records', first', cuts', durable', checkpoint')
      /\ RootsOK' /\ OneArchive' /\ Protected' /\ Indexed' /\ Received' /\ Copies'
  BY <1>1, <1>2, Settling
<1>4. Working'
  <2>1. AllSealed' = AllSealed
    BY <1>1 DEF AllSealed, Top, log
  <2> QED
    BY <1>1, <2>1 DEF IInv, Working
<1>5. Statuses'
  BY <1>1 DEF IInv, Statuses, Working
<1> QED
  BY <1>3, <1>4, <1>5 DEF IInv

LEMMA CopyBaseKeeps ==
    ASSUME IInv, CopyBase
    PROVE  IInv'
<1> DEFINE id == job.id
           c == job.cursor
           a == root.authority.initial
           copy == [cursor |-> c, rows |-> SubSeq(records, 1, checkpoint)]
<1>1. /\ pc = "copy" /\ pc' = "idle" /\ frozen' = With(frozen, id, copy)
      /\ UNCHANGED <<log, roots, prot, index, status, poison, archived, crashes>>
  BY DEF CopyBase
<1>2. /\ status = "open" /\ poison = "no" /\ prot # None /\ AllSealed /\ c = prot.latest
      /\ id \in DOMAIN root.pins /\ root.pins[id] = c /\ settled = {root}
  BY <1>1 DEF IInv, Working
<1>3. copy.cursor = c /\ copy.rows = SubSeq(records, 1, checkpoint)
  OBVIOUS
<1> HIDE DEF id, c, copy
<1>4. /\ DOMAIN frozen' = DOMAIN frozen \cup {id} /\ frozen'[id] = copy
      /\ \A x \in DOMAIN frozen : x # id => frozen'[x] = frozen[x]
  BY <1>1 DEF With
<1>5. /\ a.seq \in Nat /\ durable = Top /\ durable \in Nat /\ checkpoint = Top
      /\ OnLine(records, a, durable, root.authority.released)
  BY <1>2, ProtectedFacts, Basics DEF AllSealed, AuthorityOK
<1>6. OnLine(records, a, durable, c) /\ c.seq = checkpoint
  <2>1. c = At(records, a, durable) /\ c.seq = durable
    BY <1>2, <1>5, LatestIs
  <2>2. root.authority.released.seq \in a.seq .. durable
    BY <1>5 DEF OnLine
  <2> HIDE DEF a
  <2>3. durable \in a.seq .. durable
    BY <1>5, <2>2
  <2> QED
    BY <1>5, <2>1, <2>3 DEF OnLine
<1>7. /\ records' = records /\ first' = first /\ cuts' = cuts /\ durable' = durable
      /\ checkpoint' = checkpoint /\ root' = root /\ settled' = settled
  BY <1>1 DEF log, roots
<1>8. LogOK(records', first', cuts', durable', checkpoint') /\ RootsOK' /\ Statuses'
  BY <1>1, <1>2, <1>7 DEF IInv, RootsOK, Statuses
<1>9. OneArchive' /\ Protected' /\ Indexed' /\ Received'
  BY <1>1, <1>2, <1>7 DEF IInv, OneArchive, Protected, Indexed, Received
<1>10. Copies'
  <2> HIDE DEF a
  <2>1. \A x \in DOMAIN frozen :
            /\ OnLine(records, a, durable, frozen[x].cursor)
            /\ frozen[x].rows = SubSeq(records, 1, frozen[x].cursor.seq)
            /\ \A r \in settled : x \in DOMAIN r.pins => r.pins[x] = frozen[x].cursor
    BY DEF IInv, Copies, a
  <2>2. \A x \in DOMAIN frozen' :
            /\ OnLine(records, a, durable, frozen'[x].cursor)
            /\ frozen'[x].rows = SubSeq(records, 1, frozen'[x].cursor.seq)
            /\ \A r \in settled : x \in DOMAIN r.pins => r.pins[x] = frozen'[x].cursor
    <3> TAKE x \in DOMAIN frozen'
    <3>1. CASE x = id
      BY <1>2, <1>3, <1>4, <1>6, <3>1
    <3>2. CASE x # id
      BY <1>4, <2>1, <3>2
    <3> QED
      BY <3>1, <3>2
  <2> QED
    BY <1>7, <2>2 DEF Copies, a
<1>11. Working'
  BY <1>1, IdleWorks
<1> QED
  BY <1>8, <1>9, <1>10, <1>11 DEF IInv

LEMMA FinishBaseKeeps ==
    ASSUME IInv, NEW id, FinishBase(id)
    PROVE  IInv'
<1> DEFINE pins == Restrict(root.pins, DOMAIN root.pins \ {id})
<1>1. /\ Healthy /\ prot # None /\ root' = [root EXCEPT !.pins = pins]
      /\ settled' = settled \cup {root'} /\ pc' = "unpin"
      /\ UNCHANGED <<log, prot, index, status, poison, job, archived, frozen, crashes>>
  BY DEF FinishBase, Rename
<1>2. root \in settled /\ \A r \in settled : RootOK(records, first, durable, r)
  BY DEF IInv, RootsOK
<1>3. DOMAIN pins \subseteq DOMAIN root.pins /\ \A x \in DOMAIN pins : pins[x] = root.pins[x]
  BY DEF Restrict
<1> HIDE DEF pins
<1>4. /\ root'.authority = root.authority /\ root'.pins = pins
      /\ root' = [authority |-> root'.authority, pins |-> root'.pins]
  <2>1. root = [authority |-> root.authority, pins |-> root.pins]
    BY <1>2 DEF RootOK
  <2>2. root' = [authority |-> root.authority, pins |-> pins]
    BY <1>1, <2>1
  <2> QED
    BY <2>2
<1>5. /\ records' = records /\ first' = first /\ cuts' = cuts /\ durable' = durable
      /\ checkpoint' = checkpoint
  BY <1>1 DEF log
<1>6. pc = "idle" /\ status = "open" /\ poison = "no"
  BY <1>1 DEF Healthy
<1>7. RootOK(records, first, durable, root')
  <2>1. RootOK(records, first, durable, root)
    BY <1>2
  <2> QED
    BY <1>3, <1>4, <2>1 DEF RootOK
<1>8. RootsOK'
  BY <1>1, <1>2, <1>5, <1>7 DEF RootsOK
<1>9. LogOK(records', first', cuts', durable', checkpoint') /\ Statuses'
  BY <1>1, <1>5, <1>6 DEF IInv, Statuses
<1>10. OneArchive'
  BY <1>1, <1>2, <1>4 DEF IInv, OneArchive
<1>11. Protected'
  <2>1. /\ ProtectionOK(records, first, durable, prot, root.authority.initial)
        /\ \A r \in settled : prot.released.seq <= r.authority.released.seq
        /\ \A r \in settled : r.authority.released = prot.released
    BY <1>1, <1>6 DEF IInv, Protected
  <2>2. /\ \A r \in settled' : prot.released.seq <= r.authority.released.seq
        /\ \A r \in settled' : r.authority.released = prot.released
    BY <1>1, <1>2, <1>4, <2>1
  <2> QED
    BY <1>1, <1>4, <1>5, <1>6, <2>1, <2>2 DEF Protected
<1>12. Indexed' /\ Received'
  BY <1>1, <1>4, <1>5 DEF IInv, Indexed, Received
<1>13. Copies'
  <2> DEFINE a == root.authority.initial
  <2> HIDE DEF a
  <2>1. \A x \in DOMAIN frozen :
            /\ OnLine(records, a, durable, frozen[x].cursor)
            /\ frozen[x].rows = SubSeq(records, 1, frozen[x].cursor.seq)
            /\ \A r \in settled : x \in DOMAIN r.pins => r.pins[x] = frozen[x].cursor
    BY DEF IInv, Copies, a
  <2>2. \A x \in DOMAIN frozen :
            \A r \in settled' : x \in DOMAIN r.pins => r.pins[x] = frozen[x].cursor
    BY <1>1, <1>2, <1>3, <1>4, <2>1
  <2> QED
    BY <1>1, <1>4, <1>5, <2>1, <2>2 DEF Copies, a
<1>14. Working'
  BY <1>1, <1>6 DEF Working
<1> QED
  BY <1>8, <1>9, <1>10, <1>11, <1>12, <1>13, <1>14 DEF IInv

LEMMA BaseEndsKeeps ==
    ASSUME IInv, FinishBaseDone \/ BaseFails
    PROVE  IInv'
<1>1. /\ pc \in {"pin", "pinSync", "copy", "unpin"} /\ pc' = "idle" /\ root' = root
      /\ settled' \in {settled, {root}}
      /\ UNCHANGED <<log, prot, index, status, poison, archived, frozen, crashes>>
  BY DEF FinishBaseDone, BaseFails, RootSynced, roots
<1>2. root \in settled
  BY DEF IInv, RootsOK
<1>3. /\ LogOK(records', first', cuts', durable', checkpoint')
      /\ RootsOK' /\ OneArchive' /\ Protected' /\ Indexed' /\ Received' /\ Copies'
  <2>1. settled' \subseteq settled /\ root \in settled'
    BY <1>1, <1>2
  <2> QED
    BY <1>1, <2>1, Settling
<1>4. Working' /\ Statuses'
  BY <1>1, IdleWorks DEF IInv, Statuses, Working
<1> QED
  BY <1>3, <1>4 DEF IInv

LEMMA CrashKeeps ==
    ASSUME IInv, NEW power \in BOOLEAN, Crash(power)
    PROVE  IInv'
<1>1. /\ status' = "closed" /\ poison' = "no" /\ prot' = None /\ index' = None
      /\ pc' = "idle" /\ crashes' = crashes + 1
      /\ UNCHANGED <<first, checkpoint, archived, frozen>>
  BY DEF Crash, Gone
<1>2. PICK cut \in durable .. Top :
          /\ records' = SubSeq(records, 1, cut) /\ durable' = cut
          /\ cuts' = {c \in cuts : c <= cut}
  BY DEF Crash
<1>3. root' \in settled /\ (settled' = {root'} \/ (root' = root /\ settled' = settled))
  BY DEF Crash, roots, IInv, RootsOK
<1>4. /\ records \in Seq(Bodies) /\ Top \in Nat /\ Top = Len(records) /\ durable \in Nat
      /\ durable <= Top /\ first \in Nat \ {0} /\ cuts \subseteq Nat /\ checkpoint \in Nat
      /\ checkpoint <= durable /\ first <= checkpoint + 1
  BY Basics
<1>5. cut \in Nat /\ durable <= cut /\ cut <= Top
  BY <1>4
<1>6. /\ records' \in Seq(Bodies) /\ Len(records') = cut
      /\ \A i \in 1 .. cut : records'[i] = records[i]
  <2>1. \A i \in 1 .. cut : records[i] \in Bodies
    <3> TAKE i \in 1 .. cut
    <3>1. i \in 1 .. Len(records)
      BY <1>4, <1>5
    <3> QED
      BY <1>4, <3>1, ElementOfSeq
  <2>2. /\ SubSeq(records, 1, cut) \in Seq(Bodies)
        /\ Len(SubSeq(records, 1, cut)) = IF 1 <= cut THEN cut - 1 + 1 ELSE 0
        /\ \A i \in 1 .. cut - 1 + 1 : SubSeq(records, 1, cut)[i] = records[1 + i - 1]
    <3>1. 1 \in Int /\ cut \in Int
      BY <1>5
    <3> QED
      BY <2>1, <3>1, SubSeqProperties
  <2>3. cut - 1 + 1 = cut /\ (IF 1 <= cut THEN cut - 1 + 1 ELSE 0) = cut
    BY <1>5
  <2>4. \A i \in 1 .. cut : 1 + i - 1 = i
    BY <1>5
  <2> QED
    BY <1>2, <2>2, <2>3, <2>4
<1>7. LogOK(records', first', cuts', durable', checkpoint')
  <2>1. cuts' \subseteq Nat /\ \A c \in cuts' : c <= cut
    BY <1>2, <1>4
  <2>2. checkpoint <= cut
    BY <1>4, <1>5
  <2> QED
    BY <1>1, <1>2, <1>4, <1>5, <1>6, <2>1, <2>2 DEF LogOK
<1>8. HistoryStep
  <2>1. Agree(records, records', durable)
    BY <1>4, <1>5, <1>6 DEF Agree
  <2>2. \A r \in settled : r.authority # None => first <= r.authority.released.seq + 1
    BY DEF IInv, RootsOK, RootOK
  <2>3. root' \in settled' /\ settled' \subseteq settled
    BY <1>3
  <2> QED
    BY <1>1, <1>2, <1>5, <2>1, <2>2, <2>3 DEF HistoryStep
<1>9. RootsOK' /\ OneArchive' /\ Received' /\ Copies'
  BY <1>8, HistoryKeeps
<1>10. Protected' /\ Indexed'
  BY <1>1 DEF Protected, Indexed
<1>11. Working'
  BY <1>1, IdleWorks
<1>12. Statuses'
  BY <1>1 DEF IInv, Statuses
<1> QED
  BY <1>7, <1>9, <1>10, <1>11, <1>12 DEF IInv

(* Every root a crash can leave is one the next open accepts.              *)
LEMMA AlwaysLoadable ==
    ASSUME IInv
    PROVE  Loadable
<1> SUFFICES ASSUME root.authority # None
             PROVE  /\ PinsAllow(root, root.authority.released)
                    /\ root.authority.released.seq <= Top
                    /\ root.authority.released.seq + 1 >= first
  BY DEF Loadable
<1> DEFINE a == root.authority.initial
           rel == root.authority.released
<1>1. RootOK(records, first, durable, root)
  BY DEF IInv, RootsOK
<1>2. /\ a.seq \in Nat /\ OnLine(records, a, durable, rel) /\ first <= rel.seq + 1
      /\ \A id \in DOMAIN root.pins :
             OnLine(records, a, durable, root.pins[id]) /\ rel.seq <= root.pins[id].seq
  BY <1>1 DEF RootOK, AuthorityOK
<1> HIDE DEF a, rel
<1>3. rel.seq \in Nat /\ rel.seq <= durable /\ rel.branch = a.branch
  <2>1. rel.seq \in a.seq .. durable /\ rel = At(records, a, rel.seq)
    BY <1>2 DEF OnLine
  <2>2. At(records, a, rel.seq).branch = a.branch
    BY DEF At
  <2> QED
    BY <1>2, <2>1, <2>2, Basics
<1>4. ASSUME NEW id \in DOMAIN root.pins
      PROVE  root.pins[id].branch = rel.branch /\ root.pins[id].seq >= rel.seq
  <2>1. /\ root.pins[id].seq \in a.seq .. durable
        /\ root.pins[id] = At(records, a, root.pins[id].seq)
    BY <1>2 DEF OnLine
  <2>2. At(records, a, root.pins[id].seq).branch = a.branch
    BY DEF At
  <2> QED
    BY <1>2, <1>3, <2>1, <2>2, Basics
<1>5. PinsAllow(root, rel)
  BY <1>4 DEF PinsAllow, Pins
<1>6. rel.seq <= Top /\ rel.seq + 1 >= first
  BY <1>2, <1>3, Basics
<1> QED
  BY <1>5, <1>6 DEF rel

LEMMA OpenKeeps ==
    ASSUME IInv, Open
    PROVE  IInv'
<1> DEFINE rel == root.authority.released
           a == root.authority.initial
           end == Replayed(rel)
<1>1. /\ status = "closed" /\ status' = "open" /\ durable' = Top
      /\ cuts' \in {cuts, cuts \cup {Top}} /\ root' = root /\ settled' = {root}
      /\ prot' = IF root.authority = None THEN None
                 ELSE [released |-> rel, latest |-> end, durable |-> end]
      /\ UNCHANGED <<records, first, checkpoint, index, poison, pc, job, archived, frozen,
                     crashes>>
  BY AlwaysLoadable DEF Open, RootSynced
<1>2. pc = "idle" /\ poison = "no" /\ prot = None /\ index = None
  BY <1>1 DEF IInv, Statuses
<1>3. /\ records \in Seq(Bodies) /\ Top \in Nat /\ Top = Len(records) /\ durable \in Nat
      /\ durable <= Top /\ first \in Nat \ {0} /\ cuts \subseteq Nat /\ checkpoint \in Nat
      /\ checkpoint <= durable /\ first <= checkpoint + 1 /\ \A c \in cuts : c <= durable
  BY Basics
<1>4. LogOK(records', first', cuts', durable', checkpoint')
  <2>1. cuts' \subseteq Nat /\ \A c \in cuts' : c <= Top
    BY <1>1, <1>3
  <2>2. checkpoint <= Top
    BY <1>3
  <2> QED
    BY <1>1, <1>3, <2>1, <2>2 DEF LogOK
<1>5. root \in settled /\ RootOK(records, first, durable, root)
  BY DEF IInv, RootsOK
<1>6. Agree(records, records', durable)
  BY <1>1, AgreeSelf DEF IInv
<1>7. HistoryStep
  <2>1. \A r \in settled' : r.authority # None => first' <= r.authority.released.seq + 1
    BY <1>1, <1>5 DEF RootOK
  <2>2. root' \in settled' /\ settled' \subseteq settled
    BY <1>1, <1>5
  <2>3. prot' # None => \A r \in settled' : r = root' /\ r.authority # None
    BY <1>1
  <2> QED
    BY <1>1, <1>3, <1>6, <2>1, <2>2, <2>3 DEF HistoryStep
<1>8. RootsOK' /\ OneArchive' /\ Received' /\ Copies'
  BY <1>7, HistoryKeeps
<1>9. Protected'
  <2>1. CASE root.authority = None
    BY <1>1, <2>1 DEF Protected
  <2>2. CASE root.authority # None
    <3>1. /\ a.seq \in Nat /\ OnLine(records, a, durable, rel) /\ first <= rel.seq + 1
      BY <1>5, <2>2 DEF RootOK, AuthorityOK
    <3> HIDE DEF rel, a, end
    <3>2. rel = At(records, a, rel.seq) /\ rel.seq \in Nat /\ a.seq <= rel.seq
          /\ rel.seq <= durable
      <4>1. rel = At(records, a, rel.seq) /\ rel.seq \in a.seq .. durable
        BY <3>1 DEF OnLine
      <4> QED
        BY <1>3, <3>1, <4>1
    <3>3. end = At(records, a, Top)
      <4>1. rel.seq <= Top /\ Top <= Len(records)
        BY <1>3, <3>2
      <4>2. Advance(At(records, a, rel.seq), Top) = At(records, a, Top)
        BY <1>3, <3>1, <3>2, <4>1, AdvanceIs
      <4> QED
        BY <3>2, <4>2 DEF end, Replayed
    <3>4. prot' = [released |-> rel, latest |-> end, durable |-> end]
      BY <1>1, <2>2
    <3>5. prot'.released = rel /\ prot'.latest = end /\ prot'.durable = end
          /\ prot' = [released |-> prot'.released, latest |-> prot'.latest,
                      durable |-> prot'.durable]
      BY <3>4
    <3>6. OnLine(records, a, Top, rel)
      <4>1. Agree(records, records, durable)
        BY AgreeSelf DEF IInv
      <4> QED
        BY <1>3, <3>1, <4>1, OnLineStays
    <3>7. ProtectionOK(records, first, Top, prot', a)
      <4>1. ~(Top < Len(records))
        BY <1>3
      <4>2. prot'.latest = At(records, a, Len(records))
        BY <1>3, <3>3, <3>5
      <4>3. prot' = [released |-> prot'.released, latest |-> At(records, a, Len(records)),
                     durable |-> prot'.durable]
        BY <3>5, <4>2
      <4> QED
        BY <3>1, <3>5, <3>6, <4>1, <4>3 DEF ProtectionOK
    <3>8. prot' # None
      <4>1. "released" \in DOMAIN prot'
        BY <3>4
      <4>2. "released" \notin DOMAIN None
        BY DEF None
      <4> QED
        BY <4>1, <4>2
    <3>9. prot'.released.seq <= prot'.released.seq
      BY <3>2, <3>5
    <3>10. \A r \in settled' : r.authority.released = prot'.released
      BY <1>1, <3>5 DEF rel
    <3> QED
      BY <1>1, <3>7, <3>8, <3>9, <3>10 DEF Protected, a
  <2> QED
    BY <2>1, <2>2
<1>10. Indexed'
  BY <1>1, <1>2 DEF Indexed
<1>11. Working' /\ Statuses'
  BY <1>1, <1>2, IdleWorks DEF IInv, Statuses
<1> QED
  BY <1>4, <1>8, <1>9, <1>10, <1>11 DEF IInv

LEMMA InitHolds ==
    ASSUME Init
    PROVE  IInv
<1>1. /\ records = <<>> /\ first = 1 /\ cuts = {} /\ durable = 0 /\ checkpoint = 0
      /\ root = [authority |-> None, pins |-> <<>>] /\ settled = {root}
      /\ prot = None /\ index = None /\ status = "open" /\ poison = "no"
      /\ pc = "idle" /\ archived = <<>> /\ frozen = <<>> /\ crashes = 0
  BY DEF Init
<1>2. /\ << >> \in Seq(Bodies) /\ Len(<< >>) = 0 /\ DOMAIN << >> = {}
  BY EmptySeq
<1>3. root.authority = None /\ DOMAIN root.pins = {}
      /\ root = [authority |-> root.authority, pins |-> root.pins]
  BY <1>1, <1>2
<1>4. LogOK(records, first, cuts, durable, checkpoint)
  BY <1>1, <1>2 DEF LogOK
<1>5. RootsOK
  BY <1>1, <1>3 DEF RootsOK, RootOK
<1>6. OneArchive /\ Protected /\ Indexed /\ Received /\ Copies /\ Working /\ Statuses
  BY <1>1, <1>2, <1>3 DEF OneArchive, Protected, Indexed, Received, Copies, Working, Statuses
<1> QED
  BY <1>4, <1>5, <1>6 DEF IInv

LEMMA StutterKeeps ==
    ASSUME IInv, UNCHANGED vars
    PROVE  IInv'
<1>1. LogOK(records', first', cuts', durable', checkpoint') /\ RootsOK' /\ OneArchive'
  BY DEF IInv, vars, log, roots, RootsOK, OneArchive
<1>2. Protected' /\ Indexed' /\ Received' /\ Copies'
  BY DEF IInv, vars, log, roots, Protected, Indexed, Received, Copies
<1>3. AllSealed' = AllSealed /\ Top' = Top
  BY DEF vars, log, AllSealed, Top
<1>4. PinsAllow(root, job.next.released)' = PinsAllow(root, job.next.released)
  BY DEF vars, roots, PinsAllow, Pins
<1>5. Working' /\ Statuses'
  BY <1>3, <1>4 DEF IInv, vars, log, roots, Working, Statuses
<1> QED
  BY <1>1, <1>2, <1>5 DEF IInv

LEMMA StepKeeps ==
    ASSUME IInv, [Next]_vars
    PROVE  IInv'
<1>1. ASSUME NEW rs \in Batches, AppendRecords(rs) PROVE IInv'
  BY <1>1, AppendKeeps
<1>2. CASE Sync
  BY <1>2, SyncKeeps
<1>3. CASE Seal
  BY <1>3, SealKeeps
<1>4. CASE BeginEnable
  BY <1>4, BeginEnableKeeps
<1>5. CASE PublishAuthority
  BY <1>5, PublishAuthorityKeeps
<1>6. CASE AuthorityDone
  BY <1>6, AuthorityDoneKeeps
<1>7. CASE AuthorityFails
  BY <1>7, AuthorityFailsKeeps
<1>8. ASSUME NEW k \in 0 .. Len(archived), root.authority # None,
             Export(k) \/ ExportFails(Held(k)) \/ BeginRelease(k)
      PROVE  IInv'
  BY <1>8, ExportKeeps, ExportFailsKeeps, BeginReleaseKeeps
<1>9. ASSUME NEW id \in Bases, BeginBase(id) \/ FinishBase(id) PROVE IInv'
  BY <1>9, BeginBaseKeeps, FinishBaseKeeps
<1>10. CASE PublishPin
  BY <1>10, PublishPinKeeps
<1>11. CASE PinDone
  BY <1>11, PinDoneKeeps
<1>12. CASE CopyBase
  BY <1>12, CopyBaseKeeps
<1>13. CASE FinishBaseDone \/ BaseFails
  BY <1>13, BaseEndsKeeps
<1>14. ASSUME NEW power \in BOOLEAN, Crash(power) PROVE IInv'
  BY <1>14, CrashKeeps
<1>15. CASE Open
  BY <1>15, OpenKeeps
<1>16. CASE UNCHANGED vars
  BY <1>16, StutterKeeps
<1> QED
  BY <1>1, <1>2, <1>3, <1>4, <1>5, <1>6, <1>7, <1>8, <1>9, <1>10, <1>11, <1>12, <1>13,
     <1>14, <1>15, <1>16 DEF Next

(* Every reachable state satisfies the inductive invariant.                *)
THEOREM ArchiveInvariant == Spec => []IInv
<1>1. Init => IInv
  BY InitHolds
<1>2. IInv /\ [Next]_vars => IInv'
  BY StepKeeps
<1> QED
  BY <1>1, <1>2, PTL DEF Spec

-----------------------------------------------------------------------------
(***************************************************************************)
(* The properties.                                                         *)
(***************************************************************************)
(* Whatever crashed between two steps of enabling, releasing or pinning,   *)
(* the owner opens again; and only a failed file operation poisons it, not *)
(* an export that meets a collected segment or another hash, nor a batch   *)
(* that stops half way for the archive's budget (shared_wal/archive.rs,    *)
(* archive_export.rs).                                                     *)
THEOREM OwnerStaysUsable == Spec => []AlwaysUsable
<1>1. IInv => AlwaysUsable
  BY DEF IInv, Statuses, AlwaysUsable
<1> QED
  BY <1>1, ArchiveInvariant, PTL

(* What was exported is the log's own history and durable: no crash takes  *)
(* it back, exports continue one another across crashes, and the end that  *)
(* archive_status reports is exactly the end of what is durable.           *)
THEOREM ExportedIsDurable == Spec => []ArchivedIsDurable
<1>1. IInv => ArchivedIsDurable
  <2> SUFFICES ASSUME IInv
               PROVE  ArchivedIsDurable
    OBVIOUS
  <2> DEFINE a == root.authority.initial
  <2>1. ASSUME archived # << >>
        PROVE  LET start == a.seq
               IN  /\ start + Len(archived) <= durable
                   /\ archived = SubSeq(records, start + 1, start + Len(archived))
    BY <2>1 DEF IInv, Received
  <2>2. ASSUME prot # None
        PROVE  DurableEnd = Advance(a, durable)
    <3>1. DurableEnd = At(records, a, durable)
      BY <2>2, EndIs
    <3>2. AuthorityOK(records, durable, root.authority)
          /\ a.seq \in Nat /\ a.seq <= prot.released.seq /\ prot.released.seq <= durable
          /\ prot.released.seq \in Nat
      BY <2>2, ProtectedFacts
    <3>3. a = At(records, a, a.seq)
      <4>1. a = [branch |-> a.branch, seq |-> a.seq, digest |-> << >>]
        BY <3>2 DEF AuthorityOK
      <4>2. SubSeq(records, a.seq + 1, a.seq) = << >>
        <5> HIDE DEF a
        <5>1. a.seq < a.seq + 1 /\ a.seq \in Int /\ a.seq + 1 \in Int
          BY <3>2
        <5> QED
          BY <5>1, SubSeqEmpty
      <4> HIDE DEF a
      <4> QED
        BY <4>1, <4>2 DEF At
    <3> HIDE DEF a
    <3>4. a.seq <= a.seq /\ a.seq <= durable /\ durable \in Nat /\ durable <= Len(records)
          /\ records \in Seq(Bodies)
      BY <3>2, Basics
    <3>5. Advance(At(records, a, a.seq), durable) = At(records, a, durable)
      BY <3>2, <3>4, AdvanceIs
    <3> QED
      BY <3>1, <3>3, <3>5
  <2> QED
    BY <2>1, <2>2 DEF ArchivedIsDurable
<1> QED
  BY <1>1, ArchiveInvariant, PTL

(* From every cursor an archiver holds that is not behind the release it   *)
(* can go on exporting: no seal, collection, crash or release takes the    *)
(* records behind it away, and an index that was kept, or is built anew    *)
(* from the release, arrives at that very cursor.                          *)
THEOREM ExportsAlwaysContinue == Spec => []ExportsContinue
<1>1. IInv => ExportsContinue
  <2> SUFFICES ASSUME IInv, Healthy, prot # None, NEW k \in 0 .. Len(archived),
                      Held(k).seq >= prot.released.seq
               PROVE  /\ Exportable(Held(k)) /\ Readable(Held(k))
                      /\ IndexFor(Held(k)).cursor = Held(k)
                      /\ IndexFor(Held(k)).remaining > 0 \/ Held(k).seq = DurableEnd.seq
    BY DEF ExportsContinue
  <2> DEFINE a == root.authority.initial
             after == Held(k)
             rel == prot.released
  <2>1. /\ root.authority # None /\ a.seq \in Nat
        /\ ProtectionOK(records, first, durable, prot, a)
        /\ rel.seq \in Nat /\ rel.seq <= durable
    BY ProtectedFacts
  <2>2. after.seq = a.seq + k /\ OnLine(records, a, durable, after)
    BY <2>1, HeldIs
  <2>3. after = At(records, a, after.seq) /\ rel = At(records, a, rel.seq)
        /\ after.seq \in a.seq .. durable
    BY <2>1, <2>2 DEF OnLine, ProtectionOK
  <2>4. DurableEnd = At(records, a, durable) /\ DurableEnd.seq = durable
    BY EndIs
  <2>5. after.seq >= rel.seq
    OBVIOUS
  <2> HIDE DEF a, after, rel
  <2>6. after.branch = a.branch /\ rel.branch = a.branch /\ DurableEnd.branch = a.branch
    <3>1. \A s : At(records, a, s).branch = a.branch
      BY DEF At
    <3> QED
      BY <2>3, <2>4, <3>1
  <2>7. after.seq \in Nat /\ after.seq <= durable /\ durable \in Nat
    BY <2>1, <2>3, Basics
  <2>8. after = rel \/ after.seq > rel.seq
    <3>1. after.seq = rel.seq \/ after.seq > rel.seq
      BY <2>1, <2>5, <2>7
    <3> QED
      BY <2>3, <3>1
  <2>9. DurableEnd = after \/ DurableEnd.seq > after.seq
    <3>1. after.seq = durable \/ durable > after.seq
      BY <2>7
    <3> QED
      BY <2>3, <2>4, <3>1
  <2>10. Exportable(after)
    BY <2>6, <2>8, <2>9 DEF Exportable, Covers, rel
  <2>11. /\ Readable(after) /\ IndexFor(after).cursor = after
         /\ IndexFor(after).remaining > 0 \/ after.seq = DurableEnd.seq
    <3>1. prot.released.seq <= after.seq
      BY <2>1, <2>5, <2>7 DEF rel
    <3> QED
      BY <2>2, <3>1, IndexIs DEF a
  <2> QED
    BY <2>10, <2>11 DEF after
<1> QED
  BY <1>1, ArchiveInvariant, PTL

(* A finished base is the database up to its cursor, and for as long as a  *)
(* pin names it the log that follows has neither been released nor         *)
(* collected (archive/base.rs).                                            *)
THEOREM BasesStayExtendable == Spec => []BasesExtendable
<1>1. IInv => BasesExtendable
  <2> SUFFICES ASSUME IInv, NEW id \in DOMAIN frozen
               PROVE  LET cursor == frozen[id].cursor
                      IN  /\ frozen[id].rows = SubSeq(records, 1, cursor.seq)
                          /\ id \in DOMAIN root.pins =>
                                 /\ first <= cursor.seq + 1
                                 /\ root.authority.released.seq <= cursor.seq
    BY DEF BasesExtendable
  <2> DEFINE c == frozen[id].cursor
  <2>1. root \in settled /\ RootOK(records, first, durable, root)
        /\ root.authority # None
    BY DEF IInv, RootsOK, OneArchive
  <2>2. /\ OnLine(records, root.authority.initial, durable, c)
        /\ frozen[id].rows = SubSeq(records, 1, c.seq)
        /\ id \in DOMAIN root.pins => root.pins[id] = c
    BY <2>1 DEF IInv, Copies
  <2>3. /\ root.authority.initial.seq \in Nat /\ first <= root.authority.released.seq + 1
        /\ root.authority.released.seq \in root.authority.initial.seq .. durable
        /\ c.seq \in root.authority.initial.seq .. durable
    BY <2>1, <2>2 DEF RootOK, AuthorityOK, OnLine
  <2>4. id \in DOMAIN root.pins => root.authority.released.seq <= c.seq
    BY <2>1, <2>2 DEF RootOK
  <2> DEFINE start == root.authority.initial.seq
             rel == root.authority.released.seq
             s == c.seq
  <2>5. start \in Nat /\ first <= rel + 1 /\ rel \in start .. durable /\ s \in start .. durable
        /\ durable \in Nat /\ first \in Nat
    BY <2>3, Basics
  <2> HIDE DEF start, rel, s
  <2>6. rel <= s => first <= s + 1
    BY <2>5
  <2> QED
    BY <2>2, <2>4, <2>6 DEF rel, s
<1> QED
  BY <1>1, ArchiveInvariant, PTL
=============================================================================
