-------------------------- MODULE UnitFilesProofs --------------------------
(***************************************************************************)
(* The directory cache is exact, for all tables, streams, budgets, clocks  *)
(* and bounds of UnitFiles: however many files of whatever sizes are read, *)
(* merged, damaged and reopened, its total is what its pages are charged   *)
(* and within the budget, its clock never runs over, its pages are the     *)
(* directories of their files, and their ticks tell which was used first,  *)
(* also after compact_ticks has numbered them anew.                        *)
(*                                                                         *)
(* Operations on a cache come first, then the readers that carry one       *)
(* through units and tables, then the steps of the specification.  The     *)
(* clock has room for the pages because every page is charged more than    *)
(* the overhead, so the budget bounds their number (ClockRoom).            *)
(***************************************************************************)
EXTENDS UnitFiles, FiniteSetTheorems, FunctionTheorems, SequenceTheorems, TLAPS

Evicting == INSTANCE Folding WITH Step <- Making
Listing == INSTANCE Folding WITH Step <- ReadListed
Visiting == INSTANCE Folding WITH Step <- ReadUnit
Scanning == INSTANCE Folding WITH Step <- ReadTable

-----------------------------------------------------------------------------
(***************************************************************************)
(* What is charged for a section, for every section and every pair of      *)
(* limits of which the reader's is at least twice the writer's.            *)
(***************************************************************************)
(* Whatever passes the writer's limit is no longer than a section may be   *)
(* and passes the reader's limit, with all columns selected                *)
(* (preflight_bytes against EncodedSection::new and                        *)
(* preflight_decode_memory).                                               *)
THEOREM WrittenIsReadable ==
    ASSUME NEW rows, NEW streams, NEW facts, NEW fullest,
           Shape(rows, streams, facts, fullest),
           WorkingSet(rows, streams, facts) <= WorkingBytes
    PROVE  /\ LongestPayload(rows, streams, facts) <= WorkingBytes
           /\ DecodeSet(LongestPayload(rows, streams, facts), rows, streams, streams, fullest)
                  <= DecodeBytes
<1> DEFINE cells == rows * streams
<1>1. /\ rows \in Nat /\ streams \in Nat /\ facts \in Nat /\ fullest \in Nat
      /\ streams >= 1 /\ facts >= rows /\ fullest <= rows
  BY DEF Shape
<1>2. cells \in Nat
  BY <1>1
<1>3. 24 * rows + 19 * cells + 32 * facts + 128 * streams <= WorkingBytes
  BY DEF WorkingSet
<1> HIDE DEF cells
<1>4. 9 + 8 * rows + 33 * streams + cells + 9 * facts <= WorkingBytes
  BY <1>1, <1>2, <1>3, BytesAssumption
<1>5. (9 + 8 * rows + 33 * streams + cells + 9 * facts)
        + 56 * streams + 32 * rows + 16 * cells + 40 * fullest + 48 * streams <= DecodeBytes
  <2>1. rows * streams >= rows
    <3>1. \E more \in Nat : streams = more + 1
      <4>1. streams - 1 \in Nat /\ streams = (streams - 1) + 1
        BY <1>1
      <4> QED BY <4>1
    <3>2. PICK more \in Nat : streams = more + 1
      BY <3>1
    <3>3. rows * streams = rows * more + rows /\ rows * more \in Nat
      BY <1>1, <3>2
    <3> QED BY <1>1, <3>3
  <2>2. cells >= rows
    BY <2>1 DEF cells
  <2>3. 40 * fullest <= 40 * rows
    BY <1>1
  <2> QED BY <1>1, <1>2, <1>3, <2>2, <2>3, BytesAssumption
<1>6. QED
  BY <1>4, <1>5 DEF LongestPayload, DecodeSet, cells

(* A section cut from another one needs no more, so halving a section, or  *)
(* starting a new one for a single row, never makes room scarcer           *)
(* (encode_source of seal.rs, can_accept of compact.rs).                   *)
THEOREM SmallerNeedsLess ==
    ASSUME NEW rows \in Nat, NEW streams \in Nat, NEW facts \in Nat,
           NEW fewer \in Nat, NEW narrower \in Nat, NEW sparser \in Nat,
           fewer <= rows, narrower <= streams, sparser <= facts
    PROVE  WorkingSet(fewer, narrower, sparser) <= WorkingSet(rows, streams, facts)
<1>1. PICK r \in Nat, s \in Nat : rows = fewer + r /\ streams = narrower + s
  <2>1. rows - fewer \in Nat /\ rows = fewer + (rows - fewer)
    OBVIOUS
  <2>2. streams - narrower \in Nat /\ streams = narrower + (streams - narrower)
    OBVIOUS
  <2> QED BY <2>1, <2>2
<1>2. /\ rows * streams = fewer * narrower + fewer * s + r * narrower + r * s
      /\ fewer * narrower \in Nat /\ fewer * s \in Nat /\ r * narrower \in Nat /\ r * s \in Nat
  BY <1>1
<1>3. fewer * narrower <= rows * streams
  BY <1>2
<1>4. rows * streams \in Nat
  BY <1>2
<1> QED BY <1>2, <1>3, <1>4 DEF WorkingSet

-----------------------------------------------------------------------------
(***************************************************************************)
(* The pages and what they are charged.                                    *)
(***************************************************************************)
Pile(p) == UNION {{id} \X (1 .. Charge(p[id].entries)) : id \in DOMAIN p}

LEMMA SliceSize ==
    ASSUME NEW id, NEW v \in Nat
    PROVE  IsFiniteSet({id} \X (1 .. v)) /\ Cardinality({id} \X (1 .. v)) = v
<1> DEFINE one == {id}
           numbers == 1 .. v
<1>1. IsFiniteSet(one) /\ Cardinality(one) = 1
  BY FS_Singleton
<1>2. IsFiniteSet(numbers) /\ Cardinality(numbers) = v
  <2>1. 1 \in Int /\ v \in Int /\ (IF 1 > v THEN 0 ELSE v - 1 + 1) = v
    OBVIOUS
  <2> QED
    BY <2>1, FS_Interval
<1> HIDE DEF one, numbers
<1>3. IsFiniteSet(one \X numbers) /\ Cardinality(one \X numbers) = Cardinality(one) * Cardinality(numbers)
  BY <1>1, <1>2, FS_Product
<1>4. Cardinality(one \X numbers) = v
  BY <1>1, <1>2, <1>3
<1> QED
  BY <1>3, <1>4 DEF one, numbers

(* A page taken away.                                                      *)
LEMMA PileLess ==
    ASSUME NEW p, NEW q, NEW id \in DOMAIN p, DOMAIN q = DOMAIN p \ {id},
           \A x \in DOMAIN q : q[x].entries = p[x].entries,
           Charge(p[id].entries) \in Nat
    PROVE  /\ IsFiniteSet(Pile(p)) <=> IsFiniteSet(Pile(q))
           /\ IsFiniteSet(Pile(p)) =>
                  /\ Cardinality(Pile(q)) \in Nat
                  /\ Cardinality(Pile(p)) = Cardinality(Pile(q)) + Charge(p[id].entries)
<1> DEFINE v == Charge(p[id].entries)
           slice == {id} \X (1 .. v)
           a == Pile(q)
           P(x) == {x} \X (1 .. Charge(p[x].entries))
<1>1. a = UNION {P(x) : x \in DOMAIN p \ {id}}
  <2>1. \A x \in DOMAIN q : {x} \X (1 .. Charge(q[x].entries)) = P(x)
    OBVIOUS
  <2> HIDE DEF P
  <2>2. {{x} \X (1 .. Charge(q[x].entries)) : x \in DOMAIN q} = {P(x) : x \in DOMAIN p \ {id}}
    BY <2>1
  <2> QED
    BY <2>2 DEF Pile
<1>2. Pile(p) = a \cup slice
  <2>1. slice = P(id) /\ Pile(p) = UNION {P(x) : x \in DOMAIN p}
    BY DEF Pile
  <2> HIDE DEF P, slice, a
  <2> QED
    BY <1>1, <2>1
<1>3. a \cap slice = {}
  <2>1. ASSUME NEW x \in DOMAIN p \ {id}
        PROVE  P(x) \cap slice = {}
    OBVIOUS
  <2> HIDE DEF P, slice, a
  <2> QED
    BY <1>1, <2>1
<1>4. IsFiniteSet(slice) /\ Cardinality(slice) = v
  BY SliceSize
<1>5. v \in Nat
  OBVIOUS
<1> HIDE DEF a, slice, v
<1>6. IsFiniteSet(a) => /\ Cardinality(a) \in Nat /\ IsFiniteSet(a \cup slice)
                        /\ Cardinality(a \cup slice) = Cardinality(a) + v
  <2> SUFFICES ASSUME IsFiniteSet(a)
               PROVE  /\ Cardinality(a) \in Nat /\ IsFiniteSet(a \cup slice)
                      /\ Cardinality(a \cup slice) = Cardinality(a) + v
    OBVIOUS
  <2>1. Cardinality(a \cap slice) = 0 /\ Cardinality(a) \in Nat
    BY <1>3, FS_EmptySet, FS_CardinalityType
  <2>2. /\ IsFiniteSet(a \cup slice)
        /\ Cardinality(a \cup slice) = Cardinality(a) + Cardinality(slice) - Cardinality(a \cap slice)
    BY <1>4, FS_Union
  <2> QED
    BY <1>4, <1>5, <2>1, <2>2
<1>7. IsFiniteSet(a \cup slice) => IsFiniteSet(a)
  BY FS_Subset
<1> QED
  BY <1>2, <1>6, <1>7 DEF a, v

LEMMA PileSame ==
    ASSUME NEW p, NEW q, DOMAIN q = DOMAIN p, \A x \in DOMAIN p : q[x].entries = p[x].entries
    PROVE  Pile(q) = Pile(p)
<1> DEFINE P(x) == {x} \X (1 .. Charge(p[x].entries))
<1>1. \A x \in DOMAIN q : {x} \X (1 .. Charge(q[x].entries)) = P(x)
  OBVIOUS
<1> HIDE DEF P
<1>2. {{x} \X (1 .. Charge(q[x].entries)) : x \in DOMAIN q} = {P(x) : x \in DOMAIN p}
  BY <1>1
<1> QED
  BY <1>2 DEF Pile, P

(* Every page is charged at least one entry and the overhead.              *)
LEMMA PagesFit ==
    ASSUME NEW p, IsFiniteSet(DOMAIN p), IsFiniteSet(Pile(p)), NEW least \in Nat,
           \A id \in DOMAIN p : Charge(p[id].entries) \in Nat /\ Charge(p[id].entries) >= least
    PROVE  /\ Cardinality(DOMAIN p) \in Nat /\ Cardinality(Pile(p)) \in Nat
           /\ Cardinality(DOMAIN p) * least <= Cardinality(Pile(p))
<1> DEFINE ids == DOMAIN p
           numbers == 1 .. least
<1>1. IsFiniteSet(numbers) /\ Cardinality(numbers) = least
  <2>1. 1 \in Int /\ least \in Int /\ (IF 1 > least THEN 0 ELSE least - 1 + 1) = least
    OBVIOUS
  <2> QED
    BY <2>1, FS_Interval
<1>2. ids \X numbers \subseteq Pile(p)
  <2> SUFFICES ASSUME NEW id \in ids, NEW i \in numbers
               PROVE  <<id, i>> \in Pile(p)
    OBVIOUS
  <2>1. i \in 1 .. Charge(p[id].entries)
    OBVIOUS
  <2>2. <<id, i>> \in {id} \X (1 .. Charge(p[id].entries))
    BY <2>1
  <2> QED
    BY <2>2 DEF Pile
<1> HIDE DEF ids, numbers
<1>3. IsFiniteSet(ids)
  BY DEF ids
<1>4. Cardinality(ids \X numbers) = Cardinality(ids) * Cardinality(numbers)
  BY <1>1, <1>3, FS_Product
<1>5. Cardinality(ids \X numbers) <= Cardinality(Pile(p))
  BY <1>2, FS_Subset
<1>6. Cardinality(ids) \in Nat /\ Cardinality(Pile(p)) \in Nat
  BY <1>3, FS_CardinalityType
<1> QED
  BY <1>1, <1>4, <1>5, <1>6 DEF ids

-----------------------------------------------------------------------------
(***************************************************************************)
(* Which page was used before which.                                       *)
(***************************************************************************)
Earlier(p, a, b) == p[a].last < p[b].last \/ (p[a].last = p[b].last /\ a < b)
Stamped(p) ==
    /\ IsFiniteSet(DOMAIN p) /\ DOMAIN p \subseteq Nat
    /\ \A id \in DOMAIN p : p[id].last \in Nat
Before1(p, id) == {o \in DOMAIN p : Earlier(p, o, id)}
Rank(p, id) == Cardinality(Before1(p, id))

LEMMA EarlierIs ==
    ASSUME NEW p, Stamped(p), NEW a \in DOMAIN p, NEW b \in DOMAIN p
    PROVE  /\ ~ Earlier(p, a, a)
           /\ a # b => (Earlier(p, a, b) <=> ~ Earlier(p, b, a))
           /\ \A c \in DOMAIN p : Earlier(p, a, b) /\ Earlier(p, b, c) => Earlier(p, a, c)
<1>1. \A x \in DOMAIN p : x \in Nat /\ p[x].last \in Nat
  BY DEF Stamped
<1>2. ~ Earlier(p, a, a)
  BY <1>1 DEF Earlier
<1>3. a # b => (Earlier(p, a, b) <=> ~ Earlier(p, b, a))
  BY <1>1 DEF Earlier
<1>4. ASSUME NEW c \in DOMAIN p, Earlier(p, a, b), Earlier(p, b, c)
      PROVE  Earlier(p, a, c)
  BY <1>1, <1>4 DEF Earlier
<1> QED
  BY <1>2, <1>3, <1>4

LEMMA RankIs ==
    ASSUME NEW p, Stamped(p), NEW a \in DOMAIN p
    PROVE  /\ Rank(p, a) \in Nat /\ Cardinality(DOMAIN p) \in Nat
           /\ Rank(p, a) < Cardinality(DOMAIN p)
           /\ \A b \in DOMAIN p : Earlier(p, a, b) <=> Rank(p, a) < Rank(p, b)
           /\ \A b \in DOMAIN p : Rank(p, a) = Rank(p, b) => a = b
<1>1. \A x \in DOMAIN p : /\ Before1(p, x) \subseteq DOMAIN p /\ x \notin Before1(p, x)
                          /\ IsFiniteSet(Before1(p, x)) /\ Rank(p, x) \in Nat
  <2> SUFFICES ASSUME NEW x \in DOMAIN p
               PROVE  /\ Before1(p, x) \subseteq DOMAIN p /\ x \notin Before1(p, x)
                      /\ IsFiniteSet(Before1(p, x)) /\ Rank(p, x) \in Nat
    OBVIOUS
  <2>1. Before1(p, x) \subseteq DOMAIN p /\ x \notin Before1(p, x)
    BY EarlierIs DEF Before1
  <2>2. IsFiniteSet(Before1(p, x))
    BY <2>1, FS_Subset DEF Stamped
  <2> QED
    BY <2>1, <2>2, FS_CardinalityType DEF Rank
<1>2. IsFiniteSet(DOMAIN p) /\ Cardinality(DOMAIN p) \in Nat
  BY FS_CardinalityType DEF Stamped
<1>3. Rank(p, a) < Cardinality(DOMAIN p)
  <2>1. Before1(p, a) # DOMAIN p
    BY <1>1
  <2>2. /\ Cardinality(Before1(p, a)) <= Cardinality(DOMAIN p)
        /\ Cardinality(Before1(p, a)) # Cardinality(DOMAIN p)
    BY <1>1, <1>2, <2>1, FS_Subset
  <2> QED
    BY <1>1, <1>2, <2>2 DEF Rank
<1>4. ASSUME NEW x \in DOMAIN p, NEW y \in DOMAIN p, Earlier(p, x, y)
      PROVE  Rank(p, x) < Rank(p, y)
  <2>1. Before1(p, x) \subseteq Before1(p, y)
    BY <1>4, EarlierIs DEF Before1
  <2>2. x \in Before1(p, y) /\ x \notin Before1(p, x)
    BY <1>1, <1>4 DEF Before1
  <2>3. /\ Cardinality(Before1(p, x)) <= Cardinality(Before1(p, y))
        /\ Cardinality(Before1(p, x)) # Cardinality(Before1(p, y))
    BY <1>1, <2>1, <2>2, FS_Subset
  <2> QED
    BY <1>1, <2>3 DEF Rank
<1>5. ASSUME NEW b \in DOMAIN p
      PROVE  /\ Earlier(p, a, b) <=> Rank(p, a) < Rank(p, b)
             /\ Rank(p, a) = Rank(p, b) => a = b
  <2>1. a = b \/ Earlier(p, a, b) \/ Earlier(p, b, a)
    BY EarlierIs
  <2>2. Earlier(p, a, b) => Rank(p, a) < Rank(p, b)
    BY <1>4
  <2>3. Earlier(p, b, a) => Rank(p, b) < Rank(p, a)
    BY <1>4
  <2>4. Rank(p, a) \in Nat /\ Rank(p, b) \in Nat
    BY <1>1
  <2> QED
    BY <2>1, <2>2, <2>3, <2>4
<1> QED
  BY <1>1, <1>2, <1>3, <1>5

(* One of the pages was used first.                                        *)
LEMMA OldestExists ==
    ASSUME NEW p, Stamped(p), DOMAIN p # {}
    PROVE  \E id \in DOMAIN p : \A o \in DOMAIN p \ {id} : Earlier(p, id, o)
<1> DEFINE Ranks == {Rank(p, id) : id \in DOMAIN p}
<1>1. Ranks \subseteq Nat /\ Ranks # {}
  BY RankIs
<1>2. PICK least \in Ranks : \A n \in Ranks : least <= n
  <2> HIDE DEF Ranks
  <2> QED
    BY <1>1, Evicting!LeastNumber
<1>3. PICK id \in DOMAIN p : least = Rank(p, id)
  OBVIOUS
<1>4. ASSUME NEW o \in DOMAIN p \ {id}
      PROVE  Earlier(p, id, o)
  <2>1. Rank(p, id) <= Rank(p, o) /\ Rank(p, id) # Rank(p, o)
    BY <1>2, <1>3, RankIs
  <2>2. Rank(p, id) \in Nat /\ Rank(p, o) \in Nat
    BY RankIs
  <2>3. Rank(p, id) < Rank(p, o)
    BY <2>1, <2>2
  <2> QED
    BY <2>3, RankIs
<1> QED
  BY <1>4

-----------------------------------------------------------------------------
(***************************************************************************)
(* The cache: what holds of it, and the clock.                             *)
(***************************************************************************)
Dir(p, u, t, o) == [pages |-> p, used |-> u, clock |-> t, older |-> o]
Older(p) == {x \in (DOMAIN p) \X (DOMAIN p) : x[1] # x[2] /\ Earlier(p, x[1], x[2])}
IsSeq(s) == \E S : s \in Seq(S)

FilesOK ==
    /\ \E n \in Nat : DOMAIN files = 1 .. n
    /\ \A id \in DOMAIN files :
           /\ files[id] = [entries |-> files[id].entries, bodies |-> files[id].bodies]
           /\ IsSeq(files[id].entries) /\ Len(files[id].entries) >= 1
PagesOK(p) ==
    /\ Stamped(p) /\ DOMAIN p \subseteq DOMAIN files
    /\ \A id \in DOMAIN p : p[id] = [entries |-> files[id].entries, last |-> p[id].last]
CacheOK(c) ==
    /\ c = Dir(c.pages, c.used, c.clock, c.older)
    /\ PagesOK(c.pages) /\ c.older = Older(c.pages)
    /\ IsFiniteSet(Pile(c.pages)) /\ c.used = Cardinality(Pile(c.pages)) /\ c.used <= CacheBudget
    /\ c.clock \in 1 .. MaxTick
    /\ \A id \in DOMAIN c.pages : c.pages[id].last < c.clock

LEMMA DirIs ==
    \A p, u, t, o : /\ Dir(p, u, t, o).pages = p /\ Dir(p, u, t, o).used = u
                    /\ Dir(p, u, t, o).clock = t /\ Dir(p, u, t, o).older = o
BY DEF Dir

LEMMA PageIs ==
    ASSUME NEW p, PagesOK(p), NEW id \in DOMAIN p
    PROVE  /\ id \in DOMAIN files /\ p[id].entries = files[id].entries
           /\ p[id] = [entries |-> files[id].entries, last |-> p[id].last]
<1>1. p[id] = [entries |-> files[id].entries, last |-> p[id].last] /\ id \in DOMAIN files
  BY DEF PagesOK
<1> DEFINE e == files[id].entries
           l == p[id].last
<1>2. [entries |-> e, last |-> l].entries = e
  OBVIOUS
<1> QED
  BY <1>1, <1>2

LEMMA ChargeIs ==
    ASSUME FilesOK, NEW id \in DOMAIN files
    PROVE  Charge(files[id].entries) \in Nat /\ Charge(files[id].entries) >= PageOverhead + 1
<1>1. PICK S : files[id].entries \in Seq(S)
  BY DEF FilesOK, IsSeq
<1>2. Len(files[id].entries) \in Nat /\ Len(files[id].entries) >= 1
  BY <1>1 DEF FilesOK
<1> QED
  BY <1>2, LimitsAssumption DEF Charge

LEMMA OlderIs ==
    ASSUME NEW p, NEW a \in DOMAIN p, NEW b \in DOMAIN p
    PROVE  <<a, b>> \in Older(p) <=> a # b /\ Earlier(p, a, b)
BY DEF Older

(* Pages in the same order are older than the same pages.                  *)
LEMMA OlderSame ==
    ASSUME NEW p, NEW q, DOMAIN q = DOMAIN p,
           \A a, b \in DOMAIN p : Earlier(q, a, b) <=> Earlier(p, a, b)
    PROVE  Older(q) = Older(p)
BY DEF Older

LEMMA ClockRoom ==
    ASSUME FilesOK, NEW c, CacheOK(c)
    PROVE  Cardinality(DOMAIN c.pages) \in Nat /\ Cardinality(DOMAIN c.pages) + 1 < MaxTick
<1> DEFINE n == Cardinality(DOMAIN c.pages)
           least == PageOverhead + 1
           room == CacheBudget \div least
           m == Cardinality(Pile(c.pages))
<1>1. least \in Nat /\ least > 0 /\ CacheBudget \in Nat /\ MaxTick \in Nat /\ MaxTick > 1 + room
  BY LimitsAssumption
<1>2. \A id \in DOMAIN c.pages : /\ Charge(c.pages[id].entries) \in Nat
                                 /\ Charge(c.pages[id].entries) >= least
  <2> SUFFICES ASSUME NEW id \in DOMAIN c.pages
               PROVE  Charge(c.pages[id].entries) \in Nat /\ Charge(c.pages[id].entries) >= least
    OBVIOUS
  <2> DEFINE p == c.pages
  <2>1. id \in DOMAIN p /\ PagesOK(p)
    BY DEF CacheOK
  <2> HIDE DEF p
  <2>2. id \in DOMAIN files /\ p[id].entries = files[id].entries
    BY <2>1, PageIs
  <2> QED
    BY <2>2, ChargeIs DEF p, least
<1> HIDE DEF least
<1>3. n \in Nat /\ m \in Nat /\ n * least <= m /\ m <= CacheBudget
  <2>1. IsFiniteSet(DOMAIN c.pages) /\ IsFiniteSet(Pile(c.pages)) /\ m <= CacheBudget
    BY DEF CacheOK, PagesOK, Stamped
  <2> QED
    BY <1>1, <1>2, <2>1, PagesFit
<1> HIDE DEF n, m
<1>4. n <= room
  <2> DEFINE d == CacheBudget \div least
             e == CacheBudget % least
  <2>1. d \in Nat /\ e \in Nat /\ e < least /\ least * d + e = CacheBudget
    <3>1. d \in Nat /\ e \in Nat /\ e < least
      BY <1>1
    <3>2. least * d + e = CacheBudget
      BY <1>1
    <3> QED
      BY <3>1, <3>2
  <2> HIDE DEF d, e
  <2>2. CASE n > d
    <3>1. PICK k \in Nat : n = d + 1 + k
      <4>1. n - d - 1 \in Nat /\ n = d + 1 + (n - d - 1)
        BY <1>3, <2>1, <2>2
      <4> QED
        BY <4>1
    <3>2. n * least = least * d + least + k * least
      BY <1>1, <1>3, <2>1, <3>1
    <3>3. k * least \in Nat /\ least * d \in Nat /\ n * least \in Nat
      BY <1>1, <1>3, <2>1, <3>1
    <3> DEFINE x == least * d
               y == k * least
               z == n * least
    <3>4. x \in Nat /\ y \in Nat /\ z \in Nat /\ z = x + least + y /\ z <= m /\ x + e = CacheBudget
      BY <1>3, <2>1, <3>2, <3>3
    <3> HIDE DEF x, y, z
    <3> QED
      BY <1>1, <1>3, <2>1, <3>4
  <2>3. CASE ~ (n > d)
    BY <1>3, <2>1, <2>3 DEF d
  <2> QED
    BY <2>2, <2>3
<1>5. n + 1 < MaxTick
  <2>1. room \in Nat
    BY <1>1
  <2> HIDE DEF room
  <2> QED
    BY <1>1, <1>3, <1>4, <2>1
<1> QED
  BY <1>3, <1>5 DEF n

(* compact_ticks: the pages are numbered anew in the same order.           *)
LEMMA CompactedOK ==
    ASSUME FilesOK, NEW c, CacheOK(c)
    PROVE  /\ CacheOK(CompactTicks(c)) /\ CompactTicks(c).clock < MaxTick
           /\ DOMAIN CompactTicks(c).pages = DOMAIN c.pages
           /\ CompactTicks(c).used = c.used
<1> DEFINE p == c.pages
           n == Cardinality(DOMAIN p)
           q == [id \in DOMAIN p |-> [entries |-> files[id].entries, last |-> Rank(p, id)]]
<1>1. /\ PagesOK(p) /\ Stamped(p) /\ DOMAIN p \subseteq DOMAIN files
      /\ \A id \in DOMAIN p : p[id] = [entries |-> files[id].entries, last |-> p[id].last]
  BY DEF CacheOK, PagesOK
<1>2. n \in Nat /\ n + 1 < MaxTick
  BY ClockRoom
<1>3. CompactTicks(c) = Dir(q, c.used, n + 1, c.older)
  <2> DEFINE s == [id \in DOMAIN p |-> [p[id] EXCEPT !.last =
                                           Cardinality({o \in DOMAIN p : Before(c, o, id)})]]
  <2>1. CompactTicks(c) = [c EXCEPT !.pages = s, !.clock = n + 1]
    <3>1. c = Dir(c.pages, c.used, c.clock, c.older)
      BY DEF CacheOK
    <3> QED
      BY <3>1 DEF CompactTicks, Dir
  <2>2. s = q
    <3>1. ASSUME NEW id \in DOMAIN p
          PROVE  [p[id] EXCEPT !.last = Cardinality({o \in DOMAIN p : Before(c, o, id)})]
                     = [entries |-> files[id].entries, last |-> Rank(p, id)]
      <4>1. {o \in DOMAIN p : Before(c, o, id)} = Before1(p, id)
        BY DEF Before, Before1, Earlier
      <4>2. p[id] = [entries |-> files[id].entries, last |-> p[id].last]
        BY <1>1
      <4>3. [p[id] EXCEPT !.last = Rank(p, id)] = [entries |-> files[id].entries, last |-> Rank(p, id)]
        BY <4>2
      <4> QED
        BY <4>1, <4>3 DEF Rank
    <3> HIDE DEF p
    <3> QED
      BY <3>1
  <2> HIDE DEF s, q, n
  <2>3. c = Dir(c.pages, c.used, c.clock, c.older)
    BY DEF CacheOK
  <2>4. [c EXCEPT !.pages = s, !.clock = n + 1] = [[c EXCEPT !.pages = s] EXCEPT !.clock = n + 1]
    OBVIOUS
  <2>5. [c EXCEPT !.pages = s] = Dir(s, c.used, c.clock, c.older)
    BY <2>3 DEF Dir
  <2>6. [Dir(s, c.used, c.clock, c.older) EXCEPT !.clock = n + 1] = Dir(s, c.used, n + 1, c.older)
    BY DEF Dir
  <2> QED
    BY <2>1, <2>2, <2>4, <2>5, <2>6
<1>4. \A id \in DOMAIN p : Rank(p, id) \in Nat /\ Rank(p, id) < n
  BY <1>1, RankIs
<1>5. /\ DOMAIN q = DOMAIN p
      /\ \A id \in DOMAIN p : q[id].entries = p[id].entries /\ q[id].last = Rank(p, id)
  <2> SUFFICES ASSUME NEW id \in DOMAIN p
               PROVE  q[id].entries = p[id].entries /\ q[id].last = Rank(p, id)
    OBVIOUS
  <2>1. p[id].entries = files[id].entries
    <3> HIDE DEF p
    <3> QED
      BY <1>1, PageIs
  <2>2. q[id].entries = files[id].entries /\ q[id].last = Rank(p, id)
    OBVIOUS
  <2> QED
    BY <2>1, <2>2
<1>6. PagesOK(q)
  <2>1. \A id \in DOMAIN q : q[id] = [entries |-> files[id].entries, last |-> q[id].last]
    OBVIOUS
  <2> HIDE DEF q, p
  <2> QED
    BY <1>1, <1>4, <1>5, <2>1 DEF PagesOK, Stamped
<1> HIDE DEF q, p, n
<1>7. \A a, b \in DOMAIN p : Earlier(q, a, b) <=> Earlier(p, a, b)
  <2> SUFFICES ASSUME NEW a \in DOMAIN p, NEW b \in DOMAIN p
               PROVE  Earlier(q, a, b) <=> Earlier(p, a, b)
    OBVIOUS
  <2>1. /\ Earlier(p, a, b) <=> Rank(p, a) < Rank(p, b)
        /\ Rank(p, a) = Rank(p, b) => a = b
    BY <1>1, RankIs
  <2>2. a \in Nat /\ b \in Nat
    BY <1>1 DEF Stamped
  <2> QED
    BY <1>4, <1>5, <2>1, <2>2 DEF Earlier
<1>8. Older(q) = Older(p) /\ Pile(q) = Pile(p)
  BY <1>5, <1>7, OlderSame, PileSame
<1>9. \A id \in DOMAIN q : q[id].last < n + 1
  BY <1>2, <1>4, <1>5
<1>10. CacheOK(Dir(q, c.used, n + 1, c.older))
  <2>1. n + 1 \in 1 .. MaxTick
    BY <1>2, LimitsAssumption
  <2> QED
    BY <1>6, <1>8, <1>9, <2>1, DirIs DEF CacheOK, p
<1> QED
  BY <1>2, <1>3, <1>5, <1>10, DirIs DEF p

LEMMA TimedOK ==
    ASSUME FilesOK, NEW c, CacheOK(c)
    PROVE  /\ CacheOK(Timed(c)) /\ Timed(c).clock + 1 \in 1 .. MaxTick
           /\ DOMAIN Timed(c).pages = DOMAIN c.pages /\ Timed(c).used = c.used
           /\ Ticked(c) = Dir(Timed(c).pages, Timed(c).used, Timed(c).clock + 1, Timed(c).older)
<1> DEFINE t == Timed(c)
<1>1. /\ CacheOK(t) /\ t.clock < MaxTick
      /\ DOMAIN t.pages = DOMAIN c.pages /\ t.used = c.used
  <2>1. CASE c.clock = MaxTick
    BY <2>1, CompactedOK DEF Timed
  <2>2. CASE c.clock # MaxTick
    <3>1. Timed(c) = c
      BY <2>2 DEF Timed
    <3>2. c.clock \in 1 .. MaxTick
      BY DEF CacheOK
    <3>3. c.clock < MaxTick
      BY <2>2, <3>2, LimitsAssumption
    <3> QED
      BY <3>1, <3>3
  <2> QED
    BY <2>1, <2>2
<1> HIDE DEF t
<1>2. t.clock + 1 \in 1 .. MaxTick
  <2>1. t.clock \in 1 .. MaxTick
    BY <1>1 DEF CacheOK
  <2> QED
    BY <1>1, <2>1, LimitsAssumption
<1>3. t = Dir(t.pages, t.used, t.clock, t.older)
  BY <1>1 DEF CacheOK
<1>4. [t EXCEPT !.clock = @ + 1] = Dir(t.pages, t.used, t.clock + 1, t.older)
  <2>1. [Dir(t.pages, t.used, t.clock, t.older) EXCEPT !.clock = t.clock + 1]
            = Dir(t.pages, t.used, t.clock + 1, t.older)
    BY DEF Dir
  <2> QED
    BY <1>3, <2>1
<1> QED
  BY <1>1, <1>2, <1>4 DEF Ticked, t

LEMMA TickedOK ==
    ASSUME FilesOK, NEW c, CacheOK(c)
    PROVE  CacheOK(Ticked(c)) /\ DOMAIN Ticked(c).pages = DOMAIN c.pages
<1> DEFINE t == Timed(c)
<1>1. /\ CacheOK(t) /\ t.clock + 1 \in 1 .. MaxTick /\ DOMAIN t.pages = DOMAIN c.pages
      /\ Ticked(c) = Dir(t.pages, t.used, t.clock + 1, t.older)
  BY TimedOK
<1> HIDE DEF t
<1>2. \A id \in DOMAIN t.pages : t.pages[id].last < t.clock + 1
  <2> SUFFICES ASSUME NEW id \in DOMAIN t.pages
               PROVE  t.pages[id].last < t.clock + 1
    OBVIOUS
  <2>1. t.pages[id].last \in Nat /\ t.clock \in 1 .. MaxTick /\ t.pages[id].last < t.clock
    BY <1>1 DEF CacheOK, PagesOK, Stamped
  <2> QED
    BY <2>1
<1> QED
  BY <1>1, <1>2, DirIs DEF CacheOK

(* A page used now is the newest.                                          *)
LEMMA NewestIs ==
    ASSUME NEW p, Stamped(p), NEW id \in Nat, NEW q, DOMAIN q = DOMAIN p \cup {id},
           \A x \in DOMAIN p \ {id} : q[x] = p[x] /\ p[x].last < q[id].last,
           q[id].last \in Nat
    PROVE  Older(q) = Newest(Older(p), DOMAIN p, id)
<1> DEFINE now == q[id].last
<1>1. ASSUME NEW a \in DOMAIN p \ {id}
      PROVE  Earlier(q, a, id) /\ ~ Earlier(q, id, a)
  <2>1. p[a].last \in Nat /\ q[a].last = p[a].last /\ p[a].last < now /\ now \in Nat
    BY DEF Stamped
  <2> HIDE DEF now
  <2>2. q[a].last < now /\ ~(now < q[a].last) /\ now # q[a].last
    BY <2>1
  <2> QED
    BY <2>2 DEF Earlier, now
<1>2. \A a, b \in DOMAIN p \ {id} : Earlier(q, a, b) <=> Earlier(p, a, b)
  BY DEF Earlier
<1>3. ASSUME NEW x \in Older(q)
      PROVE  x \in Newest(Older(p), DOMAIN p, id)
  <2>1. PICK a \in DOMAIN q, b \in DOMAIN q : x = <<a, b>> /\ a # b /\ Earlier(q, a, b)
    BY DEF Older
  <2>2. a # id
    BY <1>1, <2>1
  <2>3. CASE b = id
    BY <2>1, <2>2, <2>3 DEF Newest
  <2>4. CASE b # id
    <3>1. a \in DOMAIN p \ {id} /\ b \in DOMAIN p \ {id} /\ Earlier(p, a, b)
      BY <1>2, <2>1, <2>2, <2>4
    <3>2. x \in Older(p)
      BY <2>1, <3>1 DEF Older
    <3> QED
      BY <2>1, <2>2, <3>2 DEF Newest
  <2> QED
    BY <2>3, <2>4
<1>4. ASSUME NEW x \in Newest(Older(p), DOMAIN p, id)
      PROVE  x \in Older(q)
  <2>1. CASE x \in (DOMAIN p \ {id}) \X {id}
    <3>1. PICK a \in DOMAIN p \ {id} : x = <<a, id>>
      BY <2>1
    <3> QED
      BY <1>1, <3>1 DEF Older
  <2>2. CASE x \in Older(p) /\ x[1] # id
    <3>1. PICK a \in DOMAIN p, b \in DOMAIN p : x = <<a, b>> /\ a # b /\ Earlier(p, a, b)
      BY <2>2 DEF Older
    <3>2. a # id
      BY <2>2, <3>1
    <3>3. Earlier(q, a, b)
      BY <1>1, <1>2, <3>1, <3>2
    <3> QED
      BY <3>1, <3>3 DEF Older
  <2> QED
    BY <2>1, <2>2 DEF Newest
<1> QED
  BY <1>3, <1>4

LEMMA TouchedOK ==
    ASSUME FilesOK, NEW c, CacheOK(c), NEW id
    PROVE  CacheOK(Touched(c, id)) /\ DOMAIN Touched(c, id).pages = DOMAIN c.pages
<1>1. CASE id \notin DOMAIN c.pages
  BY <1>1, TickedOK DEF Touched
<1>2. CASE id \in DOMAIN c.pages
  <2> DEFINE t == Timed(c)
             p == t.pages
             now == t.clock
             page == [entries |-> files[id].entries, last |-> now]
             q == [p EXCEPT ![id] = page]
             pairs == Newest(t.older, DOMAIN p, id)
  <2>1. /\ CacheOK(t) /\ now + 1 \in 1 .. MaxTick /\ DOMAIN p = DOMAIN c.pages
        /\ Ticked(c) = Dir(p, t.used, now + 1, t.older)
    BY TimedOK
  <2>2. /\ PagesOK(p) /\ Stamped(p) /\ t.older = Older(p) /\ now \in 1 .. MaxTick /\ now \in Nat
        /\ \A x \in DOMAIN p : p[x].last < now /\ p[x].last \in Nat
    <3> HIDE DEF t
    <3> QED
      BY <2>1 DEF CacheOK, PagesOK, Stamped
  <2> HIDE DEF t, p, now
  <2>3. id \in DOMAIN p /\ id \in DOMAIN files /\ id \in Nat
        /\ p[id] = [entries |-> files[id].entries, last |-> p[id].last]
    BY <1>2, <2>1, <2>2, PageIs DEF Stamped
  <2>4. /\ DOMAIN q = DOMAIN p /\ \A x \in DOMAIN p \ {id} : q[x] = p[x]
        /\ q[id] = page /\ q[id].last = now /\ q[id].entries = files[id].entries
    BY <2>3
  <2>5. Touched(c, id) = Dir(q, t.used, now + 1, pairs)
    <3>1. Touched(c, id) = [Ticked(c) EXCEPT !.pages[id].last = now, !.older = Newest(@, DOMAIN c.pages, id)]
      BY <1>2 DEF Touched, now, t
    <3>2. [p EXCEPT ![id].last = now] = q
      <4>1. [p[id] EXCEPT !.last = now] = page
        BY <2>3
      <4> QED
        BY <2>3, <4>1
    <3> DEFINE d == Dir(p, t.used, now + 1, t.older)
    <3> HIDE DEF q, page
    <3>3. [d EXCEPT !.pages[id].last = now, !.older = Newest(@, DOMAIN c.pages, id)]
             = [[d EXCEPT !.pages[id].last = now] EXCEPT !.older = Newest(@, DOMAIN c.pages, id)]
      OBVIOUS
    <3>4. [d EXCEPT !.pages[id].last = now] = Dir(q, t.used, now + 1, t.older)
      BY <3>2 DEF Dir
    <3>5. [Dir(q, t.used, now + 1, t.older) EXCEPT !.older = Newest(@, DOMAIN p, id)]
             = Dir(q, t.used, now + 1, pairs)
      BY DEF Dir
    <3> HIDE DEF pairs
    <3> QED
      BY <2>1, <3>1, <3>3, <3>4, <3>5
  <2> HIDE DEF q, page
  <2>6. Older(q) = pairs
    BY <2>2, <2>3, <2>4, NewestIs
  <2>7. Pile(q) = Pile(p)
    <3>1. \A x \in DOMAIN p : q[x].entries = p[x].entries
      BY <2>2, <2>4, PageIs
    <3> QED
      BY <2>4, <3>1, PileSame
  <2>8. PagesOK(q)
    <3>1. IsFiniteSet(DOMAIN q) /\ DOMAIN q \subseteq Nat /\ DOMAIN q \subseteq DOMAIN files
      BY <2>2, <2>4 DEF PagesOK, Stamped
    <3>2. ASSUME NEW x \in DOMAIN q
          PROVE  q[x] = [entries |-> files[x].entries, last |-> q[x].last] /\ q[x].last \in Nat
      <4>1. CASE x = id
        BY <2>2, <2>4, <4>1 DEF page
      <4>2. CASE x # id
        BY <2>2, <2>4, <4>2 DEF PagesOK
      <4> QED
        BY <4>1, <4>2
    <3> QED
      BY <3>1, <3>2 DEF PagesOK, Stamped
  <2>9. \A x \in DOMAIN q : q[x].last < now + 1
    <3> SUFFICES ASSUME NEW x \in DOMAIN q
                 PROVE  q[x].last < now + 1
      OBVIOUS
    <3>1. CASE x = id
      BY <2>2, <2>4, <3>1
    <3>2. CASE x # id
      <4>1. q[x].last = p[x].last /\ p[x].last < now /\ p[x].last \in Nat
        BY <2>2, <2>4, <3>2
      <4> QED
        BY <2>2, <4>1
    <3> QED
      BY <3>1, <3>2
  <2>10. t.used = Cardinality(Pile(p)) /\ IsFiniteSet(Pile(p)) /\ t.used <= CacheBudget
    BY <2>1 DEF CacheOK, p
  <2>11. CacheOK(Dir(q, t.used, now + 1, pairs))
    <3> HIDE DEF pairs
    <3> QED
      BY <2>1, <2>6, <2>7, <2>8, <2>9, <2>10, DirIs DEF CacheOK
  <2> QED
    BY <2>1, <2>4, <2>5, <2>11, DirIs
<1> QED
  BY <1>1, <1>2

(* evict_one: the page used first goes, with what it was charged.          *)
LEMMA EvictOK ==
    ASSUME FilesOK, NEW c, CacheOK(c), DOMAIN c.pages # {}
    PROVE  /\ CacheOK(EvictOldest(c)) /\ DOMAIN EvictOldest(c).pages \subseteq DOMAIN c.pages
           /\ Cardinality(DOMAIN EvictOldest(c).pages) = Cardinality(DOMAIN c.pages) - 1
<1> DEFINE p == c.pages
<1>1. /\ PagesOK(p) /\ Stamped(p) /\ c.older = Older(p) /\ c = Dir(p, c.used, c.clock, c.older)
      /\ IsFiniteSet(Pile(p)) /\ c.used = Cardinality(Pile(p)) /\ c.used <= CacheBudget
      /\ c.clock \in 1 .. MaxTick /\ \A x \in DOMAIN p : p[x].last < c.clock
  BY DEF CacheOK, PagesOK
<1> DEFINE id == CHOOSE i \in DOMAIN p : \A o \in DOMAIN p \ {i} : Before(c, i, o)
           q == [x \in DOMAIN p \ {id} |-> p[x]]
           used == c.used - Charge(p[id].entries)
           pairs == {x \in c.older : id \notin {x[1], x[2]}}
<1>2. id \in DOMAIN p
  <2>1. \E i \in DOMAIN p : \A o \in DOMAIN p \ {i} : Before(c, i, o)
    <3>1. PICK i \in DOMAIN p : \A o \in DOMAIN p \ {i} : Earlier(p, i, o)
      <4> HIDE DEF p
      <4> QED
        BY <1>1, OldestExists DEF p
    <3>2. \A o : Before(c, i, o) <=> Earlier(p, i, o)
      BY DEF Before, Earlier
    <3> QED
      BY <3>1, <3>2
  <2> QED
    BY <2>1
<1>3. EvictOldest(c) = Dir(q, used, c.clock, pairs)
  <2>1. EvictOldest(c) = [c EXCEPT !.pages = Uncached(c, id), !.used = @ - Charge(c.pages[id].entries),
                                   !.older = {x \in @ : id \notin {x[1], x[2]}}]
    BY DEF EvictOldest
  <2>2. Uncached(c, id) = q
    BY DEF Uncached, Restrict
  <2> HIDE DEF q, id
  <2> DEFINE d == Dir(p, c.used, c.clock, c.older)
  <2>3. [c EXCEPT !.pages = q, !.used = @ - Charge(c.pages[id].entries),
                  !.older = {x \in @ : id \notin {x[1], x[2]}}]
          = [[[c EXCEPT !.pages = q] EXCEPT !.used = @ - Charge(c.pages[id].entries)]
                 EXCEPT !.older = {x \in @ : id \notin {x[1], x[2]}}]
    OBVIOUS
  <2>4. [c EXCEPT !.pages = q] = Dir(q, c.used, c.clock, c.older)
    BY <1>1 DEF Dir
  <2>5. [Dir(q, c.used, c.clock, c.older) EXCEPT !.used = @ - Charge(c.pages[id].entries)]
          = Dir(q, used, c.clock, c.older)
    BY DEF Dir
  <2> HIDE DEF used
  <2>6. [Dir(q, used, c.clock, c.older) EXCEPT !.older = {x \in @ : id \notin {x[1], x[2]}}]
          = Dir(q, used, c.clock, pairs)
    BY DEF Dir
  <2> HIDE DEF d, pairs, p
  <2> QED
    BY <2>1, <2>2, <2>3, <2>4, <2>5, <2>6
<1> HIDE DEF p, id
<1>4. DOMAIN q = DOMAIN p \ {id} /\ \A x \in DOMAIN q : q[x] = p[x]
  OBVIOUS
<1> HIDE DEF q
<1>5. /\ IsFiniteSet(Pile(q)) /\ Cardinality(Pile(q)) \in Nat
      /\ Cardinality(Pile(p)) = Cardinality(Pile(q)) + Charge(p[id].entries)
      /\ Charge(p[id].entries) \in Nat
  <2>1. Charge(p[id].entries) \in Nat
    BY <1>1, <1>2, PageIs, ChargeIs
  <2> QED
    BY <1>1, <1>2, <1>4, <2>1, PileLess
<1>6. used = Cardinality(Pile(q)) /\ used <= CacheBudget
  BY <1>1, <1>5, LimitsAssumption
<1>7. PagesOK(q)
  <2>1. IsFiniteSet(DOMAIN q) /\ DOMAIN q \subseteq DOMAIN p
    BY <1>1, <1>4, FS_Subset DEF Stamped
  <2> QED
    BY <1>1, <1>4, <2>1 DEF PagesOK, Stamped
<1>8. Older(q) = pairs
  <2>1. \A a, b \in DOMAIN q : Earlier(q, a, b) <=> Earlier(p, a, b)
    BY <1>4 DEF Earlier
  <2>2. ASSUME NEW x \in Older(q) PROVE x \in pairs
    <3>1. PICK a \in DOMAIN q, b \in DOMAIN q : x = <<a, b>> /\ a # b /\ Earlier(q, a, b)
      BY DEF Older
    <3> QED
      BY <1>1, <1>4, <2>1, <3>1 DEF Older
  <2>3. ASSUME NEW x \in pairs PROVE x \in Older(q)
    <3>1. PICK a \in DOMAIN p, b \in DOMAIN p : x = <<a, b>> /\ a # b /\ Earlier(p, a, b)
      BY <1>1 DEF Older
    <3>2. a \in DOMAIN q /\ b \in DOMAIN q
      BY <1>4, <3>1
    <3> QED
      BY <2>1, <3>1, <3>2 DEF Older
  <2> HIDE DEF pairs
  <2> QED
    BY <2>2, <2>3
<1>9. Cardinality(DOMAIN q) = Cardinality(DOMAIN p) - 1
  BY <1>1, <1>2, <1>4, FS_RemoveElement DEF Stamped
<1>10. CacheOK(Dir(q, used, c.clock, pairs))
  <2>1. \A x \in DOMAIN q : q[x].last < c.clock
    BY <1>1, <1>4
  <2> HIDE DEF pairs, used
  <2> QED
    BY <1>1, <1>5, <1>6, <1>7, <1>8, <2>1, DirIs DEF CacheOK
<1> HIDE DEF pairs, used
<1>11. Dir(q, used, c.clock, pairs).pages = q /\ DOMAIN q \subseteq DOMAIN p
  BY <1>4, DirIs
<1> QED
  BY <1>3, <1>9, <1>10, <1>11 DEF p

(* Nothing cached, nothing used.                                           *)
LEMMA NothingUsed ==
    ASSUME NEW c, CacheOK(c), Cardinality(DOMAIN c.pages) = 0
    PROVE  c.used = 0
<1>1. DOMAIN c.pages = {}
  BY FS_EmptySet DEF CacheOK, PagesOK, Stamped
<1>2. Pile(c.pages) = {}
  BY <1>1 DEF Pile
<1> QED
  BY <1>2, FS_EmptySet DEF CacheOK

(* As many turns as there are pages make the room.                         *)
Room(c, v) == [cache |-> c, charge |-> v]
LEMMA ShrunkOK ==
    ASSUME FilesOK, NEW c, CacheOK(c), NEW v \in Nat, v <= CacheBudget
    PROVE  /\ CacheOK(Shrunk(c, v)) /\ DOMAIN Shrunk(c, v).pages \subseteq DOMAIN c.pages
           /\ Shrunk(c, v).used + v <= CacheBudget
<1> DEFINE n == Cardinality(DOMAIN c.pages)
           turns == [i \in 1 .. n |-> i]
           base == Room(c, v)
<1>1. n \in Nat /\ DOMAIN turns = 1 .. n /\ \A i \in 1 .. n : turns[i] = i
  BY ClockRoom
<1>2. Shrunk(c, v) = Evicting!Fold(base, turns).cache
  <2>1. Shrunk(c, v) = FoldLeft(Making, base, turns).cache
    BY DEF Shrunk, Room
  <2> HIDE DEF base, turns
  <2>2. FoldLeft(Making, base, turns) = Evicting!Fold(base, turns)
    BY DEF Evicting!Fold, FoldLeft, MapThenFoldSet, Evicting!FoldLeft, Evicting!MapThenFoldSet,
           Max, Evicting!Max
  <2> QED
    BY <2>1, <2>2
<1> HIDE DEF turns, n, base
<1>3. PICK f : Evicting!Run(f, base, turns, n) /\ Evicting!Fold(base, turns) = f[n]
  BY <1>1, Evicting!RunExists
<1> DEFINE Right(k) ==
        /\ f[k] = Room(f[k].cache, v) /\ CacheOK(f[k].cache)
        /\ DOMAIN f[k].cache.pages \subseteq DOMAIN c.pages
        /\ f[k].cache.used + v <= CacheBudget \/ Cardinality(DOMAIN f[k].cache.pages) = n - k
<1>4. Right(0)
  <2>1. f[0] = Room(c, v)
    BY <1>3 DEF Evicting!Run, base
  <2>2. f[0].cache = c
    BY <2>1 DEF Room
  <2> QED
    BY <1>1, <2>1, <2>2 DEF n
<1>5. ASSUME NEW k \in 1 .. n, Right(k - 1)
      PROVE  Right(k)
  <2> DEFINE d == f[k - 1].cache
  <2>1. f[k] = Making(f[k - 1], turns[k])
    BY <1>3 DEF Evicting!Run
  <2>2. f[k - 1] = Room(d, v) /\ Room(d, v).cache = d /\ Room(d, v).charge = v
    BY <1>5 DEF Room
  <2>3. CASE d.used + v > CacheBudget
    <3>1. f[k] = [Room(d, v) EXCEPT !.cache = EvictOldest(@)]
      <4> HIDE DEF d
      <4> QED
        BY <2>1, <2>2, <2>3 DEF Making
    <3>2. f[k] = Room(EvictOldest(d), v)
      <4> HIDE DEF d
      <4> QED
        BY <3>1 DEF Room
    <3>3. f[k].cache = EvictOldest(d)
      BY <3>2 DEF Room
    <3>4. d.used \in Nat
      <4> HIDE DEF d
      <4>1. CacheOK(d)
        BY <1>5 DEF d
      <4> QED
        BY <4>1, FS_CardinalityType DEF CacheOK
    <3>5. Cardinality(DOMAIN d.pages) = n - (k - 1)
      BY <1>5, <2>3, <3>4, LimitsAssumption
    <3>6. DOMAIN d.pages # {}
      <4> SUFFICES ASSUME DOMAIN d.pages = {}
                   PROVE  FALSE
        OBVIOUS
      <4>1. Cardinality(DOMAIN d.pages) = 0
        BY FS_EmptySet
      <4> HIDE DEF d, Right
      <4>2. n - (k - 1) # 0
        BY <1>1
      <4> QED
        BY <3>5, <4>1, <4>2
    <3>7. /\ CacheOK(EvictOldest(d)) /\ DOMAIN EvictOldest(d).pages \subseteq DOMAIN d.pages
          /\ Cardinality(DOMAIN EvictOldest(d).pages) = Cardinality(DOMAIN d.pages) - 1
      BY <1>5, <3>6, EvictOK
    <3>8. n - (k - 1) - 1 = n - k
      BY <1>1
    <3> QED
      BY <1>5, <3>2, <3>3, <3>5, <3>7, <3>8
  <2>4. CASE ~(d.used + v > CacheBudget)
    <3>1. f[k] = f[k - 1]
      <4> HIDE DEF d
      <4> QED
        BY <2>1, <2>2, <2>4 DEF Making
    <3>2. d.used \in Nat
      <4> HIDE DEF d
      <4>1. CacheOK(d)
        BY <1>5 DEF d
      <4> QED
        BY <4>1, FS_CardinalityType DEF CacheOK
    <3>3. d.used + v <= CacheBudget
      BY <2>4, <3>2, LimitsAssumption
    <3> QED
      BY <1>5, <3>1, <3>3
  <2> QED
    BY <2>3, <2>4
<1> DEFINE Wrong == {k \in 0 .. n : ~ Right(k)}
<1>6. Wrong = {}
  <2> SUFFICES ASSUME Wrong # {}
               PROVE  FALSE
    OBVIOUS
  <2> HIDE DEF Right
  <2>1. PICK m \in Wrong : \A k \in Wrong : m <= k
    <3>1. Wrong \subseteq Nat
      OBVIOUS
    <3> HIDE DEF Wrong
    <3> QED
      BY <3>1, Evicting!LeastNumber
  <2>2. m # 0
    BY <1>4
  <2>3. m \in 1 .. n /\ m - 1 \in 0 .. n /\ ~(m <= m - 1)
    BY <1>1, <2>2
  <2>4. Right(m - 1)
    BY <2>1, <2>3
  <2> QED
    BY <1>5, <2>1, <2>3, <2>4
<1>7. Right(n)
  BY <1>1, <1>6
<1> DEFINE e == f[n].cache
<1>8. Shrunk(c, v) = e
  BY <1>2, <1>3
<1>9. e.used + v <= CacheBudget
  <2>1. CASE Cardinality(DOMAIN e.pages) = n - n
    <3>1. Cardinality(DOMAIN e.pages) = 0
      BY <1>1, <2>1
    <3>2. e.used = 0
      BY <1>7, <3>1, NothingUsed
    <3> QED
      BY <3>2
  <2> QED
    BY <1>7, <2>1
<1> QED
  BY <1>7, <1>8, <1>9

LEMMA WithPageOK ==
    ASSUME FilesOK, NEW c, CacheOK(c), NEW id \in DOMAIN files, id \notin DOMAIN c.pages,
           c.used + Charge(files[id].entries) <= CacheBudget
    PROVE  CacheOK(WithPage(c, id, files[id].entries))
<1> DEFINE t == Timed(c)
           p == t.pages
           now == t.clock
           v == Charge(files[id].entries)
           page == [entries |-> files[id].entries, last |-> now]
           q == [x \in DOMAIN p \cup {id} |-> IF x = id THEN page ELSE p[x]]
           pairs == Newest(t.older, DOMAIN p, id)
<1>1. /\ CacheOK(t) /\ now + 1 \in 1 .. MaxTick /\ DOMAIN p = DOMAIN c.pages /\ t.used = c.used
      /\ Ticked(c) = Dir(p, t.used, now + 1, t.older)
  BY TimedOK
<1>2. /\ PagesOK(p) /\ Stamped(p) /\ t.older = Older(p) /\ now \in 1 .. MaxTick /\ now \in Nat
      /\ \A x \in DOMAIN p : p[x].last < now /\ p[x].last \in Nat
      /\ t.used = Cardinality(Pile(p)) /\ IsFiniteSet(Pile(p)) /\ t.used <= CacheBudget
  <2> HIDE DEF t
  <2> QED
    BY <1>1 DEF CacheOK, PagesOK, Stamped
<1> HIDE DEF t, p, now
<1>3. id \notin DOMAIN p /\ id \in Nat
  BY <1>1 DEF FilesOK
<1>4. /\ DOMAIN q = DOMAIN p \cup {id} /\ \A x \in DOMAIN p : q[x] = p[x]
      /\ q[id] = page /\ q[id].last = now /\ q[id].entries = files[id].entries
  BY <1>3
<1>5. WithPage(c, id, files[id].entries) = Dir(q, t.used + v, now + 1, pairs)
  <2> DEFINE d == Dir(p, t.used, now + 1, t.older)
             w == [x \in DOMAIN d.pages \cup {id} |-> IF x = id THEN page ELSE d.pages[x]]
  <2>1. WithPage(c, id, files[id].entries)
          = [d EXCEPT !.pages = w, !.used = @ + v, !.older = Newest(@, DOMAIN c.pages, id)]
    BY <1>1 DEF WithPage, now, t
  <2>2. w = q
    BY DirIs
  <2> HIDE DEF q, w
  <2>3. [d EXCEPT !.pages = q, !.used = @ + v, !.older = Newest(@, DOMAIN c.pages, id)]
          = [[[d EXCEPT !.pages = q] EXCEPT !.used = @ + v] EXCEPT !.older = Newest(@, DOMAIN c.pages, id)]
    OBVIOUS
  <2>4. [d EXCEPT !.pages = q] = Dir(q, t.used, now + 1, t.older)
    BY DEF Dir
  <2>5. [Dir(q, t.used, now + 1, t.older) EXCEPT !.used = @ + v] = Dir(q, t.used + v, now + 1, t.older)
    BY DEF Dir
  <2>6. [Dir(q, t.used + v, now + 1, t.older) EXCEPT !.older = Newest(@, DOMAIN p, id)]
          = Dir(q, t.used + v, now + 1, pairs)
    BY DEF Dir
  <2> HIDE DEF d, pairs, v
  <2> QED
    BY <1>1, <2>1, <2>2, <2>3, <2>4, <2>5, <2>6
<1> HIDE DEF q, page
<1>6. Older(q) = pairs
  <2>1. \A x \in DOMAIN p \ {id} : q[x] = p[x] /\ p[x].last < q[id].last
    BY <1>2, <1>4
  <2>2. /\ Stamped(p) /\ id \in Nat /\ q[id].last \in Nat
        /\ DOMAIN q = DOMAIN p \cup {id}
    BY <1>2, <1>3, <1>4
  <2> HIDE DEF v, pairs
  <2>3. Older(q) = Newest(Older(p), DOMAIN p, id)
    BY <2>1, <2>2, NewestIs
  <2>4. t.older = Older(p)
    BY <1>2
  <2> QED
    BY <2>3, <2>4 DEF pairs
<1>7. /\ v \in Nat /\ IsFiniteSet(Pile(q))
      /\ Cardinality(Pile(q)) = t.used + v
  <2>1. v \in Nat
    BY ChargeIs
  <2>2. /\ DOMAIN p = DOMAIN q \ {id} /\ id \in DOMAIN q /\ Charge(q[id].entries) = v
        /\ \A x \in DOMAIN p : p[x].entries = q[x].entries
    BY <1>3, <1>4
  <2> HIDE DEF v
  <2>3. Charge(q[id].entries) \in Nat
    BY <2>1, <2>2
  <2>4. IsFiniteSet(Pile(q)) <=> IsFiniteSet(Pile(p))
    BY <2>2, <2>3, PileLess
  <2>5. IsFiniteSet(Pile(q)) => Cardinality(Pile(q)) = Cardinality(Pile(p)) + Charge(q[id].entries)
    BY <2>2, <2>3, PileLess
  <2> QED
    BY <1>2, <2>1, <2>2, <2>4, <2>5
<1>8. PagesOK(q)
  <2>1. IsFiniteSet(DOMAIN q) /\ DOMAIN q \subseteq Nat /\ DOMAIN q \subseteq DOMAIN files
    BY <1>2, <1>3, <1>4, FS_AddElement DEF PagesOK, Stamped
  <2>2. ASSUME NEW x \in DOMAIN q
        PROVE  q[x] = [entries |-> files[x].entries, last |-> q[x].last] /\ q[x].last \in Nat
    <3>1. CASE x = id
      BY <1>2, <1>4, <3>1 DEF page
    <3>2. CASE x # id
      BY <1>2, <1>4, <3>2 DEF PagesOK
    <3> QED
      BY <3>1, <3>2
  <2> QED
    BY <2>1, <2>2 DEF PagesOK, Stamped
<1>9. \A x \in DOMAIN q : q[x].last < now + 1
  <2> SUFFICES ASSUME NEW x \in DOMAIN q
               PROVE  q[x].last < now + 1
    OBVIOUS
  <2>1. CASE x = id
    BY <1>2, <1>4, <2>1
  <2>2. CASE x # id
    <3>1. q[x].last = p[x].last /\ p[x].last < now /\ p[x].last \in Nat
      BY <1>2, <1>4, <2>2
    <3> QED
      BY <1>2, <3>1
  <2> QED
    BY <2>1, <2>2
<1>10. CacheOK(Dir(q, t.used + v, now + 1, pairs))
  <2> HIDE DEF pairs, v
  <2> QED
    BY <1>1, <1>6, <1>7, <1>8, <1>9, DirIs DEF CacheOK, v
<1> QED
  BY <1>5, <1>10

(* insert: what does not fit at all is not cached.                         *)
LEMMA InsertedOK ==
    ASSUME FilesOK, NEW c, CacheOK(c), NEW id \in DOMAIN files, id \notin DOMAIN c.pages
    PROVE  CacheOK(Inserted(c, id, files[id].entries))
<1> DEFINE v == Charge(files[id].entries)
<1>1. v \in Nat
  BY ChargeIs
<1>2. CASE v > CacheBudget
  BY <1>2 DEF Inserted
<1>3. CASE ~(v > CacheBudget)
  <2> DEFINE d == Shrunk(c, v)
  <2>1. Inserted(c, id, files[id].entries) = WithPage(d, id, files[id].entries)
    BY <1>3 DEF Inserted
  <2>2. v <= CacheBudget
    BY <1>1, <1>3, LimitsAssumption
  <2> HIDE DEF v
  <2>3. CacheOK(d) /\ DOMAIN d.pages \subseteq DOMAIN c.pages /\ d.used + v <= CacheBudget
    BY <1>1, <2>2, ShrunkOK
  <2> HIDE DEF d
  <2>4. CacheOK(WithPage(d, id, files[id].entries))
    BY <2>3, WithPageOK DEF v
  <2> QED
    BY <2>1, <2>4
<1> QED
  BY <1>2, <1>3

-----------------------------------------------------------------------------
(***************************************************************************)
(* Readers leave such a cache behind.                                      *)
(***************************************************************************)
Rd(k, c, m, s) == [ok |-> k, cache |-> c, memo |-> m, read |-> s]
ReaderOK(r) == r = Rd(r.ok, r.cache, r.memo, r.read) /\ CacheOK(r.cache)
UnitsIn(run) == IsSeq(run) /\ \A i \in DOMAIN run : run[i].id \in DOMAIN files

LEMMA RdIs ==
    \A k, c, m, s : /\ Rd(k, c, m, s).ok = k /\ Rd(k, c, m, s).cache = c
                    /\ Rd(k, c, m, s).memo = m /\ Rd(k, c, m, s).read = s
BY DEF Rd

LEMMA ReaderIs ==
    ASSUME NEW k, NEW c, NEW m, NEW s, CacheOK(c)
    PROVE  ReaderOK(Rd(k, c, m, s))
BY RdIs DEF ReaderOK

(* A reader that fails, or that checks a unit, keeps its cache.            *)
LEMMA FailedOK ==
    ASSUME NEW r, ReaderOK(r)
    PROVE  ReaderOK([r EXCEPT !.ok = FALSE])
<1> DEFINE no == FALSE
<1> HIDE DEF no
<1>1. [Rd(r.ok, r.cache, r.memo, r.read) EXCEPT !.ok = no] = Rd(no, r.cache, r.memo, r.read)
  BY DEF Rd
<1>2. [r EXCEPT !.ok = no] = Rd(no, r.cache, r.memo, r.read)
  BY <1>1 DEF ReaderOK
<1>3. ReaderOK([r EXCEPT !.ok = no])
  BY <1>2, ReaderIs DEF ReaderOK
<1> QED
  BY <1>3 DEF no

LEMMA LoadedIs ==
    ASSUME NEW u
    PROVE  LoadDirectory(u).ok => LoadDirectory(u).is = files[u.id].entries
<1>1. Refused.ok = FALSE /\ \A x : Given(x).ok = TRUE /\ Given(x).is = x
  BY DEF Refused, Given
<1>2. Parsed(u) = Refused \/ Parsed(u) = Given(files[u.id].entries)
  BY DEF Parsed
<1>3. LoadDirectory(u) = Refused \/ LoadDirectory(u) = Parsed(u)
  BY DEF LoadDirectory, Agreed
<1> QED
  BY <1>1, <1>2, <1>3

LEMMA WithDirectoryOK ==
    ASSUME FilesOK, NEW r, ReaderOK(r), NEW u, u.id \in DOMAIN files
    PROVE  ReaderOK(WithDirectory(r, u))
<1>1. CASE ~ r.ok
  BY <1>1 DEF WithDirectory
<1>2. CASE r.ok
  <2> DEFINE c == Touched(r.cache, u.id)
             t == [r EXCEPT !.cache = Touched(@, u.id)]
             loaded == LoadDirectory(u)
  <2>1. CacheOK(c)
    BY TouchedOK DEF ReaderOK
  <2>2. t = Rd(r.ok, c, r.memo, r.read)
    <3>1. [Rd(r.ok, r.cache, r.memo, r.read) EXCEPT !.cache = Touched(@, u.id)]
              = Rd(r.ok, c, r.memo, r.read)
      BY DEF Rd
    <3> QED
      BY <3>1 DEF ReaderOK
  <2>3. WithDirectory(r, u) = WithPageOrFile(t, u.id, loaded)
    BY <1>2 DEF WithDirectory
  <2>4. loaded.ok => loaded.is = files[u.id].entries
    BY LoadedIs
  <2> HIDE DEF c, t, loaded
  <2>5. ReaderOK(t) /\ t.cache = c
    BY <2>1, <2>2, ReaderIs, RdIs
  <2>6. CASE u.id \in DOMAIN c.pages
    BY <2>3, <2>5, <2>6 DEF WithPageOrFile
  <2>7. CASE u.id \notin DOMAIN c.pages /\ loaded.ok
    <3> DEFINE d == Inserted(c, u.id, files[u.id].entries)
    <3>1. CacheOK(d)
      BY <2>1, <2>7, InsertedOK
    <3>2. WithPageOrFile(t, u.id, loaded) = [t EXCEPT !.cache = Inserted(@, u.id, loaded.is)]
      BY <2>5, <2>7 DEF WithPageOrFile
    <3>3. [Rd(r.ok, c, r.memo, r.read) EXCEPT !.cache = Inserted(@, u.id, loaded.is)]
            = Rd(r.ok, d, r.memo, r.read)
      BY <2>4, <2>7 DEF Rd
    <3> HIDE DEF d
    <3> QED
      BY <2>2, <2>3, <3>1, <3>2, <3>3, ReaderIs
  <2>8. CASE u.id \notin DOMAIN c.pages /\ ~ loaded.ok
    <3>1. WithPageOrFile(t, u.id, loaded) = [t EXCEPT !.ok = FALSE]
      BY <2>5, <2>8 DEF WithPageOrFile
    <3> QED
      BY <2>3, <2>5, <3>1, FailedOK
  <2> QED
    BY <2>6, <2>7, <2>8
<1> QED
  BY <1>1, <1>2

LEMMA ReadBodyOK ==
    ASSUME NEW r, ReaderOK(r), NEW u, NEW entry
    PROVE  ReaderOK(ReadBody(r, u, entry))
<1> DEFINE valid == Valid(r, u)
           memo1 == [r.memo EXCEPT ![u.id] = IF valid THEN "valid" ELSE "invalid"]
           t == Checked(r, u)
           body == Decode(entry, StoredBody(u, entry))
<1>1. t = Rd(valid, r.cache, memo1, r.read)
  <2> HIDE DEF valid
  <2>1. t = [r EXCEPT !.ok = valid, !.memo[u.id] = IF valid THEN "valid" ELSE "invalid"]
    BY DEF Checked, valid
  <2>2. [r EXCEPT !.ok = valid, !.memo[u.id] = IF valid THEN "valid" ELSE "invalid"]
          = [[r EXCEPT !.ok = valid] EXCEPT !.memo[u.id] = IF valid THEN "valid" ELSE "invalid"]
    OBVIOUS
  <2>3. [Rd(r.ok, r.cache, r.memo, r.read) EXCEPT !.ok = valid] = Rd(valid, r.cache, r.memo, r.read)
    BY DEF Rd
  <2>4. [Rd(valid, r.cache, r.memo, r.read) EXCEPT !.memo[u.id] = IF valid THEN "valid" ELSE "invalid"]
          = Rd(valid, r.cache, memo1, r.read)
    BY DEF Rd
  <2> HIDE DEF t, memo1
  <2> QED
    BY <2>1, <2>2, <2>3, <2>4 DEF ReaderOK
<1> HIDE DEF valid, memo1, t, body
<1>2. ReaderOK(t)
  BY <1>1, ReaderIs DEF ReaderOK
<1>3. ReaderOK(Decoded(t, u, entry, body))
  <2>1. CASE t.ok /\ body.ok
    <3> DEFINE item == [unit |-> u, entry |-> entry, body |-> body.is]
               new == Append(t.read, item)
    <3>1. Decoded(t, u, entry, body) = [t EXCEPT !.read = Append(t.read, item)]
      BY <2>1 DEF Decoded
    <3> HIDE DEF item, new
    <3>2. [Rd(t.ok, t.cache, t.memo, t.read) EXCEPT !.read = new] = Rd(t.ok, t.cache, t.memo, new)
      BY DEF Rd
    <3>3. [t EXCEPT !.read = new] = Rd(t.ok, t.cache, t.memo, new)
      BY <1>2, <3>2 DEF ReaderOK
    <3>4. ReaderOK(Rd(t.ok, t.cache, t.memo, new))
      BY <1>2, ReaderIs DEF ReaderOK
    <3>5. Decoded(t, u, entry, body) = [t EXCEPT !.read = new]
      BY <3>1 DEF new
    <3> QED
      BY <3>3, <3>4, <3>5
  <2>2. CASE ~(t.ok /\ body.ok)
    <3>1. Decoded(t, u, entry, body) = [t EXCEPT !.ok = FALSE]
      BY <2>2 DEF Decoded
    <3> QED
      BY <1>2, <3>1, FailedOK
  <2> QED
    BY <2>1, <2>2
<1> QED
  BY <1>3 DEF ReadBody, t, body

LEMMA ReadSectionOK ==
    ASSUME FilesOK, NEW r, ReaderOK(r), NEW u, u.id \in DOMAIN files, NEW entry
    PROVE  ReaderOK(ReadSection(r, u, entry))
<1>1. CASE ~r.ok \/ ~InOrder(r.read, u, entry)
  BY <1>1, FailedOK DEF ReadSection
<1>2. CASE ~(~r.ok \/ ~InOrder(r.read, u, entry))
  <2>1. ReadSection(r, u, entry) = ReadBody(WithDirectory(r, u), u, entry)
    BY <1>2 DEF ReadSection
  <2> QED
    BY <2>1, WithDirectoryOK, ReadBodyOK
<1> QED
  BY <1>1, <1>2

(* A directory, cached or not, is its file's.                              *)
LEMMA DirectoryIs ==
    ASSUME NEW r, ReaderOK(r), NEW u
    PROVE  DirectoryOf(r, u) = files[u.id].entries
<1> DEFINE p == r.cache.pages
<1>1. PagesOK(p)
  BY DEF ReaderOK, CacheOK
<1>2. DirectoryOf(r, u) = IF u.id \in DOMAIN p THEN p[u.id].entries ELSE files[u.id].entries
  BY DEF DirectoryOf
<1> HIDE DEF p
<1> QED
  BY <1>1, <1>2, PageIs

LEMMA ReadDirectoryOK ==
    ASSUME FilesOK, NEW r, ReaderOK(r), NEW u, u.id \in DOMAIN files, NEW table
    PROVE  ReaderOK(ReadDirectory(r, u, table))
<1> DEFINE directory == files[u.id].entries
           n == Len(directory)
           s == [i \in DOMAIN directory |-> [unit |-> u, table |-> table, entry |-> directory[i]]]
<1>1. n \in Nat /\ DOMAIN directory = 1 .. n
  <2>1. IsSeq(directory)
    BY DEF FilesOK
  <2> HIDE DEF directory
  <2> QED
    BY <2>1 DEF IsSeq
<1> HIDE DEF directory, n
<1>2. DOMAIN s = 1 .. n /\ \A i \in 1 .. n : s[i].unit = u
  BY <1>1
<1>3. Listed(u, table, DirectoryOf(r, u)) = s
  BY DirectoryIs DEF Listed, directory
<1> HIDE DEF s
<1>4. FoldLeft(ReadListed, r, s) = Listing!Fold(r, s)
  BY DEF Listing!Fold, FoldLeft, MapThenFoldSet, Listing!FoldLeft, Listing!MapThenFoldSet,
         Max, Listing!Max
<1>5. PICK f : Listing!Run(f, r, s, n) /\ Listing!Fold(r, s) = f[n]
  BY <1>1, <1>2, Listing!RunExists
<1> DEFINE Right == {k \in 0 .. n : ReaderOK(f[k])}
<1>6. 0 \in Right
  BY <1>1, <1>5 DEF Listing!Run
<1>7. ASSUME NEW k \in 1 .. n, k - 1 \in Right
      PROVE  k \in Right
  <2>1. f[k] = ReadListed(f[k - 1], s[k])
    BY <1>5 DEF Listing!Run
  <2>2. ReaderOK(f[k - 1]) /\ s[k].unit.id \in DOMAIN files
    BY <1>2, <1>7
  <2>3. ReaderOK(ReadListed(f[k - 1], s[k]))
    BY <2>2, ReadSectionOK DEF ReadListed
  <2> QED
    BY <1>1, <2>1, <2>3
<1> HIDE DEF Right
<1>8. n \in Right
  BY <1>1, <1>6, <1>7, Listing!RightAlong
<1>9. ReaderOK(f[n])
  BY <1>8 DEF Right
<1> QED
  BY <1>3, <1>4, <1>5, <1>9 DEF ReadDirectory

LEMMA ReadTableOK ==
    ASSUME FilesOK, NEW r, ReaderOK(r), NEW of, UnitsIn(of.run)
    PROVE  ReaderOK(ReadTable(r, of))
<1> DEFINE run == of.run
           n == Len(run)
           s == [i \in DOMAIN run |-> [unit |-> run[i], table |-> of.table]]
<1>1. n \in Nat /\ DOMAIN run = 1 .. n /\ \A i \in 1 .. n : run[i].id \in DOMAIN files
  <2> HIDE DEF run
  <2> QED
    BY DEF UnitsIn, IsSeq, run
<1>2. DOMAIN s = 1 .. n /\ \A i \in 1 .. n : s[i].unit = run[i]
  BY <1>1
<1>3. ReadTable(r, of) = FoldLeft(ReadUnit, r, s)
  BY DEF ReadTable
<1> HIDE DEF s, n, run
<1>4. FoldLeft(ReadUnit, r, s) = Visiting!Fold(r, s)
  BY DEF Visiting!Fold, FoldLeft, MapThenFoldSet, Visiting!FoldLeft, Visiting!MapThenFoldSet,
         Max, Visiting!Max
<1>5. PICK f : Visiting!Run(f, r, s, n) /\ Visiting!Fold(r, s) = f[n]
  BY <1>1, <1>2, Visiting!RunExists
<1> DEFINE Right == {k \in 0 .. n : ReaderOK(f[k])}
<1>6. 0 \in Right
  BY <1>1, <1>5 DEF Visiting!Run
<1>7. ASSUME NEW k \in 1 .. n, k - 1 \in Right
      PROVE  k \in Right
  <2>1. f[k] = ReadUnit(f[k - 1], s[k])
    BY <1>5 DEF Visiting!Run
  <2>2. ReaderOK(f[k - 1]) /\ s[k].unit.id \in DOMAIN files
    BY <1>1, <1>2, <1>7
  <2>3. ReaderOK(ReadUnit(f[k - 1], s[k]))
    BY <2>2, WithDirectoryOK, ReadDirectoryOK DEF ReadUnit
  <2> QED
    BY <1>1, <2>1, <2>3
<1> HIDE DEF Right
<1>8. n \in Right
  <2>1. n \in Nat /\ n \in 0 .. n
    BY <1>1
  <2>2. \A k \in 0 .. n : k \in Right
    BY <1>6, <1>7, <2>1, Visiting!RightAlong
  <2> QED
    BY <2>1, <2>2
<1>9. ReaderOK(f[n])
  BY <1>8 DEF Right
<1> QED
  BY <1>3, <1>4, <1>5, <1>9

LEMMA ReadAllOK ==
    ASSUME FilesOK, CacheOK(cache), NEW run, UnitsIn(run)
    PROVE  ReaderOK(ReadAll(run))
<1> DEFINE n == Cardinality(Tables)
           s == [i \in DOMAIN TableSeq |-> [run |-> run, table |-> TableSeq[i]]]
<1>1. n \in Nat /\ DOMAIN TableSeq = 1 .. n
  BY FS_CardinalityType, LimitsAssumption DEF TableSeq
<1>2. DOMAIN s = 1 .. n /\ \A i \in 1 .. n : s[i].run = run
  BY <1>1
<1>3. ReadAll(run) = FoldLeft(ReadTable, Reader, s)
  BY DEF ReadAll
<1> HIDE DEF s, n
<1>4. FoldLeft(ReadTable, Reader, s) = Scanning!Fold(Reader, s)
  BY DEF Scanning!Fold, FoldLeft, MapThenFoldSet, Scanning!FoldLeft, Scanning!MapThenFoldSet,
         Max, Scanning!Max
<1>5. PICK f : Scanning!Run(f, Reader, s, n) /\ Scanning!Fold(Reader, s) = f[n]
  BY <1>1, <1>2, Scanning!RunExists
<1> DEFINE Right == {k \in 0 .. n : ReaderOK(f[k])}
<1>6. 0 \in Right
  <2>1. Reader = Rd(TRUE, cache, memo, <<>>)
    BY DEF Reader, Rd
  <2>2. ReaderOK(Reader)
    <3> DEFINE yes == TRUE
    <3> HIDE DEF yes
    <3>1. ReaderOK(Rd(yes, cache, memo, <<>>))
      BY ReaderIs
    <3> QED
      BY <2>1, <3>1 DEF yes
  <2>3. f[0] = Reader /\ 0 \in 0 .. n
    BY <1>1, <1>5 DEF Scanning!Run
  <2> QED
    BY <2>2, <2>3
<1>7. ASSUME NEW k \in 1 .. n, k - 1 \in Right
      PROVE  k \in Right
  <2>1. f[k] = ReadTable(f[k - 1], s[k])
    BY <1>5 DEF Scanning!Run
  <2>2. ReaderOK(f[k - 1]) /\ UnitsIn(s[k].run)
    BY <1>2, <1>7
  <2>3. ReaderOK(ReadTable(f[k - 1], s[k]))
    BY <2>2, ReadTableOK
  <2> QED
    BY <1>1, <2>1, <2>3
<1> HIDE DEF Right
<1>8. n \in Right
  BY <1>1, <1>6, <1>7, Scanning!RightAlong
<1>9. ReaderOK(f[n])
  BY <1>8 DEF Right
<1> QED
  BY <1>3, <1>4, <1>5, <1>9

-----------------------------------------------------------------------------
(***************************************************************************)
(* The invariant and the steps.                                            *)
(***************************************************************************)
IInv ==
    /\ FilesOK /\ UnitsIn(units)
    /\ open => CacheOK(cache)

(* The cache looks at the files only for the directories of its pages.     *)
CacheIn(c, fs) ==
    /\ c = Dir(c.pages, c.used, c.clock, c.older)
    /\ Stamped(c.pages) /\ DOMAIN c.pages \subseteq DOMAIN fs
    /\ \A id \in DOMAIN c.pages : c.pages[id] = [entries |-> fs[id].entries, last |-> c.pages[id].last]
    /\ c.older = Older(c.pages)
    /\ IsFiniteSet(Pile(c.pages)) /\ c.used = Cardinality(Pile(c.pages)) /\ c.used <= CacheBudget
    /\ c.clock \in 1 .. MaxTick
    /\ \A id \in DOMAIN c.pages : c.pages[id].last < c.clock

LEMMA CacheGrows ==
    ASSUME NEW c, NEW fs, NEW gs, CacheIn(c, fs),
           \A id \in DOMAIN fs : id \in DOMAIN gs /\ gs[id].entries = fs[id].entries
    PROVE  CacheIn(c, gs)
<1>1. DOMAIN c.pages \subseteq DOMAIN gs
  BY DEF CacheIn
<1>2. ASSUME NEW id \in DOMAIN c.pages
      PROVE  c.pages[id] = [entries |-> gs[id].entries, last |-> c.pages[id].last]
  <2>1. gs[id].entries = fs[id].entries
    BY DEF CacheIn
  <2>2. c.pages[id] = [entries |-> fs[id].entries, last |-> c.pages[id].last]
    BY DEF CacheIn
  <2> QED
    BY <2>1, <2>2
<1> QED
  BY <1>1, <1>2 DEF CacheIn

LEMMA CacheInNow == \A c : CacheOK(c) <=> CacheIn(c, files)
BY DEF CacheOK, CacheIn, PagesOK

LEMMA CacheInNext == CacheOK(cache)' <=> CacheIn(cache', files')
BY DEF CacheOK, CacheIn, PagesOK, Stamped, Dir, Older, Pile, Charge, Earlier

LEMMA NewCacheOK == CacheIn(NewCache, files')
<1> DEFINE c == NewCache
<1>1. c = Dir(<<>>, 0, 1, {})
  BY DEF NewCache, Dir
<1>2. c.pages = <<>> /\ c.used = 0 /\ c.clock = 1 /\ c.older = {}
  BY <1>1, DirIs
<1>3. DOMAIN c.pages = {}
  BY <1>2
<1>4. Pile(c.pages) = {} /\ Older(c.pages) = {}
  BY <1>3 DEF Pile, Older
<1>5. IsFiniteSet({}) /\ Cardinality({}) = 0
  BY FS_EmptySet
<1>6. 1 \in 1 .. MaxTick /\ 0 <= CacheBudget
  BY LimitsAssumption
<1> HIDE DEF c
<1> QED
  BY <1>1, <1>2, <1>3, <1>4, <1>5, <1>6 DEF CacheIn, Stamped, c

(* The units of a new list are those it was made of.                       *)
LEMMA InstallOK ==
    ASSUME NEW live, IsFiniteSet(live), Install(live), \A u \in live : u.id \in DOMAIN files'
    PROVE  UnitsIn(units)'
<1>1. PICK order \in [1 .. Cardinality(live) -> live] : units' = order
  BY DEF Install
<1>2. Cardinality(live) \in Nat
  BY FS_CardinalityType
<1>3. order \in Seq(live) /\ DOMAIN order = 1 .. Cardinality(live)
  BY <1>1, <1>2
<1>4. \A i \in DOMAIN order : order[i].id \in DOMAIN files'
  BY <1>1, <1>3
<1> QED
  BY <1>1, <1>3, <1>4 DEF UnitsIn, IsSeq

LEMMA LiveIs ==
    ASSUME UnitsIn(units)
    PROVE  IsFiniteSet(Range(units)) /\ \A u \in Range(units) : u.id \in DOMAIN files
<1>1. PICK S : units \in Seq(S)
  BY DEF UnitsIn, IsSeq
<1> DEFINE n == Len(units)
           T == {units[i] : i \in 1 .. n}
<1>2. n \in Nat /\ DOMAIN units = 1 .. n
  BY <1>1
<1>3. Range(units) = T
  BY <1>2 DEF Range
<1>4. IsFiniteSet(1 .. n)
  BY <1>2, FS_Interval
<1>5. [i \in 1 .. n |-> units[i]] \in Surjection(1 .. n, T)
  BY Fun_IsSurj
<1>6. IsFiniteSet(T)
  BY <1>4, <1>5, FS_Surjection
<1>7. \A u \in Range(units) : u.id \in DOMAIN files
  BY DEF Range, UnitsIn
<1> QED
  BY <1>3, <1>6, <1>7

(* A published file has a number of its own and a directory.               *)
LEMMA PublishOK ==
    ASSUME FilesOK, NEW sections, Spooled(sections), NEW unit, unit.id = NewId, Publish(unit, sections)
    PROVE  /\ FilesOK' /\ unit.id \in DOMAIN files'
           /\ \A id \in DOMAIN files : id \in DOMAIN files' /\ files'[id].entries = files[id].entries
<1>1. PICK n \in Nat : DOMAIN files = 1 .. n
  BY DEF FilesOK
<1>2. NewId = n + 1
  <2>1. Cardinality(1 .. n) = n
    <3>1. 1 \in Int /\ n \in Int /\ (IF 1 > n THEN 0 ELSE n - 1 + 1) = n
      OBVIOUS
    <3> QED
      BY <3>1, FS_Interval
  <2> QED
    BY <1>1, <2>1 DEF NewId
<1> DEFINE m == n + 1
           entries == Entries(sections)
           bodies == [i \in DOMAIN sections |-> sections[i].body]
           new == [entries |-> entries, bodies |-> bodies]
<1>3. files' = [id \in 1 .. n \cup {m} |-> IF id = m THEN new ELSE files[id]]
  BY <1>1, <1>2 DEF Publish
<1>4. IsSeq(entries) /\ Len(entries) >= 1
  <2>1. Len(sections) \in 1 .. MaxUnitSections
    BY DEF Spooled
  <2>2. Len(sections) \in Nat /\ Len(sections) >= 1
    BY <2>1, LimitsAssumption
  <2> DEFINE k == Len(sections)
             S == {sections[i].entry : i \in 1 .. k}
  <2>3. entries = [i \in 1 .. k |-> sections[i].entry]
    BY DEF Entries
  <2>4. k \in Nat /\ k >= 1
    BY <2>2
  <2> HIDE DEF k, entries
  <2>5. entries \in Seq(S) /\ Len(entries) = k
    BY <2>3, <2>4
  <2> QED
    BY <2>4, <2>5 DEF IsSeq
<1>5. new.entries = entries /\ new.bodies = bodies
  OBVIOUS
<1>6. new = [entries |-> new.entries, bodies |-> new.bodies]
  OBVIOUS
<1> HIDE DEF entries, bodies, new
<1>7. DOMAIN files' = 1 .. n \cup {m} /\ m \notin 1 .. n /\ 1 .. n \cup {m} = 1 .. m /\ m \in Nat
  <2>1. m \in Nat /\ m \notin 1 .. n /\ 1 .. n \cup {m} = 1 .. m
    OBVIOUS
  <2> QED
    BY <1>3, <2>1
<1>8. files'[m] = new /\ \A id \in 1 .. n : files'[id] = files[id]
  BY <1>3, <1>7
<1> HIDE DEF m
<1>9. FilesOK'
  <2>1. ASSUME NEW id \in DOMAIN files'
        PROVE  /\ files'[id] = [entries |-> files'[id].entries, bodies |-> files'[id].bodies]
               /\ IsSeq(files'[id].entries) /\ Len(files'[id].entries) >= 1
    <3>1. CASE id = m
      BY <1>4, <1>5, <1>6, <1>8, <3>1
    <3>2. CASE id # m
      <4>1. id \in DOMAIN files /\ files'[id] = files[id]
        BY <1>1, <1>7, <1>8, <3>2
      <4> QED
        BY <4>1 DEF FilesOK
    <3> QED
      BY <3>1, <3>2
  <2>2. \E k \in Nat : DOMAIN files' = 1 .. k
    BY <1>7
  <2> QED
    BY <2>1, <2>2 DEF FilesOK, IsSeq
<1> QED
  BY <1>1, <1>2, <1>7, <1>8, <1>9 DEF m

(* Whatever damage does to a file, it has a directory as long as before.   *)
LEMMA DamagedFileOK ==
    ASSUME FilesOK, NEW id, NEW e, NEW b,
           id \in DOMAIN files => IsSeq(e) /\ Len(e) >= 1,
           files' = [files EXCEPT ![id] = [entries |-> e, bodies |-> b]]
    PROVE  FilesOK' /\ DOMAIN files' = DOMAIN files
<1> DEFINE new == [entries |-> e, bodies |-> b]
<1>1. new.entries = e /\ new.bodies = b
  OBVIOUS
<1> HIDE DEF new
<1>2. DOMAIN files' = DOMAIN files
  OBVIOUS
<1>3. ASSUME NEW x \in DOMAIN files'
      PROVE  /\ files'[x] = [entries |-> files'[x].entries, bodies |-> files'[x].bodies]
             /\ IsSeq(files'[x].entries) /\ Len(files'[x].entries) >= 1
  <2>1. CASE x = id
    <3>1. files'[x] = new
      BY <1>2, <2>1 DEF new
    <3>2. new = [entries |-> new.entries, bodies |-> new.bodies]
      BY <1>1 DEF new
    <3> QED
      BY <1>1, <1>2, <2>1, <3>1, <3>2
  <2>2. CASE x # id
    <3>1. files'[x] = files[x] /\ x \in DOMAIN files
      BY <1>2, <2>2
    <3> QED
      BY <3>1 DEF FilesOK
  <2> QED
    BY <2>1, <2>2
<1>4. \E n \in Nat : DOMAIN files' = 1 .. n
  BY <1>2 DEF FilesOK
<1> QED
  BY <1>2, <1>3, <1>4 DEF FilesOK, IsSeq

LEMMA InitOK == Init => IInv
<1> SUFFICES ASSUME Init
             PROVE  IInv
  OBVIOUS
<1>1. units = <<>> /\ files = <<>> /\ cache = NewCache
  BY DEF Init
<1>2. FilesOK
  <2>1. DOMAIN files = 1 .. 0
    BY <1>1
  <2>2. \A id \in 1 .. 0 : FALSE
    OBVIOUS
  <2> QED
    BY <2>1, <2>2 DEF FilesOK
<1>3. UnitsIn(units)
  <2>1. units \in Seq({}) /\ DOMAIN units = {}
    BY <1>1
  <2> QED
    BY <2>1 DEF UnitsIn, IsSeq
<1>4. CacheOK(cache)
  <2> DEFINE c == NewCache
  <2>1. c = Dir(<<>>, 0, 1, {})
    BY DEF NewCache, Dir
  <2>2. c.pages = <<>> /\ c.used = 0 /\ c.clock = 1 /\ c.older = {}
    BY <2>1, DirIs
  <2>3. DOMAIN c.pages = {}
    BY <2>2
  <2>4. Pile(c.pages) = {} /\ Older(c.pages) = {}
    BY <2>3 DEF Pile, Older
  <2>5. IsFiniteSet({}) /\ Cardinality({}) = 0
    BY FS_EmptySet
  <2>6. 1 \in 1 .. MaxTick /\ 0 <= CacheBudget
    BY LimitsAssumption
  <2> HIDE DEF c
  <2>7. CacheOK(c)
    BY <2>1, <2>2, <2>3, <2>4, <2>5, <2>6 DEF CacheOK, PagesOK, Stamped
  <2> QED
    BY <1>1, <2>7 DEF c
<1> QED
  BY <1>2, <1>3, <1>4 DEF IInv

(* Nothing the cache looks at has changed but the files that were added.   *)
LEMMA SameCache ==
    ASSUME IInv, cache' = cache, open' => open,
           \A id \in DOMAIN files : id \in DOMAIN files' /\ files'[id].entries = files[id].entries
    PROVE  (open => CacheOK(cache))'
<1> SUFFICES ASSUME open'
             PROVE  CacheOK(cache)'
  OBVIOUS
<1>1. CacheIn(cache, files)
  BY CacheInNow DEF IInv
<1>2. CacheIn(cache, files')
  BY <1>1, CacheGrows
<1> QED
  BY <1>2, CacheInNext

LEMMA StutterOK ==
    ASSUME IInv, UNCHANGED <<units, files, cache>>, open' => open
    PROVE  IInv'
<1>1. FilesOK' /\ UnitsIn(units)'
  BY DEF IInv, FilesOK, UnitsIn, IsSeq
<1>2. (open => CacheOK(cache))'
  BY SameCache
<1> QED
  BY <1>1, <1>2 DEF IInv

LEMMA SealOK ==
    ASSUME IInv, Seal
    PROVE  IInv'
<1>1. PICK sections \in {TailSections} : 
          /\ Spooled(sections)
          /\ \E unit \in {Meta(NewId, 0, Entries(sections))} :
                 Publish(unit, sections) /\ Install(Range(units) \cup {unit})
  BY DEF Seal
<1> DEFINE unit == Meta(NewId, 0, Entries(sections))
<1>2. Publish(unit, sections) /\ Install(Range(units) \cup {unit})
  BY <1>1
<1>3. unit.id = NewId
  BY DEF Meta
<1>4. cache' = cache /\ open' = open
  BY DEF Seal
<1> HIDE DEF unit
<1>5. /\ FilesOK' /\ unit.id \in DOMAIN files'
      /\ \A id \in DOMAIN files : id \in DOMAIN files' /\ files'[id].entries = files[id].entries
  BY <1>1, <1>2, <1>3, PublishOK DEF IInv
<1>6. UnitsIn(units)'
  <2>1. IsFiniteSet(Range(units)) /\ \A u \in Range(units) : u.id \in DOMAIN files
    BY LiveIs DEF IInv
  <2>2. IsFiniteSet(Range(units) \cup {unit})
    BY <2>1, FS_AddElement
  <2>3. \A u \in Range(units) \cup {unit} : u.id \in DOMAIN files'
    BY <1>5, <2>1
  <2> QED
    BY <1>2, <2>2, <2>3, InstallOK
<1>7. (open => CacheOK(cache))'
  BY <1>4, <1>5, SameCache
<1> QED
  BY <1>5, <1>6, <1>7 DEF IInv

LEMMA CompactOK ==
    ASSUME IInv, NEW i \in DOMAIN units, NEW j \in DOMAIN units, Compact(i, j)
    PROVE  IInv'
<1> DEFINE run == SubSeq(units, i, j)
           r == ReadAll(run)
           merge == Merge(run)
<1>1. i < j /\ open /\ open' = open
  BY DEF Compact, Mergeable
<1>2. UnitsIn(run)
  <2>1. PICK S : units \in Seq(S)
    BY DEF IInv, UnitsIn, IsSeq
  <2>2. DOMAIN units = 1 .. Len(units) /\ Len(units) \in Nat
    BY <2>1
  <2>3. i \in 1 .. Len(units) /\ j \in 1 .. Len(units)
    BY <2>2
  <2>4. run \in Seq(S) /\ Len(run) = j - i + 1 /\ \A k \in 1 .. j - i + 1 : run[k] = units[i + k - 1]
    BY <1>1, <2>1, <2>3
  <2> HIDE DEF run
  <2>5. ASSUME NEW k \in DOMAIN run
        PROVE  run[k].id \in DOMAIN files
    <3>1. k \in 1 .. j - i + 1
      BY <2>4
    <3>2. i + k - 1 \in DOMAIN units
      BY <2>2, <2>3, <3>1
    <3> QED
      BY <2>4, <3>1, <3>2 DEF IInv, UnitsIn
  <2> QED
    BY <2>4, <2>5 DEF UnitsIn, IsSeq
<1>3. merge.reader = r
  <2>1. merge = MergeRead(r, run)
    BY DEF Merge
  <2> HIDE DEF merge, r, run
  <2> QED
    BY <2>1 DEF MergeRead, Outcome
<1>4. /\ cache' = merge.reader.cache
      /\ IF merge.ok /\ Spooled(merge.out)
         THEN \E unit \in {Meta(NewId, units[i].level + 1, Entries(merge.out))} :
                  /\ Publish(unit, merge.out)
                  /\ Install((Range(units) \ {units[k] : k \in i .. j}) \cup {unit})
         ELSE memo' = merge.reader.memo /\ UNCHANGED <<units, files, damage>>
  <2> HIDE DEF r
  <2> QED
    BY DEF Compact
<1> HIDE DEF merge, run
<1>5. CacheIn(cache', files)
  <2>1. ReaderOK(r)
    BY <1>1, <1>2, ReadAllOK DEF IInv
  <2> HIDE DEF r
  <2>2. CacheOK(r.cache)
    BY <2>1 DEF ReaderOK
  <2> QED
    BY <1>3, <1>4, <2>2, CacheInNow
<1> HIDE DEF r
<1>6. CASE merge.ok /\ Spooled(merge.out)
  <2> DEFINE sections == merge.out
             unit == Meta(NewId, units[i].level + 1, Entries(sections))
             kept == Range(units) \ {units[k] : k \in i .. j}
  <2>1. Publish(unit, sections) /\ Install(kept \cup {unit}) /\ Spooled(sections)
    BY <1>4, <1>6
  <2>2. unit.id = NewId
    BY DEF Meta
  <2>3. kept \subseteq Range(units)
    OBVIOUS
  <2> HIDE DEF unit, sections, kept
  <2>4. /\ FilesOK' /\ unit.id \in DOMAIN files'
        /\ \A id \in DOMAIN files : id \in DOMAIN files' /\ files'[id].entries = files[id].entries
    BY <2>1, <2>2, PublishOK DEF IInv
  <2>5. UnitsIn(units)'
    <3>1. IsFiniteSet(Range(units)) /\ \A u \in Range(units) : u.id \in DOMAIN files
      BY LiveIs DEF IInv
    <3>2. IsFiniteSet(kept \cup {unit})
      BY <2>3, <3>1, FS_Subset, FS_AddElement
    <3>3. \A u \in kept \cup {unit} : u.id \in DOMAIN files'
      BY <2>3, <2>4, <3>1
    <3> QED
      BY <2>1, <3>2, <3>3, InstallOK
  <2>6. CacheIn(cache', files')
    BY <1>5, <2>4, CacheGrows
  <2>7. CacheOK(cache)'
    BY <2>6, CacheInNext
  <2> QED
    BY <2>4, <2>5, <2>7 DEF IInv
<1>7. CASE ~(merge.ok /\ Spooled(merge.out))
  <2>1. UNCHANGED <<units, files>>
    BY <1>4, <1>7
  <2>2. FilesOK' /\ UnitsIn(units)'
    BY <2>1 DEF IInv, FilesOK, UnitsIn, IsSeq
  <2>3. CacheOK(cache)'
    BY <1>5, <2>1, CacheInNext
  <2> QED
    BY <2>2, <2>3 DEF IInv
<1> QED
  BY <1>6, <1>7

LEMMA QueryOK ==
    ASSUME IInv, NEW table, Query(table)
    PROVE  IInv'
<1> DEFINE of == [run |-> units, table |-> table]
           r == ReadTable(Reader, of)
<1>1. cache' = r.cache /\ open /\ UNCHANGED <<units, files>>
  BY DEF Query
<1>2. of.run = units
  OBVIOUS
<1> HIDE DEF of
<1>3. ReaderOK(Reader)
  <2> DEFINE yes == TRUE
  <2> HIDE DEF yes
  <2>1. ReaderOK(Rd(yes, cache, memo, <<>>))
    BY <1>1, ReaderIs DEF IInv
  <2>2. Reader = Rd(TRUE, cache, memo, <<>>)
    BY DEF Reader, Rd
  <2> QED
    BY <2>1, <2>2 DEF yes
<1>4. ReaderOK(r)
  <2> HIDE DEF r
  <2>1. UnitsIn(of.run)
    BY <1>2 DEF IInv
  <2> QED
    BY <1>3, <2>1, ReadTableOK DEF r, IInv
<1> HIDE DEF r
<1>5. CacheIn(cache', files)
  BY <1>1, <1>4, CacheInNow DEF ReaderOK
<1>6. CacheOK(cache)'
  BY <1>1, <1>5, CacheInNext
<1>7. FilesOK' /\ UnitsIn(units)'
  BY <1>1 DEF IInv, FilesOK, UnitsIn, IsSeq
<1> QED
  BY <1>6, <1>7 DEF IInv

LEMMA OpenOK ==
    ASSUME IInv, Open
    PROVE  IInv'
<1>1. cache' = NewCache /\ UNCHANGED <<units, files>>
  BY DEF Open
<1>2. CacheOK(cache)'
  BY <1>1, NewCacheOK, CacheInNext
<1>3. FilesOK' /\ UnitsIn(units)'
  BY <1>1 DEF IInv, FilesOK, UnitsIn, IsSeq
<1> QED
  BY <1>2, <1>3 DEF IInv

LEMMA DamageOK ==
    ASSUME IInv, NEW id, Damage(id)
    PROVE  IInv'
<1> DEFINE f == files[id]
<1>1. /\ ~open' /\ UNCHANGED units
      /\ \/ UNCHANGED files
         \/ \E i \in DOMAIN f.bodies : \E s \in DOMAIN f.bodies[i].columns :
                files' = [files EXCEPT ![id].bodies[i].columns[s][1] = Absent]
         \/ \E i \in DOMAIN f.entries : \E t \in Tables \ {f.entries[i].table} :
                files' = [files EXCEPT ![id].entries[i].table = t]
         \/ \E i \in DOMAIN f.entries :
                \E v \in 1 .. MaxVersions[f.entries[i].table] \ {f.entries[i].version} :
                    files' = [files EXCEPT ![id].entries[i].version = v]
  <2>1. /\ ~open /\ UNCHANGED open /\ UNCHANGED units
    BY DEF Damage, source
  <2>2. \/ UNCHANGED files
        \/ \E i \in DOMAIN files[id].bodies : \E s \in DOMAIN files[id].bodies[i].columns :
               files' = [files EXCEPT ![id].bodies[i].columns[s][1] = Absent]
        \/ \E i \in DOMAIN files[id].entries :
              \/ \E t \in Tables \ {files[id].entries[i].table} :
                    files' = [files EXCEPT ![id].entries[i].table = t]
              \/ \E v \in 1 .. MaxVersions[files[id].entries[i].table] \ {files[id].entries[i].version} :
                    files' = [files EXCEPT ![id].entries[i].version = v]
    BY Zenon DEF Damage
  <2>3. \/ UNCHANGED files
        \/ \E i \in DOMAIN f.bodies : \E s \in DOMAIN f.bodies[i].columns :
               files' = [files EXCEPT ![id].bodies[i].columns[s][1] = Absent]
        \/ \E i \in DOMAIN f.entries : \E t \in Tables \ {f.entries[i].table} :
               files' = [files EXCEPT ![id].entries[i].table = t]
        \/ \E i \in DOMAIN f.entries :
               \E v \in 1 .. MaxVersions[f.entries[i].table] \ {f.entries[i].version} :
                   files' = [files EXCEPT ![id].entries[i].version = v]
    BY Zenon, <2>2
  <2> QED
    BY <2>1, <2>3
<1>2. /\ id \in DOMAIN files => /\ f = [entries |-> f.entries, bodies |-> f.bodies]
                                /\ IsSeq(f.entries) /\ Len(f.entries) >= 1
  BY DEF IInv, FilesOK
<1>3. ASSUME NEW e, NEW b, files' = [files EXCEPT ![id] = [entries |-> e, bodies |-> b]],
             id \in DOMAIN files => IsSeq(e) /\ Len(e) >= 1
      PROVE  FilesOK' /\ DOMAIN files' = DOMAIN files
  BY <1>3, DamagedFileOK DEF IInv
<1>4. ASSUME NEW i \in DOMAIN f.entries, NEW x, id \in DOMAIN files
      PROVE  IsSeq([f.entries EXCEPT ![i] = x]) /\ Len([f.entries EXCEPT ![i] = x]) >= 1
  <2> DEFINE e == f.entries
  <2>1. PICK S : e \in Seq(S)
    BY <1>2, <1>4 DEF IsSeq
  <2>2. Len(e) >= 1 /\ i \in DOMAIN e
    BY <1>2, <1>4
  <2> HIDE DEF e
  <2>3. e \in Seq(S \cup {x})
    BY <2>1
  <2>4. [e EXCEPT ![i] = x] \in Seq(S \cup {x}) /\ Len([e EXCEPT ![i] = x]) = Len(e)
    BY <2>2, <2>3
  <2> QED
    BY <2>2, <2>4 DEF IsSeq, e
<1>5. FilesOK' /\ DOMAIN files' = DOMAIN files
  <2>1. CASE UNCHANGED files
    BY <2>1 DEF IInv, FilesOK, IsSeq
  <2>2. CASE id \notin DOMAIN files /\ DOMAIN files' = DOMAIN files /\ \A x \in DOMAIN files : files'[x] = files[x]
    BY <2>2 DEF IInv, FilesOK, IsSeq
  <2>3. ASSUME id \in DOMAIN files, NEW i \in DOMAIN f.bodies, NEW s \in DOMAIN f.bodies[i].columns,
               files' = [files EXCEPT ![id].bodies[i].columns[s][1] = Absent]
        PROVE  FilesOK' /\ DOMAIN files' = DOMAIN files
    <3> DEFINE b == [f.bodies EXCEPT ![i].columns[s][1] = Absent]
    <3>1. [f EXCEPT !.bodies[i].columns[s][1] = Absent] = [entries |-> f.entries, bodies |-> b]
      <4> DEFINE e == f.entries
                 d == f.bodies
      <4>1. f = [entries |-> e, bodies |-> d]
        BY <1>2, <2>3
      <4> HIDE DEF e, f, d
      <4>2. [[entries |-> e, bodies |-> d] EXCEPT !.bodies[i].columns[s][1] = Absent]
               = [entries |-> e, bodies |-> [d EXCEPT ![i].columns[s][1] = Absent]]
        OBVIOUS
      <4> QED
        BY <4>1, <4>2 DEF e, d
    <3>2. files' = [files EXCEPT ![id] = [f EXCEPT !.bodies[i].columns[s][1] = Absent]]
      BY <2>3
    <3> DEFINE e == f.entries
    <3>3. IsSeq(e) /\ Len(e) >= 1
      BY <1>2, <2>3
    <3> HIDE DEF b, e
    <3>4. files' = [files EXCEPT ![id] = [entries |-> e, bodies |-> b]]
      BY <3>1, <3>2 DEF e
    <3> QED
      BY <1>3, <3>3, <3>4
  <2>4. ASSUME id \in DOMAIN files, NEW i \in DOMAIN f.entries, NEW t,
               files' = [files EXCEPT ![id].entries[i].table = t]
        PROVE  FilesOK' /\ DOMAIN files' = DOMAIN files
    <3> DEFINE x == [f.entries[i] EXCEPT !.table = t]
               e == [f.entries EXCEPT ![i] = x]
    <3>1. [f EXCEPT !.entries[i].table = t] = [entries |-> e, bodies |-> f.bodies]
      <4> DEFINE c == f.entries
                 d == f.bodies
      <4>1. f = [entries |-> c, bodies |-> d]
        BY <1>2, <2>4
      <4> HIDE DEF f, c, d
      <4>2. [[entries |-> c, bodies |-> d] EXCEPT !.entries[i].table = t]
               = [entries |-> [c EXCEPT ![i].table = t], bodies |-> d]
        OBVIOUS
      <4> QED
        BY <4>1, <4>2 DEF c, d
    <3>2. files' = [files EXCEPT ![id] = [f EXCEPT !.entries[i].table = t]]
      BY <2>4
    <3>3. IsSeq(e) /\ Len(e) >= 1
      <4> HIDE DEF x
      <4> QED
        BY <1>4, <2>4
    <3> HIDE DEF e
    <3> QED
      BY <1>3, <2>4, <3>1, <3>2, <3>3
  <2>5. ASSUME id \in DOMAIN files, NEW i \in DOMAIN f.entries, NEW v,
               files' = [files EXCEPT ![id].entries[i].version = v]
        PROVE  FilesOK' /\ DOMAIN files' = DOMAIN files
    <3> DEFINE x == [f.entries[i] EXCEPT !.version = v]
               e == [f.entries EXCEPT ![i] = x]
    <3>1. [f EXCEPT !.entries[i].version = v] = [entries |-> e, bodies |-> f.bodies]
      <4> DEFINE c == f.entries
                 d == f.bodies
      <4>1. f = [entries |-> c, bodies |-> d]
        BY <1>2, <2>5
      <4> HIDE DEF f, c, d
      <4>2. [[entries |-> c, bodies |-> d] EXCEPT !.entries[i].version = v]
               = [entries |-> [c EXCEPT ![i].version = v], bodies |-> d]
        OBVIOUS
      <4> QED
        BY <4>1, <4>2 DEF c, d
    <3>2. files' = [files EXCEPT ![id] = [f EXCEPT !.entries[i].version = v]]
      BY <2>5
    <3>3. IsSeq(e) /\ Len(e) >= 1
      <4> HIDE DEF x
      <4> QED
        BY <1>4, <2>5
    <3> HIDE DEF e
    <3> QED
      BY <1>3, <2>5, <3>1, <3>2, <3>3
  <2>6. CASE id \in DOMAIN files
    <3> HIDE DEF f
    <3> QED
      BY <1>1, <2>1, <2>3, <2>4, <2>5, <2>6
  <2>7. CASE id \notin DOMAIN files
    <3>1. \/ UNCHANGED files
          \/ DOMAIN files' = DOMAIN files /\ \A x \in DOMAIN files : files'[x] = files[x]
      BY <1>1, <2>7
    <3> QED
      BY <2>1, <2>2, <2>7, <3>1
  <2> QED
    BY <2>6, <2>7
<1>6. UnitsIn(units)'
  BY <1>1, <1>5 DEF IInv, UnitsIn, IsSeq
<1> QED
  BY <1>1, <1>5, <1>6 DEF IInv

LEMMA StepOK == IInv /\ [Next]_vars => IInv'
<1> SUFFICES ASSUME IInv, [Next]_vars
             PROVE  IInv'
  OBVIOUS
<1>1. ASSUME NEW table \in Tables, AppendTo(table)
      PROVE  IInv'
  BY <1>1, StutterOK DEF AppendTo, source
<1>2. ASSUME NEW table \in Tables, NewVersion(table)
      PROVE  IInv'
  BY <1>2, StutterOK DEF NewVersion, source
<1>3. ASSUME NEW table \in Tables, Query(table)
      PROVE  IInv'
  BY <1>3, QueryOK
<1>4. CASE Seal
  BY <1>4, SealOK
<1>5. CASE Close
  BY <1>5, StutterOK DEF Close, source
<1>6. CASE Open
  BY <1>6, OpenOK
<1>7. ASSUME NEW i \in DOMAIN units, NEW j \in DOMAIN units, Compact(i, j)
      PROVE  IInv'
  BY <1>7, CompactOK
<1>8. ASSUME NEW id \in DOMAIN memo, Damage(id)
      PROVE  IInv'
  BY <1>8, DamageOK
<1>9. CASE UNCHANGED vars
  BY <1>9, StutterOK DEF vars, source
<1> QED
  BY <1>1, <1>2, <1>3, <1>4, <1>5, <1>6, <1>7, <1>8, <1>9 DEF Next

(* The directory cache (unit/dircache.rs: get, insert, evict_oldest,       *)
(* next_tick and compact_ticks) is what it says: its total is what its     *)
(* pages are charged and within the budget, the clock never runs over,     *)
(* pages are the directories of their files, and ticks tell of two pages   *)
(* which one was used first.                                               *)
THEOREM CacheIsExact == Spec => []CacheExact
<1>1. IInv => CacheExact
  <2> SUFFICES ASSUME IInv, open
               PROVE  LET ids == DOMAIN cache.pages
                      IN  /\ cache.used = Cardinality(UNION {{id} \X (1 .. Charge(cache.pages[id].entries)) : id \in ids})
                          /\ cache.used <= CacheBudget /\ cache.clock <= MaxTick
                          /\ \A id \in ids :
                                 cache.pages[id].entries = files[id].entries /\ cache.pages[id].last < cache.clock
                          /\ cache.older = {p \in ids \X ids : p[1] # p[2] /\ Before(cache, p[1], p[2])}
    BY DEF CacheExact
  <2> DEFINE p == cache.pages
  <2>1. CacheOK(cache)
    BY DEF IInv
  <2>2. /\ PagesOK(p) /\ cache.older = Older(p) /\ cache.used = Cardinality(Pile(p))
        /\ cache.used <= CacheBudget /\ cache.clock \in 1 .. MaxTick
        /\ \A id \in DOMAIN p : p[id].last < cache.clock
    BY <2>1 DEF CacheOK
  <2>3. cache.clock <= MaxTick
    BY <2>2, LimitsAssumption
  <2>4. \A id \in DOMAIN p : p[id].entries = files[id].entries
    <3> HIDE DEF p
    <3> QED
      BY <2>2, PageIs
  <2>5. Older(p) = {x \in (DOMAIN p) \X (DOMAIN p) : x[1] # x[2] /\ Before(cache, x[1], x[2])}
    BY DEF Older, Earlier, Before
  <2>6. Pile(p) = UNION {{id} \X (1 .. Charge(p[id].entries)) : id \in DOMAIN p}
    BY DEF Pile
  <2> QED
    BY <2>2, <2>3, <2>4, <2>5, <2>6
<1> QED
  BY <1>1, InitOK, StepOK, PTL DEF Spec
=============================================================================
