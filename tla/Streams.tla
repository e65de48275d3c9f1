------------------------------ MODULE Streams ------------------------------
(***************************************************************************)
(* What one table says about its streams, a stream being a series and a    *)
(* field: rows with a cell for some of them, versions of the table with    *)
(* their fields and the time a fact stays valid, retirements of series and *)
(* fields, the heads that retention folds, and what value_at, latest,      *)
(* sample and aggregate answer from all that.                              *)
(*                                                                         *)
(* The records are kept by the log of MemberLogs: a crash cuts it, a seal  *)
(* gives up what it has put into the MANIFEST, the owner forgets that, and *)
(* an open replays what is left.  Publications are atomic, units hold the  *)
(* rows of this table only and are not compacted; Database has the rest.   *)
(***************************************************************************)
EXTENDS MemberLogs, Sequences, SequencesExt

CONSTANTS
    Db,             \* the member of the log
    Series, Fields,
    FirstFields, FirstValidity, \* of the table's first version
    FloatFields,    \* fields of type F32Bits; the others are of type UInt
    SignBit,        \* of a F32Bits, which has the bits 0 .. 2 * SignBit - 1
    Rows,           \* the sets of cells a row may have: stream -> value
    Timestamps,     \* bound: times of rows and queries
    Cutoffs,        \* bound: times of retirements
    Validities,     \* durations a version may have, and Forever
    Widths          \* steps and bucket widths asked for

Null == -1          \* CellValue::Null
Forever == 0        \* Validity::Forever
Inactive == 0       \* a version no row has been written with
None == [none |-> TRUE]

ASSUME StreamsAssumption ==
    /\ Db \in Members /\ FirstFields \cup FloatFields \subseteq Fields
    /\ Timestamps \cup Cutoffs \subseteq Nat \ {0} /\ Widths \subseteq Nat \ {0}
    /\ Validities \cup {FirstValidity} \subseteq Nat

VARIABLES
    table,      \* TailTable: versions, rows, series, fields, last
    units,      \* the rows of each unit the MANIFEST lists
    catalog,    \* the table in the MANIFEST
    heads,      \* stream -> its retention head
    floor,      \* the retention floor, 0 when there is none
    history,    \* every record accepted and not lost, for comparison
    buried      \* facts no longer valid when retention folded them, likewise

sealed == <<units, catalog, heads, floor>>
streamVars == <<vars, table, sealed, history, buried>>

(* wal::RecordBody without create and drop *)
Bodies ==
    [op : {"row"}, at : Timestamps, cells : Rows]
    \cup [op : {"version"}, validity : Validities, fields : SUBSET Fields \ {{}}]
    \cup [op : {"series"}, series : Series, at : Cutoffs]
    \cup [op : {"field"}, field : Fields, at : Cutoffs]

ASSUME ValuesAssumption == Values \subseteq Bodies
(* types/value.rs: values are unsigned, and a float's bits have one sign bit. *)
ASSUME CellsAssumption ==
    /\ SignBit \in Nat
    /\ \A cells \in Rows : \A k \in DOMAIN cells :
           cells[k] = Null \/ (cells[k] \in Nat /\ (k[2] \in FloatFields => cells[k] < 2 * SignBit))

Keys == Series \X Fields
Without(f, S) == [x \in DOMAIN f \ S |-> f[x]]
With(f, x, v) == [y \in DOMAIN f \cup {x} |-> IF y = x THEN v ELSE f[y]]
Newest(facts) == CHOOSE f \in facts : \A g \in facts : g.at <= f.at
MaxTs(rows) == CHOOSE t \in {r.at : r \in rows} : \A r \in rows : r.at <= t

-----------------------------------------------------------------------------
(***************************************************************************)
(* Records and the table they make.                                        *)
(***************************************************************************)
Version(spec) == [validity |-> spec.validity, fields |-> spec.fields, from |-> Inactive]

(* tail_validate::validate *)
Valid(t, r) ==
    LET latest == Last(t.versions)
    IN  CASE r.op = "row" -> /\ r.at > t.last
                             /\ \A k \in DOMAIN r.cells : k[2] \in latest.fields
          [] r.op = "version" -> latest.from # Inactive /\ latest.fields \subseteq r.fields
          [] r.op = "series" -> TRUE
          [] r.op = "field" -> r.field \in latest.fields

(* TailIndex::apply_observation: the first row of a version activates it,  *)
(* and a row behind a retirement revives the series and the fields it has. *)
ApplyRow(t, r) ==
    LET n == Len(t.versions)
        revived(retirements, part) ==
            {x \in DOMAIN retirements : /\ r.at > retirements[x]
                                        /\ \E k \in DOMAIN r.cells : k[part] = x}
    IN  [t EXCEPT !.versions[n].from = IF @ = Inactive THEN r.at ELSE @,
                  !.rows = @ \cup {[at |-> r.at, cells |-> r.cells]},
                  !.series = Without(@, revived(@, 1)),
                  !.fields = Without(@, revived(@, 2)),
                  !.last = r.at]

(* TailIndex::apply_inner *)
Apply(t, r) ==
    CASE r.op = "row" -> ApplyRow(t, r)
      [] r.op = "version" -> [t EXCEPT !.versions = Append(@, Version(r))]
      [] r.op = "series" -> [t EXCEPT !.series = With(@, r.series, r.at)]
      [] r.op = "field" -> [t EXCEPT !.fields = With(@, r.field, r.at)]

(* Mutant: the retirements are not written. *)
CatalogUnretired(t) == [t EXCEPT !.rows = {}, !.series = <<>>, !.fields = <<>>]
(* Manifest::successor_from_tail and replay_target *)
InCatalog(t) == [t EXCEPT !.rows = {}]

(* The records an open replays, the oldest first. *)
Pending ==
    LET lsns == {l \in DOMAIN log' : log'[l].id = Db /\ log'[l].seq > checkpoint'[Db]}
    IN  [i \in 1 .. Cardinality(lsns) |->
            log'[CHOOSE l \in lsns : Cardinality({k \in lsns : k <= l}) = i].value]

-----------------------------------------------------------------------------
(***************************************************************************)
(* Which facts can be seen.                                                *)
(***************************************************************************)

(* VersionContract::resolve: the last version in force at the fact's time. *)
VersionOf(t, at) ==
    t.versions[CHOOSE n \in DOMAIN t.versions :
        /\ t.versions[n].from \in 1 .. at
        /\ \A m \in n + 1 .. Len(t.versions) : t.versions[m].from \notin 1 .. at]

(* VersionContract::is_live *)
StillValid(validity, fact, at) == validity = Forever \/ at - fact.at < validity

CutoffsOf(t, k) == {t.series[s] : s \in DOMAIN t.series \cap {k[1]}}
                 \cup {t.fields[f] : f \in DOMAIN t.fields \cap {k[2]}}

(* fact_is_visible, which compares with the later of the two cutoffs *)
Visible(t, k, fact, at) ==
    LET cutoffs == CutoffsOf(t, k)
        cutoff == CHOOSE c \in cutoffs : \A d \in cutoffs : d <= c
    IN  /\ cutoffs # {} => ~(at > cutoff /\ fact.at <= cutoff)
        /\ StillValid(VersionOf(t, fact.at).validity, fact, at)

FactsIn(rows, k) == {[at |-> r.at, value |-> r.cells[k]] : r \in {q \in rows : k \in DOMAIN q.cells}}

(* retention::fold: of each stream the newest fact that is still live *)
Fold(expired, newFloor) ==
    LET found(k) == FactsIn(UNION expired, k) \cup {heads[j] : j \in DOMAIN heads \cap {k}}
        live == {k \in Keys : found(k) # {} /\ Visible(table, k, Newest(found(k)), newFloor)}
    IN  [k \in live |-> Newest(found(k))]

-----------------------------------------------------------------------------
(***************************************************************************)
(* Queries on one stream.                                                  *)
(***************************************************************************)
Stored(k) == FactsIn(table.rows, k) \cup FactsIn(UNION units, k)

(* predecessors and with_head *)
Predecessor(k, at) ==
    LET tail == {f \in FactsIn(table.rows, k) : f.at <= at}
        old == {f \in FactsIn(UNION units, k) : f.at <= at}
    IN  IF tail # {} THEN Newest(tail)
        ELSE IF old # {} THEN Newest(old)
        ELSE IF k \in DOMAIN heads /\ heads[k].at <= at THEN heads[k]
        ELSE None

(* primitives::lookup and slot: what is shown of a fact at a time *)
Shown(k, fact, at) ==
    IF fact = None \/ ~Visible(table, k, fact, at) THEN None
    ELSE [at |-> fact.at, value |-> fact.value, carried |-> fact.at < at]

ValueAt(k, at) == Shown(k, Predecessor(k, at), at)
LatestOf(k) == IF table.last = 0 THEN None ELSE ValueAt(k, table.last)

(* visit_facts: the facts of a range in time order *)
InTime(facts) ==
    [i \in 1 .. Cardinality(facts) |->
        CHOOSE f \in facts : Cardinality({g \in facts : g.at <= f.at}) = i]
Between(k, start, end) == {f \in Stored(k) : start <= f.at /\ f.at < end}
Scan(k, start, end) == InTime(Between(k, start, end))

(* measure_grid and measure_buckets *)
Steps(start, end, width) == (end - start + width - 1) \div width

(* fill_slots_before: a fact at the time of a slot is in it. *)
Filled(state, next) ==
    [state EXCEPT !.slots = [i \in 1 .. Cardinality({g \in DOMAIN state.grid : state.grid[g] < next}) |->
        IF i <= Len(@) THEN @[i] ELSE Shown(state.key, state.current, state.grid[i])]]

(* sample_with_heads: one pass over the facts of the range *)
Visited(state, fact) == [Filled(state, fact.at) EXCEPT !.current = fact]
Sample(k, start, end, step) ==
    LET state == [key |-> k, grid |-> [i \in 1 .. Steps(start, end, step) |-> start + (i - 1) * step],
                  current |-> Predecessor(k, start), slots |-> <<>>]
    IN  Filled(FoldLeft(Visited, state, Scan(k, start, end)), end).slots

(* f32_order_key; mutant: the bits as they are *)
RawOrder(bits) == bits
OrderKey(bits) == IF bits < SignBit THEN bits + SignBit ELSE 2 * SignBit - 1 - bits
Order(k, v) == IF k[2] \in FloatFields THEN OrderKey(v) ELSE v

(* geometry: start, end and whether the bucket may still change *)
Geometry(start, end, width, fact) ==
    LET first == start + width * ((fact.at - start) \div width)
        last == IF first + width < end THEN first + width ELSE end
    IN  [from |-> first, until |-> last,
         partial |-> first + width > end \/ table.last < last]

(* BucketBuilder::new and observe *)
NewBucket(where) ==
    [from |-> where.from, until |-> where.until, partial |-> where.partial,
     count |-> 0, nulls |-> 0, min |-> None, max |-> None, sum |-> 0]
Observed(k, b, v) ==
    IF v = Null THEN [b EXCEPT !.count = @ + 1, !.nulls = @ + 1]
    ELSE [b EXCEPT !.count = @ + 1,
                   !.min = IF @ # None /\ Order(k, @.value) <= Order(k, v) THEN @ ELSE [value |-> v],
                   !.max = IF @ # None /\ Order(k, @.value) >= Order(k, v) THEN @ ELSE [value |-> v],
                   !.sum = IF k[2] \in FloatFields THEN 0 ELSE @ + v]

(* agg::aggregate: one pass, and a bucket is closed by the next one's fact *)
Counted(state, fact) ==
    LET where == Geometry(state.start, state.end, state.width, fact)
        same == state.bucket # None /\ state.bucket.from = where.from
    IN  [state EXCEPT
             !.bucket = Observed(state.key, IF same THEN @ ELSE NewBucket(where), fact.value),
             !.done = IF same \/ state.bucket = None THEN @ ELSE Append(@, state.bucket)]
Aggregate(k, start, end, width) ==
    LET state == FoldLeft(Counted, [key |-> k, start |-> start, end |-> end, width |-> width,
                                    bucket |-> None, done |-> <<>>], Scan(k, start, end))
    IN  IF state.bucket = None THEN <<>> ELSE Append(state.done, state.bucket)

-----------------------------------------------------------------------------
(***************************************************************************)
(* The operations.                                                         *)
(***************************************************************************)
Start ==
    /\ Init
    /\ catalog = [versions |-> <<Version([validity |-> FirstValidity, fields |-> FirstFields])>>,
                  rows |-> {}, series |-> <<>>, fields |-> <<>>, last |-> 0]
    /\ table = catalog
    /\ units = {} /\ heads = <<>> /\ floor = 0
    /\ history = <<>> /\ buried = {}

(* append, new_table_version, retire_series and retire_field *)
Mutate(r) ==
    /\ Valid(table, r)
    /\ Accept(Db, r)
    /\ table' = Apply(table, r)
    /\ history' = Append(history, r)
    /\ UNCHANGED <<sealed, buried>>

Sync ==
    /\ Persist /\ durable' = top
    /\ UNCHANGED <<table, sealed, history, buried>>

(* validate_versions, of the catalog a seal would publish *)
CatalogValid(t) ==
    /\ \A n \in DOMAIN t.versions : t.versions[n].from = Inactive => n = Len(t.versions)
    /\ \A n \in 2 .. Len(t.versions) :
           /\ t.versions[n - 1].fields \subseteq t.versions[n].fields
           /\ t.versions[n].from # Inactive => t.versions[n - 1].from < t.versions[n].from
    /\ \A n \in DOMAIN t.versions : t.versions[n].from <= t.last
    /\ DOMAIN t.fields \subseteq Last(t.versions).fields

(* A seal, once everything is durable. *)
Seal ==
    /\ checkpoint[Db] < seq[Db] /\ CatalogValid(InCatalog(table))
    /\ Checkpoint(Db)
    /\ catalog' = InCatalog(table)
    /\ units' = units \cup ({table.rows} \ {{}})
    /\ table' = InCatalog(table)
    /\ UNCHANGED <<heads, floor, history, buried>>

(* The owner of the log forgets what nobody needs. *)
Collect ==
    /\ Forget
    /\ UNCHANGED <<table, sealed, history, buried>>

-----------------------------------------------------------------------------
(***************************************************************************)
(* What the accepted records say of a fact, said without the code's folds. *)
(***************************************************************************)
RowsOf(k) == {i \in DOMAIN history : history[i].op = "row" /\ k \in DOMAIN history[i].cells}
LastBy(indices) == CHOOSE i \in indices : \A j \in indices : j <= i
Upto(k, at) == {i \in RowsOf(k) : history[i].at <= at}

(* The duration in force when a row was accepted. *)
DurationAt(i) ==
    LET earlier == {j \in 1 .. i : history[j].op = "version"}
    IN  IF earlier = {} THEN catalog.versions[1].validity
        ELSE history[LastBy(earlier)].validity

(* A retirement holds until a row behind its cutoff names what it retires. *)
Holding(op, x, part) ==
    LET retirements == {j \in DOMAIN history : history[j].op = op /\ history[j][op] = x}
        j == LastBy(retirements)
        ended == \E i \in DOMAIN history :
                     /\ i > j /\ history[i].op = "row" /\ history[i].at > history[j].at
                     /\ \E k \in DOMAIN history[i].cells : k[part] = x
    IN  IF retirements = {} \/ ended THEN {} ELSE {history[j].at}

(* The later of the cutoffs of the series and of the field decides. *)
Retired(k, factAt, at) ==
    LET cutoffs == Holding("series", k[1], 1) \cup Holding("field", k[2], 2)
    IN  \E c \in cutoffs : (\A d \in cutoffs : d <= c) /\ factAt <= c /\ c < at

Live(k, i, at) ==
    /\ ~Retired(k, history[i].at, at)
    /\ DurationAt(i) = Forever \/ at < history[i].at + DurationAt(i)

TrueAnswer(k, at) ==
    LET i == LastBy(Upto(k, at))
    IN  IF Upto(k, at) = {} THEN None
        ELSE IF <<k, history[i].at>> \in buried \/ ~Live(k, i, at) THEN None
        ELSE [at |-> history[i].at, value |-> history[i].cells[k],
              carried |-> history[i].at < at]

-----------------------------------------------------------------------------
(* Db::retain, for the units before the cutoff. *)
Retain(cutoff) ==
    LET expired == {u \in units : MaxTs(u) < cutoff}
        newFloor == MaxTs(UNION expired) + 1
        dead == {k \in Keys : /\ Upto(k, newFloor - 1) # {}
                              /\ ~Live(k, LastBy(Upto(k, newFloor - 1)), newFloor)}
    IN  /\ expired # {} /\ newFloor > floor
        /\ heads' = Fold(expired, newFloor)
        /\ floor' = newFloor
        /\ units' = units \ expired
        /\ buried' = buried \cup {<<k, history[LastBy(Upto(k, newFloor - 1))].at>> : k \in dead}
        /\ UNCHANGED <<vars, table, catalog, history>>

(* A crash and the open after it; a seal is one step, so that nothing more *)
(* has been given up than the catalog says.                                *)
Restart ==
    /\ UNCHANGED checkpoint /\ Crash
    /\ table' = FoldLeft(Apply, catalog, Pending)
    /\ history' = SubSeq(history, 1, seq'[Db])
    /\ UNCHANGED <<sealed, buried>>

Step ==
    \/ \E r \in Values : Mutate(r)
    \/ Sync \/ Seal \/ Collect \/ Restart
    \/ \E cutoff \in Timestamps : Retain(cutoff)

Table == Start /\ [][Step]_streamVars

-----------------------------------------------------------------------------
(***************************************************************************)
(* Properties.                                                             *)
(***************************************************************************)
Asked == {k \in Keys : k[2] \in Last(table.versions).fields}
Ranges == {r \in Timestamps \X {t + 1 : t \in Timestamps} : floor <= r[1] /\ r[1] < r[2]}

(* What is shown at a time, and at the last one of the table.              *)
LookupsTrue ==
    \A k \in Asked :
        /\ \A at \in {t \in Timestamps : floor <= t} : ValueAt(k, at) = TrueAnswer(k, at)
        /\ LatestOf(k) = TrueAnswer(k, table.last)

(* What one pass over the facts of a range shows at every slot, the facts  *)
(* at its time and those before the range included.                        *)
SamplesTrue ==
    \A k \in Asked : \A r \in Ranges, step \in Widths :
        LET asked == {t \in r[1] .. r[2] - 1 : (t - r[1]) % step = 0}
        IN  Sample(k, r[1], r[2], step) =
                [i \in 1 .. Cardinality(asked) |-> TrueAnswer(k, r[1] + (i - 1) * step)]

(* value_at, latest and sample see exactly the facts that the accepted     *)
(* records make visible at a time, by the version and the retirements in   *)
(* force, whether they are in the tail, in units or in heads, and after    *)
(* any crash: but a fact that a retention found dead stays dead.           *)
AnswersExact == LookupsTrue /\ SamplesTrue

(* The order of numbers, and that of floats by sign and magnitude. *)
Before(k, v, w) ==
    IF k[2] \notin FloatFields THEN v < w
    ELSE IF v >= SignBit THEN w < SignBit \/ w < v
    ELSE w < SignBit /\ v < w

(* The least and the greatest of the values of a stream, if it has any.    *)
Lowest(k, values) ==
    IF values = {} THEN None
    ELSE [value |-> CHOOSE v \in values : \A w \in values : ~Before(k, w, v)]
Highest(k, values) ==
    IF values = {} THEN None
    ELSE [value |-> CHOOSE v \in values : \A w \in values : ~Before(k, v, w)]

(* The times of the n-th bucket of a range, and the rows in it.            *)
First(r, width, n) == r[1] + n * width
Span(r, width, n) ==
    {t \in r[1] .. r[2] - 1 : First(r, width, n) <= t /\ t < First(r, width, n + 1)}
Inside(k, r, width, n) == {i \in RowsOf(k) : history[i].at \in Span(r, width, n)}

(* A row may still come into a bucket: times of a table rise strictly.     *)
RowTimes == {history[i].at : i \in {j \in DOMAIN history : history[j].op = "row"}}
MayGrow(r, width, n) == \E t \in Span(r, width, n) : \A at \in RowTimes : at < t

(* The newest row of the table stands on the last tick of the bucket, so   *)
(* that nothing can come into it any more.                                 *)
JustFilled(r, width, n) ==
    /\ First(r, width, n + 1) - 1 \in RowTimes
    /\ \A at \in RowTimes : at < First(r, width, n + 1)

(* What a bucket says when the facts of some rows are counted in it, the   *)
(* sum being the number of units all of them have.                         *)
BucketWith(k, r, width, n, rows) ==
    LET counted == {i \in rows : history[i].cells[k] # Null}
        values == {history[i].cells[k] : i \in counted}
    IN  [from |-> First(r, width, n),
         until |-> First(r, width, n) + Cardinality(Span(r, width, n)),
         partial |-> \/ Cardinality(Span(r, width, n)) < width
                     \/ MayGrow(r, width, n) \/ JustFilled(r, width, n),
         count |-> Cardinality(rows),
         nulls |-> Cardinality(rows \ counted),
         min |-> Lowest(k, values),
         max |-> Highest(k, values),
         sum |-> IF k[2] \in FloatFields THEN 0
                 ELSE Cardinality(UNION {{i} \X (1 .. history[i].cells[k]) : i \in counted})]

(* The i-th of a set of numbers.                                           *)
Nth(S, i) == CHOOSE n \in S : Cardinality({m \in S : m <= n}) = i

(* aggregate counts every fact accepted in its range once, in the bucket   *)
(* of its time, with the extremes in the order of the field's type.  It    *)
(* calls a bucket partial when the range cuts it off and while rows may    *)
(* still come into it, and one time too many: a bucket whose last tick     *)
(* holds the newest row is final, but called partial until a later row of  *)
(* the table comes.                                                        *)
AggregatesExact ==
    \A k \in Asked : \A r \in Ranges, width \in Widths :
        LET filled == {n \in 0 .. r[2] - r[1] : Inside(k, r, width, n) # {}}
        IN  Aggregate(k, r[1], r[2], width) =
                [i \in 1 .. Cardinality(filled) |->
                    BucketWith(k, r, width, Nth(filled, i), Inside(k, r, width, Nth(filled, i)))]
=============================================================================
