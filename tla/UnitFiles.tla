----------------------------- MODULE UnitFiles -----------------------------
(***************************************************************************)
(* Unit files (core/src/unit): how sealing cuts the tail into sections,    *)
(* how compaction merges the sections of several files, what a directory,  *)
(* a body and their checksums let a reader see, and the directory cache    *)
(* all sources of an open database share.  One database, all its tables    *)
(* stamped from one clock; which files are live and when they are deleted  *)
(* is the subject of Database.                                             *)
(***************************************************************************)
EXTENDS SectionSizes, Sequences, SequencesExt, FiniteSets, FiniteSetsExt, Functions

CONSTANTS
    Tables, Streams,    \* identifiers, natural numbers
    MaxSectionRows,     \* MAX_SECTION_ROWS (65536)
    MaxUnitSections,    \* MAX_UNIT_SECTIONS (65536)
    CacheBudget,        \* the budget of the directory cache,
    PageOverhead,       \* what it charges for a page, an entry costing one
    MaxTick,            \* the last tick of its clock (2^64 - 1)
    RowKinds,           \* bound: tables with the streams a row of theirs may have facts for
    MaxRows,            \* bound: rows ever accepted
    MaxVersions,        \* bound: versions of each table
    MaxReopens,         \* bound: times the database is closed
    MaxDamage           \* bound: files damaged while it is closed

(* A record of the log is so short that any one row fits a section. *)
ASSUME RowAssumption == WorkingSet(1, Cardinality(Streams), Cardinality(Streams)) <= WorkingBytes
ASSUME LimitsAssumption ==
    /\ Tables \subseteq Nat /\ IsFiniteSet(Tables) /\ Streams \subseteq Nat \ {0}
    /\ {MaxSectionRows, MaxUnitSections, MaxTick, PageOverhead} \subseteq Nat \ {0}
    /\ CacheBudget \in Nat /\ MaxTick > 1 + (CacheBudget \div (PageOverhead + 1))

VARIABLES
    tail,      \* rows of each table in memory and in the log
    version,   \* each table's newest version
    clock,     \* the last time stamped
    units,     \* the MANIFEST's units, in its order
    files,     \* the unit files by identifier, those replaced included
    damage,    \* what has happened to each on disk
    memo,      \* the source's integrity memo of each live unit
    cache,     \* the directory cache
    open, reopens,
    sealed     \* ghost: the rows of each table that have left the tail

source == <<units, memo>>
vars == <<tail, version, clock, units, files, damage, memo, cache, open, reopens, sealed>>

Refused == [ok |-> FALSE]
Given(x) == [ok |-> TRUE, is |-> x]
Absent == 0      \* a cell without a fact; a fact's value is the time of its row
TableSeq ==
    [i \in 1 .. Cardinality(Tables) |->
        CHOOSE t \in Tables : Cardinality({u \in Tables : u <= t}) = i]

-----------------------------------------------------------------------------
(* Sections.  A row is its time, its version and the streams it has a fact *)
(* for; a section's body is its times and a column for every such stream.  *)
FactsOf(column) == Cardinality({i \in DOMAIN column : column[i] # Absent})
Facts(columns) == Cardinality(UNION {{<<s, i>> : i \in {i \in DOMAIN columns[s] :
                                          columns[s][i] # Absent}} : s \in DOMAIN columns})
Fullest(columns) == Max({0} \cup {FactsOf(columns[s]) : s \in DOMAIN columns})

(* preflight_materialized: both encoders refuse what exceeds the memory. *)
EncodeBody(times, columns) ==
    IF \/ times = <<>> \/ DOMAIN columns = {}
       \/ \E i \in 1 .. Len(times) - 1 : times[i] >= times[i + 1]
       \/ \E s \in DOMAIN columns : Len(columns[s]) # Len(times) \/ FactsOf(columns[s]) = 0
       \/ WorkingSet(Len(times), Cardinality(DOMAIN columns), Facts(columns)) > WorkingBytes
    THEN Refused
    ELSE Given([times |-> times, columns |-> columns])

(* encode of section.rs: the postings of each stream with a fact. *)
EncodeRows(rows) ==
    EncodeBody([i \in DOMAIN rows |-> rows[i].at],
               [s \in UNION {rows[i].facts : i \in DOMAIN rows} |->
                   [i \in DOMAIN rows |-> IF s \in rows[i].facts THEN rows[i].at ELSE Absent]])

Section(table, ver, body) ==
    [entry |-> [table |-> table, version |-> ver, min |-> Head(body.times),
                max |-> Last(body.times), rows |-> Len(body.times)],
     body |-> body]

(* encode_source: what does not fit is halved, down to single rows. *)
TailRow == [at : Nat, version : Nat, facts : SUBSET Streams]
SectionsOf(table, run) ==
    LET Cut[rows \in Seq(TailRow)] ==
            LET body == EncodeRows(rows)
                middle == Len(rows) \div 2
            IN  IF body.ok THEN <<Section(table, rows[1].version, body.is)>>
                ELSE Cut[SubSeq(rows, 1, middle)] \o Cut[SubSeq(rows, middle + 1, Len(rows))]
    IN  Cut[run]

(* collect_sources: runs of one version, no longer than a section may be. *)
Runs(rows) ==
    FoldLeft(LAMBDA runs, row :
                 IF /\ runs # <<>> /\ Len(Last(runs)) < MaxSectionRows
                    /\ Last(Last(runs)).version = row.version
                 THEN [runs EXCEPT ![Len(runs)] = Append(@, row)]
                 ELSE Append(runs, <<row>>),
             <<>>, rows)
TailSections ==
    FlattenSeq([i \in DOMAIN TableSeq |->
        LET t == TableSeq[i]
            runs == Runs(tail[t])
        IN  FlattenSeq([r \in DOMAIN runs |-> SectionsOf(t, runs[r])])])

-----------------------------------------------------------------------------
(* Files.  UnitSpool::push and validate_directory demand the same order.   *)
Ordered(entries) ==
    \A i \in 1 .. Len(entries) - 1 :
        LET a == entries[i]
            b == entries[i + 1]
        IN  a.table < b.table \/ (a.table = b.table /\ a.max < b.min)

Entries(sections) == [i \in 1 .. Len(sections) |-> sections[i].entry]
Total(entries) == FoldLeft(LAMBDA sum, e : sum + e.rows, 0, entries)
Meta(id, level, entries) ==
    [id |-> id, level |-> level, sections |-> Len(entries), rows |-> Total(entries),
     min |-> Min({entries[i].min : i \in DOMAIN entries}),
     max |-> Max({entries[i].max : i \in DOMAIN entries})]
Spooled(sections) ==
    Len(sections) \in 1 .. MaxUnitSections /\ Ordered(Entries(sections))

(* decode_parts: header, directory and footer must fit each other; the     *)
(* checksum of the body is compared with the footer's, not computed.       *)
Parsed(unit) ==
    LET entries == files[unit.id].entries
    IN  IF damage[unit.id] = "envelope" \/ ~Ordered(entries) THEN Refused ELSE Given(entries)

(* load_directory: and with the MANIFEST. *)
Agreed(unit, parsed) ==
    IF parsed.ok /\ Meta(unit.id, unit.level, parsed.is) # unit THEN Refused ELSE parsed
LoadDirectory(unit) == Agreed(unit, Parsed(unit))

(* ensure_body_integrity reads the whole body, directory included, once. *)
NeverComputed(unit) == damage[unit.id] # "envelope"     \* mutant: only the footer is compared
Intact(unit) == damage[unit.id] = "none"

Decode(entry, body) ==
    LET streams == Cardinality(DOMAIN body.columns)
        rows == Len(body.times)
    IN  IF \/ DecodeSet(LongestPayload(rows, streams, Facts(body.columns)),
                        rows, streams, streams, Fullest(body.columns)) > DecodeBytes
           \/ Head(body.times) # entry.min \/ Last(body.times) # entry.max
           \/ rows # entry.rows
        THEN Refused ELSE Given(body)

-----------------------------------------------------------------------------
(* The directory cache: pages under a budget, the least recently used one  *)
(* evicted first.  "used" is its running total, "older" (ghost) says of    *)
(* which two pages which one was last used before the other.               *)
NewCache == [pages |-> <<>>, used |-> 0, clock |-> 1, older |-> {}]
Charge(entries) == Len(entries) + PageOverhead
Uncached(c, id) == Restrict(c.pages, DOMAIN c.pages \ {id})
Before(c, a, b) ==
    \/ c.pages[a].last < c.pages[b].last
    \/ (c.pages[a].last = c.pages[b].last /\ a < b)

(* compact_ticks: at the end of the clock the pages are numbered anew. *)
ClockRestarted(c) == [c EXCEPT !.clock = 1]     \* mutant: the pages keep their ticks
CompactTicks(c) ==
    [c EXCEPT !.pages = [id \in DOMAIN @ |->
                            [@[id] EXCEPT !.last =
                                Cardinality({o \in DOMAIN c.pages : Before(c, o, id)})]],
              !.clock = Cardinality(DOMAIN c.pages) + 1]

(* next_tick gives c.clock of Timed(c) and leaves Ticked(c) behind. *)
Timed(c) == IF c.clock = MaxTick THEN CompactTicks(c) ELSE c
Ticked(c) == [Timed(c) EXCEPT !.clock = @ + 1]
Newest(pairs, ids, id) == {p \in pairs : p[1] # id} \cup ((ids \ {id}) \X {id})
Touched(c, id) ==
    IF id \notin DOMAIN c.pages THEN Ticked(c)
    ELSE [Ticked(c) EXCEPT !.pages[id].last = Timed(c).clock,
                         !.older = Newest(@, DOMAIN c.pages, id)]

EvictOldest(c) ==
    LET oldest == CHOOSE id \in DOMAIN c.pages :
                      \A o \in DOMAIN c.pages \ {id} : Before(c, id, o)
    IN  [c EXCEPT !.pages = Uncached(c, oldest), !.used = @ - Charge(c.pages[oldest].entries),
                  !.older = {p \in @ : oldest \notin {p[1], p[2]}}]
Making(room, turn) ==
    IF room.cache.used + room.charge > CacheBudget
    THEN [room EXCEPT !.cache = EvictOldest(@)] ELSE room
Shrunk(c, charge) ==
    LET turns == [i \in 1 .. Cardinality(DOMAIN c.pages) |-> i]
    IN  FoldLeft(Making, [cache |-> c, charge |-> charge], turns).cache

(* insert of a page that is not there. *)
WithPage(c, id, entries) ==
    [Ticked(c) EXCEPT !.pages = [p \in DOMAIN @ \cup {id} |->
                          IF p = id THEN [entries |-> entries, last |-> Timed(c).clock] ELSE @[p]],
                      !.used = @ + Charge(entries),
                      !.older = Newest(@, DOMAIN c.pages, id)]
Inserted(c, id, entries) ==
    IF Charge(entries) > CacheBudget THEN c
    ELSE WithPage(Shrunk(c, Charge(entries)), id, entries)

-----------------------------------------------------------------------------
(* Reading.  A reader r carries the cache and the memo it leaves behind    *)
(* and what it has read; once it has failed it does nothing more.          *)
Reader == [ok |-> TRUE, cache |-> cache, memo |-> memo, read |-> <<>>]

(* table_sections and directory_contains: the cached page, or the file's. *)
WithPageOrFile(r, id, loaded) ==
    IF id \in DOMAIN r.cache.pages THEN r
    ELSE IF loaded.ok THEN [r EXCEPT !.cache = Inserted(@, id, loaded.is)]
    ELSE [r EXCEPT !.ok = FALSE]
WithDirectory(r, unit) ==
    IF ~r.ok THEN r
    ELSE WithPageOrFile([r EXCEPT !.cache = Touched(@, unit.id)], unit.id, LoadDirectory(unit))
DirectoryOf(r, unit) ==
    IF unit.id \in DOMAIN r.cache.pages THEN r.cache.pages[unit.id].entries
    ELSE files[unit.id].entries

(* Sections of a table are met in time order and within their unit's range. *)
InOrder(read, unit, entry) ==
    /\ unit.min <= entry.min /\ entry.max <= unit.max
    /\ \A i \in DOMAIN read : read[i].entry.table = entry.table => read[i].entry.max < entry.min

(* section_bytes and decode of one section. *)
StoredBody(unit, entry) ==
    files[unit.id].bodies[CHOOSE i \in DOMAIN files[unit.id].entries :
                              files[unit.id].entries[i] = entry]
Valid(r, unit) == \/ r.memo[unit.id] = "valid"
                  \/ r.memo[unit.id] = "unchecked" /\ Intact(unit)
Checked(r, unit) ==
    [r EXCEPT !.ok = Valid(r, unit),
              !.memo[unit.id] = IF Valid(r, unit) THEN "valid" ELSE "invalid"]
Decoded(r, unit, entry, body) ==
    IF r.ok /\ body.ok
    THEN [r EXCEPT !.read = Append(@, [unit |-> unit, entry |-> entry, body |-> body.is])]
    ELSE [r EXCEPT !.ok = FALSE]
ReadBody(r, unit, entry) ==
    IF ~r.ok THEN r
    ELSE Decoded(Checked(r, unit), unit, entry, Decode(entry, StoredBody(unit, entry)))
ReadSection(r, unit, entry) ==
    IF ~r.ok \/ ~InOrder(r.read, unit, entry) THEN [r EXCEPT !.ok = FALSE]
    ELSE ReadBody(WithDirectory(r, unit), unit, entry)

(* select_table, and each of the entries, of a unit and of a table.        *)
Listed(unit, table, directory) ==
    [i \in DOMAIN directory |-> [unit |-> unit, table |-> table, entry |-> directory[i]]]
ReadListed(r, of) ==
    IF of.entry.table = of.table THEN ReadSection(r, of.unit, of.entry) ELSE r
ReadDirectory(r, unit, table) ==
    IF r.ok THEN FoldLeft(ReadListed, r, Listed(unit, table, DirectoryOf(r, unit))) ELSE r
ReadUnit(r, of) == ReadDirectory(WithDirectory(r, of.unit), of.unit, of.table)
ReadTable(r, of) ==
    FoldLeft(ReadUnit, r, [i \in DOMAIN of.run |-> [unit |-> of.run[i], table |-> of.table]])
ReadAll(run) ==
    FoldLeft(ReadTable, Reader, [i \in DOMAIN TableSeq |-> [run |-> run, table |-> TableSeq[i]]])

RowsOf(body) ==
    [i \in DOMAIN body.times |->
        [at |-> body.times[i],
         facts |-> {s \in DOMAIN body.columns : body.columns[s][i] # Absent}]]

-----------------------------------------------------------------------------
(* Compaction copies rows one by one into a section buffer.                *)
NewBuffer(item) ==
    [table |-> item.entry.table, version |-> item.entry.version, times |-> <<>>, columns |-> <<>>]
Present(body, i) == {s \in DOMAIN body.columns : body.columns[s][i] # Absent}

RoomForOwnStreams(b, body, i) ==       \* mutant: the buffer's other columns are not charged
    LET present == Present(body, i)
        rows == Len(b.times) + 1
    IN  /\ rows <= MaxSectionRows
        /\ WorkingSet(rows, Cardinality(present),
                      Facts(b.columns) + Cardinality(present)) <= WorkingBytes
CanAccept(b, body, i) ==
    LET present == Present(body, i)
        rows == Len(b.times) + 1
    IN  /\ rows <= MaxSectionRows
        /\ WorkingSet(rows, Cardinality(DOMAIN b.columns \cup present),
                      Facts(b.columns) + Cardinality(present)) <= WorkingBytes

(* A column met for the first time is filled up with absent cells, and     *)
(* columns the row has no cell in get one too.                             *)
Push(b, body, i) ==
    LET present == Present(body, i)
    IN  [b EXCEPT !.times = Append(@, body.times[i]),
                  !.columns =
                      [s \in DOMAIN @ \cup present |->
                          Append(IF s \in DOMAIN @ THEN @[s] ELSE [j \in DOMAIN b.times |-> Absent],
                                 IF s \in present THEN body.columns[s][i] ELSE Absent)]]

(* m.buffer is empty or holds the one buffer. *)
Flush(m) ==
    IF ~m.ok \/ m.buffer = <<>> THEN m
    ELSE LET b == m.buffer[1]
             body == EncodeBody(b.times, b.columns)
         IN  IF body.ok
             THEN [m EXCEPT !.buffer = <<>>, !.out = Append(@, Section(b.table, b.version, body.is))]
             ELSE [m EXCEPT !.ok = FALSE]
Continues(m, item, i) ==
    m.buffer # <<>> => /\ m.buffer[1].table = item.entry.table
                       /\ m.buffer[1].version = item.entry.version
                       /\ CanAccept(m.buffer[1], item.body, i)
Buffered(m, item, i) ==
    LET buffer == IF m.buffer = <<>> THEN NewBuffer(item) ELSE m.buffer[1]
    IN  IF ~m.ok \/ ~CanAccept(buffer, item.body, i) THEN [m EXCEPT !.ok = FALSE]
        ELSE [m EXCEPT !.buffer = <<Push(buffer, item.body, i)>>]
AppendRow(m, item, i) ==
    Buffered(IF Continues(m, item, i) THEN m ELSE Flush(m), item, i)
AppendSection(m, item) ==
    FoldLeftDomain(LAMBDA s, i : AppendRow(s, item, i), m, item.body.times)
MergedSections(read) ==
    Flush(FoldLeft(AppendSection, [ok |-> TRUE, buffer |-> <<>>, out |-> <<>>], read))

(* Everything the MANIFEST says of the inputs has been seen. *)
AllSeen(read, run) ==
    \A i \in DOMAIN run :
        LET ofUnit == SelectSeq(read, LAMBDA item : item.unit = run[i])
        IN  Len(ofUnit) = run[i].sections /\ Total(Entries(ofUnit)) = run[i].rows

Outcome(r, merged, run) ==
    [reader |-> r, out |-> merged.out, ok |-> r.ok /\ merged.ok /\ AllSeen(r.read, run)]
MergeRead(r, run) == Outcome(r, MergedSections(r.read), run)
Merge(run) == MergeRead(ReadAll(run), run)

-----------------------------------------------------------------------------
Init ==
    /\ tail = [t \in Tables |-> <<>>]
    /\ version = [t \in Tables |-> 1]
    /\ sealed = [t \in Tables |-> <<>>]
    /\ units = <<>> /\ files = <<>> /\ damage = <<>> /\ memo = <<>>
    /\ cache = NewCache
    /\ clock = 0 /\ open = TRUE /\ reopens = 0

AppendTo(table) ==
    /\ open
    /\ clock < MaxRows
    /\ \E facts \in {kind[2] : kind \in {k \in RowKinds : k[1] = table}} :
           tail' = [tail EXCEPT ![table] =
                       Append(@, [at |-> clock + 1, version |-> version[table], facts |-> facts])]
    /\ clock' = clock + 1
    /\ UNCHANGED <<version, source, files, damage, cache, open, reopens, sealed>>

NewVersion(table) ==
    /\ open
    /\ version[table] < MaxVersions[table]
    /\ version' = [version EXCEPT ![table] = @ + 1]
    /\ UNCHANGED <<tail, clock, source, files, damage, cache, open, reopens, sealed>>

(* reopen: the new source has verified nothing yet. *)
Install(live) ==
    /\ \E order \in [1 .. Cardinality(live) -> live] :
           /\ \A i, j \in DOMAIN order : i < j =>
                  \/ order[i].min < order[j].min
                  \/ order[i].min = order[j].min /\ order[i].id < order[j].id
           /\ units' = order
    /\ memo' = [id \in {u.id : u \in live} |-> "unchecked"]
NewId == Cardinality(DOMAIN files) + 1
Publish(unit, sections) ==
    /\ files' = [id \in DOMAIN files \cup {unit.id} |->
                    IF id = unit.id THEN [entries |-> Entries(sections),
                                          bodies |-> [i \in DOMAIN sections |-> sections[i].body]]
                    ELSE files[id]]
    /\ damage' = [id \in DOMAIN files' |-> IF id = unit.id THEN "none" ELSE damage[id]]

Seal ==
    /\ open
    /\ \E sections \in {TailSections} :
           /\ Spooled(sections)
           /\ \E unit \in {Meta(NewId, 0, Entries(sections))} :
                  Publish(unit, sections) /\ Install(Range(units) \cup {unit})
    /\ sealed' = [t \in Tables |-> sealed[t] \o tail[t]]
    /\ tail' = [t \in Tables |-> <<>>]
    /\ UNCHANGED <<version, clock, cache, open, reopens>>

(* Neighbours of one level below 2; a merge that fails leaves no file. *)
Mergeable(i, j) ==
    /\ i < j /\ units[i].level < 2
    /\ \A k \in i .. j : units[k].level = units[i].level
Compact(i, j) ==
    /\ open
    /\ Mergeable(i, j)
    /\ \E merge \in {Merge(SubSeq(units, i, j))} :
           /\ cache' = merge.reader.cache
           /\ IF merge.ok /\ Spooled(merge.out)
              THEN \E unit \in {Meta(NewId, units[i].level + 1, Entries(merge.out))} :
                       /\ Publish(unit, merge.out)
                       /\ Install((Range(units) \ {units[k] : k \in i .. j}) \cup {unit})
              ELSE memo' = merge.reader.memo /\ UNCHANGED <<units, files, damage>>
    /\ UNCHANGED <<tail, version, clock, open, reopens, sealed>>

Query(table) ==
    /\ open
    /\ \E r \in {ReadTable(Reader, [run |-> units, table |-> table])} : cache' = r.cache /\ memo' = r.memo
    /\ UNCHANGED <<tail, version, clock, units, files, damage, open, reopens, sealed>>

Close ==
    /\ open /\ reopens < MaxReopens
    /\ clock = MaxRows              \* bound: the rows come before
    /\ open' = FALSE
    /\ UNCHANGED <<tail, version, clock, source, files, damage, cache, reopens, sealed>>

(* with_cache: the files are there and as long as the MANIFEST says. *)
Open ==
    /\ ~open
    /\ open' = TRUE /\ reopens' = reopens + 1
    /\ cache' = NewCache
    /\ memo' = [id \in DOMAIN memo |-> "unchecked"]
    /\ UNCHANGED <<tail, version, clock, units, files, damage, sealed>>

(* The disk changes bytes: of a header or footer, of a payload (its first  *)
(* row may lose a fact), or the table or version of a directory entry.     *)
Damaged == {id \in DOMAIN damage : damage[id] # "none"}
Damage(id) ==
    /\ ~open
    /\ Cardinality(Damaged) < MaxDamage /\ damage[id] = "none"
    /\ \/ damage' = [damage EXCEPT ![id] = "envelope"] /\ UNCHANGED files
       \/ /\ damage' = [damage EXCEPT ![id] = "payload"]
          /\ \E i \in DOMAIN files[id].bodies : \E s \in DOMAIN files[id].bodies[i].columns :
                 files' = [files EXCEPT ![id].bodies[i].columns[s][1] = Absent]
       \/ /\ damage' = [damage EXCEPT ![id] = "directory"]
          /\ \E i \in DOMAIN files[id].entries :
                \/ \E t \in Tables \ {files[id].entries[i].table} :
                      files' = [files EXCEPT ![id].entries[i].table = t]
                \/ \E v \in 1 .. MaxVersions[files[id].entries[i].table] \ {files[id].entries[i].version} :
                      files' = [files EXCEPT ![id].entries[i].version = v]
    /\ UNCHANGED <<tail, version, clock, source, cache, open, reopens, sealed>>

Next ==
    \/ \E table \in Tables : AppendTo(table) \/ NewVersion(table) \/ Query(table)
    \/ Seal \/ Close \/ Open
    \/ \E i, j \in DOMAIN units : Compact(i, j)
    \/ \E id \in DOMAIN memo : Damage(id)

Spec == Init /\ [][Next]_vars

-----------------------------------------------------------------------------
(* What a query of a table answers from the units (without their order in  *)
(* the cache and the memo mattering).                                      *)
RowsRead(r) ==
    [ok |-> r.ok, rows |-> FlattenSeq([i \in DOMAIN r.read |-> RowsOf(r.read[i].body)])]
Answer(table) == RowsRead(ReadTable(Reader, [run |-> units, table |-> table]))
Sealed(table) ==
    [i \in DOMAIN sealed[table] |-> [at |-> sealed[table][i].at, facts |-> sealed[table][i].facts]]

(* Queries of a table give the rows that were sealed, in order, through    *)
(* any cutting and merging of sections, or report corruption, and they     *)
(* report it only when a file is damaged.  A changed directory entry is    *)
(* the one damage that can go unnoticed: its section may be missing from   *)
(* the answer, since load_directory compares the body's checksum without   *)
(* computing it (source.rs), but no row of it is ever wrong.               *)
ReadsExact ==
    open => \A t \in Tables : \A a \in {Answer(t)} :
        LET live == {damage[id] : id \in DOMAIN memo}
        IN  /\ live \subseteq {"none"} => a.ok
            /\ a.ok /\ "directory" \notin live => a.rows = Sealed(t)
            /\ a.ok => \A i \in DOMAIN a.rows : a.rows[i] \in Range(Sealed(t))

(* Whatever sealing and merging wrote, the next merge can read and merge;  *)
(* only the number of sections may forbid it.  With a damaged input it     *)
(* refuses: damage is never merged into a file whose checksum is good.     *)
MergePossible ==
    open => \A i, j \in DOMAIN units : Mergeable(i, j) =>
        LET run == SubSeq(units, i, j)
            merge == Merge(run)
        IN  merge.ok = (\A k \in DOMAIN run : damage[run[k].id] = "none")

(* The cache is what it says: its total is the pages' charges and within   *)
(* the budget, its clock never runs over, the pages are the directories of *)
(* their files, and ticks tell which of two pages was used last, also      *)
(* after the clock was restarted.                                          *)
CacheExact ==
    open =>
        LET ids == DOMAIN cache.pages
        IN  /\ cache.used = Cardinality(UNION {{id} \X (1 .. Charge(cache.pages[id].entries)) : id \in ids})
            /\ cache.used <= CacheBudget /\ cache.clock <= MaxTick
            /\ \A id \in ids :
                   cache.pages[id].entries = files[id].entries /\ cache.pages[id].last < cache.clock
            /\ cache.older = {p \in ids \X ids : p[1] # p[2] /\ Before(cache, p[1], p[2])}
=============================================================================
