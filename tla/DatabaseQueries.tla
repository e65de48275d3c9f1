-------------------------- MODULE DatabaseQueries --------------------------
(***************************************************************************)
(* What a snapshot answers (core/src/query): the units are visited in the  *)
(* order of the MANIFEST, sections that do not follow each other in time   *)
(* are called corrupt, the tail comes last, and a lookup that finds no     *)
(* fact falls back to the retention head.                                  *)
(***************************************************************************)
EXTENDS Database

Corruption == [corrupt |-> TRUE]
Missing == [missing |-> TRUE]
Found(row) == [fact |-> row]

Latest(rows) == CHOOSE r \in rows : \A q \in rows : q.at <= r.at
Newest(units) == CHOOSE u \in units : \A v \in units : v = u \/ Precedes(v, u)
UpTo(rows, at) == {r \in rows : r.at <= at}

TailMeets(s, t, u) ==
    \E r \in s.tables[t].rows : r.at <= Max(Times(Section(u, t)))

(* plan::range and the joins with the tail: the units a scan of a range    *)
(* decodes; where it ends up is the facts in time order, or corruption.    *)
PlannedAfter(s, t, start, end) ==   \* mutant: the first time is left out
    {u \in s.units : LET times == Times(Section(u, t))
                     IN  times # {} /\ Min(times) < end /\ Max(times) > start}
Planned(s, t, start, end) ==
    {u \in s.units : LET times == Times(Section(u, t))
                     IN  times # {} /\ Min(times) < end /\ Max(times) >= start}
Joined(s, t, start, end, planned) ==
    IF \/ ~SectionsOrdered(planned, t)
       \/ planned # {} /\ TailMeets(s, t, Newest(planned))
    THEN Corruption
    ELSE [facts |-> {r \in (UNION {Section(u, t) : u \in planned})
                           \cup s.tables[t].rows : start <= r.at /\ r.at < end}]
Scan(s, t, start, end) == Joined(s, t, start, end, Planned(s, t, start, end))

(* batch::predecessors: from the newest section back to the first one that *)
(* starts at or before `at`; a fact in the tail ends the walk at once.     *)
Visited(reach, recent, hits) ==
    {u \in reach : IF recent # {} THEN u = Newest(reach)
                   ELSE hits = {} \/ u = Newest(hits) \/ Precedes(Newest(hits), u)}
Walk(s, t, at, recent, reach, hits) ==
    IF /\ reach # {}
       /\ \/ TailMeets(s, t, Newest(reach))
          \/ ~SectionsOrdered(Visited(reach, recent, hits), t)
    THEN Corruption
    ELSE IF recent # {} THEN Found(Latest(recent))
    ELSE IF hits # {} THEN Found(Latest(UpTo(Section(Newest(hits), t), at)))
    ELSE Missing
Predecessor(s, t, at) ==
    LET reach == {u \in s.units : Section(u, t) # {} /\ MinTs(u) <= at}
    IN  Walk(s, t, at, UpTo(s.tables[t].rows, at), reach,
             {u \in reach : UpTo(Section(u, t), at) # {}})

(* primitives::value_at_with_heads *)
OrHead(s, t, at, fact) ==
    IF fact = Missing /\ t \in DOMAIN s.heads /\ s.heads[t].at <= at
    THEN Found(s.heads[t]) ELSE fact
ValueAt(s, t, at) == OrHead(s, t, at, Predecessor(s, t, at))

-----------------------------------------------------------------------------
(* The times a snapshot may be asked about: not below the floor. *)
Askable == {at \in Timestamps : at >= catalog.floor}

(* What the rows accepted for a table say. *)
TrueFact(rows, at) == IF UpTo(rows, at) = {} THEN Missing ELSE Found(Latest(UpTo(rows, at)))

(* value_at and latest find the latest row accepted up to that time,       *)
(* whether it is in the tail, in any unit or only in a head by now, of     *)
(* every table whose sections are in line, which they are whatever         *)
(* maintenance did when rows came in turn.  Of a table whose drop a crash  *)
(* has taken back, the head alone may be missing or old.                   *)
LookupsExact ==
    Mirrored => \A t \in DOMAIN tail.tables : \A s \in {Fresh}, rows \in {Logged(t)} :
        InTurn \/ InLine(t) =>
            \A at \in Askable : \/ ValueAt(s, t, at) = TrueFact(rows, at)
                                \/ t \in revived /\ UpTo(Stored(t), at) = {}

(* A scan returns the rows accepted in its range, and each of them; it     *)
(* calls the units corrupt instead only where the table's sections are out *)
(* of order, never when rows came in turn.                                 *)
ScansExact ==
    Mirrored => \A t \in DOMAIN tail.tables : \A s \in {Fresh}, rows \in {Logged(t)} :
        \A start \in Askable, end \in {at + 1 : at \in Timestamps} :
            start < end =>
                Scan(s, t, start, end) \in
                    {[facts |-> {r \in rows : start <= r.at /\ r.at < end}]}
                    \cup (IF InTurn \/ SectionsOrdered(catalog.units, t) THEN {}
                          ELSE {Corruption})

(* A lookup that gives an answer gives the right one, however the tables'  *)
(* clocks relate to one another.                                           *)
LookupsTruthful ==
    Mirrored => \A t \in DOMAIN tail.tables, at \in Askable :
        ValueAt(Fresh, t, at) \in {Corruption, TrueFact(Logged(t), at)}
=============================================================================
