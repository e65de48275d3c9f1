------------------------------- MODULE Codecs -------------------------------
(***************************************************************************)
(* The column codecs of a section (core/src/codec, unit/section.rs,        *)
(* unit/section_decode.rs): second differences and exclusive-ors as        *)
(* predictors, the token stream "NVR", the fixed-width stream, the choice  *)
(* between them, the timestamps and the presence bitmap.  The program has  *)
(* bytes of 8 bits and words of 8 bytes; both sizes are constants here.    *)
(***************************************************************************)
EXTENDS Integers, Sequences, SequencesExt, FiniteSets, FiniteSetsExt, Functions, Bitwise

CONSTANTS
    ByteBits,    \* bits of a byte (8)
    WordBytes,   \* bytes of a UInt or a timestamp (8)
    FloatBytes,  \* bytes of an F32Bits (4)
    Samples,     \* the values written, and
    Moments,     \* the times written
    Alphabet,    \* the bytes a damaged or foreign stream is made of
    MaxCells,    \* bound: rows of a written column
    MaxBytes     \* bound: bytes of a foreign stream

VARIABLES
    task,        \* "column" or "times" is written, a "foreign" stream is read
    input        \* the cells, the times or the bytes

ASSUME CodecSizes == /\ ByteBits \in Nat /\ ByteBits > 4
                     /\ WordBytes \in Nat \ {0} /\ FloatBytes \in 1 .. WordBytes

Radix == 2 ^ ByteBits
Extent == 2 ^ (ByteBits * WordBytes)
WordMax == Extent - 1
TimeMin == -(2 ^ (ByteBits * WordBytes - 1))
TimeMax == 2 ^ (ByteBits * WordBytes - 1) - 1
ValueTypes == {"UInt", "Sq1", "F32Bits"}

(* What a type can say; the last code of an Sq1 means null. *)
Domain(type) == CASE type = "UInt" -> 0 .. WordMax
                  [] type = "Sq1" -> 0 .. Radix - 2
                  [] type = "F32Bits" -> 0 .. 2 ^ (ByteBits * FloatBytes) - 1
                  [] type = "Time" -> TimeMin .. TimeMax

(* A cell is absent from its row, null or a value. *)
Absent == [cell |-> "absent"]
Null == [cell |-> "null"]
Value(n) == [cell |-> "value", n |-> n]

(* A decoder, and an encoder, either refuses or gives a result. *)
Refused == [ok |-> FALSE]
Given(x) == [ok |-> TRUE, is |-> x]

NullsOf(facts) == Len(SelectSeq(facts, LAMBDA f : f = Null))
CeilDiv(n, d) == (n + d - 1) \div d

-----------------------------------------------------------------------------
(* NVR: runs of nulls, runs of zeros and literals, each a tag, a length    *)
(* flag and a little-endian number of as few bytes as possible.            *)
TokenKinds == {"lit", "zero", "null"}
FirstBits(kind) ==
    ByteBits - (CASE kind = "lit" -> 2 [] kind = "zero" -> 3 [] kind = "null" -> 4)
Tag(kind) == CASE kind = "lit" -> 0
               [] kind = "zero" -> Radix \div 2
               [] kind = "null" -> Radix \div 2 + Radix \div 4
Flag(kind) == 2 ^ FirstBits(kind)
Chunk == Radix \div 2
MaxTokenBytes == 1 + CeilDiv(ByteBits * WordBytes - FirstBits("null"), ByteBits - 1)

(* NvrState::observe: the last token is the pending one. *)
Observe(tokens, symbol) ==
    LET kind == IF symbol = Null THEN "null" ELSE IF symbol.n = 0 THEN "zero" ELSE "lit"
        token == [kind |-> kind, n |-> IF kind = "lit" THEN symbol.n ELSE 1]
    IN  IF tokens # <<>> /\ kind # "lit" /\ Last(tokens).kind = kind
        THEN [tokens EXCEPT ![Len(tokens)].n = @ + 1]
        ELSE Append(tokens, token)
Tokens(symbols) == FoldLeft(Observe, <<>>, symbols)

(* token_len, as the measurer adds it up *)
Continued[n \in Nat] == IF n = 0 THEN 0 ELSE 1 + Continued[n \div Chunk]
TokenLen(token) == 1 + Continued[token.n \div Flag(token.kind)]
Measure(symbols) == FoldLeft(LAMBDA sum, t : sum + TokenLen(t), 0, Tokens(symbols))

(* write_token *)
Continuation[n \in Nat] ==
    IF n = 0 THEN <<>>
    ELSE <<(n % Chunk) + (IF n < Chunk THEN 0 ELSE Chunk)>> \o Continuation[n \div Chunk]
WriteToken(token) ==
    LET flag == Flag(token.kind)
    IN  <<Tag(token.kind) + (token.n % flag) + (IF token.n < flag THEN 0 ELSE flag)>>
            \o Continuation[token.n \div flag]
WriteTokens(tokens) == FlattenSeq([i \in DOMAIN tokens |-> WriteToken(tokens[i])])
WriteNvr(symbols) == WriteTokens(Tokens(symbols))

(* parse_token: the kind, number and size of the token at an offset.       *)
KindOf(byte) == IF byte < Chunk THEN {"lit"}
                ELSE IF byte < Tag("null") THEN {"zero"}
                ELSE IF byte < Tag("null") + 2 * Flag("null") THEN {"null"} ELSE {}
ShortestForm(chunks) == Len(chunks) > 1 => Last(chunks) # 0
LongerForm(chunks) == TRUE                  \* mutant: a padded number is taken
Canonical(chunks) == ShortestForm(chunks)
NumberOf(kind, chunks) ==
    LET shift(i) == IF i = 1 THEN 0 ELSE FirstBits(kind) + (i - 2) * (ByteBits - 1)
    IN  FoldLeftDomain(LAMBDA sum, i : sum + chunks[i] * 2 ^ shift(i), 0, chunks)
Token(kind, n, chunks) ==
    IF Len(chunks) > MaxTokenBytes \/ ~Canonical(chunks) \/ n = 0 \/ n > WordMax THEN Refused
    ELSE Given([kind |-> kind, n |-> n, size |-> Len(chunks)])
TokenOf(kind, chunks) == Token(kind, NumberOf(kind, chunks), chunks)
ParseAs(kind, bytes, at) ==
    LET more(i) == IF i = at THEN (bytes[i] \div Flag(kind)) % 2 = 1 ELSE bytes[i] >= Chunk
        ends == {i \in at .. Len(bytes) : ~more(i)}
    IN  IF ends = {} THEN Refused
        ELSE TokenOf(kind, [i \in 1 .. Min(ends) - at + 1 |->
                               bytes[at + i - 1] % (IF i = 1 THEN Flag(kind) ELSE Chunk)])
ParseToken(bytes, at) ==
    LET kinds == KindOf(bytes[at])
    IN  IF kinds = {} THEN Refused ELSE ParseAs(CHOOSE k \in kinds : TRUE, bytes, at)

(* scan_tokens: s is what has been read, and where it goes on. *)
Scanned(s, token) ==
    IF \/ ~token.ok
       \/ /\ s.is # <<>> /\ token.is.kind # "lit"
          /\ Last(s.is).kind = token.is.kind
    THEN [s EXCEPT !.ok = FALSE]
    ELSE [s EXCEPT !.is = Append(@, token.is), !.at = @ + token.is.size]
ScanTokens(bytes) ==
    FoldLeft(LAMBDA s, i : IF ~s.ok \/ i < s.at THEN s ELSE Scanned(s, ParseToken(bytes, i)),
             [ok |-> bytes # <<>>, is |-> <<>>, at |-> 1], [i \in DOMAIN bytes |-> i])

Symbol(token) == IF token.kind = "null" THEN Null
                 ELSE IF token.kind = "zero" THEN Value(0) ELSE Value(token.n)
Represented(token) == IF token.kind = "lit" THEN 1 ELSE token.n

(* nvr::decode: the counts are checked before anything is expanded. *)
CountOf(tokens, kinds) ==
    FoldLeft(LAMBDA sum, t : IF t.kind \in kinds THEN sum + Represented(t) ELSE sum, 0, tokens)
Expanded(tokens) ==
    FlattenSeq([i \in DOMAIN tokens |->
        [j \in 1 .. Represented(tokens[i]) |-> Symbol(tokens[i])]])
DecodeTokens(tokens, mayBeNull, facts, nulls) ==
    IF \/ facts = 0 \/ nulls > facts \/ ~tokens.ok
       \/ CountOf(tokens.is, TokenKinds) # facts \/ CountOf(tokens.is, {"null"}) # nulls
       \/ ~mayBeNull /\ nulls > 0
    THEN Refused
    ELSE Given(Expanded(tokens.is))
DecodeNvr(bytes, mayBeNull, facts, nulls) ==
    DecodeTokens(ScanTokens(bytes), mayBeNull, facts, nulls)

-----------------------------------------------------------------------------
(* Predictors: second differences, and exclusive-or for F32Bits.  "seen"   *)
(* is what was observed before, without the nulls.                         *)
Zigzag(v) == IF v >= 0 THEN 2 * v ELSE -2 * v - 1
Unzigzag(e) == IF e % 2 = 0 THEN e \div 2 ELSE -(e \div 2) - 1

(* The value that repeats the last difference. *)
Expected(seen) == CASE seen = <<>> -> 0
                    [] Len(seen) = 1 -> Last(seen)
                    [] OTHER -> 2 * Last(seen) - seen[Len(seen) - 1]

Encoded(type, seen, v) ==
    CASE type = "F32Bits" -> IF seen = <<>> THEN v ELSE Last(seen) ^^ v
      [] type # "F32Bits" /\ type # "Time" /\ seen = <<>> -> v
      [] OTHER -> Zigzag(v - Expected(seen))
Decoded(type, seen, e) ==
    CASE type = "F32Bits" -> IF seen = <<>> THEN e ELSE Last(seen) ^^ e
      [] type # "F32Bits" /\ type # "Time" /\ seen = <<>> -> e
      [] OTHER -> Unzigzag(e) + Expected(seen)

(* Once a difference does not fit a word NVR is no candidate any more. *)
Extended(s, ok, observed, result) ==
    [ok |-> ok, seen |-> Append(s.seen, observed), is |-> Append(s.is, Value(result))]
Predicted(s, e, v) == Extended(s, e <= WordMax, v, e)
Predict(type, facts) ==
    FoldLeft(LAMBDA s, fact :
                 IF ~s.ok \/ fact = Null THEN [s EXCEPT !.is = Append(@, Null)]
                 ELSE Predicted(s, Encoded(type, s.seen, fact.n), fact.n),
             [ok |-> TRUE, seen |-> <<>>, is |-> <<>>], facts)

Restored(s, type, v) == Extended(s, v \in Domain(type), v, v)
Reconstruct(type, symbols) ==
    FoldLeft(LAMBDA s, symbol :
                 IF ~s.ok \/ symbol = Null THEN [s EXCEPT !.is = Append(@, Null)]
                 ELSE IF type = "F32Bits" /\ symbol.n \notin Domain(type)
                 THEN [s EXCEPT !.ok = FALSE]
                 ELSE Restored(s, type, Decoded(type, s.seen, symbol.n)),
             [ok |-> TRUE, seen |-> <<>>, is |-> <<>>], symbols)

-----------------------------------------------------------------------------
(* Bitmaps and fixed-width streams. *)
BitAt(bytes, i) == (bytes[1 + ((i - 1) \div ByteBits)] \div 2 ^ ((i - 1) % ByteBits)) % 2 = 1
Bitmap(flags) ==
    [b \in 1 .. CeilDiv(Len(flags), ByteBits) |->
        SumSet({2 ^ k : k \in {k \in 0 .. ByteBits - 1 :
                    LET i == (b - 1) * ByteBits + k + 1 IN i <= Len(flags) /\ flags[i]}})]
BitmapFits(bytes, bits, ones) ==
    /\ Len(bytes) = CeilDiv(bits, ByteBits)
    /\ \A i \in bits + 1 .. ByteBits * Len(bytes) : ~BitAt(bytes, i)
    /\ Cardinality({i \in 1 .. bits : BitAt(bytes, i)}) = ones

Widths == {w \in 1 .. WordBytes : \E k \in 0 .. w : w = 2 ^ k}
Narrowest(n) == Min({w \in Widths : n < 2 ^ (ByteBits * w)})
NarrowestOrLess(n) == Min({w \in Widths : n <= 2 ^ (ByteBits * w)})   \* mutant: the first number too wide
MinimumWidth(n) == Narrowest(n)
ValuesOf(facts) == SelectSeq(facts, LAMBDA f : f # Null)
Width(type, facts) ==
    CASE type = "UInt" -> MinimumWidth(Max({0} \cup {f.n : f \in Range(ValuesOf(facts))}))
      [] type = "Sq1" -> 1
      [] type = "F32Bits" -> FloatBytes
FixedLen(type, width, facts, nulls) ==
    (facts - nulls) * width + (IF type = "UInt" THEN 1 ELSE 0)
        + (IF nulls = 0 THEN 0 ELSE CeilDiv(facts, ByteBits))

LittleEndian(n, width) == [i \in 1 .. width |-> (n \div Radix ^ (i - 1)) % Radix]
FromLittleEndian(bytes) ==
    FoldLeftDomain(LAMBDA sum, i : sum + bytes[i] * Radix ^ (i - 1), 0, bytes)

Slice(bytes, first, last) == SubSeq(bytes, first, Min({last, Len(bytes)}))

WriteFixed(type, width, facts, values) ==
    (IF type = "UInt" THEN <<width>> ELSE <<>>)
        \o (IF NullsOf(facts) = 0 THEN <<>>
            ELSE Bitmap([i \in DOMAIN facts |-> facts[i] = Null]))
        \o FlattenSeq([i \in DOMAIN values |-> LittleEndian(values[i].n, width)])
EncodeFixed(type, facts) == WriteFixed(type, Width(type, facts), facts, ValuesOf(facts))

HeaderLen(type) == IF type = "UInt" THEN 1 ELSE 0
BitmapOf(type, bytes, facts, nulls) ==
    IF nulls = 0 THEN <<>>
    ELSE Slice(bytes, HeaderLen(type) + 1, HeaderLen(type) + CeilDiv(facts, ByteBits))
ReadFixed(type, width, bitmap, bytes, facts) ==
    LET isNull(i) == bitmap # <<>> /\ BitAt(bitmap, i)
        at(i) == HeaderLen(type) + Len(bitmap)
                     + width * Cardinality({j \in 1 .. i - 1 : ~isNull(j)})
    IN  [i \in 1 .. facts |->
            IF isNull(i) THEN Null
            ELSE Value(FromLittleEndian(SubSeq(bytes, at(i) + 1, at(i) + width)))]
(* The values of a stream of the right length, if they belong to the type. *)
Admitted(type, width, values) ==
    IF \/ \E f \in Range(ValuesOf(values)) : f.n \notin Domain(type)
       \/ width # Width(type, values)
    THEN Refused ELSE Given(values)
DecodeWith(type, width, bitmap, bytes, facts, nulls) ==
    IF \/ Len(bytes) # FixedLen(type, width, facts, nulls)
       \/ nulls # 0 /\ ~BitmapFits(bitmap, facts, nulls)
    THEN Refused ELSE Admitted(type, width, ReadFixed(type, width, bitmap, bytes, facts))
DecodeFixed(type, bytes, facts, nulls) ==
    LET widths == CASE type = "UInt" -> Widths \cap Range(Slice(bytes, 1, 1))
                    [] type = "Sq1" -> {1}
                    [] type = "F32Bits" -> {FloatBytes}
    IN  IF facts = 0 \/ nulls > facts \/ widths = {} THEN Refused
        ELSE DecodeWith(type, CHOOSE w \in widths : TRUE, BitmapOf(type, bytes, facts, nulls),
                        bytes, facts, nulls)

-----------------------------------------------------------------------------
(* The choice: NVR where it is available and shorter. *)
Shorter(symbols, fixedLen) ==
    IF symbols.ok /\ Measure(symbols.is) < fixedLen THEN "nvr" ELSE "fixed"
Select(type, facts, fixedLen) == Shorter(Predict(type, facts), fixedLen)

(* An encoder that does not write what it measured refuses. *)
Written(bytes, measured) == IF Len(bytes) = measured THEN Given(bytes) ELSE Refused
EncodeSymbols(symbols) == Written(WriteNvr(symbols), Measure(symbols))
EncodeNvr(type, facts) == EncodeSymbols(Predict(type, facts).is)
EncodeValues(type, encoding, facts) ==
    IF encoding = "nvr" THEN EncodeNvr(type, facts) ELSE Given(EncodeFixed(type, facts))

Complete(values) == IF values.ok THEN Given(values.is) ELSE Refused
Values(type, symbols) ==
    IF ~symbols.ok THEN Refused ELSE Complete(Reconstruct(type, symbols.is))
DecodeValues(type, encoding, bytes, facts, nulls) ==
    IF encoding = "fixed" THEN DecodeFixed(type, bytes, facts, nulls)
    ELSE Values(type, DecodeNvr(bytes, TRUE, facts, nulls))

(* Presence: no bytes where every row has a fact. *)
EncodePresence(flags) ==
    IF \A i \in DOMAIN flags : flags[i] THEN [encoding |-> "all", bytes |-> <<>>]
    ELSE [encoding |-> "bitmap", bytes |-> Bitmap(flags)]
DecodePresence(encoding, bytes, rows, facts) ==
    IF \/ rows = 0 \/ facts > rows
       \/ encoding = "all" /\ (bytes # <<>> \/ facts # rows)
       \/ encoding = "bitmap" /\ ~BitmapFits(bytes, rows, facts)
    THEN Refused
    ELSE Given([i \in 1 .. rows |-> encoding = "all" \/ BitAt(bytes, i)])

FactsOf(cells) == SelectSeq(cells, LAMBDA c : c # Absent)
Column(cells, facts, encoding, values) ==
    IF ~values.ok THEN Refused
    ELSE Given([presence |-> EncodePresence([i \in DOMAIN cells |-> cells[i] # Absent]),
                encoding |-> encoding, values |-> values.is,
                valueCount |-> Len(facts) - NullsOf(facts), nullCount |-> NullsOf(facts)])
EncodeAs(type, encoding, cells, facts) ==
    Column(cells, facts, encoding, EncodeValues(type, encoding, facts))
EncodeFacts(type, cells, facts) ==
    IF facts = <<>> THEN Refused
    ELSE EncodeAs(type, Select(type, facts, FixedLen(type, Width(type, facts), Len(facts),
                                                     NullsOf(facts))), cells, facts)
EncodeColumn(type, cells) == EncodeFacts(type, cells, FactsOf(cells))

(* scatter *)
Scattered(presence, facts) ==
    IF ~presence.ok \/ ~facts.ok THEN Refused
    ELSE Given([i \in DOMAIN presence.is |->
                   IF presence.is[i] THEN facts.is[Cardinality({j \in 1 .. i : presence.is[j]})]
                   ELSE Absent])
DecodeColumn(type, rows, column) ==
    LET count == column.valueCount + column.nullCount
    IN  Scattered(
            DecodePresence(column.presence.encoding, column.presence.bytes, rows, count),
            DecodeValues(type, column.encoding, column.values, count, column.nullCount))

-----------------------------------------------------------------------------
(* Timestamps: strictly increasing, their range in the directory. *)
Increasing(times) == \A i \in 1 .. Len(times) - 1 : times[i] < times[i + 1]
AsFacts(times) == [i \in DOMAIN times |-> Value(times[i])]

EncodeFixedTimes(times) ==
    FlattenSeq([i \in DOMAIN times |-> LittleEndian(times[i] % Extent, WordBytes)])
NvrTimes(bytes) ==
    IF bytes.ok THEN Given([encoding |-> "nvr", bytes |-> bytes.is]) ELSE Refused
EncodeTimes(times) ==
    IF times = <<>> \/ ~Increasing(times) THEN Refused
    ELSE IF Select("Time", AsFacts(times), WordBytes * Len(times)) = "nvr"
    THEN NvrTimes(EncodeNvr("Time", AsFacts(times)))
    ELSE Given([encoding |-> "fixed", bytes |-> EncodeFixedTimes(times)])

FixedTimes(bytes) ==
    [i \in 1 .. Len(bytes) \div WordBytes |->
        LET n == FromLittleEndian(SubSeq(bytes, (i - 1) * WordBytes + 1, i * WordBytes))
        IN  IF n > TimeMax THEN n - Extent ELSE n]
TimesOf(values) ==
    IF values.ok THEN Given([i \in DOMAIN values.is |-> values.is[i].n]) ELSE Refused
DecodedTimes(encoding, bytes, rows) ==
    IF encoding = "fixed"
    THEN IF Len(bytes) = WordBytes * rows THEN Given(FixedTimes(bytes)) ELSE Refused
    ELSE TimesOf(Values("Time", DecodeNvr(bytes, FALSE, rows, 0)))
Ranged(times, first, last) ==
    IF \/ ~times.ok
       \/ Head(times.is) # first \/ Last(times.is) # last \/ ~Increasing(times.is)
    THEN Refused ELSE times
DecodeTimes(encoding, bytes, rows, first, last) ==
    IF rows = 0 THEN Refused ELSE Ranged(DecodedTimes(encoding, bytes, rows), first, last)

-----------------------------------------------------------------------------
(* A column or a series of times is written cell by cell; a foreign stream *)
(* is any string over the alphabet, whatever directory describes it.       *)
Init == task \in ValueTypes \cup {"Time", "foreign"} /\ input = <<>>

Grow(x) == input' = Append(input, x) /\ UNCHANGED task

WriteCell ==
    /\ task \in ValueTypes
    /\ Len(input) < MaxCells
    /\ \/ Grow(Absent)
       \/ Grow(Null)
       \/ \E n \in Samples \cap Domain(task) : Grow(Value(n))
WriteTime ==
    /\ task = "Time"
    /\ Len(input) < MaxCells
    /\ \E t \in Moments \cap Domain(task) : Increasing(Append(input, t)) /\ Grow(t)
ForeignByte ==
    /\ task = "foreign"
    /\ Len(input) < MaxBytes
    /\ \E byte \in Alphabet : Grow(byte)

Next == WriteCell \/ WriteTime \/ ForeignByte
Spec == Init /\ [][Next]_<<task, input>>

-----------------------------------------------------------------------------
(* Whatever rows a section holds, its encoder does not refuse them, its    *)
(* decoder gives back the same cells and times, and no stream is longer    *)
(* than the fixed form (select, encode and decode of selector.rs and       *)
(* timestamp.rs, decode_column of section_decode.rs).                      *)
RoundTrip ==
    /\ task \in ValueTypes /\ (\E i \in DOMAIN input : input[i] # Absent) =>
           \A column \in {EncodeColumn(task, input)} :
               /\ column.ok
               /\ DecodeColumn(task, Len(input), column.is) = Given(input)
               /\ Len(column.is.values) <= Len(EncodeFixed(task, FactsOf(input)))
    /\ task = "Time" /\ input # <<>> =>
           \A times \in {EncodeTimes(input)} :
               /\ times.ok
               /\ DecodeTimes(times.is.encoding, times.is.bytes, Len(input),
                              Head(input), Last(input)) = Given(input)
               /\ Len(times.is.bytes) <= WordBytes * Len(input)

(* A stream the decoders accept is the one their encoder writes for the    *)
(* same rows, so no two byte strings of an encoding mean the same rows     *)
(* (parse_token and scan_tokens of nvr_decode.rs, decode of fixed_decode.rs *)
(* and presence.rs).                                                       *)
OnlyCanonical ==
    task = "foreign" =>
        \A rows \in 1 .. MaxCells :
            /\ \A type \in ValueTypes, encoding \in {"fixed", "nvr"}, nulls \in 0 .. rows :
                   \A facts \in {DecodeValues(type, encoding, input, rows, nulls)} :
                       facts.ok => EncodeValues(type, encoding, facts.is) = Given(input)
            /\ \A encoding \in {"fixed", "nvr"} :
                   \A times \in {DecodedTimes(encoding, input, rows)} :
                       times.ok /\ Increasing(times.is) =>
                           IF encoding = "fixed" THEN EncodeFixedTimes(times.is) = input
                           ELSE EncodeNvr("Time", AsFacts(times.is)) = Given(input)
            /\ \A ones \in 0 .. rows :
                   \A flags \in {DecodePresence("bitmap", input, rows, ones)} :
                       flags.ok => Bitmap(flags.is) = input
=============================================================================
