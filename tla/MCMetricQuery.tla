--------------------------- MODULE MCMetricQuery ---------------------------
(* Blocks, configurations and queries for MetricQuery.  Segments are cut   *)
(* at SegmentSpan 200.  In the raw block the entries of the index begin    *)
(* right behind the previous one, after padding, and after padding from an *)
(* odd start, and sections end before, at and behind a multiple of 16.     *)
(* Records lie at the start, at the end and in the middle of pages; one    *)
(* segment fills its last page, the other does not.                        *)
EXTENDS MetricQuery

Symbols == <<"__name__", "up", "requests_total", "zone", "a", "b", "pod">>
Up == <<0, 1>>
Requests == <<0, 2>>
Zone(v) == <<3, v>>
Pod == <<6, 4>>

Entry(at, head, size, labels, chunks) ==
    [at |-> at, head |-> head, size |-> size, sound |-> TRUE, labels |-> labels, chunks |-> chunks, rest |-> 0]
ChunkMeta(delta, duration, step) == [delta |-> delta, duration |-> duration, step |-> step]
IndexFile(start, end, entries) ==
    [sound |-> TRUE, version |-> 2, start |-> start, end |-> end, toc |-> end + 40,
     symbols |-> Symbols, entries |-> entries]

\* The data of an XOR chunk: the first and the last timestamp, and what is added
\* to each for the value; or, in a slot of an aggregate, one number.
Padded(data, size) == data \o [i \in 1..(size - Len(data)) |-> 0]
Uvarint(n) == IF n < 128 THEN <<n>> ELSE <<128 + (n % 128), n \div 128>>
Raws == {<<8, 16, 0, 2>>, <<8, 16, 1, 4>>, <<30, 11, 3, 5>>, <<30, 5, 0, 3>>}
RawData(p) == Padded(<<p[3], p[4], p[1]>>, p[2])
Sampled(n) == {<<0, n>>, <<5, n + 1>>}
MCXorSamples ==
    [d \in {RawData(p) : p \in Raws} |-> {<<t, d[3] + t>> : t \in d[1]..d[2]}]
    @@ [d \in {<<n>> : n \in 1..7} \cup {Padded(<<7>>, 130)} |-> Sampled(d[1])]

RecordOf(at, encoding, payload, slots) ==
    [at |-> at, head |-> Len(Uvarint(Len(payload))), sound |-> TRUE, encoding |-> encoding,
     payload |-> payload, slots |-> slots]
Xor(at, head, size, from, to) ==
    [RecordOf(at, ENCODING_XOR, RawData(<<at, size, from, to>>), <<>>) EXCEPT !.head = head]
Content(encoding, data) == [head |-> Uvarint(Len(data)), content |-> <<encoding>> \o data]
Empty == [head |-> <<0>>, content |-> <<>>]
Full(n) == Content(ENCODING_XOR, <<n>>)
Long(n) == Content(ENCODING_XOR, Padded(<<n>>, 130))
Foul(n) == Content(ENCODING_HISTOGRAM, <<n>>)
Payload(slots) == FlattenSeq([i \in DOMAIN slots |-> Written(slots[i])])
Aggregate(at, slots) == RecordOf(at, ENCODING_AGGR, Payload(slots), slots)
Segment(length, records) == [length |-> length, records |-> records]

Block(ulid, repository, resolution, prometheus, file, segments) ==
    [ulid |-> ulid, repository |-> repository, resolution |-> resolution,
     external |-> [prometheus |-> prometheus], index |-> file, segments |-> segments]

RawIndex == IndexFile(10, 84,
    {Entry(16, 1, 10, <<Up, Zone(4)>>, <<ChunkMeta(0, 2, 8), ChunkMeta(1, 2, 22)>>),
     Entry(32, 1, 27, <<Up>>, <<ChunkMeta(1, 3, 208)>>),
     Entry(64, 2, 14, <<Requests, Zone(5)>>, <<ChunkMeta(0, 3, 230)>>)})
RawSegments == <<Segment(48, {Xor(8, 1, 16, 0, 2), Xor(30, 2, 11, 3, 5)}),
                 Segment(41, {Xor(8, 1, 16, 1, 4), Xor(30, 1, 5, 0, 3)})>>
Raw == Block(1, "one", 0, "p1", RawIndex, RawSegments)

\* A downsampled block of the second repository: a gauge, and a counter one of
\* whose chunks has no counter, behind a slot whose length takes two bytes.
Downsampled == Block(2, "two", 5, "p2", IndexFile(16, 56,
    {Entry(16, 1, 10, <<Up>>, <<ChunkMeta(0, 5, 8)>>),
     Entry(32, 1, 19, <<Requests, Zone(4)>>, <<ChunkMeta(0, 5, 28), ChunkMeta(0, 2, 18)>>)}),
    <<Segment(190, {Aggregate(8, <<Full(1), Full(2), Full(3), Full(4), Empty>>),
                    Aggregate(28, <<Full(5), Empty, Empty, Empty, Full(6)>>),
                    Aggregate(46, <<Long(7), Empty, Empty, Empty, Empty>>)})>>)

\* A block that was deleted after it was indexed.
Deleted == Block(3, "one", 0, "p1",
    IndexFile(16, 31, {Entry(16, 1, 10, <<Up, Zone(5), Pod>>, <<ChunkMeta(6, 2, 8)>>)}), <<>>)

\* A row of a repository that the reader was configured with earlier.
Leftover ==
    [repository |-> "old", path |-> <<9, 1>>, offset |-> 8, mint |-> 0, maxt |-> 3,
     resolution |-> 0, metric |-> "requests_total", labels |-> [__name__ |-> "requests_total", zone |-> "a"]]

Setup(blocks, leftover, size) ==
    [blocks |-> blocks, repositories |-> {"one", "two"}, leftover |-> leftover, others |-> {}, pageSize |-> size]

\* Rows of blocks of a configured repository that are not indexed any more: one
\* is too old, and its segments are still there, one is deleted.
Old ==
    <<[repository |-> "one", path |-> <<8, 1>>, offset |-> 8, mint |-> 0, maxt |-> 2, resolution |-> 0,
       metric |-> "requests_total", labels |-> [__name__ |-> "requests_total", zone |-> "a", pod |-> "b"]],
      [repository |-> "one", path |-> <<7, 1>>, offset |-> 8, mint |-> 3, maxt |-> 6, resolution |-> 0,
       metric |-> "down", labels |-> [__name__ |-> "down"]],
      [repository |-> "one", path |-> <<7, 1>>, offset |-> 30, mint |-> 3, maxt |-> 6, resolution |-> 0,
       metric |-> "requests_total", labels |-> [__name__ |-> "requests_total"]]>>
OldFiles == {[ulid |-> 8, segments |-> <<Segment(30, {Xor(8, 1, 16, 0, 2)})>>]}

Sound ==
    {Setup(<<Raw>>, <<>>, n) : n \in {0, 4, 8}}
    \cup {Setup(<<Raw, Downsampled>>, <<>>, 64), Setup(<<Deleted, Raw>>, <<>>, 64),
          Setup(<<Raw>>, <<Leftover>>, 64)}
    \cup {[Setup(<<Raw>>, old, 8) EXCEPT !.others = OldFiles] : old \in {Old, <<Old[1]>>}}

\* Records that are damaged, of an encoding a table does not show, or of a payload
\* with a right checksum that ends in a slot or before one, says no length, goes
\* on behind the fifth slot, or is no XOR chunk.
OddPayloads ==
    {Written(Full(1)), Payload(<<Full(1), Empty, Empty, Empty>>) \o <<3, 1, 5>>,
     Payload(<<Full(1), Empty, Empty, Empty, Full(2)>>) \o <<0>>,
     <<0, 0>> \o [i \in 1..6 |-> 130], Payload(<<Empty, Empty, Empty, Empty, Content(ENCODING_XOR, <<9>>)>>)}
OddRecords ==
    {[Xor(8, 1, 16, 0, 2) EXCEPT !.sound = FALSE], [Xor(8, 1, 16, 0, 2) EXCEPT !.encoding = ENCODING_HISTOGRAM],
     [Xor(8, 1, 16, 0, 2) EXCEPT !.payload = Padded(<<2, 0>>, 16)]}
    \cup {Aggregate(8, s) : s \in {<<Foul(1), Empty, Empty, Empty, Full(2)>>,
                                   <<Full(1), Empty, Empty, Empty, Foul(2)>>}}
    \cup {RecordOf(8, ENCODING_AGGR, p, <<>>) : p \in OddPayloads}
OddSegments ==
    {Segment(48, {r, Xor(30, 2, 11, 3, 5)}) : r \in OddRecords}
    \cup {Segment(46, {Xor(8, 1, 16, 0, 2), [Xor(30, 2, 11, 3, 5) EXCEPT !.sound = FALSE]})}
OddBlocks == {[Raw EXCEPT !.segments[1] = s] : s \in OddSegments}

\* Indexes that are damaged, or that no table can be made of.
First == Entry(16, 1, 10, <<Up>>, <<ChunkMeta(0, 2, 8)>>)
OddEntries ==
    {[First EXCEPT !.sound = FALSE], [First EXCEPT !.size = 12], [First EXCEPT !.rest = 1],
     [First EXCEPT !.labels = <<Up, Zone(7)>>], [First EXCEPT !.labels = <<Up, Requests>>],
     [First EXCEPT !.labels = <<Zone(4)>>], [First EXCEPT !.chunks = <<>>],
     [First EXCEPT !.chunks = <<ChunkMeta(0, 2, 8), ChunkMeta(1, 1, 0)>>],
     [First EXCEPT !.chunks = <<ChunkMeta(0, 2, 8), ChunkMeta(0, 1, -9)>>],
     [First EXCEPT !.chunks = <<ChunkMeta(0, 2, 8), ChunkMeta(9, 9, 1)>>],
     [First EXCEPT !.chunks = <<ChunkMeta(-3, 0, 8), ChunkMeta(16, 0, 1)>>],
     [First EXCEPT !.chunks = <<ChunkMeta(-3, 9, 8), ChunkMeta(0, 1, 30)>>]}
OddIndexes ==
    {IndexFile(16, 31, {e}) : e \in OddEntries}
    \cup {[IndexFile(16, 31, {First}) EXCEPT !.version = 3], [IndexFile(16, 31, {First}) EXCEPT !.sound = FALSE],
          [IndexFile(16, 31, {First}) EXCEPT !.start = 32], IndexFile(16, 16, {}),
          IndexFile(16, 32, {[First EXCEPT !.size = 11]})}

FewBlocks ==
    {Setup(<<b>>, <<>>, 16) : b \in OddBlocks \cup {[Raw EXCEPT !.index = i] : i \in OddIndexes}}
AllSetups == Sound \cup FewBlocks

Condition(column, operator, value) ==
    [column |-> column, operator |-> operator, value |-> value,
     flipped |-> FALSE, literal |-> "scalar", narrowed |-> FALSE]
Flipped(c) == [c EXCEPT !.flipped = TRUE]
Foreign(c) == [c EXCEPT !.literal = "foreign"]
Narrowed(c) == [c EXCEPT !.narrowed = TRUE]
At(operator, t) == Condition("timestamp", operator, t)
Every(operator, n) == Condition("downsample_resolution", operator, n)
Where(name, operator, values) == Condition(name, operator, values)

Times == {At(o, t) : o \in {"=", "<", "<=", ">", ">="}, t \in {0, 2, 3, 5}}
Others ==
    {Every("=", 0), Every("!=", 0), Every(">", 0), Every("<=", 5), Flipped(Every("distinct", 0))}
    \cup {Where("zone", o, {v}) : o \in {"=", "!="}, v \in {"a", ""}}
    \cup {Where("zone", o, {"a", "b"}) : o \in {"~", "!~", "in", "<"}}
    \cup {Where("prometheus", "=", {"p1"}), Where("zone", "distinct", {"a"})}
    \cup {Condition("value", ">", 33)}
Reversed ==
    {Flipped(c) : c \in {e \in Times : e.value \in {2, 3}}}
    \cup {Flipped(c) : c \in {e \in Others : e.column \in {"downsample_resolution", "value"}}}
    \cup {Flipped(Where("zone", o, {"a"})) : o \in {"=", "!="}}
Singles == Times \cup Others \cup Reversed
    \cup {Foreign(At(">=", 2)), Foreign(Narrowed(At(">=", 2))), Foreign(Where("zone", "=", {"b"}))}
Pairs ==
    {{At(">=", 2), At("<", 4)}, {Every("=", 0), At("<=", 5)}, {Every("=", 0), Where("zone", "!=", {"b"})},
     {Condition("value", "<=", 33), At(">", 0)}, {At("<", 6), Where("prometheus", "=", {"p1"}), Where("zone", "in", {"a"})}}
Query(metric, where, columns) == [metric |-> metric, where |-> where, columns |-> columns]

\* Conditions that the scan takes over and evaluates in its own way: operators
\* it has no arm for, and columns under a cast.
Odd ==
    {At(o, 2) : o \in {"!=", "distinct", "same"}} \cup {Every(o, 0) : o \in {"distinct", "same"}}
    \cup {Narrowed(At(o, 2)) : o \in {"=", "<", ">=", "!="}} \cup {Narrowed(Every("<", 4))}
OddQueries ==
    {Query(m, w, {"value"}) : m \in {"up", "requests_total"},
        w \in {{c} : c \in Odd \cup {Flipped(c) : c \in Odd}}
              \cup {{Narrowed(At(">=", 2)), Where("zone", "!=", {"a"})}, {At("!=", 2), At("<", 4)}}}

AllQueries ==
    {Query(m, {c}, {"value"}) : m \in {"up", "requests_total"}, c \in Singles}
    \cup {Query(m, p, {"value"}) : m \in {"up", "requests_total"}, p \in Pairs}
    \cup {Query(m, {}, c) : m \in {"up", "down"}, c \in {{}, {"value"}}}
    \cup OddQueries

NotEqual == {Query("up", {At("!=", 2)}, {"value"})}
OneSetup == {Setup(<<Raw>>, <<>>, 64)}
=============================================================================
