---------------------------- MODULE StoreSeries ----------------------------
(***************************************************************************)
(* The Thanos StoreAPI of the reader (store_service.rs) over the series    *)
(* table that a bootstrap left: a request is checked, its rows are taken   *)
(* from the table as the scan delivers them, the chunks of each row are    *)
(* read from the object store, and the reply is put together and sent.     *)
(* Tables do not change while the reader serves and requests share no      *)
(* state, so one request at a time is enough.                              *)
(*                                                                         *)
(* Label names are numbers in their sorted order; a label set gives each   *)
(* name a value, a number too, or Missing, the empty string: Prometheus    *)
(* does not tell an empty label from a missing one.                        *)
(***************************************************************************)
EXTENDS Integers, Sequences, FiniteSets, SequencesExt, FiniteSetsExt

CONSTANTS
    NameCount,  \* how many label names there are
    Catalogue,  \* the blocks that may be served, as a sequence
    Requests,   \* the requests that may arrive
    RowGroupSize, \* rows of a row group of a series file, INDEX_BATCH_SIZE
    Escaped,    \* the values with a character that JSON escapes, a quote say
    None

LabelName == 1..NameCount
Missing == 0
Slots == {"raw", "count", "sum", "min", "max", "counter"}
Apis == {"Series", "LabelNames", "LabelValues"}

LabelSet == [LabelName -> Nat]
Chunk == [min : Int, max : Int, slots : SUBSET Slots]
SeriesEntry == [labels : LabelSet, chunks : Seq(Chunk)]
Block == [external : LabelSet, resolution : Nat, min : Int, max : Int, series : Seq(SeriesEntry)]

\* The index of a block lists the chunks of a series in time order, and its
\* meta.json spans them; its series carry no label of the same name as an
\* external one.
ASSUME CatalogueAssumption ==
  /\ NameCount \in Nat /\ Catalogue \in Seq(Block)
  /\ \A b \in DOMAIN Catalogue :
        LET block == Catalogue[b] IN
        \A i \in DOMAIN block.series :
            LET chunks == block.series[i].chunks
            IN  /\ chunks # <<>>
                /\ \A j \in DOMAIN chunks :
                      /\ chunks[j] \in Chunk /\ chunks[j].min <= chunks[j].max
                      /\ block.min <= chunks[j].min /\ chunks[j].max < block.max
                      /\ j > 1 => chunks[j - 1].max < chunks[j].min
                /\ \A n \in LabelName :
                      Missing \in {block.series[i].labels[n], block.external[n]}
\* The window of a request is not empty.
ASSUME RequestsAssumption ==
    \A r \in Requests :
        /\ r.api \in Apis /\ r.label \in LabelName \cup {Missing}
        /\ r.min \in Int /\ r.max \in Int /\ r.min <= r.max
        /\ r.limit \in Int /\ r.batch \in Int
        /\ {r.unsupported, r.skipChunks, r.disabled} \subseteq BOOLEAN
ASSUME RowGroupAssumption == RowGroupSize \in Nat \ {0}
ASSUME NoRequestAssumption == None \notin Requests

VARIABLES
    blocks,     \* the blocks whose rows the table holds
    request,    \* the request that is being answered
    step,       \* what its handler is doing
    rows,       \* the rows that matched and are not looked at yet
    row,        \* the row whose chunks are being read
    todo,       \* its chunks that are not read yet
    chunks,     \* its chunks that go into the reply
    series,     \* series_responses
    warnings,   \* warning_responses, and the warnings of the row
    answer,     \* the answer to the request
    unread      \* history: the chunks that could not be read

loopVars == <<rows, row, todo, chunks, series, warnings, unread>>
vars == <<blocks, request, step, loopVars, answer>>

-----------------------------------------------------------------------------
(* The series table. *)

RowsOf(bs) == UNION {{<<b, i>> : i \in DOMAIN Catalogue[b].series} : b \in bs}
ChunksOf(r) == Catalogue[r[1]].series[r[2]].chunks
Resolution(r) == Catalogue[r[1]].resolution

\* append_series_row
RowMin(r) == Head(ChunksOf(r)).min
RowMax(r) == Last(ChunksOf(r)).max
LabelsOf(r) ==
    LET block == Catalogue[r[1]]
        own == block.series[r[2]].labels
    IN  [n \in LabelName |-> IF own[n] # Missing THEN own[n] ELSE block.external[n]]

\* A chunk is named by its row and its place in it.
ChunkAt(c) == ChunksOf(<<c[1], c[2]>>)[c[3]]

(* A request. *)

Overlaps(min, max, start, end) == min <= end /\ max >= start

\* A matcher accepts a set of values: one, or those of an anchored regex.
Matches(labels, m) == (labels[m.name] \in m.values) = (m.type \in {"Eq", "Re"})
MatchesAll(labels, matchers) == \A m \in matchers : Matches(labels, m)

\* exact_label_filters looks for "name":"value" in the JSON of the labels with
\* LIKE, which takes the backslash of an escape in the pattern for its own.
NeverFound(m) == m.type = "Eq" /\ m.values # {Missing} /\ m.values \subseteq Escaped

\* Faulty: a row that only touches the end of the window is not read.
MatchingRowsOpen(r) ==
    {x \in RowsOf(blocks) : /\ RowMin(x) < r.max /\ RowMax(x) >= r.min
                            /\ \A m \in r.matchers : ~NeverFound(m)
                            /\ MatchesAll(LabelsOf(x), r.matchers)}
MatchingRows(r) ==
    {x \in RowsOf(blocks) : /\ Overlaps(RowMin(x), RowMax(x), r.min, r.max)
                            /\ \A m \in r.matchers : ~NeverFound(m)
                            /\ MatchesAll(LabelsOf(x), r.matchers)}

Compiles(m) == m.name \in LabelName /\ m.type \in {"Eq", "Neq", "Re", "Nre"}
Aggregates(r) == IF r.aggregates = {} THEN {"raw"} ELSE r.aggregates

LimitReached(r, n) == r.limit > 0 /\ n >= r.limit

\* Faulty: the deprecated flag alone decides.
AbortsByFlag(r) == r.disabled
AbortsOnError(r) == r.disabled \/ r.strategy = "abort"

\* Raw data is asked for by name; otherwise the window bounds the resolution.
Selected(r, x) ==
    IF "raw" \in Aggregates(r) THEN Resolution(x) = 0 ELSE Resolution(x) <= r.maxResolution

-----------------------------------------------------------------------------
Answered(status, messages, warned, listed) ==
    [status |-> status, messages |-> messages, warnings |-> warned, list |-> listed]
Refused(status) == Answered(status, <<>>, <<>>, <<>>)
NoAnswer == Refused("none")

Init ==
    /\ blocks \in SUBSET DOMAIN Catalogue
    /\ request = None
    /\ step = "idle"
    /\ rows = <<>> /\ row = <<>> /\ todo = <<>> /\ chunks = <<>>
    /\ series = <<>> /\ warnings = <<>> /\ unread = {}
    /\ answer = NoAnswer

Arrive(r) ==
    /\ step = "idle"
    /\ request' = r
    /\ step' = "received"
    /\ UNCHANGED <<blocks, loopVars, answer>>

\* A request leaves nothing behind.
Leave ==
    /\ step = "answered"
    /\ request' = None
    /\ step' = "idle"
    /\ rows' = <<>> /\ row' = <<>> /\ todo' = <<>> /\ chunks' = <<>>
    /\ series' = <<>> /\ warnings' = <<>> /\ unread' = {}
    /\ answer' = NoAnswer
    /\ UNCHANGED blocks

Reply(a) == step' = "answered" /\ answer' = a

NoLabel(r) == r.api = "LabelValues" /\ r.label = Missing
Malformed(r) ==
    \/ \E m \in r.matchers : ~Compiles(m)
    \/ r.api = "Series" /\ (~r.aggregates \subseteq Slots \/ r.limit < 0)
Accepted(r) == ~NoLabel(r) /\ ~r.unsupported /\ ~Malformed(r)

\* What is found wrong before a table is read.
Reject ==
    /\ step = "received" /\ ~Accepted(request)
    /\ Reply(Refused(IF request.unsupported /\ ~NoLabel(request) THEN "unimplemented"
                                                                ELSE "invalid argument"))
    /\ UNCHANGED <<blocks, request, loopVars>>

\* A scan of the table fails.
TableFails ==
    /\ step = "received" /\ Accepted(request)
    /\ Reply(Refused("internal"))
    /\ UNCHANGED <<blocks, request, loopVars>>

\* A BTreeSet, which yields its elements in order.
Ascending(names) ==
    CHOOSE s \in SetToSeqs(names) : \A i, j \in DOMAIN s : i < j => s[i] < s[j]

\* Faulty: the limit is applied before the names are put in order.
TakeLimitUnordered(names, r) ==
    SubSeq(Reverse(Ascending(names)), 1,
           IF LimitReached(r, Cardinality(names)) THEN r.limit ELSE Cardinality(names))
TakeLimit(names, r) ==
    SubSeq(Ascending(names), 1, IF LimitReached(r, Cardinality(names)) THEN r.limit ELSE Cardinality(names))

\* label_names and label_values: the limit is looked at last.
AnswerLabels(found) ==
    /\ Accepted(request)
    /\ Reply(IF request.limit < 0 THEN Refused("invalid argument")
             ELSE Answered("ok", <<>>, <<>>, TakeLimit(found \ {Missing}, request)))
    /\ UNCHANGED <<blocks, request, loopVars>>

LabelNames ==
    /\ step = "received" /\ request.api = "LabelNames"
    /\ AnswerLabels({n \in LabelName : \E x \in MatchingRows(request) : LabelsOf(x)[n] # Missing})

LabelValues ==
    /\ step = "received" /\ request.api = "LabelValues"
    /\ AnswerLabels({LabelsOf(x)[request.label] : x \in MatchingRows(request)})

(* Series. *)

\* The series of a block are the rows of one file, in the order of its index,
\* cut into row groups.  A scan reads each row group from the front; files and
\* row groups are shared out to partitions, whose rows come in any order.
RowGroup(x) == <<x[1], (x[2] - 1) \div RowGroupSize>>
ScanOrders(S) ==
    {order \in SetToSeqs(S) : \A i, j \in DOMAIN order :
        i < j /\ RowGroup(order[i]) = RowGroup(order[j]) => order[i][2] < order[j][2]}

Scan ==
    /\ step = "received" /\ Accepted(request) /\ request.api = "Series"
    /\ rows' \in ScanOrders(MatchingRows(request))
    /\ step' = "rows"
    /\ UNCHANGED <<blocks, request, row, todo, chunks, series, warnings, answer, unread>>

Exhausted == rows = <<>> \/ LimitReached(request, Len(series))

SkipRow ==
    /\ step = "rows" /\ ~Exhausted /\ ~Selected(request, Head(rows))
    /\ rows' = Tail(rows)
    /\ UNCHANGED <<blocks, request, step, row, todo, chunks, series, warnings, answer, unread>>

Listed(x) == [j \in DOMAIN ChunksOf(x) |-> <<x[1], x[2], j>>]

\* Faulty: the chunks of the row before are still there.
TakeRowKeepsChunks ==
    /\ step = "rows" /\ ~Exhausted /\ Selected(request, Head(rows))
    /\ row' = Head(rows)
    /\ rows' = Tail(rows)
    /\ todo' = IF request.skipChunks THEN <<>> ELSE Listed(Head(rows))
    /\ step' = "chunks"
    /\ UNCHANGED <<blocks, request, chunks, series, warnings, answer, unread>>

TakeRow ==
    /\ step = "rows" /\ ~Exhausted /\ Selected(request, Head(rows))
    /\ row' = Head(rows)
    /\ rows' = Tail(rows)
    /\ todo' = IF request.skipChunks THEN <<>> ELSE Listed(Head(rows))
    /\ chunks' = <<>>
    /\ step' = "chunks"
    /\ UNCHANGED <<blocks, request, series, warnings, answer, unread>>

\* A chunk that is not an aggregate is sent whatever is asked for.
HasRequestedSlot(c) ==
    "raw" \in ChunkAt(c).slots \/ ChunkAt(c).slots \cap Aggregates(request) # {}

InWindow(c) == Overlaps(ChunkAt(c).min, ChunkAt(c).max, request.min, request.max)

PassChunk ==
    /\ step = "chunks" /\ todo # <<>> /\ ~InWindow(Head(todo))
    /\ todo' = Tail(todo)
    /\ UNCHANGED <<blocks, request, step, rows, row, chunks, series, warnings, answer, unread>>

ReadChunk ==
    /\ step = "chunks" /\ todo # <<>> /\ InWindow(Head(todo))
    /\ todo' = Tail(todo)
    /\ chunks' = IF HasRequestedSlot(Head(todo)) THEN Append(chunks, Head(todo)) ELSE chunks
    /\ UNCHANGED <<blocks, request, step, rows, row, series, warnings, answer, unread>>

\* Faulty: a chunk that cannot be read ends its series.
ReadFailsSeries ==
    /\ step = "chunks" /\ todo # <<>> /\ InWindow(Head(todo))
    /\ unread' = unread \cup {Head(todo)}
    /\ \/ /\ AbortsOnError(request)
          /\ Reply(Refused("internal"))
          /\ UNCHANGED <<todo, warnings>>
       \/ /\ ~AbortsOnError(request)
          /\ todo' = <<>>
          /\ warnings' = Append(warnings, Head(todo))
          /\ UNCHANGED <<step, answer>>
    /\ UNCHANGED <<blocks, request, rows, row, chunks, series>>

\* No such repository, no such range, a wrong checksum, an unknown encoding.
ReadFails ==
    /\ step = "chunks" /\ todo # <<>> /\ InWindow(Head(todo))
    /\ unread' = unread \cup {Head(todo)}
    /\ \/ /\ AbortsOnError(request)
          /\ Reply(Refused("internal"))
          /\ UNCHANGED <<todo, warnings>>
       \/ /\ ~AbortsOnError(request)
          /\ todo' = Tail(todo)
          /\ warnings' = Append(warnings, Head(todo))
          /\ UNCHANGED <<step, answer>>
    /\ UNCHANGED <<blocks, request, rows, row, chunks, series>>

\* Faulty: a series without chunks is left out even when none are asked for.
EndRowNeverEmpty ==
    /\ step = "chunks" /\ todo = <<>>
    /\ series' = IF chunks # <<>> THEN Append(series, [row |-> row, chunks |-> chunks]) ELSE series
    /\ step' = "rows"
    /\ UNCHANGED <<blocks, request, rows, row, todo, chunks, warnings, answer, unread>>

EndRow ==
    /\ step = "chunks" /\ todo = <<>>
    /\ series' = IF request.skipChunks \/ chunks # <<>>
                 THEN Append(series, [row |-> row, chunks |-> chunks]) ELSE series
    /\ step' = "rows"
    /\ UNCHANGED <<blocks, request, rows, row, todo, chunks, warnings, answer, unread>>

BatchSize == IF request.batch > 1 THEN request.batch ELSE 1

Batches(s, size) ==
    [k \in 1..((Len(s) + size - 1) \div size) |->
        SubSeq(s, (k - 1) * size + 1, Min({k * size, Len(s)}))]

Send ==
    /\ step = "rows" /\ Exhausted
    /\ Reply(Answered("ok", Batches(series, BatchSize), warnings, <<>>))
    /\ UNCHANGED <<blocks, request, loopVars>>

Next ==
    \/ \E r \in Requests : Arrive(r)
    \/ Reject \/ TableFails \/ LabelNames \/ LabelValues \/ Leave
    \/ Scan \/ SkipRow \/ TakeRow \/ PassChunk \/ ReadChunk \/ ReadFails \/ EndRow \/ Send

Spec == Init /\ [][Next]_vars

-----------------------------------------------------------------------------
(* Info: one entry for each set of external labels, spanning its blocks. *)

SameLabels(b) == {c \in blocks : Catalogue[c].external = Catalogue[b].external}

\* Faulty: the first block of a label set gives the range of all.
TsdbInfosFirst ==
    {LET c == CHOOSE d \in SameLabels(b) : TRUE
     IN [labels |-> Catalogue[b].external, min |-> Catalogue[c].min, max |-> Catalogue[c].max] : b \in blocks}
TsdbInfos ==
    {[labels |-> Catalogue[b].external,
      min |-> Min({Catalogue[c].min : c \in SameLabels(b)}),
      max |-> Max({Catalogue[c].max : c \in SameLabels(b)})] : b \in blocks}

-----------------------------------------------------------------------------
(* Properties. *)

AllChunks == UNION {{<<x[1], x[2], j>> : j \in DOMAIN ChunksOf(x)} : x \in RowsOf(blocks)}

\* Type invariant: what is being read belongs to the row, what was read to the
\* table, and nothing is in progress while no request is.
TypeOK ==
    /\ blocks \subseteq DOMAIN Catalogue
    /\ request \in Requests \cup {None}
    /\ step \in {"idle", "received", "rows", "chunks", "answered"}
    /\ step = "idle" <=> request = None
    /\ ToSet(rows) \subseteq RowsOf(blocks)
    /\ step = "chunks" =>
          /\ row \in RowsOf(blocks)
          /\ ToSet(todo) \cup ToSet(chunks) \subseteq {c \in AllChunks : <<c[1], c[2]>> = row}
    /\ \A i \in DOMAIN series : series[i].row \in RowsOf(blocks)
    /\ ToSet(warnings) \cup unread \subseteq AllChunks
    /\ answer.status \in {"none", "ok", "unimplemented", "invalid argument", "internal"}
    /\ answer.status # "none" <=> step = "answered"

AnsweredSeries == answer.status = "ok" /\ request.api = "Series"
Received == FlattenSeq(answer.messages)
ReceivedRows == {Received[i].row : i \in DOMAIN Received}
ReceivedChunks == FlattenSeq([i \in DOMAIN Received |-> Received[i].chunks])

\* There is an instant of the window that the chunk covers.
Asked(c, r) == \E t \in r.min..r.max : t \in ChunkAt(c).min..ChunkAt(c).max

\* The chunks a client is owed: of series whose labels, external ones included,
\* satisfy the matchers, at the resolution it asked for, with what it asked for.
Owed ==
    {c \in AllChunks :
        LET x == <<c[1], c[2]>> IN
        /\ Asked(c, request)
        /\ \A m \in request.matchers :
              IF m.type \in {"Eq", "Re"} THEN LabelsOf(x)[m.name] \in m.values
                                         ELSE LabelsOf(x)[m.name] \notin m.values
        /\ Selected(request, x)
        /\ HasRequestedSlot(c)}

\* README, StoreAPI: a reply holds the chunks its client is owed and no other,
\* each once, but for those it warns about and, once the limit is reached,
\* those of the series it leaves out.
ReplyIsComplete ==
    AnsweredSeries /\ ~request.skipChunks =>
        /\ ToSet(ReceivedChunks) \subseteq Owed
        /\ Len(ReceivedChunks) = Cardinality(ToSet(ReceivedChunks))
        /\ LimitReached(request, Len(Received))
           \/ Owed \subseteq ToSet(ReceivedChunks) \cup ToSet(answer.warnings)

\* series: what one block holds of a series, a row, is sent as a whole or not at
\* all: no limit, batch boundary or chunk that cannot be read cuts it, and its
\* other chunks are all there, in order.  A limit counts rows, and may well cut a
\* series between those of two blocks.
PartsAreWhole ==
    AnsweredSeries /\ ~request.skipChunks =>
        \A i \in DOMAIN Received :
            LET x == Received[i].row
                sent == Received[i].chunks
            IN  /\ \A c \in Owed : <<c[1], c[2]>> = x => c \in ToSet(sent) \cup ToSet(answer.warnings)
                /\ \A j, k \in DOMAIN sent : j < k => ChunkAt(sent[j]).max < ChunkAt(sent[k]).min

\* series: what could not be read is warned about, once, even when its series
\* is left out of the reply; a client that forbids partial responses, by the
\* deprecated flag or by the strategy, never gets a reply with a hole.
LossIsReported ==
    AnsweredSeries =>
        /\ ToSet(answer.warnings) = unread /\ Len(answer.warnings) = Cardinality(unread)
        /\ request.disabled \/ request.strategy = "abort" => unread = {}

\* rpc.proto, skip_chunks and limit: a reply without chunks names every row of
\* the series table that a reply with chunks would have sent, each once (a
\* series in two blocks has two), reads nothing, and holds no more than the
\* limit.
SkippedChunksSkipNoSeries ==
    AnsweredSeries =>
        /\ request.limit > 0 => Len(Received) <= request.limit
        /\ Len(Received) = Cardinality(ReceivedRows)
        /\ request.skipChunks =>
              /\ ReceivedChunks = <<>> /\ unread = {}
              /\ LimitReached(request, Len(Received))
                 \/ {<<c[1], c[2]>> : c \in Owed} \subseteq ReceivedRows

\* info_response: a querier asks this store only for what the store advertises,
\* so a chunk that is sent lies within an entry whose labels its series carries.
InfoCoversReply ==
    AnsweredSeries =>
        \A i \in DOMAIN ReceivedChunks :
            LET c == ReceivedChunks[i]
                labels == LabelsOf(<<c[1], c[2]>>)
            IN  \E info \in TsdbInfos :
                    /\ \A n \in LabelName : info.labels[n] \in {Missing, labels[n]}
                    /\ info.min <= ChunkAt(c).min /\ ChunkAt(c).max < info.max

\* label_names, label_values: every label of a series that has a chunk in the
\* window and satisfies the matchers is listed, in order; under a limit the
\* first ones are.
LabelsAreListed ==
    answer.status = "ok" /\ request.api # "Series" =>
        LET carried == {LabelsOf(<<c[1], c[2]>>) :
                           c \in {d \in AllChunks : Asked(d, request)
                                     /\ MatchesAll(LabelsOf(<<d[1], d[2]>>), request.matchers)}}
            due == IF request.api = "LabelNames"
                   THEN {n \in LabelName : \E labels \in carried : labels[n] # Missing}
                   ELSE {labels[request.label] : labels \in carried} \ {Missing}
            list == answer.list
        IN  /\ \A i, j \in DOMAIN list : i < j => list[i] < list[j]
            /\ \A d \in due \ ToSet(list) :
                  LimitReached(request, Len(list)) /\ \A i \in DOMAIN list : list[i] < d

\* labels.Compare: the first name or value in which two label sets differ.
Precedes(a, b) ==
    \E n \in LabelName :
        /\ \A k \in 1..(n - 1) : a[k] = b[k]
        /\ a[n] # b[n]
        /\ CASE a[n] # Missing /\ b[n] # Missing -> a[n] < b[n]
             [] a[n] = Missing -> \A k \in n..NameCount : a[k] = Missing
             [] OTHER -> \E k \in n..NameCount : b[k] # Missing

\* rpc.proto, Series: "Series has to be sorted."
SeriesAreSorted ==
    AnsweredSeries =>
        \A i, j \in DOMAIN Received :
            i < j => ~Precedes(LabelsOf(Received[j].row), LabelsOf(Received[i].row))
=============================================================================
