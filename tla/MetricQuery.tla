---------------------------- MODULE MetricQuery ----------------------------
(***************************************************************************)
(* From the blocks to the answer of a Flight SQL query: the bootstrap      *)
(* parses the index of each block (IndexWalk) and appends its rows to the  *)
(* chunks table; a query is planned against a metric table and scans these *)
(* rows (MetricTable); each chunk it cannot rule out is read page by page  *)
(* and decoded (ChunkRead).                                                *)
(*                                                                         *)
(* Blocks do not change once they are indexed, but they may be deleted: a  *)
(* block of which nothing is left has no segments.  Rows of blocks that an *)
(* earlier process indexed and this one does not are still in the chunks   *)
(* table.  The partitions of a scan share nothing, so that they are        *)
(* scanned one after another.                                              *)
(***************************************************************************)
EXTENDS MetricTable, IndexWalk, SequencesExt

CONSTANTS
    Setups,     \* what a process may find when it starts
    Queries     \* what it is asked

\* Blocks, each under a ULID of its own, and rows of other blocks: deleted or too
\* old by now, or of repositories that are not configured any more.
IsLeftover(s, r) ==
    /\ r.path[1] \notin {s.blocks[i].ulid : i \in DOMAIN s.blocks}
    /\ r.offset \in 0..(SegmentSpan - 1) /\ r.resolution \in Int
    /\ r.mint \in Int /\ r.maxt \in Int /\ r.mint <= r.maxt
Place(row) == <<row.path, row.offset>>

ASSUME SetupsAssumption ==
    \A s \in Setups :
        /\ s.pageSize \in Nat
        /\ s.blocks \in Seq({s.blocks[i] : i \in DOMAIN s.blocks})
        /\ \A i \in DOMAIN s.blocks :
              /\ IsIndex(s.blocks[i].index) /\ s.blocks[i].resolution \in Int
              /\ \A j \in DOMAIN s.blocks : s.blocks[i].ulid = s.blocks[j].ulid => i = j
        /\ \A b \in {s.blocks[i] : i \in DOMAIN s.blocks} \cup s.others :
              \A n \in DOMAIN b.segments : IsSegment(b.segments[n])
        /\ s.leftover \in Seq({s.leftover[i] : i \in DOMAIN s.leftover})
        /\ \A i \in DOMAIN s.leftover :
              /\ IsLeftover(s, s.leftover[i])
              /\ \A j \in DOMAIN s.leftover : Place(s.leftover[i]) = Place(s.leftover[j]) => i = j

ASSUME QueriesAssumption == NoQuery \notin Queries /\ \A q \in Queries : \A e \in q.where : IsCondition(e)

VARIABLES
    setup,      \* its blocks, the configured repositories, leftover rows, what
                \* the store has of their blocks, the page size of the cache
    built       \* how many blocks are indexed

vars == <<setup, built, walkVars, readVars, tableVars, scanVars>>

Init ==
    /\ setup \in Setups
    /\ built = 0
    /\ registry = setup.repositories
    /\ phase = "index"
    /\ WalkInit /\ ReadInit(setup.pageSize) /\ TableInit(setup.leftover)

BlockInTurn == setup.blocks[built + 1]

OpenBlock ==
    /\ phase = "index" /\ walk = "idle" /\ built < Len(setup.blocks)
    /\ OpenIndex(BlockInTurn.index)
    /\ UNCHANGED <<setup, built, readVars, tableVars, scanVars>>

ParseIndex == WalkStep /\ UNCHANGED <<setup, built, readVars, tableVars, scanVars>>

BootstrapFails ==
    /\ phase' = "failed"
    /\ UNCHANGED <<setup, built, walkVars, readVars, tableVars, query, turn, batch>>

ParsedSet == {parsed[i] : i \in DOMAIN parsed}
RowsOf(b) == FlattenSeq([i \in DOMAIN parsed |-> ChunkRows(b, parsed[i])])

\* write_chunk_and_series_index_streaming: the files of a block are published
\* when all of its series have been parsed and made into rows.
PublishBlock ==
    /\ phase = "index" /\ walk = "done"
    /\ \/ /\ \A s \in ParsedSet : HasRows(s)
          /\ rows' = rows \o RowsOf(BlockInTurn)
          /\ schemas' = MetricLabels(schemas, BlockInTurn, ParsedSet)
          /\ built' = built + 1
          /\ WalkDone
          /\ UNCHANGED <<setup, registry, readVars, scanVars>>
       \/ /\ \E s \in ParsedSet : ~HasRows(s)
          /\ BootstrapFails

RefuseBlock == phase = "index" /\ walk = "failed" /\ BootstrapFails

\* register_metric_tables
RegisterTables ==
    /\ phase = "index" /\ walk = "idle" /\ built = Len(setup.blocks)
    /\ phase' = "serve"
    /\ UNCHANGED <<setup, built, walkVars, readVars, tableVars, query, turn, batch>>

Blocks == {setup.blocks[i] : i \in DOMAIN setup.blocks}
Stored == Blocks \cup setup.others

\* The object at a path of the chunks table; one that is gone has no bytes.
Missing == [length |-> 0, records |-> {}]
FileAt(path) ==
    LET HasFile(b) == b.ulid = path[1] /\ path[2] \in DOMAIN b.segments
    IN  IF \E b \in Stored : HasFile(b) THEN (CHOOSE b \in Stored : HasFile(b)).segments[path[2]]
        ELSE Missing

Bootstrap == OpenBlock \/ ParseIndex \/ PublishBlock \/ RefuseBlock \/ RegisterTables

Scan ==
    /\ \/ Plan \/ SkipRow \/ UnknownRepository \/ TakeSamples \/ Finish
       \/ phase = "scan" /\ turn <= Len(rows) /\ BeginRead(FileAt(rows[turn].path))
       \/ phase = "read" /\ ReadStep /\ UNCHANGED <<tableVars, scanVars>>
    /\ UNCHANGED <<setup, built, walkVars>>

Client == (Leave \/ \E q \in Queries : Arrive(q)) /\ UNCHANGED <<setup, built, walkVars>>

Next == Bootstrap \/ Scan \/ Client

Spec == Init /\ [][Next]_vars

\* Sequential code, on a thread of its own or polled by the runtime, which waits
\* for nothing but the object store, whose every request ends.
FairSpec == Spec /\ WF_vars(Bootstrap) /\ WF_vars(Scan)

-----------------------------------------------------------------------------
(* Properties. *)

\* Each chunk has a reference of its own, in the whole file.
ReferencesDiffer(f) ==
    \A d, e \in f.entries : \A i \in DOMAIN d.chunks, j \in DOMAIN e.chunks :
        Chunks(d)[i].reference = Chunks(e)[j].reference => d = e /\ i = j
Indexable(f) ==
    /\ WellFormed(f) /\ ReferencesDiffer(f)
    /\ \A e \in f.entries : e.chunks # <<>> /\ "__name__" \in LabelNames(f, e)

\* What a metric table can show of a record; SlotsAreRead and DecodersAgree say
\* that these are the samples in it.
Decoding(r, metric) == decode_record(r, metric \in CounterMetrics)

RecordsAt(path, start) == {r \in FileAt(path).records : r.at = start}
Decodable(records, metric) == \E r \in records : Decoding(r, metric).ok
SamplesIn(records, metric) == UNION {Decoding(r, metric).samples : r \in records}

\* The chunks of a block, as its index and its segments say.
StoredChunks(b) ==
    {LET labels == Labels(b.index, p[1])
         place == Chunks(p[1])[p[2]]
         path == <<b.ulid, place.reference \div SegmentSpan + 1>>
         start == place.reference % SegmentSpan
         metric == labels["__name__"]
     IN  [at |-> <<path, start>>, metric |-> metric,
          labels |-> [n \in (DOMAIN labels \cup DOMAIN b.external) \ {"__name__"} |->
                        IF n \in DOMAIN labels THEN labels[n] ELSE b.external[n]],
          resolution |-> b.resolution, mint |-> place.mint, maxt |-> place.maxt,
          active |-> TRUE, known |-> b.repository \in registry,
          readable |-> Decodable(RecordsAt(path, start), metric),
          samples |-> SamplesIn(RecordsAt(path, start), metric)]
        : p \in UNION {{e} \X DOMAIN e.chunks : e \in b.index.entries}}

LeftoverChunks ==
    {[at |-> <<r.path, r.offset>>, metric |-> r.metric,
      labels |-> [n \in DOMAIN r.labels \ {"__name__"} |-> r.labels[n]],
      resolution |-> r.resolution, mint |-> r.mint, maxt |-> r.maxt,
      active |-> FALSE, known |-> r.repository \in registry,
      readable |-> Decodable(RecordsAt(r.path, r.offset), r.metric),
      samples |-> SamplesIn(RecordsAt(r.path, r.offset), r.metric)]
        : r \in {setup.leftover[i] : i \in DOMAIN setup.leftover}}

AllChunks ==
    IF \A b \in Blocks : Indexable(b.index)
    THEN (UNION {StoredChunks(b) : b \in Blocks}) \cup LeftoverChunks ELSE {}

\* The promise is about queries each of whose conditions the scan evaluates as
\* DataFusion would, or leaves to it; a query with another one is not shown to
\* the filtered table (AnswersMatchRows says how it is answered).
Promised(q) == \A e \in q.where : Comparable(e)
Posed == IF Promised(query) THEN query ELSE NoQuery
Told == [status |-> IF Promised(query) /\ phase \in {"answered", "refused"} THEN phase ELSE "none",
         rows |-> IF Promised(query) /\ phase = "answered" THEN batch ELSE {}]
Tables == INSTANCE FilteredTable WITH chunks <- AllChunks, query <- Posed, answer <- Told

\* supports_filters_pushdown answers Exact: the metric tables implement the
\* filtered table.  Whatever conditions the scan takes over, whichever chunks
\* it rules out, and however chunks lie in blocks, segments and pages, a query
\* that is Promised is answered with exactly its samples, or refused for a reason
\* it must meet, and other queries between do not disturb it.
ImplementsTable == Tables!TableSpec

\* The same of the answers alone.
AnswersAreExact == phase = "answered" => batch = Tables!Exactly(query)

\* The chunks table says where chunks are and when their samples lie.
SamplesAt(row) == SamplesIn(RecordsAt(row.path, row.offset), query.metric)
QueriedRows == {i \in DOMAIN rows : rows[i].metric = query.metric}
TrueRows ==
    /\ rows \in Seq({rows[i] : i \in DOMAIN rows})
    /\ \A i \in QueriedRows :
          /\ rows[i].offset \in Nat /\ rows[i].mint \in Int /\ rows[i].maxt \in Int
          /\ rows[i].resolution \in Int
          /\ \A s \in SamplesAt(rows[i]) : s[1] \in rows[i].mint..rows[i].maxt

\* build_metric_batch: if the chunks table is true, an answer has the rows of all
\* samples of the metric that the conditions keep, those the scan evaluates by
\* itself and those it leaves to DataFusion, and no others; no chunk that was
\* left out unread, or read across pages, makes a difference.  It holds for every
\* condition: Kept says what becomes of one that the scan takes over although it
\* has no arm for its operator, or its column is under a cast.
AnswersMatchRows ==
    phase = "answered" /\ TrueRows =>
        batch = {r \in UNION {{MetricRow(rows[i], s) : s \in SamplesAt(rows[i])} : i \in QueriedRows} :
                    \A e \in query.where : Kept(e, r)}

\* append_chunk_rows, through the parser: blocks as Prometheus writes them do not
\* end a bootstrap, and each of their chunks then has one row, which says where
\* it lies.
EveryChunkHasItsRow ==
    /\ phase = "failed" => \E b \in Blocks : ~Indexable(b.index)
    /\ phase = "serve" /\ (\A b \in Blocks : Indexable(b.index)) =>
          /\ {Place(rows[i]) : i \in DOMAIN rows} = {c.at : c \in AllChunks}
          /\ Len(rows) = Cardinality(AllChunks)

\* A bootstrap and a query come to their end.
WorkEnds ==
    phase \in {"index", "plan", "scan", "read"} ~> phase \in {"serve", "failed", "answered", "refused"}

\* Type invariant: the walk and the reader work only for the phase they belong to.
TypeOK ==
    /\ phase \in {"index", "failed", "serve", "plan", "scan", "read", "answered", "refused"}
    /\ setup \in Setups /\ built \in 0..Len(setup.blocks)
    /\ walk \in {"idle", "walking", "done", "failed"} /\ walk # "idle" => phase \in {"index", "failed"}
    /\ offset \in Nat /\ walk \in {"walking", "done"} => offset < index.end + SERIES_ALIGNMENT
    /\ reading \in {"idle", "prefix", "record", "read", "failed"} /\ reading # "idle" => phase = "read"
    /\ query \in Queries \cup {NoQuery} /\ turn \in 0..(Len(rows) + 1)
    /\ \A r \in batch : r.timestamp \in Int /\ DOMAIN r.labels = schemas[query.metric]
    /\ \A i \in DOMAIN rows : rows[i].mint <= rows[i].maxt /\ rows[i].offset \in 0..(SegmentSpan - 1)
=============================================================================
