---------------------------- MODULE MetricTable ----------------------------
(***************************************************************************)
(* The metric tables: the rows and columns that the bootstrap makes of the *)
(* parsed series of a block (append_chunk_rows, collect_metric_labels,     *)
(* merge_metric_labels), and the scan of such a table (metric_table.rs):   *)
(* the conditions it takes over from DataFusion, the chunks it leaves out  *)
(* because of them, the samples it reads and keeps.                        *)
(***************************************************************************)
EXTENDS ChunkRead, SqlFilter

CONSTANTS
    SegmentSpan,    \* what a chunk reference counts to within a segment, 2^32
    CounterMetrics  \* the metric names that end with _total

ASSUME SpanAssumption == SegmentSpan \in Nat \ {0}

VARIABLES
    registry,   \* the URIs of the repositories that are configured
    rows,       \* the chunks table
    schemas,    \* the metric tables: the label columns of each metric
    query,      \* the query that is being answered: metric, where, columns
    turn,       \* the row of the chunks table that the scan is at
    batch,      \* the rows that it has made
    phase       \* "index", "failed", "serve", "plan", "scan", "read",
                \* "answered" or "refused"

tableVars == <<registry, rows, schemas>>
scanVars == <<query, turn, batch, phase>>

(* The bootstrap. *)

Columns(b, s) == (DOMAIN s.labels \cup DOMAIN b.external) \ {"__name__"}

\* append_chunk_rows fails for other series.
HasRows(s) == s.chunks # <<>> /\ "__name__" \in DOMAIN s.labels

\* f, and what only g says: f @@ g, spelled out to be reasoned about.
Merged(f, g) == [x \in DOMAIN f \cup DOMAIN g |-> IF x \in DOMAIN f THEN f[x] ELSE g[x]]

RowLabels(b, s) == Merged(s.labels, b.external)

\* Faulty: the segment is not taken off the offset.
ChunkRowsWholeOffset(b, s) ==
    [i \in DOMAIN s.chunks |->
        LET c == s.chunks[i] IN
        [repository |-> b.repository, path |-> <<b.ulid, c.reference \div SegmentSpan + 1>>,
         offset |-> c.reference, mint |-> c.mint, maxt |-> c.maxt,
         resolution |-> b.resolution, metric |-> s.labels["__name__"], labels |-> RowLabels(b, s)]]

\* append_chunk_rows
ChunkRows(b, s) ==
    [i \in DOMAIN s.chunks |->
        LET c == s.chunks[i] IN
        [repository |-> b.repository, path |-> <<b.ulid, c.reference \div SegmentSpan + 1>>,
         offset |-> c.reference % SegmentSpan, mint |-> c.mint, maxt |-> c.maxt,
         resolution |-> b.resolution, metric |-> s.labels["__name__"], labels |-> RowLabels(b, s)]]

\* Faulty: the labels of the last block replace those of the others.
MetricLabelsReplaced(known, b, parsed) ==
    LET Of(metric) == {s \in parsed : s.labels["__name__"] = metric}
        named == {s.labels["__name__"] : s \in parsed}
    IN  Merged([m \in named |-> UNION {Columns(b, s) : s \in Of(m)}], known)

\* collect_metric_labels of one block, merged with those of the others.
MetricLabels(known, b, parsed) ==
    LET Of(metric) == {s \in parsed : s.labels["__name__"] = metric}
        named == {s.labels["__name__"] : s \in parsed}
        columns(m) == (UNION {Columns(b, s) : s \in Of(m)}) \cup (IF m \in DOMAIN known THEN known[m] ELSE {})
    IN  Merged([m \in named |-> columns(m)], known)

(* Conditions. *)

BinaryOperators == {"=", "!=", "<", "<=", ">", ">=", "~", "!~", "distinct", "same"}

\* Faulty: a literal on the left is taken for one on the right.
ReverseNothing(operator) == operator

reverse_operator(operator) ==
    CASE operator \in {"=", "!="} -> operator
      [] operator = ">"  -> "<"
      [] operator = ">=" -> "<="
      [] operator = "<"  -> ">"
      [] operator = "<=" -> ">="
      [] OTHER -> "none"

Oriented(e) == IF e.flipped THEN reverse_operator(e.operator) ELSE e.operator

\* What parse_filter accepts, and supports_filters_pushdown calls Exact: it looks
\* through a cast of the column, and forgets it.
Parses(e) ==
    /\ e.operator \in BinaryOperators /\ e.literal = "scalar" /\ Oriented(e) # "none"
    /\ e.column # "value"
    /\ e.column \notin Numeric => Oriented(e) \in {"=", "!=", "~", "!~"}

parse_filter(e) == [column |-> e.column, operator |-> Oriented(e), value |-> e.value]

compare_i64(left, operator, right) ==
    CASE operator = "="  -> left = right
      [] operator = "!=" -> left # right
      [] operator = ">"  -> left > right
      [] operator = ">=" -> left >= right
      [] operator = "<"  -> left < right
      [] operator = "<=" -> left <= right
      [] OTHER -> FALSE

\* compare_str for = and !=, and LabelRegex with its negation.
MatchesLabel(f, labels) ==
    (LabelColumn(labels, f.column) \in f.value) = (f.operator \notin {"!=", "!~"})

\* Faulty: both bounds of a chunk are taken for exclusive.
DescriptorExclusive(f, row) ==
    CASE f.column = "timestamp" ->
            CASE f.operator = "="  -> row.mint < f.value /\ f.value < row.maxt
              [] f.operator \in {">", ">="} -> row.maxt > f.value
              [] f.operator \in {"<", "<="} -> row.mint < f.value
              [] OTHER -> FALSE
      [] f.column = "downsample_resolution" -> compare_i64(row.resolution, f.operator, f.value)
      [] OTHER -> MatchesLabel(f, row.labels)

matches_descriptor(f, row) ==
    CASE f.column = "timestamp" ->
            CASE f.operator = "="  -> row.mint <= f.value /\ f.value <= row.maxt
              [] f.operator = ">"  -> row.maxt > f.value
              [] f.operator = ">=" -> row.maxt >= f.value
              [] f.operator = "<"  -> row.mint < f.value
              [] f.operator = "<=" -> row.mint <= f.value
              [] OTHER -> FALSE
      [] f.column = "downsample_resolution" -> compare_i64(row.resolution, f.operator, f.value)
      [] OTHER -> MatchesLabel(f, row.labels)

matches_sample(f, row, sample) ==
    CASE f.column = "timestamp" -> compare_i64(sample[1], f.operator, f.value)
      [] f.column = "downsample_resolution" -> compare_i64(row.resolution, f.operator, f.value)
      [] OTHER -> MatchesLabel(f, row.labels)

Filters == {parse_filter(e) : e \in {d \in query.where : Parses(d)}}
Residual == {e \in query.where : ~Parses(e)}

-----------------------------------------------------------------------------
NoQuery == [metric |-> "", where |-> {}, columns |-> {}]

\* `files': rows of earlier runs, in files that no bootstrap removes.
TableInit(files) == rows = files /\ schemas = <<>> /\ query = NoQuery /\ turn = 0 /\ batch = {}

Arrive(q) ==
    /\ phase = "serve"
    /\ query' = q
    /\ phase' = "plan"
    /\ UNCHANGED <<turn, batch, tableVars, readVars>>

\* MetricTableProvider::scan; a metric without a table, or a column that its
\* table does not have, is an error of SQL.
Planned ==
    /\ query.metric \in DOMAIN schemas
    /\ \A e \in query.where : e.column \in Numeric \cup schemas[query.metric]

Plan ==
    /\ phase = "plan"
    /\ turn' = 1
    /\ phase' = IF Planned THEN "scan" ELSE "refused"
    /\ UNCHANGED <<query, batch, tableVars, readVars>>

AtRow == phase = "scan" /\ turn <= Len(rows)
Pruned(row) == \E f \in Filters : ~matches_descriptor(f, row)

\* A row of another metric, or one that the conditions rule out.
SkipRow ==
    /\ AtRow
    /\ \/ rows[turn].metric # query.metric
       \/ rows[turn].repository \in registry /\ Pruned(rows[turn])
    /\ turn' = turn + 1
    /\ UNCHANGED <<query, batch, phase, tableVars, readVars>>

QueryFails ==
    /\ batch' = {}
    /\ phase' = "refused"
    /\ UNCHANGED <<query, turn, tableVars>>

\* A row of a repository that is not configured fails the query, pruned or not.
UnknownRepository ==
    /\ AtRow
    /\ rows[turn].metric = query.metric /\ rows[turn].repository \notin registry
    /\ QueryFails
    /\ UNCHANGED readVars

\* read_samples, from the object store: no object has length zero.
BeginRead(file) ==
    /\ AtRow
    /\ rows[turn].metric = query.metric
    /\ rows[turn].repository \in registry /\ ~Pruned(rows[turn])
    /\ ReadRecord(file, rows[turn].offset)
    /\ phase' = "read"
    /\ UNCHANGED <<query, turn, batch, tableVars>>

Record == CHOOSE r \in segment.records : output = Interval(r.at, RecordEnd(r))
MetricRow(row, sample) ==
    [chunk |-> <<row.path, row.offset>>, timestamp |-> sample[1], value |-> sample[2],
     resolution |-> row.resolution,
     labels |-> [n \in schemas[query.metric] |-> LabelColumn(row.labels, n)]]

Keeps(row, sample) == \A f \in Filters : matches_sample(f, row, sample)

\* The rest of build_metric_batch for one row.
TakeSamples ==
    /\ phase = "read" /\ reading \in {"read", "failed"}
    /\ LET decoded == IF reading = "failed" THEN Failed
                      ELSE decode_record(Record, query.metric \in CounterMetrics)
           row == rows[turn]
       IN  IF decoded.ok
           THEN /\ batch' = batch \cup {MetricRow(row, s) : s \in {d \in decoded.samples : Keeps(row, d)}}
                /\ turn' = turn + 1
                /\ phase' = "scan"
                /\ UNCHANGED <<query, tableVars>>
           ELSE QueryFails
    /\ ReadDone

\* record_batch of the columns that are asked for, or that DataFusion needs to
\* evaluate the conditions it kept; a batch of no column has no length.
Finish ==
    /\ phase = "scan" /\ turn > Len(rows)
    /\ IF query.columns = {} /\ Residual = {} THEN QueryFails
       ELSE /\ batch' = {r \in batch : Satisfies(r, Residual)}
            /\ phase' = "answered"
            /\ UNCHANGED <<query, turn, tableVars>>
    /\ UNCHANGED readVars

Leave ==
    /\ phase \in {"answered", "refused"}
    /\ query' = NoQuery /\ turn' = 0 /\ batch' = {}
    /\ phase' = "serve"
    /\ UNCHANGED <<tableVars, readVars>>

-----------------------------------------------------------------------------
\* The operators for which matches_descriptor and matches_sample have an arm.
Evaluated(e) ==
    /\ e.column = "timestamp" => e.operator \in {"=", "<", "<=", ">", ">="}
    /\ e.column = "downsample_resolution" => e.operator \in {"=", "!=", "<", "<=", ">", ">="}

\* What a query makes of a condition: one that the scan takes over drops every row
\* if it is not Evaluated, and is that of the column without its cast if it is.
Kept(e, row) ==
    LET x == Column(row, e.column)
    IN  IF Parses(e) THEN Evaluated(e) /\ Compares(e, x) ELSE Holds(e, x)

\* A condition that the scan evaluates as DataFusion would, if it takes it over.
Comparable(e) == Parses(e) => Evaluated(e) /\ ~e.narrowed
=============================================================================
