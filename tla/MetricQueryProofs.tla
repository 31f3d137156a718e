------------------------- MODULE MetricQueryProofs -------------------------
(***************************************************************************)
(* The properties of the parser, the reader and the scan as theorems of    *)
(* the specification that composes them.                                   *)
(***************************************************************************)
EXTENDS MetricQuery, IndexWalkProofs, ChunkReadProofs

-----------------------------------------------------------------------------
(* Conditions: why a scan may take one over from DataFusion, and leave out a chunk
   because of it, for any column, any literal and any row. *)

Comparisons == {"=", "!=", "<", "<=", ">", ">="}

\* reverse_operator: a comparison with its literal on the left holds when the
\* reversed one holds with the literal on the right.
LEMMA ReverseIsMirror ==
    ASSUME NEW a \in Int, NEW b \in Int, NEW operator \in Comparisons
    PROVE  /\ reverse_operator(operator) \in Comparisons
           /\ Compare(a, operator, b) <=> compare_i64(b, reverse_operator(operator), a)
  BY DEF Comparisons, Compare, compare_i64, reverse_operator

\* compare_i64 evaluates a comparison as DataFusion does.
LEMMA ComparisonIsSame ==
    ASSUME NEW a \in Int, NEW b \in Int, NEW operator \in Comparisons
    PROVE  Compare(a, operator, b) <=> compare_i64(a, operator, b)
  BY DEF Comparisons, Compare, compare_i64

\* A numeric condition that is accepted: the scan's comparison is the condition.
LEMMA NumericIsExact ==
    ASSUME NEW e, NEW x \in Int, e.column \in Numeric, e.value \in Int,
           e.flipped \in BOOLEAN, e.operator \in Comparisons
    PROVE  compare_i64(x, Oriented(e), e.value) <=> Compares(e, x)
  <1>1. CASE e.flipped
    <2>1. Oriented(e) = reverse_operator(e.operator)
      BY <1>1 DEF Oriented
    <2>2. Compares(e, x) <=> Compare(e.value, e.operator, x)
      BY <1>1 DEF Compares
    <2> QED
      BY <2>1, <2>2, ReverseIsMirror
  <1>2. CASE ~e.flipped
    <2>1. Oriented(e) = e.operator
      BY <1>2 DEF Oriented
    <2>2. Compares(e, x) <=> Compare(x, e.operator, e.value)
      BY <1>2 DEF Compares
    <2> QED
      BY <2>1, <2>2, ComparisonIsSame
  <1> QED
    BY <1>1, <1>2

\* A condition on a label that is accepted: matching it is the condition.
LEMMA LabelIsExact ==
    ASSUME NEW e, NEW labels, Parses(e), e.flipped \in BOOLEAN, e.column \notin Numeric
    PROVE  MatchesLabel(parse_filter(e), labels) <=> Compares(e, LabelColumn(labels, e.column))
  <1>1. Oriented(e) \in {"=", "!=", "~", "!~"}
    BY DEF Parses
  <1>2. Oriented(e) = e.operator
    BY <1>1 DEF Oriented, reverse_operator
  <1>3. /\ parse_filter(e).column = e.column /\ parse_filter(e).value = e.value
        /\ parse_filter(e).operator = e.operator
    BY <1>2 DEF parse_filter
  <1>4. e.operator # "distinct"
    BY <1>1, <1>2
  <1> QED
    BY <1>3, <1>4 DEF MatchesLabel, Compares

\* matches_sample, for the operators that the scan evaluates.
LEMMA SampleIsCompared ==
    ASSUME NEW e, NEW row, NEW sample, IsCondition(e), Parses(e), Evaluated(e),
           e.column \in Numeric \cup schemas[query.metric],
           sample[1] \in Int, row.resolution \in Int
    PROVE  matches_sample(parse_filter(e), row, sample)
                <=> Compares(e, Column(MetricRow(row, sample), e.column))
  <1> DEFINE shown == MetricRow(row, sample)
  <1>0. /\ parse_filter(e).column = e.column /\ parse_filter(e).value = e.value
        /\ parse_filter(e).operator = Oriented(e) /\ e.flipped \in BOOLEAN
    BY DEF parse_filter, IsCondition
  <1>1. CASE e.column = "timestamp"
    <2>1. e.value \in Int /\ e.operator \in Comparisons /\ e.column \in Numeric
      BY <1>1 DEF IsCondition, Evaluated, Comparisons, Numeric
    <2>2. Column(shown, e.column) = sample[1]
      BY <1>1 DEF Column, MetricRow
    <2>3. matches_sample(parse_filter(e), row, sample)
            <=> compare_i64(sample[1], Oriented(e), e.value)
      BY <1>0, <1>1 DEF matches_sample
    <2> QED
      BY <1>0, <2>1, <2>2, <2>3, NumericIsExact
  <1>2. CASE e.column = "downsample_resolution"
    <2>1. e.value \in Int /\ e.operator \in Comparisons /\ e.column \in Numeric
      BY <1>2 DEF IsCondition, Evaluated, Comparisons, Numeric
    <2>2. Column(shown, e.column) = row.resolution
      BY <1>2 DEF Column, MetricRow
    <2>3. matches_sample(parse_filter(e), row, sample)
            <=> compare_i64(row.resolution, Oriented(e), e.value)
      BY <1>0, <1>2 DEF matches_sample
    <2> QED
      BY <1>0, <2>1, <2>2, <2>3, NumericIsExact
  <1>3. CASE e.column \notin Numeric
    <2>1. LabelColumn(shown.labels, e.column) = LabelColumn(row.labels, e.column)
      BY <1>3 DEF MetricRow, LabelColumn
    <2>2. Column(shown, e.column) = LabelColumn(row.labels, e.column)
      BY <1>3, <2>1 DEF Column, Numeric
    <2>3. matches_sample(parse_filter(e), row, sample) = MatchesLabel(parse_filter(e), row.labels)
      BY <1>0, <1>3 DEF matches_sample, Numeric
    <2> QED
      BY <1>0, <1>3, <2>2, <2>3, LabelIsExact
  <1>4. e.column # "value"
    BY DEF Parses
  <1> QED
    BY <1>1, <1>2, <1>3, <1>4 DEF Numeric

\* matches_descriptor: for the operators that the scan evaluates, a chunk that a
\* condition rules out has no sample that the condition would keep, if its
\* samples lie within its bounds.
THEOREM PruningIsSound ==
    ASSUME NEW e, NEW row, NEW sample, IsCondition(e), Parses(e), Evaluated(e),
           row.mint \in Int, row.maxt \in Int, sample[1] \in row.mint..row.maxt,
           matches_sample(parse_filter(e), row, sample)
    PROVE  matches_descriptor(parse_filter(e), row)
  <1> DEFINE f == parse_filter(e)
  <1>0. f.column = e.column /\ f.value = e.value /\ f.operator = Oriented(e)
    BY DEF parse_filter
  <1>1. CASE e.column = "timestamp"
    <2>1. e.value \in Int /\ e.operator \in {"=", "<", "<=", ">", ">="}
      BY <1>1 DEF IsCondition, Evaluated, Numeric
    <2>2. Oriented(e) \in {"=", "<", "<=", ">", ">="}
      BY <2>1 DEF Oriented, reverse_operator
    <2>3. compare_i64(sample[1], Oriented(e), e.value)
      BY <1>0, <1>1 DEF matches_sample
    <2>4. sample[1] \in Int /\ row.mint <= sample[1] /\ sample[1] <= row.maxt
      OBVIOUS
    <2> HIDE DEF f
    <2>5. /\ Oriented(e) = "="  => row.mint <= f.value /\ f.value <= row.maxt
          /\ Oriented(e) = ">"  => row.maxt > f.value
          /\ Oriented(e) = ">=" => row.maxt >= f.value
          /\ Oriented(e) = "<"  => row.mint < f.value
          /\ Oriented(e) = "<=" => row.mint <= f.value
      BY <1>0, <2>1, <2>3, <2>4 DEF compare_i64
    <2>6. matches_descriptor(f, row)
      BY <1>0, <1>1, <2>2, <2>5 DEF matches_descriptor
    <2> QED
      BY <2>6 DEF f
  <1>2. CASE e.column # "timestamp"
    BY <1>0, <1>2 DEF matches_sample, matches_descriptor
  <1> QED
    BY <1>1, <1>2

\* supports_filters_pushdown answers Exact for what parse_filter accepts, so that
\* DataFusion does not evaluate it again.  What the scan makes of such a condition,
\* whatever its column, operator and literal: a sample comes through the pruning
\* of its chunk and the filter of samples exactly if the operator is one that the
\* scan has an arm for, and holds of the column without its cast.  That is what
\* DataFusion would have kept if there is such an arm and no cast.
THEOREM PushdownIsKnown ==
    ASSUME NEW e, NEW row, NEW sample, IsCondition(e), Parses(e),
           e.column \in Numeric \cup schemas[query.metric],
           row.mint \in Int, row.maxt \in Int, sample[1] \in row.mint..row.maxt,
           row.resolution \in Int
    PROVE  LET f == parse_filter(e)
               x == Column(MetricRow(row, sample), e.column)
               comes == matches_descriptor(f, row) /\ matches_sample(f, row, sample)
           IN  /\ comes <=> Evaluated(e) /\ Compares(e, x)
               /\ Evaluated(e) /\ ~e.narrowed => (comes <=> Holds(e, x))
  <1> DEFINE f == parse_filter(e)
             x == Column(MetricRow(row, sample), e.column)
             comes == matches_descriptor(f, row) /\ matches_sample(f, row, sample)
  <1>1. sample[1] \in Int
    OBVIOUS
  <1>2. Evaluated(e) => (comes <=> Compares(e, x))
    <2> SUFFICES ASSUME Evaluated(e) PROVE comes <=> Compares(e, x)
      OBVIOUS
    <2>1. matches_sample(f, row, sample) <=> Compares(e, x)
      BY <1>1, SampleIsCompared
    <2>2. matches_sample(f, row, sample) => matches_descriptor(f, row)
      BY PruningIsSound
    <2> QED
      BY <2>1, <2>2
  <1>3. ~Evaluated(e) => ~comes
    <2> SUFFICES ASSUME ~Evaluated(e) PROVE ~comes
      OBVIOUS
    <2>1. f.column = e.column /\ f.value = e.value /\ f.operator = Oriented(e)
      BY DEF parse_filter
    <2>2. e.operator \in BinaryOperators /\ Oriented(e) # "none" /\ e.flipped \in BOOLEAN
      BY DEF Parses, IsCondition
    <2> HIDE DEF f
    <2>3. CASE e.column = "timestamp"
      <3>1. Oriented(e) \notin {"=", "<", "<=", ">", ">="}
        BY <2>2, <2>3 DEF Evaluated, Oriented, reverse_operator, BinaryOperators
      <3>2. ~matches_descriptor(f, row)
        BY <2>1, <2>3, <3>1 DEF matches_descriptor
      <3> QED
        BY <3>2
    <2>4. CASE e.column = "downsample_resolution"
      <3>1. Oriented(e) \notin {"=", "!=", "<", "<=", ">", ">="}
        BY <2>2, <2>4 DEF Evaluated, Oriented, reverse_operator, BinaryOperators
      <3>2. ~compare_i64(row.resolution, Oriented(e), e.value)
        BY <3>1 DEF compare_i64
      <3>3. ~matches_sample(f, row, sample)
        BY <2>1, <2>4, <3>2 DEF matches_sample
      <3> QED
        BY <3>3
    <2> QED
      BY <2>3, <2>4 DEF Evaluated
  <1>4. ~e.narrowed => (Holds(e, x) <=> Compares(e, x))
    BY DEF Holds
  <1> QED
    BY <1>2, <1>3, <1>4
-----------------------------------------------------------------------------
(* The parts. *)

\* The phases of the others leave the parser alone, and the other way round; what
\* is parsed is the index of a block, and what is read a segment of one.
PlaceInv ==
    /\ setup \in Setups /\ pageSize = setup.pageSize /\ built \in Nat
    /\ walk # "idle" => IsIndex(index)
    /\ phase = "read" <=> reading # "idle"
    /\ phase = "read" => /\ segment = FileAt(rows[turn].path)
                         /\ want = rows[turn].offset

PartsInv == PlaceInv /\ WalkInv /\ ReadInv

\* The object at a path is a segment.
LEMMA FilesAreSegments ==
    ASSUME setup \in Setups, NEW path
    PROVE  IsSegment(FileAt(path))
  <1> DEFINE HasFile(b) == b.ulid = path[1] /\ path[2] \in DOMAIN b.segments
  <1>1. CASE \E b \in Stored : HasFile(b)
    <2> DEFINE holder == CHOOSE b \in Stored : HasFile(b)
    <2>1. holder \in Stored /\ HasFile(holder)
      BY <1>1
    <2>2. holder \in {setup.blocks[i] : i \in DOMAIN setup.blocks} \cup setup.others
      BY <2>1 DEF Stored, Blocks
    <2> HIDE DEF holder
    <2>3. IsSegment(holder.segments[path[2]])
      BY <2>1, <2>2, SetupsAssumption
    <2>4. FileAt(path) = holder.segments[path[2]]
      BY <1>1 DEF FileAt, holder
    <2> QED
      BY <2>3, <2>4
  <1>2. CASE ~\E b \in Stored : HasFile(b)
    <2>1. FileAt(path) = Missing
      BY <1>2 DEF FileAt
    <2> QED
      BY <2>1 DEF Missing, IsSegment
  <1> QED
    BY <1>1, <1>2

\* Nothing is parsed or read at first.
LEMMA PartsInvInit ==
    ASSUME Init
    PROVE  PartsInv
  BY DEF Init, WalkInit, ReadInit, TableInit, PartsInv, PlaceInv, WalkInv, ReadInv

\* The steps of a bootstrap.
LEMMA PartsInvBootstrap ==
    ASSUME PartsInv, Bootstrap
    PROVE  PartsInv'
  <1>1. CASE OpenBlock
    <2>1. built + 1 \in DOMAIN setup.blocks
      BY <1>1, SetupsAssumption DEF OpenBlock, PartsInv, PlaceInv
    <2>2. IsIndex(BlockInTurn.index)
      BY <2>1, SetupsAssumption DEF BlockInTurn, PartsInv, PlaceInv
    <2>3. IsIndex(index)'
      BY <1>1, <2>2 DEF OpenBlock, OpenIndex, IsIndex
    <2>4. UNCHANGED <<setup, built, readVars, tableVars, scanVars>>
      BY <1>1 DEF OpenBlock
    <2>5. PlaceInv'
      BY <2>3, <2>4 DEF PartsInv, PlaceInv, readVars, tableVars, scanVars, FileAt, Stored, Blocks, Missing
    <2> QED
      BY <1>1, <2>4, <2>5, WalkInvOpen, ReadInvStutter DEF OpenBlock, PartsInv
  <1>2. CASE ParseIndex
    <2>1. index' = index /\ walk # "idle"
      BY <1>2 DEF ParseIndex, WalkStep, SkipPadding, ParseSeries, RefuseSeries, EndOfSeries
    <2>2. UNCHANGED <<setup, built, readVars, tableVars, scanVars>>
      BY <1>2 DEF ParseIndex
    <2>3. IsIndex(index)'
      BY <2>1 DEF PartsInv, PlaceInv, IsIndex
    <2>4. PlaceInv'
      BY <2>2, <2>3 DEF PartsInv, PlaceInv, readVars, tableVars, scanVars, FileAt, Stored, Blocks, Missing
    <2> QED
      BY <1>2, <2>2, <2>4, WalkInvStep, ReadInvStutter DEF ParseIndex, PartsInv
  <1>3. CASE PublishBlock /\ WalkDone
    <2>1. UNCHANGED <<setup, readVars, phase>> /\ built' = built + 1 /\ walk' = "idle" /\ phase = "index"
      BY <1>3 DEF PublishBlock, BootstrapFails, WalkDone, walkVars, scanVars
    <2>2. PlaceInv'
      BY <2>1 DEF PartsInv, PlaceInv, readVars
    <2> QED
      BY <1>3, <2>1, <2>2, WalkInvDone, ReadInvStutter DEF PartsInv
  <1>4. CASE BootstrapFails /\ phase = "index"
    <2>1. UNCHANGED <<setup, built, walkVars, readVars>> /\ phase' # "read"
      BY <1>4 DEF BootstrapFails
    <2>2. PlaceInv'
      BY <1>4, <2>1 DEF PartsInv, PlaceInv, readVars, walkVars, IsIndex
    <2> QED
      BY <2>1, <2>2, WalkInvStutter, ReadInvStutter DEF PartsInv
  <1>5. CASE RegisterTables
    <2>1. UNCHANGED <<setup, built, walkVars, readVars>> /\ phase' # "read" /\ phase = "index"
      BY <1>5 DEF RegisterTables
    <2>2. PlaceInv'
      BY <2>1 DEF PartsInv, PlaceInv, readVars, walkVars, IsIndex
    <2> QED
      BY <2>1, <2>2, WalkInvStutter, ReadInvStutter DEF PartsInv
  <1> QED
    BY <1>1, <1>2, <1>3, <1>4, <1>5 DEF Bootstrap, PublishBlock, RefuseBlock

\* The steps of a scan and of a client.
LEMMA PartsInvQuery ==
    ASSUME PartsInv, Scan \/ Client
    PROVE  PartsInv'
  <1>1. UNCHANGED <<setup, built, walkVars>>
    BY DEF Scan, Client
  <1>2. WalkInv' /\ (walk' # "idle" => IsIndex(index)')
    BY <1>1, WalkInvStutter DEF PartsInv, PlaceInv, walkVars, IsIndex
  <1>3. CASE UNCHANGED readVars /\ phase # "read" /\ phase' # "read"
    BY <1>1, <1>2, <1>3, ReadInvStutter DEF PartsInv, PlaceInv, readVars
  <1>4. CASE phase = "scan" /\ BeginRead(FileAt(rows[turn].path))
    <2>1. ReadRecord(FileAt(rows[turn].path), rows[turn].offset)
      BY <1>4 DEF BeginRead
    <2>2. /\ UNCHANGED <<pageSize, rows, turn>> /\ phase' = "read" /\ reading' # "idle"
          /\ segment' = FileAt(rows[turn].path) /\ want' = rows[turn].offset
      BY <1>4, <2>1 DEF BeginRead, ReadRecord, tableVars
    <2>3. FileAt(rows[turn].path)' = FileAt(rows[turn].path)
      BY <1>1, <2>2 DEF FileAt, Stored, Blocks, Missing
    <2> QED
      BY <1>1, <1>2, <2>1, <2>2, <2>3, ReadInvBegin DEF PartsInv, PlaceInv
  <1>5. CASE phase = "read" /\ ReadStep /\ UNCHANGED <<tableVars, scanVars>>
    <2>1. UNCHANGED <<pageSize, segment, want>> /\ reading' # "idle"
      BY <1>5 DEF ReadStep, ReadPage, ReadDirect, ParsePrefix, CheckRecord, ReadFailed, InRange
    <2>2. UNCHANGED <<rows, turn, phase>>
      BY <1>5 DEF tableVars, scanVars
    <2>3. FileAt(rows[turn].path)' = FileAt(rows[turn].path)
      BY <1>1, <2>2 DEF FileAt, Stored, Blocks, Missing
    <2> QED
      BY <1>1, <1>2, <1>5, <2>1, <2>2, <2>3, ReadInvStep DEF PartsInv, PlaceInv
  <1>6. CASE TakeSamples
    <2>1. ReadDone /\ phase' # "read"
      BY <1>6 DEF TakeSamples, QueryFails
    <2>2. reading' = "idle" /\ UNCHANGED pageSize
      BY <2>1 DEF ReadDone
    <2> QED
      BY <1>1, <1>2, <2>1, <2>2, ReadInvDone DEF PartsInv, PlaceInv
  <1>7. CASE Plan \/ SkipRow \/ UnknownRepository \/ Finish \/ Client
    <2>1. UNCHANGED readVars /\ phase # "read" /\ phase' # "read"
      BY <1>7 DEF Plan, SkipRow, AtRow, UnknownRepository, QueryFails, Finish, Client, Leave, Arrive
    <2> QED
      BY <1>3, <2>1
  <1> QED
    BY <1>4, <1>5, <1>6, <1>7 DEF Scan

\* The parts keep their invariants in the whole.
LEMMA PartsInvNext ==
    ASSUME PartsInv, [Next]_vars
    PROVE  PartsInv'
  <1>1. CASE UNCHANGED vars
    <2>1. UNCHANGED <<setup, built, rows, turn, phase>> /\ UNCHANGED walkVars /\ UNCHANGED readVars
      BY <1>1 DEF vars, tableVars, scanVars
    <2>2. PlaceInv'
      <3>1. PlaceInv
        BY DEF PartsInv
      <3>2. UNCHANGED <<setup, built, rows, turn, phase, index, walk, pageSize, reading, segment, want>>
        BY <2>1 DEF walkVars, readVars
      <3>3. IsIndex(index)' <=> IsIndex(index)
        BY <3>2 DEF IsIndex, Blocks
      <3>4. FileAt(rows[turn].path)' = FileAt(rows[turn].path)
        BY <3>2 DEF FileAt, Stored, Blocks, Missing
      <3> QED
        BY <3>1, <3>2, <3>3, <3>4 DEF PlaceInv
    <2> QED
      BY <2>1, <2>2, WalkInvStutter, ReadInvStutter DEF PartsInv
  <1> QED
    BY <1>1, PartsInvBootstrap, PartsInvQuery DEF Next

\* The inductive invariant of parser and reader holds of the composition.
LEMMA PartsAreSafe == Spec => []PartsInv
  <1>1. Init => PartsInv
    BY PartsInvInit
  <1>2. PartsInv /\ [Next]_vars => PartsInv'
    BY PartsInvNext
  <1> QED
    BY <1>1, <1>2, PTL DEF Spec

\* parse_each, "deliver each series as it is decoded": of a well formed index of
\* any size, wherever its entries lie, the bootstrap loses no series.
THEOREM NoSeriesIsLost == Spec => []NoSeriesLost
  <1>1. PartsInv => NoSeriesLost
    BY WalkInvLosesNothing DEF PartsInv, PlaceInv
  <1> QED
    BY <1>1, PartsAreSafe, PTL

\* RangeCache::read_range and read_record: for every page size and every segment,
\* a scan that reads a sound record gets it byte for byte, and no other one.
THEOREM RecordsAreExact == Spec => []RecordIsExact
  <1>1. PartsInv => RecordIsExact
    <2> SUFFICES ASSUME PartsInv PROVE RecordIsExact
      OBVIOUS
    <2>1. pageSize \in Nat
      BY SetupsAssumption DEF PartsInv, PlaceInv
    <2>2. reading # "idle" => IsSegment(segment)
      BY FilesAreSegments DEF PartsInv, PlaceInv
    <2> QED
      BY <2>1, <2>2, ReadInvIsExact DEF PartsInv
  <1> QED
    BY <1>1, PartsAreSafe, PTL

\* decode_aggregate and decode_aggregate_counter: the slots of an aggregate that
\* the compactor wrote are sent and shown as they were written, wherever slots of
\* length zero lie and however long the fields of the others are; and of any
\* payload at all that the StoreAPI sends, a metric table shows the samples that
\* the client finds in it.
THEOREM AggregatesAreRead == Spec => [](SlotsAreRead /\ DecodersAgree)
  <1>1. PartsInv => SlotsAreRead /\ DecodersAgree
    <2>1. CASE reading # "read"
      BY <2>1 DEF SlotsAreRead, DecodersAgree
    <2>2. ASSUME PartsInv, reading = "read" PROVE SlotsAreRead /\ DecodersAgree
      <3>1. IsSegment(segment)
        BY <2>2, FilesAreSegments DEF PartsInv, PlaceInv
      <3> QED
        BY <3>1, WrittenIsRead, SentIsShown
    <2> QED
      BY <2>1, <2>2
  <1> QED
    BY <1>1, PartsAreSafe, PTL

\* The record that was read is the one that the row names.
LEMMA RecordIsRead ==
    ASSUME PartsInv, phase = "read", reading = "read", rows[turn].offset \in Nat
    PROVE  /\ segment = FileAt(rows[turn].path) /\ IsSegment(segment)
           /\ Record \in segment.records /\ Record.at = rows[turn].offset /\ Record.sound
           /\ \A q \in segment.records : q.at = rows[turn].offset => q = Record
  <1>1. /\ segment = FileAt(rows[turn].path) /\ want = rows[turn].offset
        /\ IsSegment(segment) /\ pageSize \in Nat /\ RecordIsExact
    BY FilesAreSegments, ReadInvIsExact, SetupsAssumption DEF PartsInv, PlaceInv
  <1>2. PICK r \in segment.records : r.at = want
    BY <1>1 DEF PartsInv, ReadInv
  <1>3. output = Interval(want, RecordEnd(r))
    BY <1>1, <1>2 DEF RecordIsExact
  <1>4. ASSUME NEW q \in segment.records, q.at = want
        PROVE  q = r
    BY <1>1, <1>2, <1>4 DEF IsSegment
  <1>5. ASSUME NEW q \in segment.records, output = Interval(q.at, RecordEnd(q))
        PROVE  q = r
    <2>0. ASSUME NEW p \in segment.records
          PROVE  p.at \in Int /\ RecordEnd(p) \in Int /\ p.at < RecordEnd(p)
      <3>1. p.at \in Nat /\ p.head \in Nat /\ p.payload \in Bytes
        BY <1>1 DEF IsSegment, MAX_UVARINT_SIZE
      <3>2. PICK n \in Nat : n = Len(p.payload)
        BY <3>1, LenProperties DEF Bytes
      <3> QED
        BY <3>1, <3>2 DEF RecordEnd, CRC_SIZE
    <2>1. /\ want \in Int /\ RecordEnd(r) \in Int /\ want < RecordEnd(r)
          /\ q.at \in Int /\ RecordEnd(q) \in Int
      BY <1>2, <2>0
    <2>2. Interval(want, RecordEnd(r)) = Interval(q.at, RecordEnd(q))
      BY <1>3, <1>5
    <2>3. want = q.at
      BY <2>1, <2>2, IntervalsDiffer
    <2> QED
      BY <1>4, <2>3
  <1>6. Record = r
    BY <1>2, <1>3, <1>5 DEF Record
  <1>7. r.sound
    BY <1>1, <1>2 DEF RecordIsExact
  <1> QED
    BY <1>1, <1>2, <1>4, <1>6, <1>7

-----------------------------------------------------------------------------
(* Types. *)

\* BoundsCoverChunks and TypeOK rest on what the parts hold.
RowTyped(r) ==
    /\ r.mint \in Int /\ r.maxt \in Int /\ r.mint <= r.maxt
    /\ r.offset \in 0..(SegmentSpan - 1) /\ r.resolution \in Int

TypesInv ==
    /\ phase \in {"index", "failed", "serve", "plan", "scan", "read", "answered", "refused"}
    /\ built <= Len(setup.blocks)
    /\ walk # "idle" => /\ phase \in {"index", "failed"} /\ built < Len(setup.blocks)
                        /\ index = BlockInTurn.index
    /\ WalkTypes
    /\ reading \in {"idle", "prefix", "record", "read", "failed"}
    /\ query \in Queries \cup {NoQuery}
    /\ phase \in {"index", "failed", "serve"} => query = NoQuery /\ turn = 0 /\ batch = {}
    /\ rows \in Seq(ToSet(rows)) /\ \A r \in ToSet(rows) : RowTyped(r)
    /\ turn \in 0..(Len(rows) + 1)
    /\ phase \in {"scan", "read"} => turn # 0
    /\ phase = "read" => turn \in 1..Len(rows)
    /\ \A r \in batch : r.timestamp \in Int /\ DOMAIN r.labels = schemas[query.metric]

\* Setups: their blocks and leftover rows are sequences.
LEMMA SetupFacts ==
    ASSUME setup \in Setups
    PROVE  /\ Len(setup.blocks) \in Nat /\ DOMAIN setup.blocks = 1..Len(setup.blocks)
           /\ setup.leftover \in Seq(ToSet(setup.leftover))
           /\ \A r \in ToSet(setup.leftover) : RowTyped(r) /\ IsLeftover(setup, r)
  <1>1. setup.blocks \in Seq({setup.blocks[i] : i \in DOMAIN setup.blocks})
    BY SetupsAssumption
  <1>2. setup.leftover \in Seq({setup.leftover[i] : i \in DOMAIN setup.leftover})
    BY SetupsAssumption
  <1>3. \A i \in DOMAIN setup.leftover : IsLeftover(setup, setup.leftover[i])
    BY SetupsAssumption
  <1>4. ToSet(setup.leftover) = {setup.leftover[i] : i \in DOMAIN setup.leftover}
    BY DEF ToSet
  <1>5. \A r \in ToSet(setup.leftover) : IsLeftover(setup, r)
    BY <1>3, <1>4
  <1> QED
    BY <1>1, <1>2, <1>4, <1>5, LenProperties DEF IsLeftover, RowTyped

\* A process starts with the rows it finds.
LEMMA TypesInit ==
    ASSUME Init
    PROVE  TypesInv
  <1>1. /\ phase = "index" /\ built = 0 /\ walk = "idle" /\ offset = 0 /\ parsed = <<>>
        /\ reading = "idle" /\ query = NoQuery /\ turn = 0 /\ batch = {}
        /\ rows = setup.leftover /\ setup \in Setups
    BY DEF Init, WalkInit, ReadInit, TableInit
  <1>2. WalkTypes
    BY <1>1 DEF WalkTypes
  <1>3. /\ Len(setup.blocks) \in Nat
        /\ rows \in Seq(ToSet(rows)) /\ \A r \in ToSet(rows) : RowTyped(r)
    BY <1>1, SetupFacts
  <1>4. Len(rows) \in Nat
    BY <1>3, LenProperties
  <1> QED
    BY <1>1, <1>2, <1>3, <1>4 DEF TypesInv

\* What a block's row for a chunk says.
RowAt(b, s, c) ==
    [repository |-> b.repository, path |-> <<b.ulid, c.reference \div SegmentSpan + 1>>,
     offset |-> c.reference % SegmentSpan, mint |-> c.mint, maxt |-> c.maxt,
     resolution |-> b.resolution, metric |-> s.labels["__name__"], labels |-> RowLabels(b, s)]

\* The rows of a series, and of all that are parsed.
SeriesRows(b, s) == {RowAt(b, s, s.chunks[j]) : j \in DOMAIN s.chunks}
ParsedRows(b) == UNION {SeriesRows(b, parsed[i]) : i \in DOMAIN parsed}

\* append_chunk_rows: one row for each chunk of a series.
LEMMA RowsOfSeries ==
    ASSUME NEW b, NEW s, NEW S, s.chunks \in Seq(S)
    PROVE  /\ ChunkRows(b, s) \in Seq(SeriesRows(b, s)) /\ ToSet(ChunkRows(b, s)) = SeriesRows(b, s)
           /\ Len(ChunkRows(b, s)) = Len(s.chunks)
           /\ \A j \in DOMAIN s.chunks : ChunkRows(b, s)[j] = RowAt(b, s, s.chunks[j])
  <1> DEFINE n == Len(s.chunks)
  <1>1. n \in Nat /\ DOMAIN s.chunks = 1..n
    BY LenProperties
  <1>2. ChunkRows(b, s) = [j \in 1..n |-> RowAt(b, s, s.chunks[j])]
    BY <1>1 DEF ChunkRows, RowAt
  <1> HIDE DEF n
  <1>3. ChunkRows(b, s) \in [1..n -> SeriesRows(b, s)]
    BY <1>1, <1>2 DEF SeriesRows
  <1>4. ChunkRows(b, s) \in Seq(SeriesRows(b, s)) /\ Len(ChunkRows(b, s)) = n
    BY <1>1, <1>3
  <1>5. ToSet(ChunkRows(b, s)) = {ChunkRows(b, s)[j] : j \in 1..n}
    BY <1>4, Elements
  <1> QED
    BY <1>1, <1>2, <1>4, <1>5 DEF n, SeriesRows

\* What is parsed has the chunks of an entry.
LEMMA ParsedChunks ==
    ASSUME WalkTypes, IsIndex(index), NEW i \in DOMAIN parsed
    PROVE  \E e \in index.entries :
              /\ SeriesParses(index, e) /\ parsed[i] = SeriesOf(index, e) /\ parsed[i].chunks = Chunks(e)
              /\ e.chunks \in Seq(ChunkMetas)
              /\ Chunks(e) \in Seq(ChunkPlaces) /\ DOMAIN Chunks(e) = 1..Len(e.chunks)
              /\ DOMAIN e.chunks = 1..Len(e.chunks)
  <1>1. PICK e \in index.entries : SeriesParses(index, e) /\ parsed[i] = SeriesOf(index, e)
    BY DeliveredParses
  <1>2. e.chunks \in Seq(ChunkMetas) /\ parsed[i].chunks = Chunks(e)
    BY <1>1 DEF IsIndex, SeriesOf
  <1> QED
    BY <1>1, <1>2, ChunksFollow, LenProperties

\* The rows of a block are those of its series, one series after the other.
LEMMA RowsOfBlock ==
    ASSUME WalkTypes, IsIndex(index), NEW b
    PROVE  RowsOf(b) \in Seq(ParsedRows(b)) /\ ToSet(RowsOf(b)) = ParsedRows(b)
  <1> DEFINE n == Len(parsed)
             R(i) == SeriesRows(b, parsed[i])
             seqs == [i \in DOMAIN parsed |-> ChunkRows(b, parsed[i])]
  <1>1. n \in Nat /\ DOMAIN parsed = 1..n
    BY LenProperties DEF WalkTypes
  <1>2. ASSUME NEW i \in 1..n
        PROVE  seqs[i] \in Seq(R(i)) /\ ToSet(seqs[i]) = R(i)
    <2>1. parsed[i].chunks \in Seq(ChunkPlaces)
      BY <1>1, ParsedChunks
    <2>2. seqs[i] = ChunkRows(b, parsed[i])
      BY <1>1
    <2>3. ChunkRows(b, parsed[i]) \in Seq(R(i)) /\ ToSet(ChunkRows(b, parsed[i])) = R(i)
      BY <2>1, RowsOfSeries
    <2> HIDE DEF R, seqs
    <2> QED
      BY <2>2, <2>3
  <1>3. ParsedRows(b) = UNION {R(i) : i \in 1..n}
    BY <1>1 DEF ParsedRows
  <1> HIDE DEF n, R
  <1>4. ASSUME NEW i \in 1..n PROVE seqs[i] \in Seq(ParsedRows(b))
    <2>1. R(i) \subseteq ParsedRows(b)
      BY <1>3
    <2> QED
      BY <1>2, <2>1
  <1>5. seqs \in Seq(Seq(ParsedRows(b))) /\ Len(seqs) = n
    <2>1. seqs \in [1..n -> Seq(ParsedRows(b))]
      BY <1>1, <1>4
    <2> HIDE DEF seqs
    <2> QED
      BY <1>1, <2>1
  <1>6. RowsOf(b) = FlattenSeq(seqs)
    BY DEF RowsOf
  <1> HIDE DEF seqs
  <1>7. UNION {ToSet(seqs[i]) : i \in 1..Len(seqs)} = ParsedRows(b)
    BY <1>2, <1>3, <1>5
  <1> QED
    BY <1>5, <1>6, <1>7, Flattened

\* A row of a block is typed.
LEMMA ParsedRowsTyped ==
    ASSUME WalkTypes, IsIndex(index), NEW b, b.resolution \in Int, NEW r \in ParsedRows(b)
    PROVE  RowTyped(r)
  <1>0. PICK i \in DOMAIN parsed : \E j \in DOMAIN parsed[i].chunks :
            r = RowAt(b, parsed[i], parsed[i].chunks[j])
    BY DEF ParsedRows, SeriesRows
  <1>1. PICK j \in DOMAIN parsed[i].chunks : r = RowAt(b, parsed[i], parsed[i].chunks[j])
    BY <1>0
  <1>2. PICK e \in index.entries :
            /\ parsed[i].chunks = Chunks(e) /\ e.chunks \in Seq(ChunkMetas)
            /\ DOMAIN Chunks(e) = 1..Len(e.chunks)
    BY ParsedChunks
  <1> DEFINE c == Chunks(e)[j]
  <1>3. c \in ChunkPlaces /\ c.mint <= c.maxt
    BY <1>1, <1>2, ChunksFollow
  <1>4. c.mint \in Int /\ c.maxt \in Int /\ c.reference \in Int
    BY <1>3 DEF ChunkPlaces
  <1>5. r = RowAt(b, parsed[i], c)
    BY <1>1, <1>2
  <1> HIDE DEF c
  <1>6. c.reference % SegmentSpan \in 0..(SegmentSpan - 1)
    BY <1>4, SpanAssumption
  <1> QED
    BY <1>3, <1>4, <1>5, <1>6 DEF RowTyped, RowAt

\* A block is opened or walked over: only the parser moves.
LEMMA TypesParse ==
    ASSUME PartsInv, TypesInv, OpenBlock \/ ParseIndex
    PROVE  TypesInv'
  <1>1. UNCHANGED <<setup, built, reading, rows, schemas, query, turn, batch, phase>>
    BY DEF OpenBlock, ParseIndex, readVars, tableVars, scanVars
  <1>2. /\ walk' \in {"walking", "done", "failed"} /\ phase \in {"index", "failed"}
        /\ built < Len(setup.blocks) /\ index' = BlockInTurn.index /\ WalkTypes'
    <2>1. CASE OpenBlock
      <3>1. built + 1 \in DOMAIN setup.blocks
        BY <2>1, SetupFacts DEF OpenBlock, PartsInv, PlaceInv
      <3>2. IsIndex(BlockInTurn.index)
        BY <3>1, SetupsAssumption DEF BlockInTurn, PartsInv, PlaceInv
      <3>3. WalkTypes'
        BY <2>1, <3>2, WalkTypesOpen DEF OpenBlock
      <3> QED
        BY <2>1, <3>3 DEF OpenBlock, OpenIndex
    <2>2. CASE ParseIndex
      <3>1. walk = "walking" /\ index' = index /\ walk' \in {"walking", "done", "failed"}
        BY <2>2 DEF ParseIndex, WalkStep, SkipPadding, ParseSeries, RefuseSeries, EndOfSeries
      <3>2. WalkTypes'
        BY <2>2, <3>1, WalkTypesStep DEF ParseIndex, TypesInv, PartsInv, PlaceInv
      <3> QED
        BY <3>1, <3>2 DEF TypesInv
    <2> QED
      BY <2>1, <2>2
  <1>3. index' = BlockInTurn'.index
    BY <1>1, <1>2 DEF BlockInTurn
  <1> QED
    BY <1>1, <1>2, <1>3 DEF TypesInv

\* The rows of a block join those of the blocks before it.
LEMMA TypesPublish ==
    ASSUME PartsInv, TypesInv, PublishBlock, walk' = "idle"
    PROVE  TypesInv'
  <1>1. /\ phase = "index" /\ walk = "done"
        /\ rows' = rows \o RowsOf(BlockInTurn) /\ built' = built + 1 /\ WalkDone
        /\ UNCHANGED <<setup, readVars, scanVars>>
    BY DEF PublishBlock, BootstrapFails, walkVars
  <1>2. UNCHANGED <<reading, query, turn, batch, phase>>
    BY <1>1 DEF readVars, scanVars
  <1>3. built \in Nat /\ built < Len(setup.blocks) /\ setup \in Setups /\ IsIndex(index) /\ WalkTypes
    BY <1>1 DEF PartsInv, PlaceInv, TypesInv
  <1>4. built + 1 \in DOMAIN setup.blocks
    BY <1>3, SetupFacts
  <1>5. BlockInTurn.resolution \in Int
    BY <1>3, <1>4, SetupsAssumption DEF BlockInTurn
  <1> DEFINE new == RowsOf(BlockInTurn)
             all == ToSet(rows) \cup ToSet(new)
  <1>6. new \in Seq(ToSet(new)) /\ \A r \in ToSet(new) : RowTyped(r)
    BY <1>3, <1>5, RowsOfBlock, ParsedRowsTyped
  <1>7. rows \in Seq(ToSet(rows)) /\ \A r \in ToSet(rows) : RowTyped(r)
    BY DEF TypesInv
  <1> HIDE DEF new
  <1>8. rows \in Seq(all) /\ new \in Seq(all)
    BY <1>6, <1>7
  <1>9. rows' \in Seq(all) /\ ToSet(rows') = all
    BY <1>1, <1>8, Joined DEF new
  <1>10. Len(rows') \in Nat
    BY <1>9, LenProperties
  <1>11. \A r \in ToSet(rows') : RowTyped(r)
    BY <1>6, <1>7, <1>9
  <1>12. rows' \in Seq(ToSet(rows')) /\ \A r \in ToSet(rows') : RowTyped(r)'
    BY <1>9, <1>11 DEF RowTyped
  <1>13. query = NoQuery /\ turn = 0 /\ batch = {} /\ reading \in {"idle", "prefix", "record", "read", "failed"}
    BY <1>1 DEF TypesInv
  <1>14. WalkTypes' /\ walk' = "idle"
    BY <1>1, WalkTypesDone
  <1>15. built' <= Len(setup'.blocks)
    BY <1>1, <1>3, SetupFacts
  <1> QED
    BY <1>1, <1>2, <1>10, <1>12, <1>13, <1>14, <1>15 DEF TypesInv

\* A bootstrap ends, either way.
LEMMA TypesEnd ==
    ASSUME PartsInv, TypesInv, (phase = "index" /\ BootstrapFails) \/ RegisterTables
    PROVE  TypesInv'
  <1>1. /\ UNCHANGED <<setup, built>> /\ UNCHANGED walkVars
        /\ UNCHANGED <<reading, rows, schemas, query, turn, batch>>
        /\ phase = "index" /\ phase' \in {"failed", "serve"} /\ (phase' = "serve" => walk = "idle")
    BY DEF BootstrapFails, RegisterTables, readVars, tableVars
  <1>2. WalkTypes' /\ walk' = walk /\ index' = index
    BY <1>1, WalkTypesStutter DEF TypesInv, walkVars
  <1>3. BlockInTurn' = BlockInTurn
    BY <1>1 DEF BlockInTurn
  <1> QED
    BY <1>1, <1>2, <1>3 DEF TypesInv

\* The steps of a bootstrap.
LEMMA TypesBootstrap ==
    ASSUME PartsInv, TypesInv, Bootstrap
    PROVE  TypesInv'
  <1>1. CASE PublishBlock /\ WalkDone
    BY <1>1, TypesPublish DEF WalkDone
  <1>2. CASE phase = "index" /\ BootstrapFails
    BY <1>2, TypesEnd
  <1> QED
    BY <1>1, <1>2, TypesParse, TypesEnd DEF Bootstrap, PublishBlock, RefuseBlock

\* The samples of an XOR chunk have timestamps.
LEMMA XorTyped ==
    ASSUME NEW data, NEW s \in decode_xor(data).samples
    PROVE  s[1] \in Int
  <1>1. data \in DOMAIN XorSamples /\ s \in XorSamples[data]
    BY DEF decode_xor, Failed, Decoded
  <1> QED
    BY <1>1, XorAssumption

\* The samples that decode_record finds have timestamps.
LEMMA DecodedTyped ==
    ASSUME NEW r, NEW counter, NEW s \in decode_record(r, counter).samples
    PROVE  s[1] \in Int
  <1>1. CASE ~r.sound
    BY <1>1 DEF decode_record, Failed
  <1>2. CASE r.sound /\ r.encoding = ENCODING_XOR
    <2>1. decode_record(r, counter) = decode_xor(r.payload)
      BY <1>2 DEF decode_record, ENCODING_XOR, ENCODING_AGGR
    <2> QED
      BY <2>1, XorTyped
  <1>3. CASE r.sound /\ r.encoding = ENCODING_AGGR /\ counter
    <2>1. decode_record(r, counter) = decode_aggregate_counter(r.payload)
      BY <1>3 DEF decode_record, ENCODING_XOR, ENCODING_AGGR
    <2> DEFINE slot == SlotsOf(r.payload)[5].content
    <2>2. decode_aggregate_counter(r.payload) \in {Failed, Decoded({}), decode_xor(Tail(slot))}
      BY DEF decode_aggregate_counter, AGGR_COUNTER_SLOT
    <2>3. decode_aggregate_counter(r.payload) = decode_xor(Tail(slot))
      BY <2>1, <2>2 DEF Failed, Decoded
    <2> QED
      BY <2>1, <2>3, XorTyped
  <1>4. CASE r.sound /\ r.encoding # ENCODING_XOR /\ ~(r.encoding = ENCODING_AGGR /\ counter)
    BY <1>4 DEF decode_record, Failed
  <1> QED
    BY <1>1, <1>2, <1>3, <1>4

\* A scan leaves the table and the parser alone.
LEMMA TypesKept ==
    ASSUME PartsInv, TypesInv, UNCHANGED <<setup, built, walkVars, tableVars>>,
           phase \notin {"index", "failed"},
           phase' \in {"serve", "plan", "scan", "read", "answered", "refused"},
           reading' \in {"idle", "prefix", "record", "read", "failed"},
           query' \in Queries \cup {NoQuery},
           phase' = "serve" => query' = NoQuery /\ turn' = 0 /\ batch' = {},
           turn' \in 0..(Len(rows) + 1), phase' \in {"scan", "read"} => turn' # 0, phase' = "read" => turn' \in 1..Len(rows),
           \A r \in batch' : r.timestamp \in Int /\ DOMAIN r.labels = schemas[query'.metric]
    PROVE  TypesInv'
  <1>1. UNCHANGED <<rows, schemas>>
    BY DEF tableVars
  <1>2. WalkTypes' /\ walk' = walk /\ walk = "idle"
    BY WalkTypesStutter DEF TypesInv, walkVars
  <1>3. \A r \in ToSet(rows) : RowTyped(r)' = RowTyped(r)
    BY DEF RowTyped
  <1> QED
    BY <1>1, <1>2, <1>3 DEF TypesInv

\* The row in turn of a read is one of the table.
LEMMA RowInTurn ==
    ASSUME TypesInv, turn \in 1..Len(rows)
    PROVE  rows[turn] \in ToSet(rows) /\ RowTyped(rows[turn])
  <1>1. rows \in Seq(ToSet(rows))
    BY DEF TypesInv
  <1>2. rows[turn] \in ToSet(rows)
    BY <1>1, ElementOfSeq
  <1> QED
    BY <1>2 DEF TypesInv

\* The steps of a scan and of a client.
LEMMA TypesQuery ==
    ASSUME PartsInv, TypesInv, Scan \/ Client
    PROVE  TypesInv'
  <1>1. /\ UNCHANGED <<setup, built, walkVars>> /\ turn \in 0..(Len(rows) + 1) /\ Len(rows) \in Nat
        /\ query \in Queries \cup {NoQuery}
        /\ reading \in {"idle", "prefix", "record", "read", "failed"}
        /\ \A r \in batch : r.timestamp \in Int /\ DOMAIN r.labels = schemas[query.metric]
    BY LenProperties DEF Scan, Client, TypesInv
  <1>2. CASE Plan \/ SkipRow
    <2>1. /\ phase \in {"plan", "scan"} /\ phase' \in {"scan", "refused"}
          /\ UNCHANGED <<query, batch>> /\ UNCHANGED tableVars /\ UNCHANGED reading
      BY <1>2 DEF Plan, SkipRow, AtRow, readVars
    <2>2. turn' \in 0..(Len(rows) + 1) /\ turn' # 0
      BY <1>1, <1>2 DEF Plan, SkipRow, AtRow
    <2> QED
      BY <1>1, <2>1, <2>2, TypesKept
  <1>3. CASE UnknownRepository
    <2>1. /\ phase = "scan" /\ phase' = "refused" /\ batch' = {}
          /\ UNCHANGED <<query, turn>> /\ UNCHANGED tableVars /\ UNCHANGED reading
      BY <1>3 DEF UnknownRepository, AtRow, QueryFails, readVars
    <2> QED
      BY <1>1, <2>1, TypesKept
  <1>4. CASE phase = "scan" /\ turn <= Len(rows) /\ BeginRead(FileAt(rows[turn].path))
    <2>1. /\ phase = "scan" /\ phase' = "read" /\ reading' = "prefix"
          /\ UNCHANGED <<query, turn, batch>> /\ UNCHANGED tableVars
      BY <1>4 DEF BeginRead, ReadRecord
    <2>2. turn \in 1..Len(rows)
      BY <1>1, <1>4, <2>1 DEF TypesInv
    <2> QED
      BY <1>1, <2>1, <2>2, TypesKept
  <1>5. CASE phase = "read" /\ ReadStep /\ UNCHANGED <<tableVars, scanVars>>
    <2>1. /\ reading' \in {"idle", "prefix", "record", "read", "failed"} /\ phase' = "read"
          /\ UNCHANGED <<query, turn, batch>> /\ UNCHANGED tableVars
      BY <1>1, <1>5 DEF ReadStep, ReadPage, ReadDirect, ParsePrefix, CheckRecord, ReadFailed, readVars, scanVars
    <2>2. turn \in 1..Len(rows)
      BY <1>5 DEF TypesInv
    <2> QED
      BY <1>1, <1>5, <2>1, <2>2, TypesKept
  <1>6. CASE TakeSamples
    <2>1. phase = "read" /\ reading' = "idle" /\ turn \in 1..Len(rows)
      BY <1>6 DEF TakeSamples, ReadDone, TypesInv
    <2>2. CASE phase' = "refused"
      <3>1. batch' = {} /\ UNCHANGED <<query, turn>> /\ UNCHANGED tableVars
        BY <1>6, <2>2 DEF TakeSamples, QueryFails
      <3> QED
        BY <1>1, <2>1, <2>2, <3>1, TypesKept
    <2>3. CASE phase' # "refused"
      <3> DEFINE decoded == decode_record(Record, query.metric \in CounterMetrics)
      <3>1. /\ reading = "read" /\ phase' = "scan" /\ turn' = turn + 1
            /\ UNCHANGED query /\ UNCHANGED tableVars
            /\ batch' = batch \cup {MetricRow(rows[turn], s) :
                                      s \in {d \in decoded.samples : Keeps(rows[turn], d)}}
        BY <1>6, <2>3 DEF TakeSamples, QueryFails, Failed
      <3>2. rows[turn].offset \in Nat
        BY <2>1, RowInTurn DEF RowTyped
      <3>4. \A s \in decoded.samples : s[1] \in Int
        BY DecodedTyped
      <3> HIDE DEF decoded
      <3>5. \A s \in decoded.samples : /\ MetricRow(rows[turn], s).timestamp \in Int
                                       /\ DOMAIN MetricRow(rows[turn], s).labels = schemas[query.metric]
        BY <3>4 DEF MetricRow
      <3>6. \A r \in batch' : r.timestamp \in Int /\ DOMAIN r.labels = schemas[query.metric]
        BY <1>1, <3>1, <3>5
      <3>7. turn' \in 0..(Len(rows) + 1) /\ turn' # 0
        BY <1>1, <2>1, <3>1
      <3> QED
        BY <1>1, <2>1, <3>1, <3>6, <3>7, TypesKept
    <2> QED
      BY <2>2, <2>3
  <1>7. CASE Finish
    <2>1. /\ phase = "scan" /\ phase' \in {"answered", "refused"} /\ batch' \subseteq batch
          /\ UNCHANGED <<query, turn>> /\ UNCHANGED tableVars /\ UNCHANGED reading
      BY <1>7 DEF Finish, QueryFails, readVars
    <2> QED
      BY <1>1, <2>1, TypesKept
  <1>8. CASE Client
    <2>1. CASE Leave
      <3>1. /\ phase \in {"answered", "refused"} /\ phase' = "serve" /\ query' = NoQuery /\ turn' = 0
            /\ batch' = {} /\ UNCHANGED tableVars /\ UNCHANGED reading
        BY <2>1 DEF Leave, readVars
      <3> QED
        BY <1>1, <3>1, TypesKept
    <2>2. CASE \E q \in Queries : Arrive(q)
      <3>1. /\ phase = "serve" /\ phase' = "plan" /\ query' \in Queries /\ UNCHANGED <<turn, batch>>
            /\ UNCHANGED tableVars /\ UNCHANGED reading
        BY <2>2 DEF Arrive, readVars
      <3>2. batch = {}
        BY <3>1 DEF TypesInv
      <3> QED
        BY <1>1, <3>1, <3>2, TypesKept
    <2> QED
      BY <1>8, <2>1, <2>2 DEF Client
  <1> QED
    BY <1>2, <1>3, <1>4, <1>5, <1>6, <1>7, <1>8 DEF Scan

\* What changes nothing keeps the types.
LEMMA TypesStutter ==
    ASSUME PartsInv, TypesInv, UNCHANGED vars
    PROVE  TypesInv'
  <1>1. /\ UNCHANGED <<setup, built, reading, rows, schemas, query, turn, batch, phase, index, walk>>
        /\ UNCHANGED walkVars
    BY DEF vars, readVars, tableVars, scanVars, walkVars
  <1>2. WalkTypes' /\ BlockInTurn' = BlockInTurn
    BY <1>1, WalkTypesStutter DEF TypesInv, BlockInTurn
  <1>3. \A r \in ToSet(rows) : RowTyped(r)' = RowTyped(r)
    BY DEF RowTyped
  <1> QED
    BY <1>1, <1>2, <1>3 DEF TypesInv

\* The types, and the invariants of the parts, hold in every state.
LEMMA TypesAreKept == Spec => [](PartsInv /\ TypesInv)
  <1>1. Init => TypesInv
    BY TypesInit
  <1>2. PartsInv /\ TypesInv /\ [Next]_vars => TypesInv'
    BY TypesBootstrap, TypesQuery, TypesStutter DEF Next
  <1> QED
    BY <1>1, <1>2, PartsAreSafe, PTL DEF Spec

\* For blocks of any number and size, damaged ones among them, and any queries,
\* the walk and the reader work only for the phase they belong to, the walk
\* leaves its section by less than 16 bytes, and the chunks table is typed.
THEOREM MetricQueryTypeCorrect == Spec => []TypeOK
  <1>1. PartsInv /\ TypesInv => TypeOK
    <2> SUFFICES ASSUME PartsInv, TypesInv PROVE TypeOK
      OBVIOUS
    <2>1. built \in 0..Len(setup.blocks) /\ setup \in Setups
      BY SetupFacts DEF PartsInv, PlaceInv, TypesInv
    <2>2. reading # "idle" => phase = "read"
      BY DEF PartsInv, PlaceInv
    <2>3. \A i \in DOMAIN rows : RowTyped(rows[i])
      BY DEF TypesInv, ToSet
    <2> QED
      BY <2>1, <2>2, <2>3 DEF TypesInv, TypeOK, WalkTypes, RowTyped
  <1> QED
    BY <1>1, TypesAreKept, PTL

\* append_chunk_rows takes the bounds of a series from its first and its last
\* chunk: whatever integers an index of any size holds, no chunk of a series
\* that is delivered lies outside of them.
THEOREM SeriesBoundsCover == Spec => []BoundsCoverChunks
  <1>1. PartsInv /\ TypesInv => BoundsCoverChunks
    BY BoundsCover DEF PartsInv, PlaceInv, TypesInv
  <1> QED
    BY <1>1, TypesAreKept, PTL

-----------------------------------------------------------------------------
(* The chunks table: every chunk of a block has one row. *)

\* The rows of a block, as its index says.
EntryRow(b, e, j) == RowAt(b, SeriesOf(b.index, e), Chunks(e)[j])
EntryRows(b) == UNION {SeriesRows(b, SeriesOf(b.index, e)) : e \in b.index.entries}

\* A row is of a chunk of an entry.
LEMMA RowOfEntry ==
    ASSUME NEW b, IsIndex(b.index), NEW r
    PROVE  r \in EntryRows(b) <=>
              \E e \in b.index.entries : \E j \in 1..Len(e.chunks) : r = EntryRow(b, e, j)
  <1>1. \A e \in b.index.entries :
            SeriesOf(b.index, e).chunks = Chunks(e) /\ DOMAIN Chunks(e) = 1..Len(e.chunks)
    <2> SUFFICES ASSUME NEW e \in b.index.entries
                 PROVE  SeriesOf(b.index, e).chunks = Chunks(e) /\ DOMAIN Chunks(e) = 1..Len(e.chunks)
      OBVIOUS
    <2>1. e.chunks \in Seq(ChunkMetas)
      BY DEF IsIndex
    <2> QED
      BY <2>1, ChunksFollow, LenProperties DEF SeriesOf
  <1> QED
    BY <1>1 DEF EntryRows, SeriesRows, EntryRow

\* A row's place tells its block and its reference.
LEMMA PlaceTells ==
    ASSUME NEW b, NEW d, NEW s, NEW t, NEW c, NEW e, c.reference \in Int, e.reference \in Int,
           Place(RowAt(b, s, c)) = Place(RowAt(d, t, e))
    PROVE  b.ulid = d.ulid /\ c.reference = e.reference
  <1>1. /\ b.ulid = d.ulid
        /\ c.reference \div SegmentSpan + 1 = e.reference \div SegmentSpan + 1
        /\ c.reference % SegmentSpan = e.reference % SegmentSpan
    BY DEF Place, RowAt
  <1> QED
    BY <1>1, SpanAssumption

\* Chunks of the same index whose rows have one place are one.
LEMMA PlacesOfBlock ==
    ASSUME NEW b, IsIndex(b.index), ReferencesDiffer(b.index),
           NEW d \in b.index.entries, NEW e \in b.index.entries,
           NEW i \in 1..Len(d.chunks), NEW j \in 1..Len(e.chunks),
           Place(EntryRow(b, d, i)) = Place(EntryRow(b, e, j))
    PROVE  d = e /\ i = j
  <1>1. d.chunks \in Seq(ChunkMetas) /\ e.chunks \in Seq(ChunkMetas)
    BY DEF IsIndex
  <1>2. Chunks(d)[i].reference \in Int /\ Chunks(e)[j].reference \in Int
    BY <1>1, ChunksFollow DEF ChunkPlaces
  <1>3. Chunks(d)[i].reference = Chunks(e)[j].reference
    BY <1>2, PlaceTells DEF EntryRow
  <1>4. DOMAIN d.chunks = 1..Len(d.chunks) /\ DOMAIN e.chunks = 1..Len(e.chunks)
    BY <1>1, LenProperties
  <1> QED
    BY <1>3, <1>4 DEF ReferencesDiffer

\* The walk is over: what was parsed are the entries, each once.
LEMMA EveryEntryParsed ==
    ASSUME WalkInv, WalkTypes, walk = "done", IsIndex(index), WellFormed(index)
    PROVE  /\ \A i \in DOMAIN parsed : \E e \in index.entries : parsed[i] = SeriesOf(index, e)
           /\ \A e \in index.entries : \E i \in DOMAIN parsed : parsed[i] = SeriesOf(index, e)
           /\ \A i, j \in DOMAIN parsed : parsed[i].reference = parsed[j].reference => i = j
  <1>1. /\ \A e \in index.entries : e.at < offset
        /\ {e.at : e \in {d \in index.entries : d.at < offset}}
                = {parsed[i].reference * SERIES_ALIGNMENT : i \in DOMAIN parsed}
        /\ \A i, j \in DOMAIN parsed : i < j => parsed[i].reference < parsed[j].reference
        /\ \A i \in DOMAIN parsed : \E e \in index.entries : parsed[i] = SeriesOf(index, e)
    BY WalkInvLosesNothing DEF NoSeriesLost
  <1>2. ASSUME NEW e \in index.entries
        PROVE  \E i \in DOMAIN parsed : parsed[i] = SeriesOf(index, e)
    <2>1. PICK i \in DOMAIN parsed : e.at = parsed[i].reference * SERIES_ALIGNMENT
      BY <1>1
    <2>2. PICK d \in index.entries : parsed[i] = SeriesOf(index, d)
      BY <1>1
    <2>3. /\ e.at \in Nat /\ e.head \in Nat \ {0} /\ e.size \in Nat
          /\ d.at \in Nat /\ d.head \in Nat \ {0} /\ d.size \in Nat
          /\ d.at % SERIES_ALIGNMENT = 0
          /\ d # e => ChecksumEnd(d) <= e.at \/ ChecksumEnd(e) <= d.at
      BY EntriesOf
    <2>4. d.at = e.at
      BY <2>1, <2>2, <2>3, ReferenceIsPlace
    <2>5. e.at < ChecksumEnd(e) /\ d.at < ChecksumEnd(d) /\ ChecksumEnd(e) \in Nat /\ ChecksumEnd(d) \in Nat
      BY <2>3, EntryHasEnd
    <2>6. d = e
      BY <2>3, <2>4, <2>5
    <2> QED
      BY <2>2, <2>6
  <1>3. ASSUME NEW i \in DOMAIN parsed, NEW j \in DOMAIN parsed,
               parsed[i].reference = parsed[j].reference
        PROVE  i = j
    <2>1. DOMAIN parsed \subseteq Int
      BY LenProperties DEF WalkTypes
    <2>2. parsed[i].reference \in Int
      <3>1. PICK d \in index.entries : parsed[i] = SeriesOf(index, d)
        BY <1>1
      <3>2. d.at \in Nat
        BY EntriesOf
      <3> QED
        BY <3>1, <3>2 DEF SeriesOf, SERIES_ALIGNMENT
    <2> QED
      BY <1>1, <1>3, <2>1, <2>2
  <1> QED
    BY <1>1, <1>2, <1>3

\* The rows that are made of it are those of the block.
LEMMA ParsedIsBlock ==
    ASSUME WalkInv, WalkTypes, walk = "done", NEW b, index = b.index,
           IsIndex(b.index), WellFormed(b.index)
    PROVE  ParsedRows(b) = EntryRows(b)
  <1>1. /\ \A i \in DOMAIN parsed : \E e \in b.index.entries : parsed[i] = SeriesOf(b.index, e)
        /\ \A e \in b.index.entries : \E i \in DOMAIN parsed : parsed[i] = SeriesOf(b.index, e)
    BY EveryEntryParsed
  <1> QED
    BY <1>1 DEF ParsedRows, EntryRows

\* Two rows of a block have two places.
LEMMA BlockPlacesApart ==
    ASSUME NEW b, IsIndex(b.index), ReferencesDiffer(b.index),
           NEW r \in EntryRows(b), NEW q \in EntryRows(b), Place(r) = Place(q)
    PROVE  r = q
  <1>1. PICK d \in b.index.entries : \E i \in 1..Len(d.chunks) : r = EntryRow(b, d, i)
    BY RowOfEntry
  <1>2. PICK i \in 1..Len(d.chunks) : r = EntryRow(b, d, i)
    BY <1>1
  <1>3. PICK e \in b.index.entries : \E j \in 1..Len(e.chunks) : q = EntryRow(b, e, j)
    BY RowOfEntry
  <1>4. PICK j \in 1..Len(e.chunks) : q = EntryRow(b, e, j)
    BY <1>3
  <1>5. Place(EntryRow(b, d, i)) = Place(EntryRow(b, e, j))
    BY <1>2, <1>4
  <1>6. d = e /\ i = j
    BY <1>5, PlacesOfBlock
  <1> QED
    BY <1>2, <1>4, <1>6

\* The rows of a block come once each.
LEMMA BlockRowsOnce ==
    ASSUME WalkInv, WalkTypes, walk = "done", NEW b, index = b.index,
           IsIndex(b.index), WellFormed(b.index), ReferencesDiffer(b.index)
    PROVE  Once(RowsOf(b))
  <1> DEFINE n == Len(parsed)
             seqs == [i \in DOMAIN parsed |-> ChunkRows(b, parsed[i])]
  <1>1. n \in Nat /\ DOMAIN parsed = 1..n
    BY LenProperties DEF WalkTypes
  <1>2. ASSUME NEW i \in 1..n
        PROVE  \E e \in b.index.entries :
                  /\ parsed[i] = SeriesOf(b.index, e) /\ Len(seqs[i]) = Len(e.chunks)
                  /\ \A j \in 1..Len(e.chunks) : seqs[i][j] = EntryRow(b, e, j)
                  /\ seqs[i] \in Seq(ParsedRows(b))
                  /\ ToSet(seqs[i]) = {EntryRow(b, e, j) : j \in 1..Len(e.chunks)}
    <2>1. PICK e \in index.entries :
              /\ parsed[i] = SeriesOf(index, e) /\ parsed[i].chunks = Chunks(e)
              /\ e.chunks \in Seq(ChunkMetas)
              /\ Chunks(e) \in Seq(ChunkPlaces) /\ DOMAIN Chunks(e) = 1..Len(e.chunks)
      BY <1>1, ParsedChunks
    <2>2. seqs[i] = ChunkRows(b, parsed[i])
      BY <1>1
    <2>3. /\ ChunkRows(b, parsed[i]) \in Seq(SeriesRows(b, parsed[i]))
          /\ ToSet(ChunkRows(b, parsed[i])) = SeriesRows(b, parsed[i])
          /\ Len(ChunkRows(b, parsed[i])) = Len(Chunks(e))
          /\ \A j \in DOMAIN Chunks(e) : ChunkRows(b, parsed[i])[j] = RowAt(b, parsed[i], Chunks(e)[j])
      <3>1. parsed[i].chunks \in Seq(ChunkPlaces)
        BY <2>1
      <3>2. /\ ChunkRows(b, parsed[i]) \in Seq(SeriesRows(b, parsed[i]))
            /\ ToSet(ChunkRows(b, parsed[i])) = SeriesRows(b, parsed[i])
            /\ Len(ChunkRows(b, parsed[i])) = Len(parsed[i].chunks)
            /\ \A j \in DOMAIN parsed[i].chunks :
                  ChunkRows(b, parsed[i])[j] = RowAt(b, parsed[i], parsed[i].chunks[j])
        BY <3>1, RowsOfSeries
      <3> QED
        BY <2>1, <3>2
    <2>4. Len(Chunks(e)) = Len(e.chunks)
      BY <2>1, ChunksFollow
    <2>5. SeriesRows(b, parsed[i]) \subseteq ParsedRows(b)
      BY <1>1 DEF ParsedRows
    <2>6. SeriesRows(b, parsed[i]) = {EntryRow(b, e, j) : j \in 1..Len(e.chunks)}
      BY <2>1 DEF SeriesRows, EntryRow
    <2> HIDE DEF seqs
    <2>7. seqs[i] \in Seq(ParsedRows(b))
      BY <2>2, <2>3, <2>5
    <2> QED
      BY <2>1, <2>2, <2>3, <2>4, <2>6, <2>7 DEF EntryRow
  <1>3. seqs \in Seq(Seq(ParsedRows(b))) /\ Len(seqs) = n
    <2>1. seqs \in [1..n -> Seq(ParsedRows(b))]
      BY <1>1, <1>2
    <2> HIDE DEF seqs, n
    <2> QED
      BY <1>1, <2>1
  <1>4. RowsOf(b) = FlattenSeq(seqs)
    BY DEF RowsOf
  <1> HIDE DEF seqs, n
  <1>5. ASSUME NEW i \in 1..n PROVE Once(seqs[i])
    <2>1. PICK e \in b.index.entries :
              /\ Len(seqs[i]) = Len(e.chunks)
              /\ \A j \in 1..Len(e.chunks) : seqs[i][j] = EntryRow(b, e, j)
      BY <1>2
    <2> SUFFICES ASSUME NEW j \in 1..Len(e.chunks), NEW k \in 1..Len(e.chunks), seqs[i][j] = seqs[i][k]
                 PROVE  j = k
      BY <2>1 DEF Once
    <2>2. Place(EntryRow(b, e, j)) = Place(EntryRow(b, e, k))
      BY <2>1
    <2> QED
      BY <2>2, PlacesOfBlock
  <1>6. ASSUME NEW i \in 1..n, NEW j \in 1..n, NEW r \in ToSet(seqs[i]), r \in ToSet(seqs[j])
        PROVE  i = j
    <2>1. PICK d \in b.index.entries :
              /\ parsed[i] = SeriesOf(b.index, d)
              /\ ToSet(seqs[i]) = {EntryRow(b, d, k) : k \in 1..Len(d.chunks)}
      BY <1>2
    <2>2. PICK e \in b.index.entries :
              /\ parsed[j] = SeriesOf(b.index, e)
              /\ ToSet(seqs[j]) = {EntryRow(b, e, k) : k \in 1..Len(e.chunks)}
      BY <1>2
    <2>3. PICK k \in 1..Len(d.chunks) : r = EntryRow(b, d, k)
      BY <1>6, <2>1
    <2>4. PICK l \in 1..Len(e.chunks) : r = EntryRow(b, e, l)
      BY <1>6, <2>2
    <2>5. Place(EntryRow(b, d, k)) = Place(EntryRow(b, e, l))
      BY <2>3, <2>4
    <2>6. d = e
      BY <2>5, PlacesOfBlock
    <2>7. parsed[i].reference = parsed[j].reference
      BY <2>1, <2>2, <2>6
    <2> QED
      BY <1>1, <2>7, EveryEntryParsed
  <1>7. \A i, j \in 1..n : i # j => ToSet(seqs[i]) \cap ToSet(seqs[j]) = {}
    BY <1>6
  <1> QED
    BY <1>3, <1>4, <1>5, <1>7, Flattened

\* The blocks that are indexed have these rows, and a metric these labels.
AllIndexable == \A b \in Blocks : Indexable(b.index)
StoredRows == UNION {EntryRows(setup.blocks[i]) : i \in 1..built}
LabelsOf(S, m) == UNION {DOMAIN r.labels \ {"__name__"} : r \in {q \in S : q.metric = m}}

\* The tables and columns are those of a set of rows.
LabelsAre(known, S) ==
    DOMAIN known = {r.metric : r \in S} /\ \A m \in DOMAIN known : known[m] = LabelsOf(S, m)

RowsInv ==
    AllIndexable =>
        /\ phase # "failed" /\ (phase # "index" => built = Len(setup.blocks))
        /\ registry = setup.repositories
        /\ ToSet(rows) = StoredRows \cup ToSet(setup.leftover)
        /\ Once(rows) /\ \A r, q \in ToSet(rows) : Place(r) = Place(q) => r = q
        /\ LabelsAre(schemas, StoredRows)

\* What is known of a block.
LEMMA BlockFacts ==
    ASSUME setup \in Setups, NEW i \in 1..Len(setup.blocks)
    PROVE  /\ setup.blocks[i] \in Blocks /\ IsIndex(setup.blocks[i].index)
           /\ \A j \in 1..Len(setup.blocks) :
                 setup.blocks[i].ulid = setup.blocks[j].ulid => i = j
           /\ AllIndexable => Indexable(setup.blocks[i].index)
  <1>1. DOMAIN setup.blocks = 1..Len(setup.blocks)
    BY SetupFacts
  <1>2. setup.blocks[i] \in Blocks
    BY <1>1 DEF Blocks
  <1> QED
    BY <1>1, <1>2, SetupsAssumption DEF AllIndexable

\* A row names its block.
LEMMA RowNamesBlock ==
    ASSUME NEW b, IsIndex(b.index), NEW r \in EntryRows(b)
    PROVE  r.path[1] = b.ulid /\ r.repository = b.repository /\ r.resolution = b.resolution
  <1>1. PICK e \in b.index.entries : \E j \in 1..Len(e.chunks) : r = EntryRow(b, e, j)
    BY RowOfEntry
  <1>2. PICK j \in 1..Len(e.chunks) : r = EntryRow(b, e, j)
    BY <1>1
  <1> QED
    BY <1>2 DEF EntryRow, RowAt

\* The columns of a series are the labels of its rows.
LEMMA RowHasColumns ==
    ASSUME NEW b, NEW e, NEW j
    PROVE  /\ EntryRow(b, e, j).metric = SeriesOf(b.index, e).labels["__name__"]
           /\ DOMAIN EntryRow(b, e, j).labels \ {"__name__"} = Columns(b, SeriesOf(b.index, e))
  <1>1. DOMAIN RowLabels(b, SeriesOf(b.index, e))
            = DOMAIN SeriesOf(b.index, e).labels \cup DOMAIN b.external
    BY DEF RowLabels, Merged
  <1> QED
    BY <1>1 DEF EntryRow, RowAt, Columns

\* A process starts with leftover rows only.
LEMMA RowsInvInit ==
    ASSUME Init
    PROVE  RowsInv
  <1>1. /\ phase = "index" /\ built = 0 /\ registry = setup.repositories
        /\ rows = setup.leftover /\ schemas = <<>> /\ setup \in Setups
    BY DEF Init, TableInit
  <1>2. StoredRows = {}
    BY <1>1 DEF StoredRows
  <1>3. LabelsAre(schemas, StoredRows)
    BY <1>1, <1>2 DEF LabelsAre
  <1>4. rows \in Seq(ToSet(rows)) /\ DOMAIN rows = 1..Len(rows)
    BY <1>1, SetupFacts, LenProperties
  <1>5. \A i, j \in 1..Len(rows) : Place(rows[i]) = Place(rows[j]) => i = j
    BY <1>1, <1>4, SetupsAssumption
  <1>6. ToSet(rows) = {rows[i] : i \in 1..Len(rows)}
    BY <1>4, Elements
  <1>7. Once(rows) /\ \A r, q \in ToSet(rows) : Place(r) = Place(q) => r = q
    BY <1>5, <1>6 DEF Once
  <1> QED
    BY <1>1, <1>2, <1>3, <1>7 DEF RowsInv

\* What leaves the tables alone keeps them.
LEMMA RowsInvKept ==
    ASSUME RowsInv, UNCHANGED <<setup, built, registry, rows, schemas>>,
           phase' # phase => phase \notin {"index", "failed"} /\ phase' \notin {"index", "failed"}
    PROVE  RowsInv'
  <1>1. AllIndexable' = AllIndexable
    BY DEF AllIndexable, Blocks
  <1>2. StoredRows' = StoredRows
    BY DEF StoredRows
  <1> QED
    BY <1>1, <1>2 DEF RowsInv

\* The labels of a metric in two sets of rows.
LEMMA LabelsJoin ==
    ASSUME NEW S, NEW T, NEW m
    PROVE  /\ LabelsOf(S \cup T, m) = LabelsOf(S, m) \cup LabelsOf(T, m)
           /\ m \notin {r.metric : r \in S} => LabelsOf(S, m) = {}
  BY DEF LabelsOf

\* The labels of a metric in a block.
LEMMA BlockLabels ==
    ASSUME NEW b, IsIndex(b.index), \A e \in b.index.entries : e.chunks # <<>>, NEW m
    PROVE  /\ {r.metric : r \in EntryRows(b)}
                = {SeriesOf(b.index, e).labels["__name__"] : e \in b.index.entries}
           /\ LabelsOf(EntryRows(b), m)
                = UNION {Columns(b, SeriesOf(b.index, e)) :
                            e \in {d \in b.index.entries : SeriesOf(b.index, d).labels["__name__"] = m}}
  <1> DEFINE Name(e) == SeriesOf(b.index, e).labels["__name__"]
             Cols(e) == Columns(b, SeriesOf(b.index, e))
  <1>1. \A r : r \in EntryRows(b) <=>
            \E e \in b.index.entries : \E j \in 1..Len(e.chunks) : r = EntryRow(b, e, j)
    BY RowOfEntry
  <1>2. \A e \in b.index.entries : 1 \in 1..Len(e.chunks)
    <2> SUFFICES ASSUME NEW e \in b.index.entries PROVE 1 \in 1..Len(e.chunks)
      OBVIOUS
    <2>1. e.chunks \in Seq(ChunkMetas) /\ e.chunks # <<>>
      BY DEF IsIndex
    <2> QED
      BY <2>1, EmptySeq, LenProperties
  <1>3. \A e, j : EntryRow(b, e, j).metric = Name(e) /\ DOMAIN EntryRow(b, e, j).labels \ {"__name__"} = Cols(e)
    BY RowHasColumns
  <1> HIDE DEF Name, Cols
  <1>4. {r.metric : r \in EntryRows(b)} = {Name(e) : e \in b.index.entries}
    <2>1. ASSUME NEW e \in b.index.entries PROVE Name(e) \in {r.metric : r \in EntryRows(b)}
      <3>1. EntryRow(b, e, 1) \in EntryRows(b) /\ EntryRow(b, e, 1).metric = Name(e)
        BY <1>1, <1>2, <1>3
      <3> QED
        BY <3>1
    <2>2. ASSUME NEW r \in EntryRows(b) PROVE r.metric \in {Name(e) : e \in b.index.entries}
      BY <1>1, <1>3
    <2> QED
      BY <2>1, <2>2
  <1>5. LabelsOf(EntryRows(b), m) = UNION {Cols(e) : e \in {d \in b.index.entries : Name(d) = m}}
    <2>1. ASSUME NEW e \in b.index.entries, Name(e) = m PROVE Cols(e) \subseteq LabelsOf(EntryRows(b), m)
      <3>1. /\ EntryRow(b, e, 1) \in EntryRows(b) /\ EntryRow(b, e, 1).metric = m
            /\ DOMAIN EntryRow(b, e, 1).labels \ {"__name__"} = Cols(e)
        BY <1>1, <1>2, <1>3, <2>1
      <3> QED
        BY <3>1 DEF LabelsOf
    <2>2. ASSUME NEW r \in EntryRows(b), r.metric = m
          PROVE  \E e \in b.index.entries : Name(e) = m /\ DOMAIN r.labels \ {"__name__"} = Cols(e)
      BY <1>1, <1>3, <2>2
    <2>3. LabelsOf(EntryRows(b), m) \subseteq UNION {Cols(e) : e \in {d \in b.index.entries : Name(d) = m}}
      BY <2>2 DEF LabelsOf
    <2> QED
      BY <2>1, <2>3
  <1> QED
    BY <1>4, <1>5 DEF Name, Cols

\* collect_metric_labels and merge_metric_labels: a metric has the labels of its
\* rows, in the blocks that are there and in the one that is added.
LEMMA LabelsMerged ==
    ASSUME NEW b, IsIndex(b.index), \A e \in b.index.entries : e.chunks # <<>>,
           NEW known, NEW S, LabelsAre(known, S)
    PROVE  LabelsAre(MetricLabels(known, b, {SeriesOf(b.index, e) : e \in b.index.entries}), S \cup EntryRows(b))
  <1> DEFINE P == {SeriesOf(b.index, e) : e \in b.index.entries}
             N == {s.labels["__name__"] : s \in P}
             C(m) == UNION {Columns(b, s) : s \in {t \in P : t.labels["__name__"] = m}}
             all(m) == C(m) \cup (IF m \in DOMAIN known THEN known[m] ELSE {})
  <1>0. DOMAIN known = {r.metric : r \in S} /\ \A m \in DOMAIN known : known[m] = LabelsOf(S, m)
    BY DEF LabelsAre
  <1>1. MetricLabels(known, b, P) = Merged([m \in N |-> all(m)], known)
    BY DEF MetricLabels
  <1>2. N = {r.metric : r \in EntryRows(b)} /\ \A m : C(m) = LabelsOf(EntryRows(b), m)
    <2>1. N = {SeriesOf(b.index, e).labels["__name__"] : e \in b.index.entries}
      OBVIOUS
    <2>2. \A m : C(m) = UNION {Columns(b, SeriesOf(b.index, e)) :
                                  e \in {d \in b.index.entries : SeriesOf(b.index, d).labels["__name__"] = m}}
      OBVIOUS
    <2> QED
      BY <2>1, <2>2, BlockLabels
  <1> HIDE DEF C, N
  <1>3. ASSUME NEW m
        PROVE  /\ all(m) = LabelsOf(S \cup EntryRows(b), m)
               /\ m \in DOMAIN known /\ m \notin N => known[m] = LabelsOf(S \cup EntryRows(b), m)
    <2>1. LabelsOf(S \cup EntryRows(b), m) = LabelsOf(S, m) \cup LabelsOf(EntryRows(b), m)
      BY LabelsJoin
    <2>2. (IF m \in DOMAIN known THEN known[m] ELSE {}) = LabelsOf(S, m)
      BY <1>0, LabelsJoin
    <2>3. m \notin N => LabelsOf(EntryRows(b), m) = {}
      BY <1>2, LabelsJoin
    <2>4. C(m) = LabelsOf(EntryRows(b), m)
      BY <1>2
    <2> QED
      BY <2>1, <2>2, <2>3, <2>4
  <1> HIDE DEF all
  <1>5. /\ DOMAIN MetricLabels(known, b, P) = N \cup DOMAIN known
        /\ \A m \in N \cup DOMAIN known :
              MetricLabels(known, b, P)[m] = IF m \in N THEN all(m) ELSE known[m]
    BY <1>1 DEF Merged
  <1>6. N \cup DOMAIN known = {r.metric : r \in S \cup EntryRows(b)}
    BY <1>0, <1>2
  <1> HIDE DEF P
  <1>7. LabelsAre(MetricLabels(known, b, P), S \cup EntryRows(b))
    BY <1>3, <1>5, <1>6 DEF LabelsAre
  <1> QED
    BY <1>7 DEF P

\* Prometheus writes no series without a chunk or a name: there are rows for each.
LEMMA IndexableHasRows ==
    ASSUME NEW f, IsIndex(f), Indexable(f), NEW e \in f.entries
    PROVE  HasRows(SeriesOf(f, e)) /\ e.chunks # <<>>
  <1>1. e.chunks \in Seq(ChunkMetas) /\ e.chunks # <<>> /\ "__name__" \in LabelNames(f, e)
    BY DEF IsIndex, Indexable
  <1>2. Len(e.chunks) # 0
    BY <1>1, EmptySeq
  <1>3. Chunks(e) \in Seq(ChunkPlaces) /\ Len(Chunks(e)) = Len(e.chunks)
    BY <1>1, ChunksFollow
  <1>4. Chunks(e) # <<>>
    BY <1>2, <1>3, EmptySeq
  <1>5. SeriesOf(f, e).chunks = Chunks(e) /\ SeriesOf(f, e).labels = Labels(f, e)
    BY DEF SeriesOf
  <1>6. DOMAIN Labels(f, e) = LabelNames(f, e)
    BY DEF Labels
  <1> QED
    BY <1>1, <1>4, <1>5, <1>6 DEF HasRows

\* The block that the parser is at.
LEMMA BlockAtHand ==
    ASSUME PartsInv, TypesInv, AllIndexable, walk # "idle"
    PROVE  /\ built + 1 \in 1..Len(setup.blocks) /\ BlockInTurn = setup.blocks[built + 1]
           /\ index = BlockInTurn.index /\ IsIndex(index) /\ Indexable(index)
           /\ WalkInv /\ WalkTypes /\ walk # "failed"
  <1>1. setup \in Setups /\ built \in Nat /\ built < Len(setup.blocks) /\ index = BlockInTurn.index
    BY DEF PartsInv, PlaceInv, TypesInv
  <1>2. built + 1 \in 1..Len(setup.blocks) /\ BlockInTurn = setup.blocks[built + 1]
    BY <1>1, SetupFacts DEF BlockInTurn
  <1>3. IsIndex(index) /\ Indexable(index)
    BY <1>1, <1>2, BlockFacts
  <1>4. WellFormed(index)
    BY <1>3 DEF Indexable
  <1>5. NoSeriesLost
    BY <1>3, WalkInvLosesNothing DEF PartsInv
  <1> QED
    BY <1>1, <1>2, <1>3, <1>4, <1>5 DEF NoSeriesLost, PartsInv, TypesInv

\* The rows of the block in turn are at places of their own.
LEMMA NewRowsApart ==
    ASSUME PartsInv, TypesInv, RowsInv, AllIndexable, walk # "idle",
           NEW r \in ToSet(rows), NEW q \in EntryRows(BlockInTurn)
    PROVE  Place(r) # Place(q)
  <1>1. setup \in Setups
    BY DEF PartsInv, PlaceInv
  <1>2. built + 1 \in 1..Len(setup.blocks) /\ BlockInTurn = setup.blocks[built + 1] /\ built \in Nat
    BY BlockAtHand DEF PartsInv, PlaceInv
  <1>3. q.path[1] = BlockInTurn.ulid
    BY <1>1, <1>2, BlockFacts, RowNamesBlock
  <1>4. CASE r \in ToSet(setup.leftover)
    <2>1. IsLeftover(setup, r) /\ DOMAIN setup.blocks = 1..Len(setup.blocks)
      BY <1>1, <1>4, SetupFacts
    <2>2. r.path[1] # BlockInTurn.ulid
      BY <1>2, <2>1 DEF IsLeftover
    <2> QED
      BY <1>3, <2>2 DEF Place
  <1>5. CASE r \in StoredRows
    <2>1. PICK i \in 1..built : r \in EntryRows(setup.blocks[i])
      BY <1>5 DEF StoredRows
    <2>2. i \in 1..Len(setup.blocks) /\ i # built + 1
      BY <1>2, <2>1, SetupFacts, <1>1
    <2>3. r.path[1] = setup.blocks[i].ulid
      BY <1>1, <2>1, <2>2, BlockFacts, RowNamesBlock
    <2>4. r.path[1] # BlockInTurn.ulid
      BY <1>1, <1>2, <2>2, <2>3, BlockFacts
    <2> QED
      BY <1>3, <2>4 DEF Place
  <1> QED
    BY <1>4, <1>5 DEF RowsInv

\* A block is published with a row for each of its chunks.
LEMMA RowsInvPublish ==
    ASSUME PartsInv, TypesInv, RowsInv, PublishBlock
    PROVE  RowsInv'
  <1> SUFFICES ASSUME AllIndexable' PROVE RowsInv'
    BY DEF RowsInv
  <1> DEFINE b == BlockInTurn
             new == RowsOf(b)
             all == ToSet(rows) \cup ToSet(new)
  <1>1. setup' = setup /\ walk = "done" /\ phase = "index"
    BY DEF PublishBlock, BootstrapFails
  <1>2. AllIndexable
    BY <1>1 DEF AllIndexable, Blocks
  <1>3. /\ built + 1 \in 1..Len(setup.blocks) /\ b = setup.blocks[built + 1]
        /\ index = b.index /\ IsIndex(b.index) /\ Indexable(b.index)
        /\ WellFormed(b.index) /\ ReferencesDiffer(b.index) /\ WalkInv /\ WalkTypes
    BY <1>1, <1>2, BlockAtHand DEF Indexable
  <1>4. ParsedSet = {SeriesOf(b.index, e) : e \in b.index.entries}
    BY <1>1, <1>3, EveryEntryParsed DEF ParsedSet
  <1>5. \A s \in ParsedSet : HasRows(s)
    BY <1>3, <1>4, IndexableHasRows
  <1>6. /\ rows' = rows \o new /\ schemas' = MetricLabels(schemas, b, ParsedSet)
        /\ built' = built + 1 /\ UNCHANGED <<registry, phase>>
    BY <1>5 DEF PublishBlock, scanVars
  <1>7. built \in Nat /\ rows \in Seq(ToSet(rows))
    BY DEF PartsInv, PlaceInv, TypesInv
  <1>8. new \in Seq(ToSet(new)) /\ ToSet(new) = EntryRows(b) /\ Once(new)
    BY <1>1, <1>3, RowsOfBlock, ParsedIsBlock, BlockRowsOnce
  <1>9. /\ registry = setup.repositories
        /\ ToSet(rows) = StoredRows \cup ToSet(setup.leftover)
        /\ Once(rows) /\ \A r, q \in ToSet(rows) : Place(r) = Place(q) => r = q
        /\ LabelsAre(schemas, StoredRows)
    BY <1>2 DEF RowsInv
  <1>10. \A r \in ToSet(rows) : \A q \in ToSet(new) : Place(r) # Place(q)
    BY <1>1, <1>2, <1>8, NewRowsApart
  <1>11. \A r, q \in ToSet(new) : Place(r) = Place(q) => r = q
    BY <1>3, <1>8, BlockPlacesApart
  <1>12. StoredRows' = StoredRows \cup EntryRows(b)
    <2>1. 1..(built + 1) = (1..built) \cup {built + 1}
      BY <1>7
    <2>2. StoredRows' = UNION {EntryRows(setup.blocks[i]) : i \in 1..(built + 1)}
      BY <1>1, <1>6 DEF StoredRows
    <2> QED
      BY <1>3, <2>1, <2>2 DEF StoredRows
  <1>13. LabelsAre(schemas', StoredRows')
    <2>1. \A e \in b.index.entries : e.chunks # <<>>
      BY <1>3, IndexableHasRows
    <2>2. LabelsAre(MetricLabels(schemas, b, ParsedSet), StoredRows \cup EntryRows(b))
      BY <1>3, <1>4, <1>9, <2>1, LabelsMerged
    <2> QED
      BY <1>6, <1>12, <2>2
  <1> HIDE DEF new, b
  <1>14. rows \in Seq(all) /\ new \in Seq(all)
    BY <1>7, <1>8
  <1>15. ToSet(rows) \cap ToSet(new) = {}
    BY <1>10
  <1>16. ToSet(rows') = ToSet(rows) \cup ToSet(new) /\ Once(rows')
    BY <1>6, <1>8, <1>9, <1>14, <1>15, Joined
  <1>17. \A r, q \in ToSet(rows') : Place(r) = Place(q) => r = q
    BY <1>9, <1>10, <1>11, <1>16
  <1>18. ToSet(rows') = StoredRows' \cup ToSet(setup'.leftover)
    BY <1>1, <1>8, <1>9, <1>12, <1>16
  <1> QED
    BY <1>1, <1>6, <1>9, <1>13, <1>16, <1>17, <1>18 DEF RowsInv, LabelsAre

\* The steps of a bootstrap: blocks as Prometheus writes them do not end it.
LEMMA RowsInvBootstrap ==
    ASSUME PartsInv, TypesInv, RowsInv, Bootstrap
    PROVE  RowsInv'
  <1>1. CASE OpenBlock \/ ParseIndex
    <2>1. UNCHANGED <<setup, built, registry, rows, schemas>> /\ phase' = phase
      BY <1>1 DEF OpenBlock, ParseIndex, tableVars, scanVars
    <2> QED
      BY <2>1, RowsInvKept
  <1>2. CASE RefuseBlock
    <2>1. ~AllIndexable
      BY <1>2, BlockAtHand DEF RefuseBlock
    <2>2. setup' = setup
      BY <1>2 DEF RefuseBlock, BootstrapFails
    <2>3. ~AllIndexable'
      BY <2>1, <2>2 DEF AllIndexable, Blocks
    <2> QED
      BY <2>3 DEF RowsInv
  <1>3. CASE RegisterTables
    <2>1. /\ UNCHANGED <<setup, built, registry, rows, schemas>>
          /\ phase' = "serve" /\ built = Len(setup.blocks) /\ phase = "index"
      BY <1>3 DEF RegisterTables, tableVars
    <2>2. AllIndexable' = AllIndexable /\ StoredRows' = StoredRows
      BY <2>1 DEF AllIndexable, Blocks, StoredRows
    <2> QED
      BY <2>1, <2>2 DEF RowsInv
  <1> QED
    BY <1>1, <1>2, <1>3, RowsInvPublish DEF Bootstrap

\* A query changes no table.
LEMMA RowsInvQuery ==
    ASSUME RowsInv, Scan \/ Client
    PROVE  RowsInv'
  <1>1. UNCHANGED <<setup, built>> /\ UNCHANGED <<registry, rows, schemas>>
    BY DEF Scan, Client, Plan, SkipRow, UnknownRepository, TakeSamples, Finish, QueryFails, BeginRead,
           Leave, Arrive, tableVars
  <1>2. phase \notin {"index", "failed"} /\ phase' \notin {"index", "failed"}
    BY DEF Scan, Client, Plan, SkipRow, AtRow, UnknownRepository, TakeSamples, Finish, QueryFails, BeginRead,
           Leave, Arrive, scanVars
  <1> QED
    BY <1>1, <1>2, RowsInvKept

\* The chunks table says of the blocks that are indexed what they hold.
LEMMA RowsAreKept == Spec => [](PartsInv /\ TypesInv /\ RowsInv)
  <1>1. Init => RowsInv
    BY RowsInvInit
  <1>2. PartsInv /\ TypesInv /\ RowsInv /\ [Next]_vars => RowsInv'
    <2>1. ASSUME RowsInv, UNCHANGED vars PROVE RowsInv'
      <3>1. UNCHANGED <<setup, built, registry, rows, schemas>> /\ phase' = phase
        BY <2>1 DEF vars, tableVars, scanVars
      <3> QED
        BY <2>1, <3>1, RowsInvKept
    <2> QED
      BY <2>1, RowsInvBootstrap, RowsInvQuery DEF Next
  <1> QED
    BY <1>1, <1>2, TypesAreKept, PTL DEF Spec

\* The chunk that a row stands for, as the metric tables promise it.
RecordsOf(row) == RecordsAt(row.path, row.offset)
IsActive(row) == \E b \in Blocks : b.ulid = row.path[1]
ChunkOf(row) ==
    [at |-> Place(row), metric |-> row.metric,
     labels |-> [n \in DOMAIN row.labels \ {"__name__"} |-> row.labels[n]],
     resolution |-> row.resolution, mint |-> row.mint, maxt |-> row.maxt,
     active |-> IsActive(row), known |-> row.repository \in registry,
     readable |-> Decodable(RecordsOf(row), row.metric),
     samples |-> SamplesIn(RecordsOf(row), row.metric)]

\* A chunk of a block has its row.
LEMMA StoredIsRow ==
    ASSUME NEW b \in Blocks, IsIndex(b.index)
    PROVE  StoredChunks(b) = {ChunkOf(r) : r \in EntryRows(b)}
  <1> DEFINE Pairs == UNION {{e} \X DOMAIN e.chunks : e \in b.index.entries}
             C(p) == LET labels == Labels(b.index, p[1])
                         place == Chunks(p[1])[p[2]]
                         path == <<b.ulid, place.reference \div SegmentSpan + 1>>
                         start == place.reference % SegmentSpan
                         records == RecordsAt(path, start)
                     IN  [at |-> <<path, start>>, metric |-> labels["__name__"],
                          labels |-> [n \in (DOMAIN labels \cup DOMAIN b.external) \ {"__name__"} |->
                                        IF n \in DOMAIN labels THEN labels[n] ELSE b.external[n]],
                          resolution |-> b.resolution, mint |-> place.mint, maxt |-> place.maxt,
                          active |-> TRUE, known |-> b.repository \in registry,
                          readable |-> Decodable(records, labels["__name__"]),
                          samples |-> SamplesIn(records, labels["__name__"])]
  <1>1. StoredChunks(b) = {C(p) : p \in Pairs}
    BY DEF StoredChunks
  <1>2. ASSUME NEW e \in b.index.entries, NEW j \in 1..Len(e.chunks)
        PROVE  C(<<e, j>>) = ChunkOf(EntryRow(b, e, j))
    <2> DEFINE r == EntryRow(b, e, j)
               labels == Labels(b.index, e)
    <2>1. /\ r.repository = b.repository
          /\ r.path = <<b.ulid, Chunks(e)[j].reference \div SegmentSpan + 1>>
          /\ r.offset = Chunks(e)[j].reference % SegmentSpan
          /\ r.mint = Chunks(e)[j].mint /\ r.maxt = Chunks(e)[j].maxt
          /\ r.resolution = b.resolution /\ r.metric = labels["__name__"]
          /\ r.labels = Merged(labels, b.external)
      BY DEF EntryRow, RowAt, SeriesOf, RowLabels
    <2>2. [n \in DOMAIN r.labels \ {"__name__"} |-> r.labels[n]]
            = [n \in (DOMAIN labels \cup DOMAIN b.external) \ {"__name__"} |->
                  IF n \in DOMAIN labels THEN labels[n] ELSE b.external[n]]
      <3> HIDE DEF r, labels
      <3> QED
        BY <2>1 DEF Merged
    <2> DEFINE path == <<b.ulid, Chunks(e)[j].reference \div SegmentSpan + 1>>
               start == Chunks(e)[j].reference % SegmentSpan
               records == RecordsAt(path, start)
    <2> HIDE DEF r
    <2>3. RecordsOf(r) = records
      BY <2>1 DEF RecordsOf
    <2>4. Place(r) = <<path, start>>
      BY <2>1 DEF Place
    <2>5. IsActive(r) = TRUE
      BY <2>1 DEF IsActive
    <2>6. ChunkOf(r) = [at |-> <<path, start>>, metric |-> labels["__name__"],
                        labels |-> [n \in DOMAIN r.labels \ {"__name__"} |-> r.labels[n]],
                        resolution |-> b.resolution, mint |-> Chunks(e)[j].mint, maxt |-> Chunks(e)[j].maxt,
                        active |-> TRUE, known |-> b.repository \in registry,
                        readable |-> Decodable(records, labels["__name__"]),
                        samples |-> SamplesIn(records, labels["__name__"])]
      <3> HIDE DEF records, path, start, labels
      <3> QED
        BY <2>1, <2>3, <2>4, <2>5 DEF ChunkOf
    <2>7. C(<<e, j>>) = [at |-> <<path, start>>, metric |-> labels["__name__"],
                        labels |-> [n \in (DOMAIN labels \cup DOMAIN b.external) \ {"__name__"} |->
                                      IF n \in DOMAIN labels THEN labels[n] ELSE b.external[n]],
                        resolution |-> b.resolution, mint |-> Chunks(e)[j].mint, maxt |-> Chunks(e)[j].maxt,
                        active |-> TRUE, known |-> b.repository \in registry,
                        readable |-> Decodable(records, labels["__name__"]),
                        samples |-> SamplesIn(records, labels["__name__"])]
      OBVIOUS
    <2> HIDE DEF C, labels, records, path, start
    <2> QED
      BY <2>2, <2>6, <2>7 DEF r
  <1>3. \A e \in b.index.entries : DOMAIN e.chunks = 1..Len(e.chunks)
    BY LenProperties DEF IsIndex
  <1>4. \A r : r \in EntryRows(b) <=> \E e \in b.index.entries : \E j \in 1..Len(e.chunks) : r = EntryRow(b, e, j)
    BY RowOfEntry
  <1> HIDE DEF C
  <1>5. \A c : c \in {C(p) : p \in Pairs}
                 <=> \E e \in b.index.entries : \E j \in 1..Len(e.chunks) : c = C(<<e, j>>)
    <2>1. \A p : p \in Pairs <=> \E e \in b.index.entries : \E j \in 1..Len(e.chunks) : p = <<e, j>>
      BY <1>3
    <2> HIDE DEF Pairs
    <2> QED
      BY <2>1
  <1> DEFINE S == {C(p) : p \in Pairs}
  <1> HIDE DEF S
  <1>6. \A c : c \in S <=> \E e \in b.index.entries : \E j \in 1..Len(e.chunks) : c = ChunkOf(EntryRow(b, e, j))
    <2>1. ASSUME NEW c \in S
          PROVE  \E e \in b.index.entries : \E j \in 1..Len(e.chunks) : c = ChunkOf(EntryRow(b, e, j))
      <3>1. PICK e \in b.index.entries : \E j \in 1..Len(e.chunks) : c = C(<<e, j>>)
        BY <1>5 DEF S
      <3>2. PICK j \in 1..Len(e.chunks) : c = C(<<e, j>>)
        BY <3>1
      <3> QED
        BY <1>2, <3>2
    <2>2. ASSUME NEW e \in b.index.entries, NEW j \in 1..Len(e.chunks)
          PROVE  ChunkOf(EntryRow(b, e, j)) \in S
      <3>1. C(<<e, j>>) \in S
        BY <1>5 DEF S
      <3> QED
        BY <1>2, <3>1
    <2> QED
      BY <2>1, <2>2
  <1>7. \A c : c \in S <=> \E r \in EntryRows(b) : c = ChunkOf(r)
    BY <1>4, <1>6
  <1> QED
    BY <1>1, <1>7 DEF S

\* A row of an earlier run stands for a chunk of another block.
LEMMA LeftoverIsRow ==
    ASSUME setup \in Setups
    PROVE  LeftoverChunks = {ChunkOf(r) : r \in ToSet(setup.leftover)}
  <1> DEFINE C(r) == [at |-> <<r.path, r.offset>>, metric |-> r.metric,
                      labels |-> [n \in DOMAIN r.labels \ {"__name__"} |-> r.labels[n]],
                      resolution |-> r.resolution, mint |-> r.mint, maxt |-> r.maxt,
                      active |-> FALSE, known |-> r.repository \in registry,
                      readable |-> Decodable(RecordsAt(r.path, r.offset), r.metric),
                      samples |-> SamplesIn(RecordsAt(r.path, r.offset), r.metric)]
  <1>1. LeftoverChunks = {C(r) : r \in ToSet(setup.leftover)}
    BY DEF LeftoverChunks, ToSet
  <1>2. ASSUME NEW r \in ToSet(setup.leftover)
        PROVE  C(r) = ChunkOf(r)
    <2>1. IsActive(r) = FALSE
      BY <1>2, SetupFacts DEF IsLeftover, IsActive, Blocks
    <2> QED
      BY <2>1 DEF ChunkOf, Place, RecordsOf
  <1> HIDE DEF C
  <1> QED
    BY <1>1, <1>2

\* When the blocks are indexed, the rows are the chunks of the metric tables.
LEMMA ChunksAreRows ==
    ASSUME PartsInv, TypesInv, RowsInv, AllIndexable, phase # "index"
    PROVE  AllChunks = {ChunkOf(r) : r \in ToSet(rows)}
  <1>1. setup \in Setups /\ built = Len(setup.blocks) /\ ToSet(rows) = StoredRows \cup ToSet(setup.leftover)
    BY DEF PartsInv, PlaceInv, RowsInv
  <1>2. DOMAIN setup.blocks = 1..built
    BY <1>1, SetupFacts
  <1>3. Blocks = {setup.blocks[i] : i \in 1..built}
    BY <1>2 DEF Blocks
  <1>4. \A i \in 1..built : StoredChunks(setup.blocks[i]) = {ChunkOf(r) : r \in EntryRows(setup.blocks[i])}
    BY <1>1, BlockFacts, StoredIsRow
  <1>5. UNION {StoredChunks(b) : b \in Blocks} = {ChunkOf(r) : r \in StoredRows}
    <2>1. \A c : c \in UNION {StoredChunks(b) : b \in Blocks}
                    <=> \E i \in 1..built : c \in StoredChunks(setup.blocks[i])
      BY <1>3
    <2>2. \A r : r \in StoredRows <=> \E i \in 1..built : r \in EntryRows(setup.blocks[i])
      BY DEF StoredRows
    <2>3. \A c : c \in {ChunkOf(r) : r \in StoredRows}
                    <=> \E i \in 1..built : \E r \in EntryRows(setup.blocks[i]) : c = ChunkOf(r)
      BY <2>2
    <2>4. \A i \in 1..built : \A c : c \in StoredChunks(setup.blocks[i])
                    <=> \E r \in EntryRows(setup.blocks[i]) : c = ChunkOf(r)
      BY <1>4
    <2> DEFINE S == UNION {StoredChunks(b) : b \in Blocks}
               T == {ChunkOf(r) : r \in StoredRows}
    <2> HIDE DEF S, T
    <2>5. \A c : c \in S <=> \E i \in 1..built : c \in StoredChunks(setup.blocks[i])
      BY <2>1 DEF S
    <2>6. \A c : c \in T <=> \E i \in 1..built : \E r \in EntryRows(setup.blocks[i]) : c = ChunkOf(r)
      BY <2>3 DEF T
    <2>7. ASSUME NEW c PROVE c \in S <=> c \in T
      <3>1. \A i \in 1..built : c \in StoredChunks(setup.blocks[i])
                    <=> \E r \in EntryRows(setup.blocks[i]) : c = ChunkOf(r)
        BY <2>4
      <3>2. c \in S <=> \E i \in 1..built : c \in StoredChunks(setup.blocks[i])
        BY <2>5
      <3>3. c \in T <=> \E i \in 1..built : \E r \in EntryRows(setup.blocks[i]) : c = ChunkOf(r)
        BY <2>6
      <3> QED
        BY <3>1, <3>2, <3>3
    <2> QED
      BY <2>7 DEF S, T
  <1>6. AllChunks = (UNION {StoredChunks(b) : b \in Blocks}) \cup LeftoverChunks
    BY DEF AllChunks, AllIndexable
  <1>7. LeftoverChunks = {ChunkOf(r) : r \in ToSet(setup.leftover)}
    BY <1>1, LeftoverIsRow
  <1> QED
    BY <1>1, <1>5, <1>6, <1>7

\* Different rows stand for different chunks.
LEMMA ChunksCounted ==
    ASSUME PartsInv, TypesInv, RowsInv, AllIndexable, phase # "index"
    PROVE  Len(rows) = Cardinality(AllChunks)
  <1> DEFINE n == Len(rows)
             s == [i \in 1..n |-> ChunkOf(rows[i])]
  <1>1. rows \in Seq(ToSet(rows))
    BY DEF TypesInv
  <1>2. n \in Nat /\ ToSet(rows) = {rows[i] : i \in 1..n}
    BY <1>1, Elements
  <1>3. AllChunks = {ChunkOf(r) : r \in ToSet(rows)}
    BY ChunksAreRows
  <1>4. Once(rows) /\ \A r, q \in ToSet(rows) : Place(r) = Place(q) => r = q
    BY DEF RowsInv
  <1>5. \A r : ChunkOf(r).at = Place(r)
    BY DEF ChunkOf
  <1>6. AllChunks = {s[i] : i \in 1..n}
    <2>1. \A i \in 1..n : s[i] = ChunkOf(rows[i])
      OBVIOUS
    <2> HIDE DEF s, n
    <2> QED
      BY <1>2, <1>3, <2>1
  <1>7. \A i, j \in 1..n : s[i] = s[j] => i = j
    <2> SUFFICES ASSUME NEW i \in 1..n, NEW j \in 1..n, s[i] = s[j] PROVE i = j
      OBVIOUS
    <2>1. ChunkOf(rows[i]) = ChunkOf(rows[j])
      OBVIOUS
    <2>2. Place(rows[i]) = Place(rows[j])
      BY <1>5, <2>1
    <2>3. rows[i] = rows[j]
      BY <1>2, <1>4, <2>2
    <2> QED
      BY <1>4, <2>3 DEF Once
  <1>8. s \in [1..n -> AllChunks]
    BY <1>2, <1>3
  <1> HIDE DEF s, n
  <1>9. s \in Seq(AllChunks) /\ Len(s) = n
    BY <1>2, <1>8
  <1>10. ToSet(s) = AllChunks /\ Once(s)
    BY <1>6, <1>7, <1>9, Elements DEF Once
  <1>11. n = Cardinality(AllChunks)
    BY <1>9, <1>10, OnceCounted
  <1> QED
    BY <1>11 DEF n

\* append_chunk_rows, through the parser: of any number of blocks as Prometheus
\* writes them, none ends a bootstrap, and each chunk then has one row, which
\* says where it lies; no row is left over or comes twice.
THEOREM ChunksHaveRows == Spec => []EveryChunkHasItsRow
  <1>1. PartsInv /\ TypesInv /\ RowsInv => EveryChunkHasItsRow
    <2> SUFFICES ASSUME PartsInv, TypesInv, RowsInv PROVE EveryChunkHasItsRow
      OBVIOUS
    <2>1. phase = "failed" => \E b \in Blocks : ~Indexable(b.index)
      BY DEF RowsInv, AllIndexable
    <2>2. ASSUME phase = "serve", AllIndexable
          PROVE  {Place(rows[i]) : i \in DOMAIN rows} = {c.at : c \in AllChunks}
      <3>1. AllChunks = {ChunkOf(r) : r \in ToSet(rows)} /\ \A r : ChunkOf(r).at = Place(r)
        BY <2>2, ChunksAreRows DEF ChunkOf
      <3>2. ToSet(rows) = {rows[i] : i \in DOMAIN rows}
        BY DEF ToSet
      <3> QED
        BY <3>1, <3>2
    <2> QED
      BY <2>1, <2>2, ChunksCounted DEF EveryChunkHasItsRow, AllIndexable
  <1> QED
    BY <1>1, RowsAreKept, PTL

-----------------------------------------------------------------------------
(* The answers. *)

\* What a row of the chunks table shows of the query, and what those before the
\* n-th do.
ShownOf(row) == {MetricRow(row, s) : s \in {d \in SamplesAt(row) : ~Pruned(row) /\ Keeps(row, d)}}
Shown(n) == UNION {ShownOf(rows[i]) : i \in {j \in QueriedRows : j < n}}

\* A row of an answer, as AnswersMatchRows has it.
Wanted(r) == \A e \in query.where : Kept(e, r)

AnswerInv ==
    /\ phase \in {"index", "serve", "plan"} => batch = {}
    /\ \A e \in query.where : IsCondition(e)
    /\ phase \in {"scan", "read", "answered"} =>
          \A e \in query.where : e.column \in Numeric \cup schemas[query.metric]
    /\ phase \in {"scan", "read"} => turn \in Nat \ {0}
    /\ phase = "read" => turn <= Len(rows) /\ rows[turn].metric = query.metric /\ ~Pruned(rows[turn])
    /\ phase \in {"scan", "read"} /\ TrueRows => batch = Shown(turn)
    /\ AnswersMatchRows

\* What the scan lets through and what it leaves to DataFusion are what a query
\* makes of its conditions.
LEMMA KeepingIsWanting ==
    ASSUME TrueRows, NEW i \in QueriedRows, NEW s \in SamplesAt(rows[i]),
           \A e \in query.where : IsCondition(e) /\ e.column \in Numeric \cup schemas[query.metric]
    PROVE  ~Pruned(rows[i]) /\ Keeps(rows[i], s) /\ Satisfies(MetricRow(rows[i], s), Residual)
              <=> Wanted(MetricRow(rows[i], s))
  <1> DEFINE row == rows[i]
             shown == MetricRow(rows[i], s)
             comes(e) == matches_descriptor(parse_filter(e), row) /\ matches_sample(parse_filter(e), row, s)
  <1>1. /\ row.mint \in Int /\ row.maxt \in Int /\ s[1] \in row.mint..row.maxt
        /\ row.resolution \in Int
    BY DEF TrueRows
  <1>2. \A e \in query.where :
            Parses(e) => (comes(e) <=> Evaluated(e) /\ Compares(e, Column(shown, e.column)))
    BY <1>1, PushdownIsKnown
  <1>3. \A e \in query.where : Parses(e) => (comes(e) <=> Kept(e, shown))
    BY <1>2 DEF Kept
  <1>4. \A e \in query.where : ~Parses(e) => (Holds(e, Column(shown, e.column)) <=> Kept(e, shown))
    BY DEF Kept
  <1>5. ~Pruned(row) /\ Keeps(row, s) <=> \A e \in query.where : Parses(e) => comes(e)
    BY DEF Pruned, Keeps, Filters
  <1>6. Satisfies(shown, Residual)
          <=> \A e \in query.where : ~Parses(e) => Holds(e, Column(shown, e.column))
    BY DEF Satisfies, Residual
  <1> HIDE DEF comes, shown, row
  <1>7. ~Pruned(row) /\ Keeps(row, s) /\ Satisfies(shown, Residual) <=> Wanted(shown)
    BY <1>3, <1>4, <1>5, <1>6 DEF Wanted
  <1> QED
    BY <1>7 DEF row, shown

\* The record that was read holds the samples of the row.
LEMMA RecordHoldsSamples ==
    ASSUME PartsInv, phase = "read", reading = "read", rows[turn].offset \in Nat
    PROVE  decode_record(Record, query.metric \in CounterMetrics).samples = SamplesAt(rows[turn])
  <1>1. RecordsAt(rows[turn].path, rows[turn].offset) = {Record}
    BY RecordIsRead DEF RecordsAt
  <1> QED
    BY <1>1 DEF SamplesAt, SamplesIn, Decoding

\* A row that shows nothing is passed over.
LEMMA ShownSkip ==
    ASSUME rows \in Seq({rows[i] : i \in DOMAIN rows}), turn \in Nat,
           turn \in QueriedRows => Pruned(rows[turn])
    PROVE  Shown(turn + 1) = Shown(turn)
  <1>1. \A j \in QueriedRows : j \in Nat /\ (j < turn + 1 <=> j < turn \/ j = turn)
    BY DEF QueriedRows
  <1>2. turn \in QueriedRows => ShownOf(rows[turn]) = {}
    BY DEF ShownOf
  <1>3. ASSUME NEW x
        PROVE  x \in Shown(turn + 1) <=> x \in Shown(turn)
    BY <1>1, <1>2 DEF Shown
  <1> QED
    BY <1>3

\* The samples of one more row.
LEMMA ShownTake ==
    ASSUME rows \in Seq({rows[i] : i \in DOMAIN rows}), turn \in QueriedRows
    PROVE  Shown(turn + 1) = Shown(turn) \cup ShownOf(rows[turn])
  <1>1. \A j \in QueriedRows : j \in Nat /\ (j < turn + 1 <=> j < turn \/ j = turn)
    BY DEF QueriedRows
  <1>2. {j \in QueriedRows : j < turn + 1} = {j \in QueriedRows : j < turn} \cup {turn}
    BY <1>1
  <1>3. ASSUME NEW x
        PROVE  x \in Shown(turn + 1) <=> x \in Shown(turn) \/ x \in ShownOf(rows[turn])
    BY <1>2 DEF Shown
  <1> QED
    BY <1>3

\* What a query makes of its conditions, as in AnswersMatchRows.
Asked ==
    {r \in UNION {{MetricRow(rows[i], s) : s \in SamplesAt(rows[i])} : i \in QueriedRows} : Wanted(r)}

\* When every row has been passed, the answer is all of that.
LEMMA ShownAll ==
    ASSUME TrueRows, turn \in Nat, turn > Len(rows),
           \A e \in query.where : IsCondition(e) /\ e.column \in Numeric \cup schemas[query.metric]
    PROVE  {r \in Shown(turn) : Satisfies(r, Residual)} = Asked
  <1>1. \A i \in QueriedRows : i < turn
    BY DEF TrueRows, QueriedRows
  <1>2. \A i \in QueriedRows : \A s \in SamplesAt(rows[i]) :
            ~Pruned(rows[i]) /\ Keeps(rows[i], s) /\ Satisfies(MetricRow(rows[i], s), Residual)
                <=> Wanted(MetricRow(rows[i], s))
    BY KeepingIsWanting
  <1> DEFINE Of(i) == {MetricRow(rows[i], s) : s \in SamplesAt(rows[i])}
             all == UNION {Of(i) : i \in QueriedRows}
  <1>3. \A i, x : x \in Of(i) <=> \E s \in SamplesAt(rows[i]) : x = MetricRow(rows[i], s)
    OBVIOUS
  <1> HIDE DEF Of
  <1>4. \A x : x \in all <=> \E i \in QueriedRows : x \in Of(i)
    OBVIOUS
  <1> HIDE DEF all
  <1>5. ASSUME NEW x
        PROVE  x \in Shown(turn) /\ Satisfies(x, Residual) <=> x \in all /\ Wanted(x)
    <2>1. x \in Shown(turn) <=> \E i \in QueriedRows : x \in ShownOf(rows[i])
      BY <1>1 DEF Shown
    <2>2. \A i \in QueriedRows :
            x \in ShownOf(rows[i]) <=>
                \E s \in SamplesAt(rows[i]) : ~Pruned(rows[i]) /\ Keeps(rows[i], s) /\ x = MetricRow(rows[i], s)
      BY DEF ShownOf
    <2>4. \A i \in QueriedRows :
            x \in ShownOf(rows[i]) /\ Satisfies(x, Residual) <=> x \in Of(i) /\ Wanted(x)
      <3> SUFFICES ASSUME NEW i \in QueriedRows
                   PROVE  x \in ShownOf(rows[i]) /\ Satisfies(x, Residual)
                            <=> x \in Of(i) /\ Wanted(x)
        OBVIOUS
      <3>1. CASE x \in ShownOf(rows[i]) /\ Satisfies(x, Residual)
        <4>1. PICK s \in SamplesAt(rows[i]) :
                  ~Pruned(rows[i]) /\ Keeps(rows[i], s) /\ x = MetricRow(rows[i], s)
          BY <2>2, <3>1
        <4>2. Wanted(x)
          BY <1>2, <3>1, <4>1
        <4>3. x \in Of(i)
          BY <1>3, <4>1
        <4> QED
          BY <3>1, <4>2, <4>3
      <3>2. CASE x \in Of(i) /\ Wanted(x)
        <4>1. PICK s \in SamplesAt(rows[i]) : x = MetricRow(rows[i], s)
          BY <1>3, <3>2
        <4>2. ~Pruned(rows[i]) /\ Keeps(rows[i], s) /\ Satisfies(x, Residual)
          BY <1>2, <3>2, <4>1
        <4>3. x \in ShownOf(rows[i])
          BY <2>2, <4>1, <4>2
        <4> QED
          BY <3>2, <4>2, <4>3
      <3> QED
        BY <3>1, <3>2
    <2>5. x \in Shown(turn) /\ Satisfies(x, Residual)
            <=> \E i \in QueriedRows : x \in Of(i) /\ Wanted(x)
      BY <2>1, <2>4
    <2> QED
      BY <1>4, <2>5
  <1>6. {r \in Shown(turn) : Satisfies(r, Residual)} = {r \in all : Wanted(r)}
    BY <1>5
  <1> QED
    BY <1>6 DEF Of, all, Asked

\* While a query is answered, neither the rows nor what it asks for changes.
LEMMA QueryStays ==
    ASSUME UNCHANGED <<setup, rows, schemas, query>>
    PROVE  /\ TrueRows' <=> TrueRows
           /\ \A n : Shown(n)' = Shown(n)
           /\ Asked' = Asked
           /\ \A row : Pruned(row)' <=> Pruned(row)
  <1>1. \A row : SamplesAt(row)' = SamplesAt(row)
    BY DEF SamplesAt, SamplesIn, Decoding, RecordsAt, FileAt, Stored, Blocks, Missing
  <1>2. QueriedRows' = QueriedRows /\ Filters' = Filters
    BY DEF QueriedRows, Filters
  <1>3. \A row, s : MetricRow(row, s)' = MetricRow(row, s) /\ (Keeps(row, s)' <=> Keeps(row, s))
    BY <1>2 DEF MetricRow, Keeps
  <1>8. \A row : Pruned(row)' <=> Pruned(row)
    BY <1>2 DEF Pruned
  <1>4. \A row : ShownOf(row)' = ShownOf(row)
    BY <1>1, <1>3, <1>8 DEF ShownOf
  <1>5. TrueRows' <=> TrueRows
    BY <1>1, <1>2 DEF TrueRows
  <1>6. \A n : Shown(n)' = Shown(n)
    BY <1>2, <1>4 DEF Shown
  <1>7. Asked' = Asked
    BY <1>1, <1>2, <1>3 DEF Asked, Wanted
  <1> QED
    BY <1>5, <1>6, <1>7, <1>8

\* No answer at first.
LEMMA AnswerInvInit ==
    ASSUME Init
    PROVE  AnswerInv
  BY DEF Init, TableInit, NoQuery, AnswerInv, AnswersMatchRows

\* A bootstrap answers nothing.
LEMMA AnswerInvBootstrap ==
    ASSUME PartsInv, AnswerInv, Bootstrap
    PROVE  AnswerInv'
  <1>1. CASE OpenBlock \/ ParseIndex
    <2>1. UNCHANGED <<setup, rows, schemas, query, turn, batch, phase>>
      BY <1>1 DEF OpenBlock, ParseIndex, tableVars, scanVars
    <2>2. /\ TrueRows' <=> TrueRows
          /\ Shown(turn)' = Shown(turn) /\ Asked' = Asked
          /\ Pruned(rows[turn])' <=> Pruned(rows[turn])
      BY <2>1, QueryStays DEF Shown, Pruned
    <2> QED
      BY <2>1, <2>2 DEF AnswerInv, AnswersMatchRows, Asked, Wanted
  <1>2. CASE PublishBlock \/ RefuseBlock \/ RegisterTables
    <2>1. phase = "index" /\ phase' \in {"index", "failed", "serve"} /\ UNCHANGED <<query, batch>>
      BY <1>2 DEF PublishBlock, RefuseBlock, RegisterTables, BootstrapFails, scanVars
    <2> QED
      BY <2>1 DEF AnswerInv, AnswersMatchRows
  <1> QED
    BY <1>1, <1>2 DEF Bootstrap

\* A query that is planned has shown nothing, and its columns are there.
LEMMA AnswerInvPlan ==
    ASSUME AnswerInv, Plan, UNCHANGED setup
    PROVE  AnswerInv'
  <1>1. /\ phase = "plan" /\ turn' = 1 /\ batch' = {}
        /\ UNCHANGED <<setup, rows, schemas, query>>
        /\ phase' = IF Planned THEN "scan" ELSE "refused"
    BY DEF Plan, AnswerInv, tableVars
  <1>2. (TrueRows' <=> TrueRows) /\ Shown(1)' = Shown(1)
    BY <1>1, QueryStays
  <1>3. Shown(turn)' = Shown(1)
    BY <1>1, <1>2 DEF Shown
  <1>4. TrueRows => Shown(1) = {}
    <2>1. TrueRows => \A j \in QueriedRows : ~(j < 1)
      BY DEF TrueRows, QueriedRows
    <2> QED
      BY <2>1 DEF Shown
  <1>5. Planned => \A e \in query.where : e.column \in Numeric \cup schemas[query.metric]
    BY DEF Planned
  <1> QED
    BY <1>1, <1>2, <1>3, <1>4, <1>5 DEF AnswerInv, AnswersMatchRows

\* A row that is skipped shows nothing.
LEMMA AnswerInvSkip ==
    ASSUME AnswerInv, SkipRow, UNCHANGED setup
    PROVE  AnswerInv'
  <1>1. /\ phase = "scan" /\ phase' = "scan" /\ turn' = turn + 1 /\ turn <= Len(rows)
        /\ UNCHANGED <<setup, rows, schemas, query, batch>>
        /\ rows[turn].metric # query.metric \/ Pruned(rows[turn])
    BY DEF SkipRow, AtRow, tableVars
  <1>2. turn \in Nat \ {0} /\ (TrueRows' <=> TrueRows) /\ \A n : Shown(n)' = Shown(n)
    BY <1>1, QueryStays DEF AnswerInv
  <1>3. TrueRows => Shown(turn + 1) = Shown(turn)
    <2> SUFFICES ASSUME TrueRows PROVE Shown(turn + 1) = Shown(turn)
      OBVIOUS
    <2>1. turn \in QueriedRows => Pruned(rows[turn])
      BY <1>1 DEF QueriedRows
    <2> QED
      BY <1>2, <2>1, ShownSkip DEF TrueRows
  <1>4. Shown(turn)' = Shown(turn + 1)
    BY <1>1, <1>2 DEF Shown
  <1> QED
    BY <1>1, <1>2, <1>3, <1>4 DEF AnswerInv, AnswersMatchRows

\* A read of the row in turn shows nothing yet.
LEMMA AnswerInvRead ==
    ASSUME AnswerInv, UNCHANGED <<setup, rows, schemas, query, turn, batch>>,
           phase \in {"scan", "read"}, phase' = "read",
           turn <= Len(rows), rows[turn].metric = query.metric, ~Pruned(rows[turn])
    PROVE  AnswerInv'
  <1>1. (TrueRows' <=> TrueRows) /\ Shown(turn)' = Shown(turn)
    BY QueryStays DEF Shown
  <1>2. ~Pruned(rows[turn])'
    BY DEF Pruned, Filters
  <1> QED
    BY <1>1, <1>2 DEF AnswerInv, AnswersMatchRows

\* The samples of a record are shown, or the query is refused.
LEMMA AnswerInvTake ==
    ASSUME PartsInv, AnswerInv, TakeSamples, UNCHANGED setup
    PROVE  AnswerInv'
  <1>1. CASE phase' = "refused"
    BY <1>1 DEF TakeSamples, QueryFails, AnswerInv, AnswersMatchRows
  <1>2. CASE phase' # "refused"
    <2> DEFINE decoded == decode_record(Record, query.metric \in CounterMetrics)
    <2>1. /\ phase = "read" /\ reading = "read" /\ phase' = "scan" /\ turn' = turn + 1
          /\ UNCHANGED <<setup, rows, schemas, query>>
          /\ batch' = batch \cup {MetricRow(rows[turn], s) :
                                    s \in {d \in decoded.samples : Keeps(rows[turn], d)}}
      BY <1>2 DEF TakeSamples, QueryFails, Failed, tableVars
    <2> HIDE DEF decoded
    <2>2. /\ turn \in Nat \ {0} /\ turn <= Len(rows)
          /\ rows[turn].metric = query.metric /\ ~Pruned(rows[turn])
          /\ \A e \in query.where : IsCondition(e) /\ e.column \in Numeric \cup schemas[query.metric]
          /\ TrueRows => batch = Shown(turn)
      BY <2>1 DEF AnswerInv
    <2>3. TrueRows => batch' = Shown(turn + 1)
      <3> SUFFICES ASSUME TrueRows PROVE batch' = Shown(turn + 1)
        OBVIOUS
      <3>1. turn \in QueriedRows
        BY <2>2 DEF QueriedRows, TrueRows
      <3>2. decoded.samples = SamplesAt(rows[turn])
        BY <2>1, <3>1, RecordHoldsSamples DEF TrueRows, decoded
      <3>3. batch' = batch \cup ShownOf(rows[turn])
        BY <2>1, <2>2, <3>2 DEF ShownOf
      <3> QED
        BY <2>2, <3>1, <3>3, ShownTake DEF TrueRows
    <2>4. (TrueRows' <=> TrueRows) /\ \A n : Shown(n)' = Shown(n)
      BY <2>1, QueryStays
    <2>5. Shown(turn)' = Shown(turn + 1)
      BY <2>1, <2>4 DEF Shown
    <2> QED
      BY <2>1, <2>2, <2>3, <2>4, <2>5 DEF AnswerInv, AnswersMatchRows
  <1> QED
    BY <1>1, <1>2

\* After the last row, what is left is the answer.
LEMMA AnswerInvFinish ==
    ASSUME AnswerInv, Finish, UNCHANGED setup
    PROVE  AnswerInv'
  <1>1. CASE phase' = "refused"
    BY <1>1 DEF Finish, QueryFails, AnswerInv, AnswersMatchRows
  <1>2. CASE phase' # "refused"
    <2>1. /\ phase = "scan" /\ phase' = "answered" /\ turn > Len(rows)
          /\ UNCHANGED <<setup, rows, schemas, query>>
          /\ batch' = {r \in batch : Satisfies(r, Residual)}
      BY <1>2 DEF Finish, QueryFails, tableVars
    <2>2. /\ turn \in Nat \ {0}
          /\ \A e \in query.where : IsCondition(e) /\ e.column \in Numeric \cup schemas[query.metric]
          /\ TrueRows => batch = Shown(turn)
      BY <2>1 DEF AnswerInv
    <2>3. TrueRows => batch' = Asked
      BY <2>1, <2>2, ShownAll
    <2>4. (TrueRows' <=> TrueRows) /\ Asked' = Asked
      BY <2>1, QueryStays
    <2>5. AnswersMatchRows'
      BY <2>3, <2>4 DEF AnswersMatchRows, Asked, Wanted
    <2> QED
      BY <2>1, <2>2, <2>5 DEF AnswerInv
  <1> QED
    BY <1>1, <1>2

\* Scans and clients keep the invariant.
LEMMA AnswerInvQuery ==
    ASSUME PartsInv, AnswerInv, Scan \/ Client
    PROVE  AnswerInv'
  <1>1. UNCHANGED setup
    BY DEF Scan, Client
  <1>2. CASE phase = "scan" /\ turn <= Len(rows) /\ BeginRead(FileAt(rows[turn].path))
    BY <1>1, <1>2, AnswerInvRead DEF BeginRead, tableVars
  <1>3. CASE phase = "read" /\ ReadStep /\ UNCHANGED <<tableVars, scanVars>>
    <2>1. turn <= Len(rows) /\ rows[turn].metric = query.metric /\ ~Pruned(rows[turn])
      BY <1>3 DEF AnswerInv
    <2> QED
      BY <1>1, <1>3, <2>1, AnswerInvRead DEF tableVars, scanVars
  <1>4. CASE UnknownRepository
    BY <1>4 DEF UnknownRepository, QueryFails, AnswerInv, AnswersMatchRows
  <1>5. CASE Client
    <2>1. CASE Leave
      BY <2>1 DEF Leave, NoQuery, AnswerInv, AnswersMatchRows
    <2>2. CASE \E q \in Queries : Arrive(q)
      BY <2>2, QueriesAssumption DEF Arrive, AnswerInv, AnswersMatchRows
    <2> QED
      BY <1>5, <2>1, <2>2 DEF Client
  <1> QED
    BY <1>1, <1>2, <1>3, <1>4, <1>5, AnswerInvPlan, AnswerInvSkip, AnswerInvTake, AnswerInvFinish
    DEF Scan

\* The answers are right in every state.
LEMMA AnswersAreKept == Spec => []AnswerInv
  <1>1. Init => AnswerInv
    BY AnswerInvInit
  <1>2. PartsInv /\ AnswerInv /\ [Next]_vars => AnswerInv'
    <2> SUFFICES ASSUME PartsInv, AnswerInv, [Next]_vars PROVE AnswerInv'
      OBVIOUS
    <2>1. CASE UNCHANGED vars
      <3>1. UNCHANGED <<setup, rows, schemas, query, turn, batch, phase>>
        BY <2>1 DEF vars, tableVars, scanVars
      <3>2. /\ TrueRows' <=> TrueRows
            /\ Shown(turn)' = Shown(turn) /\ Asked' = Asked
            /\ Pruned(rows[turn])' <=> Pruned(rows[turn])
        BY <3>1, QueryStays DEF Shown, Pruned
      <3> QED
        BY <3>1, <3>2 DEF AnswerInv, AnswersMatchRows, Asked, Wanted
    <2> QED
      BY <2>1, AnswerInvBootstrap, AnswerInvQuery DEF Next
  <1> QED
    BY <1>1, <1>2, PartsAreSafe, PTL DEF Spec

\* build_metric_batch: for any chunks table that is true of the segments, any
\* conditions, those under a cast and those that the scan has no arm for among
\* them, and any page size, an answer has exactly the rows of which each condition
\* is Kept; how chunks are pruned, cut into pages and read makes no difference.
THEOREM AnswersAreThoseOfTheRows == Spec => []AnswersMatchRows
  <1>1. AnswerInv => AnswersMatchRows
    BY DEF AnswerInv
  <1> QED
    BY <1>1, AnswersAreKept, PTL

-----------------------------------------------------------------------------
(* The promise: the metric tables implement FilteredTable. *)

\* The promise reads conditions and columns as the scan does.
LEMMA TablesRead ==
    /\ Tables!Numeric = Numeric
    /\ \A e, x : Tables!Holds(e, x) <=> Holds(e, x)
    /\ \A r, n : Tables!Column(r, n) = Column(r, n)
    /\ \A labels, n : Tables!LabelColumn(labels, n) = LabelColumn(labels, n)
    /\ \A r, where : Tables!Satisfies(r, where) <=> Satisfies(r, where)
  <1>1. Tables!Numeric = Numeric
    BY DEF Tables!Numeric, Numeric
  <1>2. \A a, o, b : Tables!Compare(a, o, b) = Compare(a, o, b)
    BY Zenon DEF Tables!Compare, Compare
  <1>3. \A e, x : Tables!Holds(e, x) <=> Holds(e, x)
    <2>1. \A e, x : Tables!Compares(e, x) = Compares(e, x)
      BY <1>1, <1>2 DEF Tables!Compares, Compares
    <2>2. \A x : Tables!Fits(x) = Fits(x)
      BY DEF Tables!Fits, Fits
    <2> QED
      BY <2>1, <2>2 DEF Tables!Holds, Holds
  <1>4. \A labels, n : Tables!LabelColumn(labels, n) = LabelColumn(labels, n)
    BY DEF Tables!LabelColumn, LabelColumn
  <1>5. \A r, n : Tables!Column(r, n) = Column(r, n)
    BY <1>4 DEF Tables!Column, Column
  <1>6. \A r, where : Tables!Satisfies(r, where) <=> Satisfies(r, where)
    BY <1>3, <1>5 DEF Tables!Satisfies, Satisfies
  <1> QED
    BY <1>1, <1>3, <1>4, <1>5, <1>6

\* The conditions that a scan takes over are those the promise calls simple.
LEMMA SimpleIsParsed ==
    ASSUME NEW e, IsCondition(e), Comparable(e)
    PROVE  Tables!Simple(e) <=> Parses(e)
  <1>1. ASSUME Tables!Simple(e) PROVE Parses(e)
    BY <1>1 DEF Tables!Simple, Tables!Numeric, Parses, Oriented, reverse_operator, BinaryOperators, Numeric
  <1>2. ASSUME Parses(e) PROVE Tables!Simple(e)
    <2>1. /\ e.operator \in BinaryOperators /\ e.literal = "scalar" /\ Oriented(e) # "none"
          /\ e.column # "value" /\ (e.column \notin Numeric => Oriented(e) \in {"=", "!=", "~", "!~"})
          /\ e.flipped \in BOOLEAN
          /\ e.column = "timestamp" => e.operator \in {"=", "<", "<=", ">", ">="}
          /\ e.column = "downsample_resolution" => e.operator \in {"=", "!=", "<", "<=", ">", ">="}
      BY <1>2 DEF Parses, Comparable, Evaluated, IsCondition
    <2>2. CASE e.column \in Numeric
      BY <2>1, <2>2 DEF Tables!Simple, Tables!Numeric, Numeric
    <2>3. CASE e.column \notin Numeric /\ e.flipped
      <3>1. e.operator \in {"=", "!="}
        BY <2>1, <2>3 DEF Oriented, reverse_operator, BinaryOperators
      <3> QED
        BY <2>1, <2>3, <3>1 DEF Tables!Simple, Tables!Numeric, Numeric
    <2>4. CASE e.column \notin Numeric /\ ~e.flipped
      BY <2>1, <2>4 DEF Tables!Simple, Tables!Numeric, Numeric, Oriented
    <2> QED
      BY <2>1, <2>2, <2>3, <2>4
  <1> QED
    BY <1>1, <1>2

\* matches_descriptor: a chunk that a condition does not rule out may have a
\* sample, somewhere within its bounds, that the condition keeps.
LEMMA DescriptorHasSample ==
    ASSUME NEW e, NEW row, IsCondition(e), Parses(e), Evaluated(e), row.mint \in Int, row.maxt \in Int,
           row.mint <= row.maxt, matches_descriptor(parse_filter(e), row)
    PROVE  \E t \in row.mint..row.maxt : matches_sample(parse_filter(e), row, <<t, 0>>)
  <1> DEFINE f == parse_filter(e)
  <1>0. f.column = e.column /\ f.value = e.value /\ f.operator = Oriented(e)
    BY DEF parse_filter
  <1> HIDE DEF f
  <1>1. CASE e.column = "timestamp"
    <2>1. e.value \in Int /\ e.operator \in {"=", "<", "<=", ">", ">="}
      BY <1>1 DEF IsCondition, Evaluated, Numeric
    <2>2. Oriented(e) \in {"=", "<", "<=", ">", ">="}
      BY <2>1 DEF Oriented, reverse_operator
    <2>3. \A t : matches_sample(f, row, <<t, 0>>) <=> compare_i64(t, f.operator, f.value)
      BY <1>0, <1>1 DEF matches_sample
    <2>4. /\ f.operator = "="  => row.mint <= f.value /\ f.value <= row.maxt
          /\ f.operator = ">"  => row.maxt > f.value
          /\ f.operator = ">=" => row.maxt >= f.value
          /\ f.operator = "<"  => row.mint < f.value
          /\ f.operator = "<=" => row.mint <= f.value
      BY <1>0, <1>1 DEF matches_descriptor, f
    <2>5. f.value \in Int /\ f.operator \in {"=", "<", "<=", ">", ">="}
      BY <1>0, <2>1, <2>2
    <2>6. CASE f.operator = "="
      BY <2>3, <2>4, <2>5, <2>6 DEF compare_i64, f
    <2>7. CASE f.operator \in {">", ">="}
      <3>1. compare_i64(row.maxt, f.operator, f.value)
        BY <2>4, <2>5, <2>7 DEF compare_i64
      <3> QED
        BY <2>3, <3>1 DEF f
    <2>8. CASE f.operator \in {"<", "<="}
      <3>1. compare_i64(row.mint, f.operator, f.value)
        BY <2>4, <2>5, <2>8 DEF compare_i64
      <3> QED
        BY <2>3, <3>1 DEF f
    <2> QED
      BY <2>5, <2>6, <2>7, <2>8
  <1>2. CASE e.column # "timestamp"
    <2>1. matches_sample(f, row, <<row.mint, 0>>)
      BY <1>0, <1>2 DEF matches_sample, matches_descriptor, f
    <2> QED
      BY <2>1 DEF f
  <1> QED
    BY <1>1, <1>2

\* The rows of the blocks that are indexed are those of active chunks.
LEMMA StoredIsActive ==
    ASSUME setup \in Setups, built = Len(setup.blocks), ToSet(rows) = StoredRows \cup ToSet(setup.leftover)
    PROVE  StoredRows = {r \in ToSet(rows) : IsActive(r)}
  <1>1. ASSUME NEW r \in StoredRows PROVE IsActive(r)
    <2>1. PICK i \in 1..Len(setup.blocks) : r \in EntryRows(setup.blocks[i])
      BY DEF StoredRows
    <2>2. setup.blocks[i] \in Blocks /\ r.path[1] = setup.blocks[i].ulid
      BY <2>1, BlockFacts, RowNamesBlock
    <2> QED
      BY <2>2 DEF IsActive
  <1>2. ASSUME NEW r \in ToSet(setup.leftover) PROVE ~IsActive(r)
    BY SetupFacts DEF IsLeftover, IsActive, Blocks
  <1> QED
    BY <1>1, <1>2

\* The table of a metric, and its columns: the labels of the active rows.
LEMMA TableColumns ==
    ASSUME AllChunks = {ChunkOf(r) : r \in ToSet(rows)}, StoredRows = {r \in ToSet(rows) : IsActive(r)}, NEW m
    PROVE  /\ Tables!Table(m) = {ChunkOf(r) : r \in {q \in ToSet(rows) : q.metric = m}}
           /\ Tables!Active(m) = {ChunkOf(r) : r \in {q \in StoredRows : q.metric = m}}
           /\ Tables!Labels(m) = LabelsOf(StoredRows, m)
  <1> DEFINE S == ToSet(rows)
  <1> HIDE DEF S
  <1>1. \A r : /\ ChunkOf(r).metric = r.metric /\ (ChunkOf(r).active <=> IsActive(r))
               /\ DOMAIN ChunkOf(r).labels = DOMAIN r.labels \ {"__name__"}
    BY DEF ChunkOf
  <1>2. Tables!Table(m) = {c \in {ChunkOf(r) : r \in S} : c.metric = m}
    BY DEF Tables!Table, S
  <1>3. {c \in {ChunkOf(r) : r \in S} : c.metric = m} = {ChunkOf(r) : r \in {q \in S : q.metric = m}}
    BY <1>1
  <1>4. Tables!Active(m) = {ChunkOf(r) : r \in {q \in StoredRows : q.metric = m}}
    <2>1. \A c : c \in Tables!Active(m) <=> \E r \in S : r.metric = m /\ IsActive(r) /\ c = ChunkOf(r)
      BY <1>1, <1>2, <1>3 DEF Tables!Active
    <2> QED
      BY <2>1 DEF S
  <1>5. UNION {DOMAIN c.labels : c \in {ChunkOf(r) : r \in {q \in StoredRows : q.metric = m}}}
            = UNION {DOMAIN r.labels \ {"__name__"} : r \in {q \in StoredRows : q.metric = m}}
    BY <1>1
  <1> QED
    BY <1>2, <1>3, <1>4, <1>5 DEF LabelsOf, Tables!Labels, S

\* A query that is planned: what the tables hold when one is.
PlannedInv ==
    /\ PartsInv /\ TypesInv /\ RowsInv /\ AllIndexable /\ phase \notin {"index", "failed"}
    /\ Planned

\* Where the rows of the queried metric are, and what they show.
LEMMA PlannedFacts ==
    ASSUME PlannedInv
    PROVE  /\ AllChunks = {ChunkOf(r) : r \in ToSet(rows)}
           /\ StoredRows = {r \in ToSet(rows) : IsActive(r)}
           /\ \A e \in query.where : e.column \in Numeric \cup schemas[query.metric]
           /\ Tables!Labels(query.metric) = schemas[query.metric]
           /\ "__name__" \notin schemas[query.metric]
           /\ \A r \in ToSet(rows) : RowTyped(r)
           /\ setup \in Setups
  <1>1. AllChunks = {ChunkOf(r) : r \in ToSet(rows)}
    BY ChunksAreRows DEF PlannedInv
  <1>2. /\ ToSet(rows) = StoredRows \cup ToSet(setup.leftover) /\ LabelsAre(schemas, StoredRows)
        /\ setup \in Setups /\ built = Len(setup.blocks)
    BY DEF PlannedInv, RowsInv, PartsInv, PlaceInv
  <1>3. query.metric \in DOMAIN schemas /\ \A e \in query.where : e.column \in Numeric \cup schemas[query.metric]
    BY DEF PlannedInv, Planned
  <1>4. StoredRows = {r \in ToSet(rows) : IsActive(r)}
    BY <1>2, StoredIsActive
  <1>5. schemas[query.metric] = LabelsOf(StoredRows, query.metric)
    BY <1>2, <1>3 DEF LabelsAre
  <1>6. Tables!Labels(query.metric) = schemas[query.metric]
    BY <1>1, <1>4, <1>5, TableColumns
  <1>7. "__name__" \notin LabelsOf(StoredRows, query.metric)
    BY DEF LabelsOf
  <1>8. \A r \in ToSet(rows) : RowTyped(r)
    BY DEF PlannedInv, TypesInv
  <1> QED
    BY <1>1, <1>2, <1>3, <1>4, <1>5, <1>6, <1>7, <1>8

\* A sample is in the promised table the row that a scan makes of it.
LEMMA RowIsPromised ==
    ASSUME PlannedInv, NEW row, row.metric = query.metric, NEW s
    PROVE  Tables!TableRow(ChunkOf(row), s) = MetricRow(row, s)
  <1> DEFINE m == query.metric
             c == ChunkOf(row)
  <1>1. /\ c.at = <<row.path, row.offset>> /\ c.metric = m /\ c.resolution = row.resolution
        /\ c.labels = [x \in DOMAIN row.labels \ {"__name__"} |-> row.labels[x]]
    BY DEF ChunkOf, Place
  <1> HIDE DEF c
  <1>2. Tables!Labels(m) = schemas[m]
    BY PlannedFacts
  <1>3. \A x \in schemas[m] : LabelColumn(c.labels, x) = LabelColumn(row.labels, x)
    <2>1. "__name__" \notin schemas[m]
      BY PlannedFacts
    <2> QED
      BY <1>1, <2>1 DEF LabelColumn
  <1>4. [x \in schemas[m] |-> LabelColumn(c.labels, x)] = [x \in schemas[m] |-> LabelColumn(row.labels, x)]
    BY <1>3
  <1>5. Tables!TableRow(c, s)
          = [chunk |-> c.at, timestamp |-> s[1], value |-> s[2], resolution |-> c.resolution,
             labels |-> [x \in schemas[m] |-> LabelColumn(c.labels, x)]]
    BY <1>1, <1>2, TablesRead DEF Tables!TableRow
  <1>6. MetricRow(row, s)
          = [chunk |-> <<row.path, row.offset>>, timestamp |-> s[1], value |-> s[2],
             resolution |-> row.resolution, labels |-> [x \in schemas[m] |-> LabelColumn(row.labels, x)]]
    BY DEF MetricRow
  <1> QED
    BY <1>1, <1>4, <1>5, <1>6 DEF c

\* matches_descriptor: the scan reads the chunks that are relevant, and no others.
LEMMA RelevantIsRead ==
    ASSUME PlannedInv, \A e \in query.where : IsCondition(e) /\ Comparable(e),
           NEW row \in ToSet(rows), row.metric = query.metric
    PROVE  Tables!Relevant(ChunkOf(row), query) <=> ~Pruned(row)
  <1>1. row.mint \in Int /\ row.maxt \in Int /\ row.mint <= row.maxt /\ row.resolution \in Int
    BY PlannedFacts DEF RowTyped
  <1>2. ChunkOf(row).mint = row.mint /\ ChunkOf(row).maxt = row.maxt
    BY DEF ChunkOf
  <1>3. ASSUME NEW e \in query.where, Parses(e)
        PROVE  (\E t \in row.mint..row.maxt :
                    Tables!Holds(e, Tables!Column(Tables!TableRow(ChunkOf(row), <<t, 0>>), e.column)))
                  <=> matches_descriptor(parse_filter(e), row)
    <2>1. /\ IsCondition(e) /\ Evaluated(e) /\ ~e.narrowed
          /\ e.column \in Numeric \cup schemas[query.metric]
      BY <1>3, PlannedFacts DEF Comparable
    <2>2. ASSUME NEW t \in row.mint..row.maxt
          PROVE  Tables!Holds(e, Tables!Column(Tables!TableRow(ChunkOf(row), <<t, 0>>), e.column))
                    <=> matches_sample(parse_filter(e), row, <<t, 0>>)
      <3>1. t \in Int /\ <<t, 0>>[1] = t
        BY <1>1
      <3>2. matches_sample(parse_filter(e), row, <<t, 0>>)
              <=> Compares(e, Column(MetricRow(row, <<t, 0>>), e.column))
        BY <1>1, <1>3, <2>1, <3>1, SampleIsCompared
      <3>4. \A x : Holds(e, x) <=> Compares(e, x)
        BY <2>1 DEF Holds
      <3>3. Tables!TableRow(ChunkOf(row), <<t, 0>>) = MetricRow(row, <<t, 0>>)
        BY RowIsPromised
      <3> QED
        BY <3>2, <3>3, <3>4, TablesRead
    <2>3. ASSUME NEW t \in row.mint..row.maxt, matches_sample(parse_filter(e), row, <<t, 0>>)
          PROVE  matches_descriptor(parse_filter(e), row)
      <3>1. <<t, 0>>[1] \in row.mint..row.maxt
        OBVIOUS
      <3> QED
        BY <1>1, <1>3, <2>1, <2>3, <3>1, PruningIsSound
    <2>4. matches_descriptor(parse_filter(e), row) =>
            \E t \in row.mint..row.maxt : matches_sample(parse_filter(e), row, <<t, 0>>)
      BY <1>1, <1>3, <2>1, DescriptorHasSample
    <2> QED
      BY <2>2, <2>3, <2>4
  <1>4. \A e \in query.where : Tables!Simple(e) <=> Parses(e)
    BY SimpleIsParsed
  <1>5. Pruned(row) <=> \E e \in query.where : Parses(e) /\ ~matches_descriptor(parse_filter(e), row)
    BY DEF Pruned, Filters
  <1> QED
    BY <1>2, <1>3, <1>4, <1>5 DEF Tables!Relevant

\* The samples of a chunk are those of its row.
LEMMA SamplesArePromised ==
    ASSUME NEW row, row.metric = query.metric
    PROVE  ChunkOf(row).samples = SamplesAt(row)
  BY DEF ChunkOf, SamplesAt, RecordsOf

\* What the query makes of conditions that a scan evaluates is what the tables promise.
LEMMA AskedIsPromised ==
    ASSUME PlannedInv, \A e \in query.where : Comparable(e)
    PROVE  Asked = Tables!Exactly(query)
  <1> DEFINE m == query.metric
             mine == {r \in ToSet(rows) : r.metric = m}
  <1>1. ASSUME NEW r \in mine, NEW s
        PROVE  Tables!TableRow(ChunkOf(r), s) = MetricRow(r, s)
    BY RowIsPromised
  <1>2. \A r \in mine : ChunkOf(r).samples = SamplesAt(r)
    BY SamplesArePromised
  <1>3. Tables!Table(m) = {ChunkOf(r) : r \in mine}
    BY PlannedFacts, TableColumns
  <1>4. \A r : r \in mine <=> \E i \in QueriedRows : r = rows[i]
    BY DEF QueriedRows, ToSet
  <1> DEFINE promised == UNION {{Tables!TableRow(c, s) : s \in c.samples} : c \in Tables!Table(m)}
             asked == UNION {{MetricRow(rows[i], s) : s \in SamplesAt(rows[i])} : i \in QueriedRows}
  <1>5. \A x : x \in promised <=> \E c \in Tables!Table(m) : \E s \in c.samples : x = Tables!TableRow(c, s)
    OBVIOUS
  <1>6. \A x : x \in asked <=> \E i \in QueriedRows : \E s \in SamplesAt(rows[i]) : x = MetricRow(rows[i], s)
    OBVIOUS
  <1>7. /\ Tables!Exactly(query) = {x \in promised : Tables!Satisfies(x, query.where)}
        /\ Asked = {x \in asked : Wanted(x)}
    BY DEF Tables!Exactly, Asked
  <1>11. \A x : Wanted(x) <=> Satisfies(x, query.where)
    BY DEF Wanted, Kept, Comparable, Satisfies, Holds
  <1> HIDE DEF mine, promised, asked, m
  <1>8. ASSUME NEW x \in promised PROVE x \in asked
    <2>1. PICK c \in Tables!Table(m) : \E s \in c.samples : x = Tables!TableRow(c, s)
      BY <1>5
    <2>2. PICK r \in mine : c = ChunkOf(r)
      BY <1>3
    <2>3. PICK s \in c.samples : x = Tables!TableRow(c, s)
      BY <2>1
    <2>4. s \in SamplesAt(r) /\ x = MetricRow(r, s)
      BY <1>1, <1>2, <2>2, <2>3
    <2> QED
      BY <1>4, <1>6, <2>4
  <1>9. ASSUME NEW x \in asked PROVE x \in promised
    <2>1. PICK i \in QueriedRows : \E s \in SamplesAt(rows[i]) : x = MetricRow(rows[i], s)
      BY <1>6
    <2>2. PICK s \in SamplesAt(rows[i]) : x = MetricRow(rows[i], s)
      BY <2>1
    <2>3. rows[i] \in mine
      BY <1>4
    <2>4. ChunkOf(rows[i]) \in Tables!Table(m) /\ s \in ChunkOf(rows[i]).samples
          /\ x = Tables!TableRow(ChunkOf(rows[i]), s)
      BY <1>1, <1>2, <1>3, <2>2, <2>3
    <2> QED
      BY <1>5, <2>4
  <1>10. promised = asked
    BY <1>8, <1>9
  <1> QED
    BY <1>7, <1>10, <1>11, TablesRead

\* A row that a scan has passed is of a repository that is configured, and it
\* was ruled out, or read.
Passed(r) == r.repository \in registry /\ (Pruned(r) \/ Decodable(RecordsOf(r), r.metric))

ScanInv ==
    /\ phase \in {"plan", "scan", "read", "answered", "refused"} => query \in Queries
    /\ phase \in {"scan", "read", "answered"} => Planned
    /\ phase \in {"scan", "read"} => \A i \in QueriedRows : i < turn => Passed(rows[i])
    /\ phase = "answered" => \A i \in QueriedRows : Passed(rows[i])
    /\ phase = "read" => /\ rows[turn].metric = query.metric
                         /\ rows[turn].repository \in registry /\ ~Pruned(rows[turn])

\* While a query is answered, what is passed and planned stays so.
LEMMA PassedStays ==
    ASSUME UNCHANGED <<setup, registry, rows, schemas, query>>
    PROVE  /\ \A r : (Passed(r)' <=> Passed(r)) /\ (Pruned(r)' <=> Pruned(r))
           /\ QueriedRows' = QueriedRows /\ (Planned' <=> Planned)
  <1>1. Filters' = Filters
    BY DEF Filters
  <1>2. \A r : Pruned(r)' <=> Pruned(r)
    BY <1>1 DEF Pruned
  <1>3. \A r : Decodable(RecordsOf(r), r.metric)' = Decodable(RecordsOf(r), r.metric)
    BY DEF RecordsOf, RecordsAt, Decodable, Decoding, FileAt, Stored, Blocks, Missing
  <1> QED
    BY <1>2, <1>3 DEF Passed, QueriedRows, Planned

\* A read that succeeds finds a chunk, and one that fails does not.
LEMMA ReadFindsChunk ==
    ASSUME PartsInv, TypesInv, phase = "read", rows[turn].metric = query.metric
    PROVE  /\ reading = "read" =>
                (decode_record(Record, query.metric \in CounterMetrics).ok
                    <=> Decodable(RecordsOf(rows[turn]), query.metric))
           /\ reading = "failed" => ~Decodable(RecordsOf(rows[turn]), query.metric)
  <1> DEFINE row == rows[turn]
  <1>1. row.offset \in Nat
    BY RowInTurn DEF TypesInv, RowTyped
  <1>2. ASSUME reading = "read"
        PROVE  RecordsOf(row) = {Record}
    BY <1>1, <1>2, RecordIsRead DEF RecordsOf, RecordsAt
  <1>3. ASSUME reading = "failed"
        PROVE  ~Decodable(RecordsOf(row), query.metric)
    <2>1. /\ segment = FileAt(row.path) /\ want = row.offset
          /\ IsSegment(segment) /\ pageSize \in Nat /\ RecordIsExact
      BY FilesAreSegments, ReadInvIsExact, SetupsAssumption DEF PartsInv, PlaceInv
    <2>2. \A r \in RecordsOf(row) : ~r.sound
      BY <1>3, <2>1 DEF RecordIsExact, RecordsOf, RecordsAt
    <2> QED
      BY <2>2 DEF Decodable, Decoding, decode_record, Failed
  <1> QED
    BY <1>2, <1>3 DEF Decodable, Decoding

\* Nothing is passed at first.
LEMMA ScanInvInit ==
    ASSUME Init
    PROVE  ScanInv
  BY DEF Init, ScanInv

\* A bootstrap answers nothing.
LEMMA ScanInvBootstrap ==
    ASSUME TypesInv, Bootstrap
    PROVE  ScanInv'
  <1>1. phase' \in {"index", "failed", "serve"}
    <2>1. CASE ParseIndex
      BY <2>1 DEF ParseIndex, WalkStep, SkipPadding, ParseSeries, RefuseSeries, EndOfSeries, TypesInv, scanVars
    <2> QED
      BY <2>1 DEF Bootstrap, OpenBlock, PublishBlock, RefuseBlock, RegisterTables, BootstrapFails, scanVars
  <1> QED
    BY <1>1 DEF ScanInv

\* The steps of a scan and of a client.
LEMMA ScanInvQuery ==
    ASSUME PartsInv, TypesInv, ScanInv, Scan \/ Client
    PROVE  ScanInv'
  <1>1. UNCHANGED <<setup, built>>
    BY DEF Scan, Client
  <1>2. /\ rows \in Seq(ToSet(rows)) /\ turn \in 0..(Len(rows) + 1) /\ Len(rows) \in Nat
        /\ DOMAIN rows = 1..Len(rows)
    BY LenProperties DEF TypesInv
  <1>3. \A i \in QueriedRows : i \in 1..Len(rows) /\ rows[i].metric = query.metric
    BY <1>2 DEF QueriedRows
  <1>4. CASE Plan
    <2>1. /\ UNCHANGED <<setup, registry, rows, schemas, query>> /\ turn' = 1 /\ phase = "plan"
          /\ phase' = IF Planned THEN "scan" ELSE "refused"
      BY <1>1, <1>4 DEF Plan, tableVars
    <2> QED
      BY <1>3, <2>1, PassedStays DEF ScanInv
  <1>5. CASE SkipRow
    <2>1. /\ UNCHANGED <<setup, registry, rows, schemas, query>> /\ turn' = turn + 1
          /\ phase = "scan" /\ phase' = "scan"
          /\ rows[turn].metric # query.metric \/ (rows[turn].repository \in registry /\ Pruned(rows[turn]))
      BY <1>1, <1>5 DEF SkipRow, AtRow, tableVars
    <2>2. \A i \in QueriedRows : i < turn + 1 => Passed(rows[i])
      <3> SUFFICES ASSUME NEW i \in QueriedRows, i < turn + 1 PROVE Passed(rows[i])
        OBVIOUS
      <3>1. CASE i = turn
        BY <1>3, <2>1, <3>1 DEF Passed
      <3>2. CASE i # turn
        BY <1>2, <1>3, <2>1, <3>2 DEF ScanInv
      <3> QED
        BY <3>1, <3>2
    <2> QED
      BY <2>1, <2>2, PassedStays DEF ScanInv
  <1>6. CASE UnknownRepository
    <2>1. query' = query /\ phase = "scan" /\ phase' = "refused"
      BY <1>6 DEF UnknownRepository, AtRow, QueryFails
    <2> QED
      BY <2>1 DEF ScanInv
  <1>7. CASE phase = "scan" /\ turn <= Len(rows) /\ BeginRead(FileAt(rows[turn].path))
    <2>1. /\ UNCHANGED <<setup, registry, rows, schemas, query, turn>>
          /\ phase = "scan" /\ phase' = "read" /\ rows[turn].metric = query.metric
          /\ rows[turn].repository \in registry /\ ~Pruned(rows[turn])
      BY <1>1, <1>7 DEF BeginRead, tableVars
    <2> QED
      BY <2>1, PassedStays DEF ScanInv
  <1>8. CASE phase = "read" /\ ReadStep /\ UNCHANGED <<tableVars, scanVars>>
    <2>1. UNCHANGED <<setup, registry, rows, schemas, query, turn, phase>>
      BY <1>1, <1>8 DEF tableVars, scanVars
    <2> QED
      BY <1>8, <2>1, PassedStays DEF ScanInv
  <1>9. CASE TakeSamples
    <2>1. CASE phase' = "refused"
      BY <1>9, <2>1 DEF TakeSamples, QueryFails, ScanInv
    <2>2. CASE phase' # "refused"
      <3>1. /\ UNCHANGED <<setup, registry, rows, schemas, query>> /\ turn' = turn + 1
            /\ phase = "read" /\ phase' = "scan" /\ reading = "read"
            /\ decode_record(Record, query.metric \in CounterMetrics).ok
        BY <1>1, <1>9, <2>2 DEF TakeSamples, QueryFails, Failed, tableVars
      <3>2. Passed(rows[turn])
        BY <3>1, ReadFindsChunk DEF ScanInv, Passed
      <3>3. \A i \in QueriedRows : i < turn + 1 => Passed(rows[i])
        <4> SUFFICES ASSUME NEW i \in QueriedRows, i < turn + 1 PROVE Passed(rows[i])
          OBVIOUS
        <4>1. i = turn \/ i < turn
          BY <1>2, <1>3
        <4> QED
          BY <3>1, <3>2, <4>1 DEF ScanInv
      <3> QED
        BY <3>1, <3>3, PassedStays DEF ScanInv
    <2> QED
      BY <2>1, <2>2
  <1>10. CASE Finish
    <2>1. CASE phase' = "refused"
      BY <1>10, <2>1 DEF Finish, QueryFails, ScanInv
    <2>2. CASE phase' # "refused"
      <3>1. /\ UNCHANGED <<setup, registry, rows, schemas, query>> /\ turn > Len(rows)
            /\ phase = "scan" /\ phase' = "answered"
        BY <1>1, <1>10, <2>2 DEF Finish, QueryFails, tableVars
      <3>2. \A i \in QueriedRows : Passed(rows[i])
        <4>1. \A i \in QueriedRows : i < turn
          BY <1>2, <1>3, <3>1
        <4> QED
          BY <3>1, <4>1 DEF ScanInv
      <3> QED
        BY <3>1, <3>2, PassedStays DEF ScanInv
    <2> QED
      BY <2>1, <2>2
  <1>11. CASE Client
    BY <1>11 DEF Client, Leave, Arrive, ScanInv
  <1> QED
    BY <1>4, <1>5, <1>6, <1>7, <1>8, <1>9, <1>10, <1>11 DEF Scan

\* Blocks as Prometheus and Thanos write them: each can be indexed, and no chunk
\* has a sample outside of the bounds that its index gives.
WellWritten ==
    /\ AllIndexable
    /\ \A c \in AllChunks : \A s \in c.samples : s[1] \in c.mint..c.maxt

\* What the client has of its answer, whatever it asked.
Seen == [status |-> IF phase \in {"answered", "refused"} THEN phase ELSE "none",
          rows |-> IF phase = "answered" THEN batch ELSE {}]

\* The filtered table sees a query that is promised as it is, and no other one.
LEMMA PosedIs ==
    /\ Promised(query) => Posed = query /\ Told = Seen
    /\ ~Promised(query) => Posed = NoQuery /\ Told = [status |-> "none", rows |-> {}]
  BY DEF Posed, Told, Seen

LEMMA PosedStays ==
    ASSUME UNCHANGED query
    PROVE  /\ Promised(query)' <=> Promised(query)
           /\ UNCHANGED Posed
           /\ Seen' = Seen \/ ~Promised(query) => Told' = Told
           /\ Promised(query) => Told' = Seen'
  <1>1. Promised(query)' <=> Promised(query)
    BY DEF Promised
  <1>2. UNCHANGED Posed
    BY <1>1 DEF Posed, NoQuery
  <1>3. ~Promised(query) => Told' = Told
    BY <1>1 DEF Told
  <1>4. Promised(query) => Told' = Seen'
    BY <1>1 DEF Told, Seen
  <1>5. Promised(query) => Told = Seen
    BY PosedIs
  <1> QED
    BY <1>1, <1>2, <1>3, <1>4, <1>5

\* Nothing that happens changes the chunks that the tables are made of.
LEMMA ChunksStay ==
    ASSUME UNCHANGED <<setup, registry>>
    PROVE  AllChunks' = AllChunks /\ (WellWritten' <=> WellWritten)
  <1>1. AllChunks' = AllChunks
    BY DEF AllChunks, Blocks, Indexable, LeftoverChunks, StoredChunks, Decodable, SamplesIn, Decoding, RecordsAt,
           FileAt, Stored, Missing
  <1>2. AllIndexable' <=> AllIndexable
    BY DEF AllIndexable, Blocks
  <1> QED
    BY <1>1, <1>2 DEF WellWritten

\* A table is true of blocks that are well written.
LEMMA WrittenIsTrue ==
    ASSUME PlannedInv, WellWritten
    PROVE  TrueRows
  <1>1. rows \in Seq(ToSet(rows)) /\ ToSet(rows) = {rows[i] : i \in DOMAIN rows}
    BY DEF PlannedInv, TypesInv, ToSet
  <1>2. ASSUME NEW i \in QueriedRows
        PROVE  /\ rows[i].offset \in Nat /\ rows[i].mint \in Int /\ rows[i].maxt \in Int
               /\ rows[i].resolution \in Int
               /\ \A s \in SamplesAt(rows[i]) : s[1] \in rows[i].mint..rows[i].maxt
    <2>1. rows[i] \in ToSet(rows) /\ rows[i].metric = query.metric
      BY <1>1 DEF QueriedRows
    <2>2. RowTyped(rows[i]) /\ setup \in Setups
      BY <2>1, PlannedFacts
    <2>3. ChunkOf(rows[i]) \in AllChunks
      BY <2>1, PlannedFacts
    <2>4. /\ ChunkOf(rows[i]).mint = rows[i].mint /\ ChunkOf(rows[i]).maxt = rows[i].maxt
          /\ ChunkOf(rows[i]).samples = SamplesAt(rows[i])
      BY <2>1, SamplesArePromised DEF ChunkOf
    <2> QED
      BY <2>2, <2>3, <2>4, SpanAssumption DEF WellWritten, RowTyped
  <1> QED
    BY <1>1, <1>2 DEF TrueRows

\* The tables that the promise speaks of, while there is a query.
TableInv ==
    /\ PartsInv /\ TypesInv /\ RowsInv /\ ScanInv /\ AnswerInv
    /\ WellWritten

\* A query arrives: the filtered table is asked it, if it is promised.
LEMMA ArriveAsks ==
    ASSUME TableInv, NEW q \in Queries, Arrive(q), UNCHANGED setup
    PROVE  Tables!Ask \/ UNCHANGED <<AllChunks, Posed, Told>>
  <1>1. query = NoQuery /\ query' = q /\ phase = "serve" /\ phase' = "plan"
        /\ UNCHANGED <<setup, registry>>
    BY DEF TableInv, TypesInv, Arrive, tableVars
  <1>2. AllChunks' = AllChunks
    BY <1>1, ChunksStay
  <1>3. Told = [status |-> "none", rows |-> {}] /\ Told' = [status |-> "none", rows |-> {}]
    BY <1>1 DEF Told
  <1>4. Posed = NoQuery
    BY <1>1 DEF Posed
  <1>5. Posed' = q \/ Posed' = NoQuery
    BY <1>1 DEF Posed, NoQuery
  <1>6. CASE Posed' = NoQuery
    BY <1>2, <1>3, <1>4, <1>6
  <1>7. CASE Posed' = q
    BY <1>2, <1>3, <1>4, <1>7 DEF Tables!Ask, Tables!NoQuery, NoQuery
  <1> QED
    BY <1>5, <1>6, <1>7

\* A query is refused, for a reason that the promise knows.
LEMMA RefusalRefuses ==
    ASSUME TableInv, Promised(query), UNCHANGED <<setup, registry, query>>,
           phase \in {"plan", "scan", "read"}, phase' = "refused",
           \/ \E c \in Tables!Table(query.metric) : ~c.known \/ (Tables!Relevant(c, query) /\ ~c.readable)
           \/ Tables!Active(query.metric) = {}
           \/ ~Tables!HasColumns(query) \/ query.columns = {}
    PROVE  Tables!Refuse
  <1>1. query \in Queries /\ query # NoQuery
    BY QueriesAssumption DEF TableInv, ScanInv
  <1>2. AllChunks' = AllChunks
    BY ChunksStay
  <1>3. Told = [status |-> "none", rows |-> {}] /\ Told' = [status |-> "refused", rows |-> {}]
    BY PosedIs, PosedStays DEF Seen
  <1>4. Posed = query /\ UNCHANGED Posed
    BY PosedIs, PosedStays
  <1> QED
    BY <1>1, <1>2, <1>3, <1>4
    DEF Tables!Refuse, Tables!NoQuery, NoQuery, Tables!Unanswered, Tables!Refusal

\* A client leaves with its answer.
LEMMA LeaveCloses ==
    ASSUME TableInv, Leave, UNCHANGED setup
    PROVE  Tables!Close \/ UNCHANGED <<AllChunks, Posed, Told>>
  <1>1. query' = NoQuery /\ phase \in {"answered", "refused"} /\ phase' = "serve"
        /\ UNCHANGED <<setup, registry>>
    BY DEF Leave, tableVars
  <1>2. AllChunks' = AllChunks
    BY <1>1, ChunksStay
  <1>3. Posed' = NoQuery /\ Told' = [status |-> "none", rows |-> {}]
    BY <1>1 DEF Posed, Told, NoQuery
  <1>4. CASE Promised(query)
    <2>1. Told.status # "none"
      BY <1>1, <1>4, PosedIs DEF Seen
    <2>2. Told # [status |-> "none", rows |-> {}]
      BY <2>1
    <2>3. Tables!Close
      BY <1>2, <1>3, <2>2 DEF Tables!Close, Tables!NoQuery, NoQuery, Tables!Unanswered
    <2> QED
      BY <2>3
  <1>5. CASE ~Promised(query)
    BY <1>2, <1>3, <1>5, PosedIs
  <1> QED
    BY <1>4, <1>5

\* What a query finds when it is planned: the chunks of its metric and its columns.
LEMMA QueryTables ==
    ASSUME TableInv, phase \in {"plan", "scan", "read"}
    PROVE  /\ \A c : c \in Tables!Table(query.metric)
                     <=> \E r \in ToSet(rows) : r.metric = query.metric /\ c = ChunkOf(r)
           /\ query.metric \notin DOMAIN schemas => Tables!Active(query.metric) = {}
           /\ query.metric \in DOMAIN schemas => Tables!Labels(query.metric) = schemas[query.metric]
           /\ \A r : ChunkOf(r).known <=> r.repository \in registry
           /\ Planned => PlannedInv
  <1>1. AllChunks = {ChunkOf(r) : r \in ToSet(rows)}
    BY ChunksAreRows DEF TableInv, WellWritten
  <1>2. /\ ToSet(rows) = StoredRows \cup ToSet(setup.leftover) /\ LabelsAre(schemas, StoredRows)
        /\ setup \in Setups /\ built = Len(setup.blocks)
    BY DEF TableInv, WellWritten, RowsInv, PartsInv, PlaceInv
  <1>3. /\ Tables!Table(query.metric) = {ChunkOf(r) : r \in {q \in ToSet(rows) : q.metric = query.metric}}
        /\ Tables!Active(query.metric) = {ChunkOf(r) : r \in {q \in StoredRows : q.metric = query.metric}}
        /\ Tables!Labels(query.metric) = LabelsOf(StoredRows, query.metric)
    BY <1>1, <1>2, StoredIsActive, TableColumns
  <1>4. \A r : ChunkOf(r).known <=> r.repository \in registry
    BY DEF ChunkOf
  <1>5. Planned => PlannedInv
    BY DEF TableInv, WellWritten, PlannedInv
  <1> HIDE DEF ChunkOf
  <1>6. \A c : c \in Tables!Table(query.metric)
                     <=> \E r \in ToSet(rows) : r.metric = query.metric /\ c = ChunkOf(r)
    BY <1>3
  <1>7. query.metric \notin DOMAIN schemas => Tables!Active(query.metric) = {}
    BY <1>2, <1>3 DEF LabelsAre
  <1>8. query.metric \in DOMAIN schemas => Tables!Labels(query.metric) = schemas[query.metric]
    BY <1>2, <1>3 DEF LabelsAre
  <1> QED
    BY <1>4, <1>5, <1>6, <1>7, <1>8

\* MetricTableProvider::scan refuses what no table can answer: a metric that only
\* rows of other blocks have, or a column that none of its series has.
LEMMA PlanRefuses ==
    ASSUME TableInv, Promised(query), Plan, ~Planned, UNCHANGED setup
    PROVE  Tables!Refuse
  <1>1. /\ phase = "plan" /\ phase' = "refused" /\ UNCHANGED <<setup, registry, query>>
    BY DEF Plan, tableVars
  <1>2. CASE query.metric \notin DOMAIN schemas
    BY <1>1, <1>2, QueryTables, RefusalRefuses
  <1>3. CASE query.metric \in DOMAIN schemas
    <2>1. PICK e \in query.where : e.column \notin Numeric \cup schemas[query.metric]
      BY <1>3 DEF Planned
    <2>2. Tables!Labels(query.metric) = schemas[query.metric]
      BY <1>1, <1>3, QueryTables
    <2>3. ~Tables!HasColumns(query)
      BY <2>1, <2>2, TablesRead DEF Tables!HasColumns
    <2> QED
      BY <1>1, <2>3, RefusalRefuses
  <1> QED
    BY <1>2, <1>3

\* A row of a repository that is not configured refuses the query.
LEMMA UnknownRefuses ==
    ASSUME TableInv, Promised(query), UnknownRepository, UNCHANGED setup
    PROVE  Tables!Refuse
  <1>1. /\ phase = "scan" /\ phase' = "refused" /\ UNCHANGED <<setup, registry, query>>
        /\ turn <= Len(rows) /\ rows[turn].metric = query.metric /\ rows[turn].repository \notin registry
    BY DEF UnknownRepository, AtRow, QueryFails, tableVars
  <1>2. rows[turn] \in ToSet(rows)
    <2>1. turn \in 1..Len(rows)
      BY <1>1, LenProperties DEF TableInv, TypesInv
    <2> QED
      BY <2>1, RowInTurn DEF TableInv
  <1>3. \E c \in Tables!Table(query.metric) : ~c.known
    BY <1>1, <1>2, QueryTables
  <1> QED
    BY <1>1, <1>3, RefusalRefuses

\* A chunk that is read and cannot be decoded refuses the query: it is one that
\* no condition rules out.
LEMMA DecodingRefuses ==
    ASSUME TableInv, Promised(query),
           TakeSamples, phase' = "refused", UNCHANGED setup
    PROVE  Tables!Refuse
  <1> DEFINE row == rows[turn]
             c == ChunkOf(row)
  <1>1. /\ phase = "read" /\ UNCHANGED <<setup, registry, query>>
        /\ reading \in {"read", "failed"}
        /\ reading = "read" => ~decode_record(Record, query.metric \in CounterMetrics).ok
    BY DEF TakeSamples, QueryFails, tableVars
  <1>2. /\ row.metric = query.metric /\ ~Pruned(row) /\ Planned
    BY <1>1 DEF TableInv, ScanInv
  <1>3. ~Decodable(RecordsOf(row), query.metric)
    BY <1>1, <1>2, ReadFindsChunk DEF TableInv
  <1>4. row \in ToSet(rows)
    BY <1>1, RowInTurn DEF TableInv, TypesInv
  <1>5. c \in Tables!Table(query.metric) /\ PlannedInv
    BY <1>1, <1>2, <1>4, QueryTables
  <1>6. Tables!Relevant(c, query)
    BY <1>2, <1>4, <1>5, RelevantIsRead DEF TableInv, AnswerInv, Promised
  <1>7. ~c.readable
    BY <1>2, <1>3 DEF ChunkOf
  <1> HIDE DEF c
  <1> QED
    BY <1>1, <1>5, <1>6, <1>7, RefusalRefuses

\* After the last row, the answer is the promised one.
LEMMA FinishReplies ==
    ASSUME TableInv, Promised(query),
           Finish, phase' = "answered", UNCHANGED setup
    PROVE  Tables!Reply
  <1>1. /\ phase = "scan" /\ turn > Len(rows) /\ UNCHANGED <<setup, registry, rows, schemas, query>>
    BY DEF Finish, QueryFails, tableVars
  <1>2. PlannedInv /\ query \in Queries
    BY <1>1, QueryTables DEF TableInv, ScanInv
  <1>3. \A i \in QueriedRows : Passed(rows[i])
    <2>1. \A i \in QueriedRows : i < turn
      BY <1>1 DEF QueriedRows, TableInv, TypesInv
    <2> QED
      BY <1>1, <2>1 DEF TableInv, ScanInv
  <1>4. ASSUME NEW c \in Tables!Table(query.metric)
        PROVE  c.known /\ (Tables!Relevant(c, query) => c.readable)
    <2>1. PICK r \in ToSet(rows) : r.metric = query.metric /\ c = ChunkOf(r)
      BY <1>1, QueryTables
    <2>2. PICK i \in QueriedRows : r = rows[i]
      BY <2>1 DEF QueriedRows, ToSet
    <2>3. Passed(r)
      BY <1>3, <2>2
    <2>4. Tables!Relevant(c, query) => ~Pruned(r)
      BY <1>2, <2>1, RelevantIsRead DEF TableInv, AnswerInv, Promised
    <2> QED
      BY <2>1, <2>3, <2>4 DEF ChunkOf, Passed
  <1>5. batch' = Tables!Exactly(query)
    <2>1. TrueRows
      BY <1>2, WrittenIsTrue DEF TableInv
    <2>2. Asked = Tables!Exactly(query)
      BY <1>2, AskedIsPromised DEF Promised
    <2>3. (TrueRows' <=> TrueRows) /\ Asked' = Asked
      BY <1>1, QueryStays
    <2>4. AnswersMatchRows'
      BY AnswerInvFinish DEF TableInv, AnswerInv
    <2>5. batch' = Asked'
      BY <2>1, <2>3, <2>4 DEF AnswersMatchRows, Asked, Wanted
    <2> QED
      BY <2>2, <2>3, <2>5
  <1>6. AllChunks' = AllChunks
    BY <1>1, ChunksStay
  <1>7. /\ Told = [status |-> "none", rows |-> {}]
        /\ Told' = [status |-> "answered", rows |-> Tables!Exactly(query)]
    BY <1>1, <1>5, PosedIs, PosedStays DEF Seen
  <1>8. query # NoQuery
    BY <1>2, QueriesAssumption
  <1>9. Posed = query /\ UNCHANGED Posed
    BY <1>1, PosedIs, PosedStays
  <1> QED
    BY <1>1, <1>4, <1>6, <1>7, <1>8, <1>9
    DEF Tables!Reply, Tables!NoQuery, NoQuery, Tables!Unanswered, Tables!Answer

\* A step that shows the client nothing is a stutter of the promise.
LEMMA TableStutters ==
    ASSUME UNCHANGED <<setup, registry, query>>, Seen' = Seen \/ ~Promised(query)
    PROVE  UNCHANGED <<AllChunks, Posed, Told>>
  BY ChunksStay, PosedStays

\* Each step of a scan is one of the promise, or shows nothing.
LEMMA ScanPromises ==
    ASSUME TableInv, Promised(query), Scan
    PROVE  Tables!Reply \/ Tables!Refuse \/ UNCHANGED <<AllChunks, Posed, Told>>
  <1>1. UNCHANGED setup
    BY DEF Scan
  <1>2. CASE Plan
    <2>1. CASE Planned
      <3>1. UNCHANGED <<registry, query>> /\ Seen' = Seen
        BY <1>2, <2>1 DEF Plan, tableVars, Seen
      <3> QED
        BY <1>1, <3>1, TableStutters
    <2> QED
      BY <1>1, <1>2, <2>1, PlanRefuses
  <1>3. CASE SkipRow
    <2>1. UNCHANGED <<registry, query>> /\ Seen' = Seen
      BY <1>3 DEF SkipRow, AtRow, tableVars, Seen
    <2> QED
      BY <1>1, <2>1, TableStutters
  <1>4. CASE TakeSamples
    <2>1. CASE phase' # "refused"
      <3>1. UNCHANGED <<registry, query>> /\ Seen' = Seen
        BY <1>4, <2>1 DEF TakeSamples, QueryFails, tableVars, Seen
      <3> QED
        BY <1>1, <3>1, TableStutters
    <2> QED
      BY <1>1, <1>4, <2>1, DecodingRefuses
  <1>5. CASE Finish
    <2>1. CASE phase' = "answered"
      BY <1>1, <1>5, <2>1, FinishReplies
    <2>2. CASE phase' # "answered"
      <3>1. /\ phase = "scan" /\ phase' = "refused" /\ UNCHANGED <<registry, query>>
            /\ query.columns = {}
        BY <1>5, <2>2 DEF Finish, QueryFails, tableVars
      <3> QED
        BY <1>1, <3>1, RefusalRefuses
    <2> QED
      BY <2>1, <2>2
  <1>6. CASE phase = "scan" /\ turn <= Len(rows) /\ BeginRead(FileAt(rows[turn].path))
    <2>1. UNCHANGED <<registry, query>> /\ Seen' = Seen
      BY <1>6 DEF BeginRead, tableVars, Seen
    <2> QED
      BY <1>1, <2>1, TableStutters
  <1>7. CASE phase = "read" /\ ReadStep /\ UNCHANGED <<tableVars, scanVars>>
    <2>1. UNCHANGED <<registry, query>> /\ Seen' = Seen
      BY <1>7 DEF tableVars, scanVars, Seen
    <2> QED
      BY <1>1, <2>1, TableStutters
  <1> QED
    BY <1>1, <1>2, <1>3, <1>4, <1>5, <1>6, <1>7, UnknownRefuses DEF Scan

\* The scan of a query that is not promised shows nothing.
LEMMA OddScanStutters ==
    ASSUME ~Promised(query), Scan
    PROVE  UNCHANGED <<AllChunks, Posed, Told>>
  <1>1. UNCHANGED <<setup, registry, query>>
    BY DEF Scan, Plan, SkipRow, AtRow, UnknownRepository, TakeSamples, Finish, QueryFails, BeginRead, tableVars,
           scanVars
  <1> QED
    BY <1>1, TableStutters

\* A bootstrap shows a client nothing.
LEMMA BootstrapStutters ==
    ASSUME TableInv, Bootstrap
    PROVE  UNCHANGED <<AllChunks, Posed, Told>>
  <1>1. UNCHANGED <<setup, registry>>
    BY DEF Bootstrap, OpenBlock, ParseIndex, PublishBlock, RefuseBlock, RegisterTables, BootstrapFails, tableVars
  <1>2. UNCHANGED query /\ Seen' = Seen
    <2>1. CASE ParseIndex \/ OpenBlock
      BY <2>1 DEF ParseIndex, OpenBlock, scanVars, Seen
    <2>2. CASE PublishBlock \/ RefuseBlock \/ RegisterTables
      BY <2>2 DEF PublishBlock, RefuseBlock, RegisterTables, BootstrapFails, scanVars, Seen
    <2> QED
      BY <2>1, <2>2 DEF Bootstrap
  <1> QED
    BY <1>1, <1>2, TableStutters

\* What a client has seen stays with it while nothing happens.
LEMMA PromiseStutters ==
    ASSUME UNCHANGED vars
    PROVE  UNCHANGED <<AllChunks, Posed, Told>>
  <1>1. UNCHANGED <<setup, registry, query>> /\ Seen' = Seen
    BY DEF vars, tableVars, scanVars, Seen
  <1> QED
    BY <1>1, TableStutters

\* What is passed and planned stays so while nothing happens.
LEMMA ScanInvStutter ==
    ASSUME ScanInv, UNCHANGED vars
    PROVE  ScanInv'
  <1>1. UNCHANGED <<setup, registry, rows, schemas, query, turn, phase>>
    BY DEF vars, tableVars, scanVars
  <1> QED
    BY <1>1, PassedStays DEF ScanInv

\* The setup decides whether blocks are well written.
LEMMA WrittenStays ==
    ASSUME [Next]_vars
    PROVE  WellWritten' <=> WellWritten
  <1>1. UNCHANGED <<setup, registry>>
    BY DEF Next, Bootstrap, OpenBlock, ParseIndex, PublishBlock, RefuseBlock, RegisterTables, BootstrapFails,
           Scan, Client, Plan, SkipRow, UnknownRepository, TakeSamples, Finish, QueryFails, BeginRead,
           Leave, Arrive, tableVars, vars
  <1> QED
    BY <1>1, ChunksStay

\* The tables and the answers of blocks that are well written.
LEMMA TablesAreKept == Spec /\ WellWritten => []TableInv
  <1>1. Init => ScanInv
    BY ScanInvInit
  <1>2. PartsInv /\ TypesInv /\ ScanInv /\ [Next]_vars => ScanInv'
    BY ScanInvBootstrap, ScanInvQuery, ScanInvStutter DEF Next
  <1>3. WellWritten /\ [Next]_vars => WellWritten'
    BY WrittenStays
  <1>4. PartsInv /\ TypesInv /\ RowsInv /\ ScanInv /\ AnswerInv /\ WellWritten => TableInv
    BY DEF TableInv
  <1> QED
    BY <1>1, <1>2, <1>3, <1>4, RowsAreKept, AnswersAreKept, PTL DEF Spec

\* The promise: for any number of blocks as Prometheus and Thanos write them,
\* rows of other repositories, page sizes and queries, what a client sees of the
\* queries whose conditions the scan can evaluate is what the filtered table
\* allows, whichever other queries come between.  Such a query is answered with
\* exactly its samples, or refused for a reason it must meet.
THEOREM TablesImplementPromise == Spec /\ WellWritten => ImplementsTable
  <1>1. Init => Tables!TableInit
    BY DEF Init, TableInit, Tables!TableInit, Tables!NoQuery, NoQuery, Tables!Unanswered, Posed, Told
  <1>2. TableInv /\ [Next]_vars
          => [Tables!Ask \/ Tables!Reply \/ Tables!Refuse \/ Tables!Close]_<<AllChunks, Posed, Told>>
    <2> SUFFICES ASSUME TableInv, [Next]_vars
                 PROVE  \/ Tables!Ask \/ Tables!Reply \/ Tables!Refuse \/ Tables!Close
                        \/ UNCHANGED <<AllChunks, Posed, Told>>
      OBVIOUS
    <2>1. CASE Bootstrap
      BY <2>1, BootstrapStutters
    <2>2. CASE Scan
      BY <2>2, ScanPromises, OddScanStutters
    <2>3. CASE Client
      BY <2>3, ArriveAsks, LeaveCloses DEF Client
    <2>4. CASE UNCHANGED vars
      BY <2>4, PromiseStutters
    <2> QED
      BY <2>1, <2>2, <2>3, <2>4 DEF Next
  <1> QED
    BY <1>1, <1>2, TablesAreKept, PTL DEF Spec, ImplementsTable, Tables!TableSpec

\* The answers alone: a query whose conditions the scan can evaluate is answered
\* with exactly the rows that the filtered table has.  metric_not_equal is a run in
\* which one that it accepts and cannot evaluate is answered otherwise.
THEOREM AnswersMeetPromise == Spec /\ WellWritten => [](Promised(query) => AnswersAreExact)
  <1>1. TableInv => (Promised(query) => AnswersAreExact)
    <2> SUFFICES ASSUME TableInv, Promised(query), phase = "answered" PROVE batch = Tables!Exactly(query)
      BY DEF AnswersAreExact
    <2>1. PlannedInv
      BY DEF TableInv, ScanInv, PlannedInv, WellWritten
    <2>2. TrueRows
      BY <2>1, WrittenIsTrue DEF TableInv
    <2>3. batch = Asked
      BY <2>2 DEF TableInv, AnswerInv, AnswersMatchRows, Asked, Wanted
    <2> QED
      BY <2>1, <2>3, AskedIsPromised DEF Promised
  <1> QED
    BY <1>1, TablesAreKept, PTL
=============================================================================
