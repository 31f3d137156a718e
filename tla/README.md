# TLA+ verification of thanos-v1-reader

The repository holds an experimental reader for Thanos blocks (`thanos-v1-reader`, Rust) and a
generator of test blocks (`thanos-block-gen`, Go). This directory holds TLA+ models of the parts of
the reader that keep state and run concurrently, the TLC configurations that check them, and proofs
that TLAPS checks. Paths below are relative to `thanos-v1-reader/src/`.

## The system

At start the reader lists every block of its repositories, reads their metadata, turns each TSDB
index into local Parquet files, registers these as DataFusion tables and then answers Flight SQL and
Thanos StoreAPI requests from them. Chunks are read from the object store when a query needs them,
through an optional page cache on the local disk. The index is not refreshed while it serves.

| component | state | operations | interacts with | hard behaviour | what makes it correct |
| --- | --- | --- | --- | --- | --- |
| page cache, `storage/mod.rs` | entries, two queues, a byte counter (under a mutex); the map of page loads in flight; page files | `read_range`, `get_page`, `load_cached`, `store_cached`, `touch`, `open` | called by chunk reads of all requests; object store; local disk | readers share futures; files change outside the mutex; cancellation; crash and reopen; disk errors | readers get their own page; files fit in `max_size`; no truncated page is published; reads return; disk trouble does not fail reads |
| bootstrap, `block_index.rs`, `lib.rs` | projections, manifests, `block_index.parquet`; the tasks of the run | list, read metadata, reuse or build, clean up, serve | object store (which changes meanwhile); local disk; earlier runs of itself | deletion races; concurrent builds that outlive a failed run; kills between two renames; changed configuration | the tables show the active blocks as configured now; completed work is kept; the run ends |
| StoreAPI, `store_service.rs` | none after start | `series`, `label_names`, `label_values`, `info` | series table; chunk reads | partial failure, limits, resolutions, several rows of one series | a reply that is complete, sorted, and warns of what it leaves out |
| index parser, `tsdb_index.rs` | none | check the header, walk the series section | bootstrap | padding, alignment, bounds, references that repeat or overflow | every series of a well-formed index is delivered once; a damaged one is refused; the walk ends |
| metric tables, `metric_table.rs`, rows made by `block_index.rs` | none after start | `scan`, `supports_filters_pushdown`, `build_metric_batch` | chunks table, registry, chunk reads, DataFusion | filters promised as exact are not evaluated again; chunks are ruled out unread; partial failure | an answer has exactly the samples that meet the conditions |
| chunk decoding, `chunk_reader.rs` and the page arithmetic of `storage/mod.rs` | none | read a byte range page by page, read a record, decode it | page cache, object store | page bounds, the end of a file, aggregate slots, two decoders of one format | a sound record is read byte for byte, another is refused, both decoders agree |
| registry, `storage/mod.rs` | fixed at start | repository by URI | all reads | rows left by an earlier configuration | a row of a repository that is not configured fails its query |
| Flight SQL, `flight_service.rs` | none | plan a statement, run it | metric tables | none of its own | queries reach the tables and answers the client |
| configuration, listeners | none | parse, pass on | | none | not modelled: I/O and glue |

`PROJECT.json` lists every component with its status, and every hazard with its line.

## The modules

| module | models |
| --- | --- |
| `CacheState` | what the page cache keeps under its mutex: one action per critical section (`Touch`, `Store`, `Forget`, `Reopen`). It is also the abstract specification of the cache. |
| `RangeCache` | extends `CacheState` with readers, shared page loads ("flights"), and the directory; one action per step between which other threads can run |
| `MCRangeCache` | instances of `RangeCache` |
| `BlockIndex` | the bootstrap: one action per listed block, metadata request, answer, build step, rename, cleanup; the bucket, errors, kills and restarts |
| `MCBlockIndex` | instances of `BlockIndex` |
| `IndexWalk` | the TSDB index parser: opening a file, padding, one series entry, a refused entry, the end of the section |
| `ChunkRead` | one record read: one action per page, the length field, the check of the record; both decoders, over the bytes of a payload |
| `SqlFilter` | what a condition of a WHERE clause means |
| `FilteredTable` | the abstract specification of the metric tables: ask, reply with exactly the right rows, or refuse for a named reason |
| `MetricTable` | extends `ChunkRead`: the rows and columns a bootstrap makes of parsed series, the conditions a scan takes over, the scan, one action per row of the chunks table |
| `MetricQuery` | composes `IndexWalk`, `MetricTable` and `ChunkRead`: from the index files of blocks to the answer of a query; shown to implement `FilteredTable` for the queries it promises anything about |
| `MCMetricQuery` | 36 setups of blocks and 168 queries |
| `StoreSeries` | the StoreAPI: one request at a time, from its checks over the choice of rows, one action per row and per chunk, to the reply; the label APIs and Info |
| `MCStoreSeries` | three blocks and some 400 requests |
| `CacheStateProofs`, `RangeCacheProofs`, `BlockIndexProofs`, `StoreSeriesProofs`, `IndexWalkProofs`, `ChunkReadProofs`, `MetricQueryProofs` | theorems and proofs |
| `SequenceLemmas` | lemmas about sequences that several of these cite: sequences without repetition, joined and flattened ones |

Operators marked `Faulty` sit before the operator they are a variant of. They are plausible bugs of
that code; each property was seen to fail when such a variant takes the place of the original.

### CacheState

`entries`, `promoted`, `probationary`, `protected` and `bytes` are the fields of `CacheState` in the
code (`promoted` is the `protected` flag of the entries). A page is a key with a fixed `Size`. The
two loops of the code, the demotion in `touch` and the eviction in `store_cached`, are described by
the number `n` of keys they pop: the loop condition fails after `n` pops, or nothing is left, and it
held after every smaller number. So they stay operators a prover can expand. What the queues may
hold besides entries (stale keys, a key twice) is kept, because the code keeps it: a key leaves a
queue by its first occurrence only, and `load_cached` forgets an entry without touching the queues
or the counter. `Occupied(S)` counts cells, `Size[k]` of them for each key, so sums are cardinalities.

### RangeCache

| code | actions |
| --- | --- |
| `Repository::read_range`, the page loop | `Start`, `PageServed`, `Reply` |
| `load_cached`: critical section, then `fs::read`, then another critical section if the file is gone | `Load`, `ReadFile`, `ForgetEntry` |
| `get_page`: `flights.entry().or_insert_with().clone()`, `.await`, `flights.remove()` | `JoinFlight`, the flight's steps, `LeaveFlight` |
| the shared future: `stat`, range read, `store_cached` | `Fetch`, `CreateTmp`, `WriteTmp`, `RenameTmp`, `InsertEntry`, `UnlinkVictim` |
| `RangeCache::open` after the process died | `Restart` |
| a client that goes away | `Cancel` |

A flight is a `futures::future::Shared`: it has no task and advances only while a reader that awaits
it is polled (`Driven`), and it vanishes with its last handle (`DropHandles`). Files are inodes under
names, since two flights of one page open the same temporary name, and a rename moves the inode a
second writer still has open. A crash is a killed process: the files stay as they are. Loss of
unsynced data in a power failure, the SHA-256 of the file names, and byte offsets in a page are
left out.

### BlockIndex

One repository, whose configuration (name and URI) may change between starts. `work` says what
`build_block_index` does with each block; `bucket` how far the block is in its life in the object
store (uploaded, marked for deletion, without `meta.json`, gone). The three kinds of local files are
functions from blocks to the repository that their rows name; the manifest also holds the
`materialize_chunk_index` flag.

| code | actions |
| --- | --- |
| the listing, one entry after another | `ListEntry`, `EndList` |
| `read_block_meta`, `metadata_read_concurrency` at a time, newest first | `StartMeta`, `CheckMark`, `ReadMeta`, `EndMetadata` |
| `remove_chunk_index_files` | `Purge`, `EndPurge` |
| the build stream, `index_build_concurrency` at a time, in the order the metadata arrived | `StartBlock` (with `load_cached_block_index` as `Reusable`), `Download` |
| the blocking thread of `build_chunk_index` | `RenameChunks`, `RenameSeries`, `WriteManifest`, `ThreadError` |
| the two cleanups | `CleanupSeries`, `CleanupManifest` |
| `write_local_file`, table registration | `Serve` |
| an error returned with `?`; the end of `main` | `Fail`, `StoreError`, `Exit` |
| a kill | `Kill` |

When one task fails, `try_collect` drops the others, but what `spawn_blocking` has started runs to
its end before the runtime is gone: `Fail` keeps these steps and `Exit` waits for them. Temporary
files are never read and are not part of the state. The fault `"corrupt"` is a `meta.json` that does
not parse (`ReadMeta`) or a TSDB index that does not (`ThreadError`), which both end the bootstrap.

### IndexWalk, ChunkRead, MetricTable and MetricQuery

An index file is the offsets of its sections and a set of entries, each with its place, the sizes of
its length field and of its body, and the integers of the body, with distances between chunks unsigned
as the file has them; a segment is a set of records, each with its place, the size of its length field,
its encoding and the bytes of its payload. While a range is read a byte is named by its offset, so that
bytes that are lost, repeated or taken from elsewhere show. Checksums are one flag per checked unit.

Both decoders work on the bytes of a payload. `Slot` is one turn of the loop that either has over the five
slots of an aggregate: the length field, byte by byte (`read_uvarint`), and the content, or nothing for
length zero. `decode_encoded_record` returns the data of each slot, as the StoreAPI sends it, and
`decode_record` the samples of the counter, as a metric table shows them. What the bytes of an XOR chunk
mean is a constant, `XorSamples`, since a library reads them. `SlotsAreRead` compares what the decoders
return with what the compactor wrote into the payload (`slots`, which no decoder looks at), and
`DecodersAgree` the two decoders with each other, on payloads that nobody wrote too.

| code | actions |
| --- | --- |
| `parse_each`: magic, version, TOC, symbol table | `OpenIndex` |
| its loop: skip zero bytes and align, `parse_series` and the callback, an error, the end | `SkipPadding`, `ParseSeries`, `RefuseSeries`, `EndOfSeries` |
| `write_chunk_and_series_index_streaming`, `append_chunk_rows`, `collect_metric_labels` | `OpenBlock`, `PublishBlock` (with `ChunkRows`, `MetricLabels`), `RefuseBlock`, `BootstrapFails` |
| `register_metric_tables` | `RegisterTables` |
| `do_get_statement` | `Arrive`, `Leave` |
| `MetricTableProvider::scan`, `supports_filters_pushdown` | `Plan` (with `Parses`, `parse_filter`, `Residual`) |
| `build_metric_batch`, row by row | `SkipRow`, `UnknownRepository`, `BeginRead`, `TakeSamples`, `Finish` |
| `read_record`: the longest length field, then the record | `ReadRecord`, `ParsePrefix`, `CheckRecord` |
| `Repository::read_range`, with a cache and without | `ReadPage`, `ReadDirect` |

`parse_filter` looks through a cast of its column and forgets it (`metric_table.rs`, 464), so
`TRY_CAST(timestamp AS TINYINT) > 5` is answered like `timestamp > 5`. A condition is `narrowed` if its
column is under such a cast: `Holds` makes NULL of a number that does not fit, as DataFusion does, and
`parse_filter` drops the cast, as the code does. A plain CAST that overflows would fail the query instead,
which is not modelled. Casts of literals and `to_timestamp_millis` are taken for the value they have, and
a cast of a label is not modelled. DataFusion's optimizer may take casts away before the scan sees them.
`Kept` says what becomes of each condition, taken over or not.

The page cache is empty here; `RangeCache` shows that it gives a reader its own page. `BlockIndex`
shows which blocks a bootstrap indexes, here each block of a setup is. The partitions of a scan share
no state, so they are one. A label that a series has itself wins over the external one
(`RowLabels`). `leftover` are rows of blocks that an earlier process indexed and this one does not:
deleted since, too old by now, or of a repository that is not configured any more (`BlockIndex` shows
how they stay). `others` is what the store still has of such blocks.

`FilteredTable` is written from what SQL owes a client, over the chunks as blocks hold them
(`StoredChunks`), and knows no rows, filters, pages or descriptors. Chunks that are not `active`, those
of blocks that are not indexed any more, are shown while they are there and give no columns. Its
`Refuse` names the reasons a query may fail for: a row of a repository that is not configured, a chunk
that no condition rules out and that cannot be decoded, a metric or column of no active block, no
column at all. The refinement mapping
(`Tables` in `MetricQuery`) takes the batch for the answer once the scan is over. It shows the filtered
table only the queries that are `Promised`: each condition is `Comparable`, left to DataFusion or evaluated
by the scan as DataFusion would. How the others are answered, `AnswersMatchRows` says.

### StoreSeries

The tables are fixed while the reader serves and handlers share nothing, so the state is that of one
request: `rows` are what `matching_series` returned, `row`, `todo` and `chunks` the turn of the loop
in `series`, `series` and `warnings` its two vectors. `Catalogue` holds the blocks as a bootstrap
read them, and `RowMin`, `RowMax` and `LabelsOf` are what `append_series_row` made of them; the reply
is judged against the blocks and not against the rows. A chunk outside the window is passed over by a
step of its own (`PassChunk`). A label value is a number, 0 the empty string;
a matcher is the set of values it accepts; a chunk is its bounds and the aggregate slots it has. What
makes a chunk unreadable (`ReadFails`) is any failure of the read or of `decode_encoded_record`.
The series files are read by row groups of `RowGroupSize` rows (`INDEX_BATCH_SIZE`): the rows of one group
come in the order of the file, and groups, of one file or several, interleave in any way (`ScanOrders`).
A row is what one block holds of a series. The limit counts rows, so a reply may end between the rows of
two blocks of one series; `PartsAreWhole` and `SkippedChunksSkipNoSeries` are about rows.

Assumed of the catalogue: the chunks of a series do not overlap and come in order (the index stores
them as unsigned distances), `meta.json` spans them, and no series has a label named as an external
label of its block. Where one has, its own value wins, and Info advertises another: `InfoCoversReply`
would fail. Requests have a window that is not empty. `NeverFound` models the prefilter on the JSON
of the labels, for values that JSON escapes; no request of the run asks for such a value with `=`,
since none would find its series.

## What the runs show

Passing runs:

| run | instance | properties |
| --- | --- | --- |
| `cache_one_reader` | one reader, three pages of sizes 1, 1, 2 (one read crosses two pages), `max_size` 3, two bytes protected, SLRU; store errors, disk errors, crashes | `TypeOK`, `EntriesHaveFiles`, `PublishedPagesWhole`, `ScanResistance` |
| `cache_two_readers` | two readers, two pages of sizes 1 and 2, `max_size` 2, one byte protected, store errors; stale and repeated keys in both queues | `HandlesAlive`, `FilesHoldTheirPage`, `NoStrayFlight`, `EveryEntryQueued`, `ProtectedShare`, `WithinBudget`, `SettledFilesFit` (files that no flight is about to enter or to unlink fit, at every moment), `FilesWithinBudget` (all files, at rest) |
| `cache_returns` | two readers, one page, all faults, fairness | `EveryReadReturns` |
| `index_moves` | two blocks, two repository configurations, chunks materialized or not, fairness | `TypeOK`, `SeriesServed`, `BlocksServed`, `ChunksServed`, `DeletedStayAway`, `BootstrapEnds` |
| `index_crashes` | two blocks, store and disk errors, metadata and indexes that do not parse, and kills, chunks materialized or not, age limit or not | `SeriesServed`, `BlocksServed`, `ChunksServed`, `ProgressKept` |
| `store_replies` | every subset of two raw blocks of one Prometheus and a downsampled one of another; windows, matchers, limits, batches, aggregates, malformed requests | `TypeOK`, `ReplyIsComplete`, `PartsAreWhole`, `LossIsReported`, `SkippedChunksSkipNoSeries`, `InfoCoversReply`, `LabelsAreListed` |
| `metric_queries` | sound blocks under three page sizes and without a cache, with a downsampled block of a second repository, a deleted block, leftover rows of a deleted block, of one that is only too old and of a repository that is gone; 11 damaged or odd segments and 17 damaged or odd indexes; 168 queries, 44 of them with conditions that the scan takes over and evaluates in its own way; fairness | `TypeOK`, `NoSeriesLost`, `BoundsCoverChunks`, `RecordIsExact`, `SlotsAreRead`, `DecodersAgree`, `EveryChunkHasItsRow`, `AnswersMatchRows`, `WorkEnds`, and `ImplementsTable`, the refinement of `FilteredTable` |

Runs that end in a counterexample, each against something the repository says:

| run | property | what happens |
| --- | --- | --- |
| `race_reaches_reader` | `ReadsFallBack` | a reader removes from the map a flight that it did not start; a second flight of the page then shares the temporary file of the first; one rename fails, and so does the read, with a sound store and disk. A plain disk error of `store_cached` reaches the reader in the same way |
| `index_deletion_race` | `DeletionIsNotFatal` | `io_error` turns every error into `ErrorKind::Other`, so the arm for the expected deletion race never matches |
| `index_rollback` | `SeriesServed` | the series file is replaced before the manifest; killed in between, the reader later accepts the manifest of the previous repository beside rows of the other |
| `store_order` | `SeriesAreSorted` | two blocks hold the same series: rows are sent as the scan of the series table delivers them, each file in its own order and one after the other, and nothing merges or sorts them |
| `metric_not_equal` | `AnswersAreExact` | `timestamp <> v` is accepted as exact, and the pruning of chunks, which has no case for it, rules out every chunk: the answer is empty. `IS DISTINCT FROM` on a number fares alike |

More disagreements met on the way have no run of their own:

- `RangeCache::open` says that metadata is rebuilt by scanning page files (`storage/mod.rs`, 241; README,
  163) and does not do it: page files of an earlier process are never evicted, and the disk exceeds
  `max_size` after three starts. The run that checks `FilesWithinBudget` therefore has no crashes.
- The limit of a Series request counts rows of the series table, one for each block, so a reply may hold
  a series without the chunks that other blocks have of it, and says nothing of it. `rpc.proto` (29) wants
  full series, and (112) a limit on the number of results.
- A condition on a column under a cast is answered without the cast (`OddQueries` of
  `MCMetricQuery`, see above), though the scan promises to evaluate it exactly.
- `cleanup_chunk_index_files` has a unit test and no caller: the chunks table keeps the rows of
  blocks that are deleted or too old. `ChunksServed` states what is kept. Queries show such a block while
  the store has its segments, and fail on it after that.
- Two flights of one page mean two GETs (the README promises single-flight loads).
- The build takes blocks in the order their metadata arrived, not newest first as a comment says.
- `COUNT(*)` on a metric table fails: a batch without columns has no length (`Finish`).
- A label named `timestamp`, `value` or `downsample_resolution` makes a table with two columns of one
  name (`block_index.rs`, 240); no label of the runs is named so.
- A zero byte where an entry should begin, at an aligned offset inside the section, keeps the walk where
  it is (`SkipPadding` changes nothing there). Only a damaged file has one; the index files of the runs
  have zeros as padding only, which `WorkEnds` depends on.
- One ULID in two repositories, or two repositories of one URI, are accepted and share local files.

### Bounds

- `QueueBound` (a state constraint of `MCRangeCache`) bounds the two queues together. With one reader
  it is never reached (an entry is not forgotten, so the queues hold no stale keys). With two readers
  a stale key is left by every `Forget`, without limit, and a key that is there twice by a page stored
  twice; four places are room for both pages and two such keys, the case where the loops meet a key that
  is not an entry, or meet it again. One of the two pages fits the protected share, the other does not.
- `FlightIds` and `InodeNumbers` name what is alive at once and are reused. A flight or file beyond them
  would disable the action that creates it; their numbers were raised until the state count no longer
  changed.
- Two readers suffice for a race on a flight and its file, and two pages for an eviction by a
  concurrent load. What three readers add, a third flight of one page, is left to the proofs.
- Two blocks suffice for the barriers between phases, for one build that fails while another runs, and
  for out-of-order metadata. Both slots counts are 1 or 2.
- Three blocks are enough for a series split over two blocks, a second external label set and a
  second resolution. Windows lie on chunk bounds, inside chunks, in a gap between the chunks of a
  series, and reach past the last block; limits are below, at and above the number of series, and a
  batch size of 2 leaves a last batch of one.
- `metric_queries`: `SegmentSpan` 200 stands for 2^32, `TimeMax` 15 and `ReferenceMax` 399 for the
  widths of the code, so that a second segment, an overflow of a time and of a reference all occur;
  `NarrowMax` 3 for the greatest number of a narrower type, so that a cast loses some timestamps. Length
  fields of slots have one and two bytes, slots of length zero come first, in the middle and last. Entries begin
  right behind the previous one, after padding, and after an odd start; sections end before, at and
  behind a multiple of 16. Page sizes 4, 8, 16 and 64 (powers of two, as the configuration demands of it)
  and no cache put records at the start, the end and the middle of pages, over many pages and in
  one; one segment fills its last page. Queries have every operator on every kind of column, literals
  on both sides, readable and foreign ones, and pairs of conditions that are taken over, left to
  DataFusion, or mixed. Setups with damage are asked the same queries.
- What the scan evaluates otherwise than DataFusion (`!=` and `IS [NOT] DISTINCT FROM` where it has no arm
  for them, and columns under a cast) is asked by the `OddQueries`. `AnswersMatchRows` holds of them, as
  `Kept` says; the refinement does not show them to `FilteredTable`, and `metric_not_equal` shows why.
- `RowGroupSize` 2: each block of the run is one whole or partial row group, so rows of one file come in
  order and files interleave; the theorems are about any size.
- Symmetry is used in `cache_two_readers`, over readers, and not with liveness.

### Fairness

`RangeCache!Fairness`: each reader that can go on does, and each flight that a reader awaits does.
The Tokio runtime polls woken tasks, and OpenDAL's timeout and retry layers end every request, so
`Fetch` answers. No fairness on `Start`, `Cancel` or `Restart`. `BlockIndex!Fairness` is the same for
the bootstrap's steps, its threads, and nothing else: no start, no kill, no change of the bucket.
`MetricQuery!FairSpec`: weak fairness of the bootstrap as a whole and of the scan as a whole. Both
are sequential code, on a thread or polled by the runtime, and wait for nothing but the object store.
No query has to arrive. Deadlock is not checked there, since a failed bootstrap stops for good; every other passing
run checks it.

## What is proved

For every finite set of pages, all sizes, limits and both policies (the named assumptions of
`CacheState`), and any number of readers, flights and inodes (those of `RangeCache`):

- `CacheStateProofs`: `CacheSpec => []CacheInv`. `CacheInv` is the type invariant, `WithinBudget`,
  `EveryEntryQueued`, `ProtectedShare`, and one conjunct that no run checks by itself:
  `PromotedListed`, that a promoted entry is in the protected queue, without which `ProtectedShare`
  is not inductive. The budget needs `EveryEntryQueued`: the eviction loop stops when the queues are
  empty, and only because every entry is queued does that mean that the cache is empty too. Cells
  turn byte sums into cardinalities, so the lemmas on `Occupied` need no induction.
- `RangeCacheProofs`, readers and flights: `ReadersGetTheirPage` (`HandlesAlive`), from `Wiring`, an
  invariant of the map, the handles and the steps of flights that leaves the disk out. `RangeCache` extends
  `CacheState`, so that `Implementation` (`Spec => CacheSpec`) holds by the shape of the two modules and is
  only a means: it carries `CacheInv`, and with it `RangeCacheWithinBudget`, over to any number of readers.
- `RangeCacheProofs`, the directory, under every fault and for any number of readers:
  `RangeCacheTypeCorrect` and `PageFilesHoldTheirPage`, from `FilesInv`, which says whose page a flight,
  its descriptor, a name and an inode belong to. `NoFlightIsLeftBehind` adds `Accompanied`, every flight
  in use is awaited, which a client that goes away can end: it assumes no `"cancel"`.
  `SettledFilesWithinBudget` (`SettledFilesFit`, in every state) and from it `DiskWithinBudget` (at rest) rest
  on `Counted`: `bytes` pays for the entries and also for each file that is not
  an entry's and that no flight is about to insert or to unlink (`Pending`). A reader that forgets an entry whose
  file another flight has just written again leaves such a file, and the counter, never set right after
  `ForgetEntry`, is what pays for it. A failed `unlink`, a restart or a flight dropped before its
  insertion leaves files that nobody pays for, so these theorems assume that only the store fails.
- `RangeCacheProofs`, one reader at a time (`LoneReader`), under every fault: `PublishedFilesAreWhole`,
  `EveryEntryHasItsFile`, `CounterIsExact` (`ExactBytes`, which no run checks) and `ScansLeaveThePromoted`. With two readers they are false,
  by the race that `race_reaches_reader` shows: two flights of one page share a temporary file.
  `OneFlightEach` is the fact that one reader adds. `WholeInv` follows a file from its temporary name
  to its page's, `SettledInv` the entry, its file and the counter together (a lookup between its two
  critical sections included), `QueuesExact` says that each queue holds its entries once: then the
  eviction loop takes a promoted entry only when no other is left.
- `StoreSeriesProofs`: `ServingInv`, for every catalogue of blocks, request, order of rows, batch size,
  limit and pattern of failed reads. In the loop of `series`, the rows are those that matched, of which
  the ones left come once; of the row in turn, each due chunk up to a place is in hand or in `unread`
  (`CurrentInv`); each row that was taken is whole but for `unread`, and has no second entry
  (`SentInv`); a selected row that was passed is in the reply or all its due chunks are in `unread`
  (`LeftInv`); and the warnings are `unread`, each once (`LossInv`). `LossesAreReported` and
  `InfoCoversEveryReply` follow; `RepliesAreComplete`, `SentPartsAreWhole`, `SkippedChunksHideNothing`
  and `LabelsListedInOrder` also compare with the blocks themselves (`OwedFacts`): a chunk of the window
  makes its row one of the window (`RowOfWindow`), by the order of the index. These four assume
  `Findable`, that no exact matcher asks for a value that JSON escapes; such a value is not found, a
  hazard of the code (`store_service.rs`, 224) whose extent a library decides. `BatchesJoin` is the fact
  that cutting a reply into messages loses nothing.
- `BlockIndexProofs`: `BootstrapInv`, for any finite set of blocks, any configurations and concurrency,
  and every fault: which stages each phase knows (`StageInv`), that the queue holds the tasks, each once
  (`OrderInv`), what a thread has renamed so far (`BuiltInv`), and that serving begins when the cleanups
  are done (`CleanInv`). `ManifestsAreOfTheActive` (`BlocksServed`) follows at once. `FilesChange`, how
  one step may touch the files of one block, gives `ProgressIsKept`; `DeletedBlocksStayAway` has an
  invariant of its own, `Away`. `SeriesAreOfTheActive` and `ChunksAreOfTheActive` assume `Settled`: every
  start names one repository (`HereInv`: so does every row), or no disk error and no kill cuts a bootstrap
  short (`AgreeInv`: the rows of a block are those its manifest names, but while a thread is between its
  renames and its manifest, and `ThreadGoesOn`, also after a failed bootstrap). The two runs are instances
  of the two cases; of both broken together `index_rollback` shows the code to be wrong.
- `IndexWalkProofs`: `WalkInv`, for an index file of any size and layout. What `NoSeriesLost` says of a
  walk is not inductive: the step over padding needs that no entry straddles the offset, and that the
  next entry begins at the first multiple of 16, which the invariant adds. `AlignIsLeast` is the fact on
  `align_series` that both rest on. `WalkTypes` bounds the offset and says of each series that was
  delivered that it is the one of an entry that parses (`SeriesOf`); `ChunksFollow` and `ChunksInOrder`
  say what the checks of `parse_series` amount to, that no chunk begins before the previous one ends,
  from which the bounds of the first and the last chunk cover the others (`BoundsCover`).
- `ReadInv` in `ChunkReadProofs`, for every page size (not only powers of two), segment and offset: of the
  range that is read, the part before the next page is there, byte for byte; the range is that of the
  length field and then of the record that begins at the offset. `OnePage` is the arithmetic of one
  page, `PagesApart` why the last page ends the range. `WrittenIsRead` takes an aggregate apart slot by slot
  and finds what the compactor wrote, wherever slots of length zero lie, and `SentIsShown` compares the two
  decoders on any bytes that the StoreAPI sends.
- `MetricQueryProofs`, conditions: `PushdownIsKnown` says of every condition that `parse_filter` accepts,
  with no premise on its operator, what becomes of it: a sample comes through pruning and filter exactly if
  the scan has an arm for the operator (`Evaluated`) and it holds of the column without its cast. So the
  scan does what DataFusion would have done if there is an arm and no cast, and drops every row if there is
  no arm. `SampleIsCompared` is the half about samples, `PruningIsSound` the one about chunks: one that is
  ruled out has no sample that would be kept, for the operators with an arm and samples within the
  bounds of the index.
- `MetricQueryProofs`, the parts composed: `NoSeriesIsLost`, `RecordsAreExact` and `AggregatesAreRead` carry
  the invariants of the walk and the reader over to the whole (`PartsInv`). `TypesInv` adds which phase
  each part works in and that rows have bounds and offsets: `MetricQueryTypeCorrect` and
  `SeriesBoundsCover`.
- `MetricQueryProofs`, the chunks table: `RowsInv`, of blocks as Prometheus writes them (`Indexable`). The
  table is the rows of the blocks indexed so far (`EntryRows`) and the leftover ones, each once and at a
  place of its own, and the metric tables have the labels of these rows (`LabelsAre`). It needs that the
  parser never refuses such a block (`BlockAtHand`), that places of two chunks differ because references
  split into segment and offset and back (`PlaceTells`), and that rows of two series of one block do not
  meet although they are joined by a fold (`BlockRowsOnce`, by `SequenceLemmas`). `ChunksAreRows` then
  identifies rows with the chunks that blocks hold, and `ChunksHaveRows` (`EveryChunkHasItsRow`) follows.
- `MetricQueryProofs`, the answers: `AnswersAreThoseOfTheRows` (`AnswersMatchRows`), of any chunks table
  for which `TrueRows` holds and any conditions, since an answer has the rows that each condition `Kept`,
  those that the scan evaluates in its own way included. It rests on `AnswerInv`: in every state of a scan the batch is what the rows
  before `turn` show.
- `MetricQueryProofs`, the refinement: `TablesImplementPromise`, `Spec /\ WellWritten => ImplementsTable`, one
  lemma per action. A refused plan, a row of an unknown repository and a record that cannot be decoded
  map to `Refuse`, each for a reason of its own; the last row maps to `Reply`; arriving and leaving map
  to `Ask` and `Close`; all else stutters, and so does every step of a query that is not `Promised`, whose
  conditions are not all `Comparable` (`OddScanStutters`). `Reply` needs `ScanInv`, that every row that was passed is of a
  configured repository and was ruled out or decoded, `RelevantIsRead`, that the scan reads the chunks
  that `FilteredTable` calls relevant and no others (`DescriptorHasSample` is one direction,
  `PruningIsSound` the other), and `AskedIsPromised`, that the columns made block by block are those of
  the active rows of the whole table (`StoredIsActive`). `AnswersMeetPromise` is the same of the answers to
  promised queries in every state.

The assumptions of these theorems. `SetupsAssumption`: the page size is a number (not only a power of
two), indexes and segments are typed (`IsIndex`, with unsigned distances between chunks, `ChunkMetas`;
`IsSegment`, with records at places of their own, payloads of bytes, and aggregates whose `slots` are what
the payload was put together from, `IsAggregate`), no two blocks of a setup have one ULID,
and leftover rows are those of other blocks. `XorAssumption` and `NarrowAssumption` type the samples of XOR
chunks and the narrower type. `QueriesAssumption`: a query is something, of conditions that have a type;
their operators are free. `RowGroupAssumption`: a row group has a row. `Indexable` is the premise in
`EveryChunkHasItsRow` itself: entries in place and sound, with a name and chunks, and no two chunks of one
reference (`ReferencesDiffer`). `WellWritten` adds, for the refinement, that no chunk has a sample outside
of the bounds that the index gives for it; this is what compactors write and the reader never checks, and
pruning is wrong without it. Every sound setup of `metric_queries` is `WellWritten`. No theorem assumes
that queries are `Promised`: the refinement and `AnswersMeetPromise` are about those that are, and
`metric_not_equal` is what happens to one that is not.

The library's induction theorems take an operator as a parameter, which the provers at hand cannot
instantiate. `SequenceLemmas` does without: from `NatLessThanWellFounded` every set of numbers has a
least one (`Least`), so a fact about 1 that passes from each number to the next holds up to the end
(`UpTo`). That is enough for `FlattenSeq`, whose recursive function exists by the same argument, for the
chunks of an entry, each of which is read from the one before it, for chunks in time order, and for
sorted sequences (`CanBeSorted`, which counts instead). Where a library operator has no definition that
the prover knows (`@@`), the model spells it out (`Merged`).

Only model-checked is liveness: `EveryReadReturns`, `BootstrapEnds` and `WorkEnds`, since the prover has
no ENABLED. Every invariant, action property and refinement of the passing runs is stated by a theorem,
some under the premises named above.

## Not modelled, and the plan

Not modelled:

- Configuration: straight-line parsing and validation of one file. What it guarantees is assumed by
  name where it matters (`CacheState`, `RangeCache`, `BlockIndex`, `SetupsAssumption`).
- The construction of the registry's operators, OpenDAL's layers, listeners, metrics and tracing, Parquet and
  Arrow encoding, and the XOR codec: libraries and I/O. `GetFlightInfo` plans a statement and keeps nothing.
- SQL beyond conditions on one metric table: joins, orders and aggregates are DataFusion's.
- The same ULID in two repositories: the repository does not say what is promised then.
- Temporary files of projections: nothing reads them.
- The bytes of JSON and checksums, and of the integers of an index, abstracted to sets, flags and numbers
  (the length fields of slots are read byte by byte). The quoting in
  `NeverFound` depends on how a library reads LIKE patterns.
- The generator of test blocks, and the protocol definitions.

Left for later: a second bootstrap over the tables of `MetricQuery`, whose process starts once (rows of
earlier starts are `leftover`, and `BlockIndex` shows how they come to stay).
