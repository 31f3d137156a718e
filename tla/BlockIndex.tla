----------------------------- MODULE BlockIndex -----------------------------
(***************************************************************************)
(* The bootstrap of the reader (block_index.rs, build_block_index): list   *)
(* the blocks of the repository, read their metadata, build or reuse a     *)
(* local projection of each active block, remove what belongs to no active *)
(* block, and serve.  The bucket changes meanwhile, system calls fail, the *)
(* process may be killed at any point, and every start may come with       *)
(* another configuration.                                                  *)
(*                                                                         *)
(* Metadata reads and builds run concurrently (buffer_unordered); what a   *)
(* build does after its download runs on a blocking thread, which outlives *)
(* a bootstrap that failed.  Temporary files are not part of the state:    *)
(* nothing reads them, so a file appears with the rename that publishes it.*)
(***************************************************************************)
EXTENDS Integers, Sequences, FiniteSets

CONSTANTS
    Blocks,         \* block ULIDs, as numbers: a newer block is greater
    Repositories,   \* names and URIs the repository may be configured under
    Configs,        \* what a start may be configured with
    MetadataReads,  \* metadata_read_concurrency
    IndexBuilds,    \* index_build_concurrency
    Faults,         \* what may go wrong: a set of the strings below
    None

ASSUME BlocksAssumption == Blocks \subseteq Nat /\ IsFiniteSet(Blocks)
\* `limit': block_max_age is set; `materialize': materialize_chunk_index.
ASSUME ConfigsAssumption ==
    Configs \subseteq [repository : Repositories, materialize : BOOLEAN, limit : BOOLEAN]
\* ReaderConfig::validate refuses zero.
ASSUME ConcurrencyAssumption == MetadataReads \in Nat \ {0} /\ IndexBuilds \in Nat \ {0}
ASSUME BlockFaultsAssumption == Faults \subseteq {"store", "disk", "crash", "corrupt"}
\* None is no repository and no manifest.
ASSUME NoneAssumption ==
    None \notin Repositories /\ None \notin [repository : Repositories, materialize : BOOLEAN]

VARIABLES
    bucket,     \* how far each block is in its life in the object store
    old,        \* the blocks whose samples are all older than block_max_age
    config,     \* the configuration of the last start
    phase,      \* where build_block_index is
    work,       \* what it does with each block
    order,      \* the blocks to build, in the order their metadata arrived
    cause,      \* the error the last bootstrap ended with
    chunkFile,  \* indexes/<ulid>.parquet: the repository its rows name
    seriesFile, \* series/<ulid>.parquet: the repository its rows name
    manifest    \* manifests/<ulid>.json: the repository and materialize flag

bucketVars == <<bucket, old>>
runVars == <<config, phase, work, order, cause>>
cacheDir == <<chunkFile, seriesFile, manifest>>
vars == <<bucketVars, runVars, cacheDir>>

-----------------------------------------------------------------------------
(* Thanos uploads meta.json last; it deletes a block some time after writing *)
(* its deletion-mark.json, meta.json first and the index later.              *)
Life == <<"absent", "live", "marked", "headless", "gone">>
HasMeta(b)  == bucket[b] \in {"live", "marked"}
HasMark(b)  == bucket[b] \in {"marked", "headless"}
HasIndex(b) == bucket[b] \in {"live", "marked", "headless"}

Running   == {"list", "metadata", "purge", "build", "cleanup"}
OnThread  == {"write", "series", "manifest"}
InMetaRead == {"mark", "meta"}
InBuild   == {"download"} \cup OnThread

Doing(steps) == {b \in Blocks : work[b] \in steps}
Active == Doing({"task"} \cup InBuild \cup {"built"})
CompletedManifest == [repository |-> config.repository, materialize |-> config.materialize]

SetWork(b, from, to) == work[b] = from /\ work' = [work EXCEPT ![b] = to]

\* Faulty: the blocks that were waiting to be built are not given up.
FailButQueued(why, lost) ==
    /\ phase' = "failed"
    /\ cause' = why
    /\ work' = [b \in Blocks |-> IF b \notin lost /\ work[b] \in OnThread THEN work[b] ELSE "idle"]
    /\ UNCHANGED <<config, order>>

\* An error returned with `?': the other tasks are dropped, but what runs on a
\* blocking thread goes on, but for `lost', and main returns when it is done.
FailWith(why, lost) ==
    /\ phase' = "failed"
    /\ cause' = why
    /\ work' = [b \in Blocks |-> IF b \notin lost /\ work[b] \in OnThread THEN work[b] ELSE "idle"]
    /\ order' = <<>>
    /\ UNCHANGED config

Fail(why) == FailWith(why, {})

-----------------------------------------------------------------------------
Init ==
    /\ bucket = [b \in Blocks |-> "absent"]
    /\ old = {}
    /\ config \in Configs
    /\ phase = "stopped"
    /\ work = [b \in Blocks |-> "idle"]
    /\ order = <<>>
    /\ cause = "none"
    /\ chunkFile = [b \in Blocks |-> None]
    /\ seriesFile = [b \in Blocks |-> None]
    /\ manifest = [b \in Blocks |-> None]

(* The bucket. *)

Grow(b) ==
    /\ \E i \in 1..4 : bucket[b] = Life[i] /\ bucket' = [bucket EXCEPT ![b] = Life[i + 1]]
    /\ UNCHANGED <<old, runVars, cacheDir>>

Age(b) ==
    /\ b \notin old /\ bucket[b] # "absent"
    /\ old' = old \cup {b}
    /\ UNCHANGED <<bucket, runVars, cacheDir>>

(* The process. *)

Start(c) ==
    /\ phase = "stopped"
    /\ config' = c
    /\ phase' = "list"
    /\ cause' = "none"
    /\ UNCHANGED <<bucketVars, work, order, cacheDir>>

Exit ==
    /\ phase = "failed" /\ Doing(OnThread) = {}
    /\ phase' = "stopped"
    /\ UNCHANGED <<bucketVars, config, work, order, cause, cacheDir>>

\* Killed during the bootstrap, if "crash" says so, or while it serves.
Kill ==
    /\ \/ phase = "serve"
       \/ "crash" \in Faults /\ phase \in Running \cup {"failed"}
    /\ phase' = "stopped"
    /\ work' = [b \in Blocks |-> "idle"]
    /\ order' = <<>>
    /\ UNCHANGED <<bucketVars, config, cause, cacheDir>>

\* A request to the object store that the retries do not save.
StoreError ==
    /\ "store" \in Faults
    /\ phase = "list" \/ Doing(InMetaRead \cup {"download"}) # {}
    /\ Fail("store")
    /\ UNCHANGED <<bucketVars, cacheDir>>

(* Listing and metadata. *)

\* The listing is not a snapshot: it meets each block at its own time.
ListEntry(b) ==
    /\ phase = "list"
    /\ SetWork(b, "idle", IF HasMeta(b) THEN "listed" ELSE "skipped")
    /\ UNCHANGED <<bucketVars, config, phase, order, cause, cacheDir>>

EndList ==
    /\ phase = "list" /\ Doing({"idle"}) = {}
    /\ phase' = "metadata"
    /\ UNCHANGED <<bucketVars, config, work, order, cause, cacheDir>>

\* read_block_meta starts on the newest block that is left.
StartMeta(b) ==
    /\ phase = "metadata"
    /\ \A c \in Doing({"listed"}) : c <= b
    /\ Cardinality(Doing(InMetaRead)) < MetadataReads
    /\ SetWork(b, "listed", "mark")
    /\ UNCHANGED <<bucketVars, config, phase, order, cause, cacheDir>>

\* Faulty: the deletion mark is not looked for.
CheckMarkNever(b) ==
    /\ SetWork(b, "mark", "meta")
    /\ UNCHANGED <<bucketVars, config, phase, order, cause, cacheDir>>

CheckMark(b) ==
    /\ SetWork(b, "mark", IF HasMark(b) THEN "skipped" ELSE "meta")
    /\ UNCHANGED <<bucketVars, config, phase, order, cause, cacheDir>>

\* Faulty: a meta.json that is gone is asked for again, as if it were on its way.
ReadMetaAgain(b) ==
    /\ work[b] = "meta"
    /\ \/ /\ HasMeta(b) /\ config.limit /\ b \in old
          /\ SetWork(b, "meta", "skipped")
          /\ UNCHANGED <<config, phase, order, cause>>
       \/ /\ HasMeta(b) /\ ~(config.limit /\ b \in old)
          /\ SetWork(b, "meta", "task")
          /\ order' = Append(order, b)
          /\ UNCHANGED <<config, phase, cause>>
       \/ ~HasMeta(b) /\ UNCHANGED runVars
       \/ HasMeta(b) /\ "corrupt" \in Faults /\ Fail("corrupt")
    /\ UNCHANGED <<bucketVars, cacheDir>>

\* A block whose meta.json is gone by now: Repository::read has turned the
\* error into io::Error::other, so the arm for NotFound does not match.
ReadMeta(b) ==
    /\ work[b] = "meta"
    /\ \/ /\ HasMeta(b) /\ config.limit /\ b \in old
          /\ SetWork(b, "meta", "skipped")
          /\ UNCHANGED <<config, phase, order, cause>>
       \/ /\ HasMeta(b) /\ ~(config.limit /\ b \in old)
          /\ SetWork(b, "meta", "task")
          /\ order' = Append(order, b)
          /\ UNCHANGED <<config, phase, cause>>
       \/ ~HasMeta(b) /\ Fail("metadata disappeared")
       \/ HasMeta(b) /\ "corrupt" \in Faults /\ Fail("corrupt")
    /\ UNCHANGED <<bucketVars, cacheDir>>

\* Faulty: the chunk files are always removed.
EndMetadataPurge ==
    /\ phase = "metadata" /\ Doing({"listed"} \cup InMetaRead) = {}
    /\ phase' = "purge"
    /\ UNCHANGED <<bucketVars, config, work, order, cause, cacheDir>>

EndMetadata ==
    /\ phase = "metadata" /\ Doing({"listed"} \cup InMetaRead) = {}
    /\ phase' = IF config.materialize THEN "build" ELSE "purge"
    /\ UNCHANGED <<bucketVars, config, work, order, cause, cacheDir>>

(* Building. *)

\* remove_chunk_index_files
Purge(b) ==
    /\ phase = "purge" /\ chunkFile[b] # None
    /\ \/ chunkFile' = [chunkFile EXCEPT ![b] = None] /\ UNCHANGED runVars
       \/ "disk" \in Faults /\ Fail("disk") /\ UNCHANGED chunkFile
    /\ UNCHANGED <<bucketVars, seriesFile, manifest>>

EndPurge ==
    /\ phase = "purge" /\ \A b \in Blocks : chunkFile[b] = None
    /\ phase' = "build"
    /\ UNCHANGED <<bucketVars, config, work, order, cause, cacheDir>>

\* Faulty: a chunk file that is missing goes unnoticed.
ReusableWithoutChunks(b) == seriesFile[b] # None /\ manifest[b] = CompletedManifest

\* Faulty: the manifest alone is trusted.
ReusableManifest(b) == manifest[b] = CompletedManifest

\* Faulty: the repository of the manifest is not compared.
ReusableAnyRepository(b) ==
    /\ seriesFile[b] # None
    /\ config.materialize => chunkFile[b] # None
    /\ manifest[b] # None /\ manifest[b].materialize = config.materialize

\* load_cached_block_index
Reusable(b) ==
    /\ seriesFile[b] # None
    /\ config.materialize => chunkFile[b] # None
    /\ manifest[b] = CompletedManifest

\* A build slot is free: the next task either reuses its projection or waits
\* for its index.
StartBlock ==
    /\ phase = "build" /\ order # <<>>
    /\ Cardinality(Doing(InBuild)) < IndexBuilds
    /\ \/ /\ SetWork(Head(order), "task", IF Reusable(Head(order)) THEN "built" ELSE "download")
          /\ order' = Tail(order)
          /\ UNCHANGED <<config, phase, cause>>
       \/ "disk" \in Faults /\ Fail("disk")
    /\ UNCHANGED <<bucketVars, cacheDir>>

Download(b) ==
    /\ work[b] = "download"
    /\ \/ /\ HasIndex(b) /\ SetWork(b, "download", "write")
          /\ UNCHANGED <<config, phase, order, cause>>
       \/ ~HasIndex(b) /\ Fail("index disappeared")
    /\ UNCHANGED <<bucketVars, cacheDir>>

\* A step of the blocking thread; if it fails, the bootstrap does.  An index
\* that does not parse is noticed before anything is renamed.
ThreadStep(b, from, to) ==
    /\ SetWork(b, from, to)
    /\ UNCHANGED <<bucketVars, config, phase, order, cause>>

ThreadError(b) ==
    /\ \/ "disk" \in Faults /\ work[b] \in OnThread /\ FailWith("disk", {b})
       \/ "corrupt" \in Faults /\ work[b] = "write" /\ FailWith("corrupt", {b})
    /\ UNCHANGED <<bucketVars, cacheDir>>

\* Both projections are written in full; the chunks are renamed first.
RenameChunks(b) ==
    /\ config.materialize
    /\ ThreadStep(b, "write", "series")
    /\ chunkFile' = [chunkFile EXCEPT ![b] = config.repository]
    /\ UNCHANGED <<seriesFile, manifest>>

RenameSeries(b) ==
    /\ ThreadStep(b, IF config.materialize THEN "series" ELSE "write", "manifest")
    /\ seriesFile' = [seriesFile EXCEPT ![b] = config.repository]
    /\ UNCHANGED <<chunkFile, manifest>>

\* Once the bootstrap has failed nobody waits for the thread.
WriteManifest(b) ==
    /\ ThreadStep(b, "manifest", IF phase = "failed" THEN "idle" ELSE "built")
    /\ manifest' = [manifest EXCEPT ![b] = CompletedManifest]
    /\ UNCHANGED <<chunkFile, seriesFile>>

EndBuild ==
    /\ phase = "build" /\ Doing({"task"} \cup InBuild) = {}
    /\ phase' = "cleanup"
    /\ UNCHANGED <<bucketVars, config, work, order, cause, cacheDir>>

(* Cleaning up: the series projections first, then the manifests. *)

StaleSeries == {b \in Blocks \ Active : seriesFile[b] # None}

\* Faulty: only manifests beside a series file are looked at.
StaleManifestsWithFiles == {b \in Blocks \ Active : manifest[b] # None /\ seriesFile[b] # None}

StaleManifests == {b \in Blocks \ Active : manifest[b] # None}

CleanupSeries(b) ==
    /\ phase = "cleanup" /\ b \in StaleSeries
    /\ \/ seriesFile' = [seriesFile EXCEPT ![b] = None] /\ UNCHANGED runVars
       \/ "disk" \in Faults /\ Fail("disk") /\ UNCHANGED seriesFile
    /\ UNCHANGED <<bucketVars, chunkFile, manifest>>

CleanupManifest(b) ==
    /\ phase = "cleanup" /\ StaleSeries = {} /\ b \in StaleManifests
    /\ \/ manifest' = [manifest EXCEPT ![b] = None] /\ UNCHANGED runVars
       \/ "disk" \in Faults /\ Fail("disk") /\ UNCHANGED manifest
    /\ UNCHANGED <<bucketVars, chunkFile, seriesFile>>

\* block_index.parquet is written, then the tables are registered.
Serve ==
    /\ phase = "cleanup" /\ StaleSeries = {} /\ StaleManifests = {}
    /\ \/ phase' = "serve" /\ UNCHANGED <<config, work, order, cause>>
       \/ "disk" \in Faults /\ Fail("disk")
    /\ UNCHANGED <<bucketVars, cacheDir>>
-----------------------------------------------------------------------------
BlockStep(b) ==
    \/ ListEntry(b) \/ StartMeta(b) \/ CheckMark(b) \/ ReadMeta(b) \/ Purge(b)
    \/ Download(b) \/ RenameChunks(b) \/ RenameSeries(b) \/ WriteManifest(b)
    \/ CleanupSeries(b) \/ CleanupManifest(b)

ProcessStep ==
    EndList \/ EndMetadata \/ EndPurge \/ StartBlock \/ EndBuild \/ Serve \/ Exit

Next ==
    \/ \E b \in Blocks : BlockStep(b) \/ ThreadError(b) \/ Grow(b) \/ Age(b)
    \/ ProcessStep \/ StoreError \/ Kill
    \/ \E c \in Configs : Start(c)

Spec == Init /\ [][Next]_vars

\* The runtime polls the bootstrap and runs its threads, and every request to
\* the object store ends.  Nobody has to start or kill a process.
Fairness == WF_vars(ProcessStep) /\ \A b \in Blocks : WF_vars(BlockStep(b))

FairSpec == Spec /\ Fairness

-----------------------------------------------------------------------------
(* Properties. *)

Stages == {"idle", "listed", "skipped", "task", "built"} \cup InMetaRead \cup InBuild

\* Type invariant: what waits to be built is a task, each once.
TypeOK ==
    /\ bucket \in [Blocks -> {"absent", "live", "marked", "headless", "gone"}]
    /\ old \subseteq Blocks
    /\ config \in Configs
    /\ phase \in Running \cup {"stopped", "serve", "failed"}
    /\ work \in [Blocks -> Stages]
    /\ {order[i] : i \in DOMAIN order} = Doing({"task"}) /\ Len(order) = Cardinality(Doing({"task"}))
    /\ cause \in {"none", "store", "disk", "corrupt", "metadata disappeared", "index disappeared"}
    /\ chunkFile \in [Blocks -> Repositories \cup {None}]
    /\ seriesFile \in [Blocks -> Repositories \cup {None}]
    /\ manifest \in [Blocks -> [repository : Repositories, materialize : BOOLEAN] \cup {None}]

\* README, StoreAPI: when the reader serves, the series table, every file in
\* series/, holds the rows of every active block and of no other, and each row
\* names the repository that is configured now, the only one it can be read from.
SeriesServed ==
    phase = "serve" =>
        \A b \in Blocks : seriesFile[b] = IF b \in Active THEN config.repository ELSE None

\* build_block_index: the rows of the blocks table, taken from the manifests of
\* reused and of built blocks, describe the blocks as configured now, and no
\* manifest of another block is left to be reused later.
BlocksServed ==
    phase = "serve" =>
        \A b \in Blocks : manifest[b] = IF b \in Active THEN CompletedManifest ELSE None

\* README, the chunks table: with materialize_chunk_index the rows of every
\* active block are served, without it no chunk file of an earlier run is left.
ChunksServed ==
    phase = "serve" =>
        \A b \in Blocks :
            IF config.materialize THEN b \in Active => chunkFile[b] = config.repository
                                  ELSE chunkFile[b] = None

\* read_block_meta: a block that has a deletion mark when it is listed is never
\* indexed, in that bootstrap or later.
DeletedStayAway ==
    \A b \in Blocks :
        [](phase = "list" /\ bucket[b] \in {"marked", "headless", "gone"} => [](b \notin Active))

\* CachedBlockIndex, "so a bootstrap can resume after a restart": a projection
\* that could be reused stays so, through errors and crashes, until another
\* configuration comes or the block turns out not to be active.
ProgressKept ==
    [][\A b \in Blocks :
          Reusable(b) /\ ~Reusable(b)' => config' # config \/ work[b] = "skipped"]_vars

\* read_block_meta: a block that is deleted between its listing and the read of
\* its metadata "is an expected race, not a bootstrap-fatal repository error".
DeletionIsNotFatal == cause # "metadata disappeared"

\* A bootstrap that began ends: the reader serves, or the process is gone.
BootstrapEnds == phase \in Running \cup {"failed"} ~> phase \in {"serve", "stopped"}
=============================================================================
