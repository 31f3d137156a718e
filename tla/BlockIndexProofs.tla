-------------------------- MODULE BlockIndexProofs --------------------------
(***************************************************************************)
(* Proofs about the bootstrap, for any number of blocks, configurations    *)
(* and concurrent builds: it is well typed; the manifests it serves are    *)
(* those of the active blocks, whatever fails and whenever the process is  *)
(* killed; a block with a deletion mark stays away; and a projection that  *)
(* could be reused is not lost.  That the rows in the files name the       *)
(* repository that is configured is proved of reconfigurations without     *)
(* kills and disk errors, and of kills and errors without a change of the  *)
(* repository (Settled): the two together are what the code gets wrong.    *)
(***************************************************************************)
EXTENDS BlockIndex, FiniteSetTheorems, SequenceTheorems, TLAPS

-----------------------------------------------------------------------------
(* The inductive invariant. *)

\* What a bootstrap does with its blocks in each phase.
StageInv ==
    \A b \in Blocks :
        /\ phase = "stopped" => work[b] = "idle"
        /\ phase = "failed" => work[b] \in {"idle"} \cup OnThread
        /\ phase = "list" => work[b] \in {"idle", "listed", "skipped"}
        /\ phase = "metadata" => work[b] \in {"listed", "skipped", "task"} \cup InMetaRead
        /\ phase = "purge" => work[b] \in {"skipped", "task"}
        /\ phase = "build" => work[b] \in {"skipped", "task", "built"} \cup InBuild
        /\ phase \in {"cleanup", "serve"} => work[b] \in {"skipped", "built"}

\* The blocks that wait to be built are queued, each once.
OrderInv ==
    /\ order \in Seq(Blocks)
    /\ \A b \in Blocks : work[b] = "task" <=> \E i \in 1..Len(order) : order[i] = b
    /\ \A i, j \in 1..Len(order) : order[i] = order[j] => i = j
    /\ Len(order) = Cardinality(Doing({"task"}))

BasicTypes ==
    /\ bucket \in [Blocks -> {"absent", "live", "marked", "headless", "gone"}]
    /\ old \subseteq Blocks
    /\ config \in Configs
    /\ phase \in Running \cup {"stopped", "serve", "failed"}
    /\ work \in [Blocks -> Stages]
    /\ cause \in {"none", "store", "disk", "corrupt", "metadata disappeared", "index disappeared"}
    /\ chunkFile \in [Blocks -> Repositories \cup {None}]
    /\ seriesFile \in [Blocks -> Repositories \cup {None}]
    /\ manifest \in [Blocks -> [repository : Repositories, materialize : BOOLEAN] \cup {None}]

\* What a thread has renamed so far, and what a built block has.
BuiltInv ==
    \A b \in Blocks :
        /\ work[b] = "series" => config.materialize /\ chunkFile[b] = config.repository
        /\ work[b] = "manifest" =>
              seriesFile[b] = config.repository /\ (config.materialize => chunkFile[b] = config.repository)
        /\ work[b] = "built" => Reusable(b)

\* Without materialization the chunk files are gone before the builds begin.
PurgedInv ==
    /\ phase = "purge" => ~config.materialize
    /\ phase \in {"build", "cleanup", "serve"} /\ ~config.materialize => \A b \in Blocks : chunkFile[b] = None

\* What is served was cleaned up.
CleanInv == phase = "serve" => StaleSeries = {} /\ StaleManifests = {}

BootstrapInv == BasicTypes /\ StageInv /\ OrderInv /\ BuiltInv /\ PurgedInv /\ CleanInv

-----------------------------------------------------------------------------
(* The first state, and the steps one by one. *)

\* A configuration names a repository.
LEMMA ConfigFacts ==
    ASSUME NEW c \in Configs
    PROVE  c.repository \in Repositories /\ c.repository # None /\ c.materialize \in BOOLEAN
BY ConfigsAssumption, NoneAssumption

\* Sets of blocks are finite.
LEMMA DoingFinite ==
    ASSUME NEW steps
    PROVE  IsFiniteSet(Doing(steps)) /\ Cardinality(Doing(steps)) \in Nat
BY BlocksAssumption, FS_Subset, FS_CardinalityType DEF Doing

\* A reader that has never started.
LEMMA InitBootstrap == Init => BootstrapInv
<1> SUFFICES ASSUME Init PROVE BootstrapInv
    OBVIOUS
<1>1. BasicTypes
    BY DEF Init, BasicTypes, Stages
<1>2. StageInv /\ BuiltInv /\ PurgedInv /\ CleanInv
    BY DEF Init, StageInv, BuiltInv, PurgedInv, CleanInv
<1>3. OrderInv
    <2>1. Doing({"task"}) = {}
        BY DEF Init, Doing
    <2>2. Cardinality(Doing({"task"})) = 0
        BY <2>1, FS_EmptySet
    <2>3. order = <<>> /\ Len(order) = 0
        BY DEF Init
    <2> QED
        BY <2>2, <2>3 DEF Init, OrderInv
<1> QED
    BY <1>1, <1>2, <1>3 DEF BootstrapInv

\* A bootstrap that fails gives up everything but its threads.
LEMMA FailKeeps ==
    ASSUME BootstrapInv, NEW why, NEW lost, FailWith(why, lost),
           why \in {"store", "disk", "corrupt", "metadata disappeared", "index disappeared"},
           UNCHANGED <<bucketVars, cacheDir>>
    PROVE  BootstrapInv'
<1>1. /\ phase' = "failed" /\ cause' = why /\ order' = <<>> /\ config' = config
      /\ UNCHANGED <<bucket, old, chunkFile, seriesFile, manifest>>
      /\ \A b \in Blocks : work'[b] \in {"idle"} \cup OnThread /\ (work'[b] # "idle" => work'[b] = work[b])
      /\ work' = [b \in Blocks |-> work'[b]]
    BY DEF FailWith, bucketVars, cacheDir, OnThread
<1>2. BasicTypes'
    <2>1. work' \in [Blocks -> Stages]
        BY <1>1 DEF Stages, InBuild, OnThread
    <2> QED
        BY <1>1, <2>1 DEF BootstrapInv, BasicTypes, Running
<1>3. StageInv'
    BY <1>1 DEF StageInv
<1>4. BuiltInv'
    <2> SUFFICES ASSUME NEW b \in Blocks
                 PROVE  /\ work'[b] = "series" => config'.materialize /\ chunkFile'[b] = config'.repository
                        /\ work'[b] = "manifest" => seriesFile'[b] = config'.repository
                              /\ (config'.materialize => chunkFile'[b] = config'.repository)
                        /\ work'[b] # "built"
        BY DEF BuiltInv
    <2> QED
        BY <1>1 DEF BootstrapInv, BuiltInv, OnThread
<1>5. PurgedInv' /\ CleanInv'
    BY <1>1 DEF PurgedInv, CleanInv
<1>6. OrderInv'
    <2>1. \A b \in Blocks : work'[b] # "task"
        BY <1>1 DEF OnThread
    <2>2. Doing({"task"})' = {}
        BY <2>1 DEF Doing
    <2>3. Cardinality(Doing({"task"})') = 0
        BY <2>2, FS_EmptySet
    <2>4. order' = <<>>
        BY <1>1
    <2>5. Len(order') = 0 /\ order' \in Seq(Blocks)
        BY ONLY <2>4
    <2>6. 1..Len(order') = {}
        BY ONLY <2>5
    <2> QED
        BY <2>1, <2>3, <2>5, <2>6 DEF OrderInv
<1> QED
    BY <1>2, <1>3, <1>4, <1>5, <1>6 DEF BootstrapInv

\* A step of one block that is no task, before or after it, leaves the queue alone.
LEMMA SetWorkKeepsOrder ==
    ASSUME BasicTypes, OrderInv, NEW b \in Blocks, NEW from, NEW to, SetWork(b, from, to),
           from # "task", to # "task", order' = order
    PROVE  OrderInv'
<1>1. /\ work' = [work EXCEPT ![b] = to] /\ work[b] = from
      /\ work \in [Blocks -> Stages]
    BY DEF SetWork, BasicTypes
<1>2. \A c \in Blocks : work'[c] = "task" <=> work[c] = "task"
    BY <1>1
<1>3. Doing({"task"})' = Doing({"task"})
    BY <1>2 DEF Doing
<1> QED
    BY <1>2, <1>3 DEF OrderInv

\* A phase that ends.
LEMMA PhaseKeeps ==
    ASSUME BootstrapInv, EndList \/ EndMetadata \/ EndPurge \/ EndBuild
    PROVE  BootstrapInv'
<1>1. /\ UNCHANGED <<bucket, old, config, work, order, cause, chunkFile, seriesFile, manifest>>
      /\ phase' \in {"metadata", "purge", "build", "cleanup"}
    BY DEF EndList, EndMetadata, EndPurge, EndBuild, bucketVars, cacheDir
<1>2. BasicTypes'
    BY <1>1 DEF BootstrapInv, BasicTypes, Running
<1>3. OrderInv'
    BY <1>1 DEF BootstrapInv, OrderInv, Doing
<1>4. BuiltInv'
    BY <1>1 DEF BootstrapInv, BuiltInv, Reusable, CompletedManifest
<1>5. CleanInv'
    BY <1>1 DEF CleanInv
<1>6. StageInv' /\ PurgedInv'
    <2>1. StageInv /\ PurgedInv /\ config.materialize \in BOOLEAN
        BY ConfigFacts DEF BootstrapInv, BasicTypes
    <2>2. CASE EndList
        BY <1>1, <2>1, <2>2 DEF EndList, StageInv, PurgedInv, Doing
    <2>3. CASE EndMetadata
        BY <1>1, <2>1, <2>3 DEF EndMetadata, StageInv, PurgedInv, Doing, InMetaRead
    <2>4. CASE EndPurge
        BY <1>1, <2>1, <2>4 DEF EndPurge, StageInv, PurgedInv
    <2>5. CASE EndBuild
        BY <1>1, <2>1, <2>5 DEF EndBuild, StageInv, PurgedInv, Doing, InBuild, OnThread
    <2> QED
        BY <2>2, <2>3, <2>4, <2>5
<1> QED
    BY <1>2, <1>3, <1>4, <1>5, <1>6 DEF BootstrapInv

\* The bucket and the process.
LEMMA ProcessKeeps ==
    ASSUME BootstrapInv,
           \/ \E b \in Blocks : Grow(b) \/ Age(b)
           \/ \E c \in Configs : Start(c)
           \/ Exit \/ Kill
    PROVE  BootstrapInv'
<1>1. CASE \E b \in Blocks : Grow(b) \/ Age(b)
    <2>1. PICK b \in Blocks : Grow(b) \/ Age(b)
        BY <1>1
    <2>2. UNCHANGED <<config, phase, work, order, cause, chunkFile, seriesFile, manifest>>
        BY <2>1 DEF Grow, Age, runVars, cacheDir
    <2>3. /\ bucket' \in [Blocks -> {"absent", "live", "marked", "headless", "gone"}]
          /\ old' \subseteq Blocks
        <3>1. CASE Grow(b)
            <4>1. PICK i \in 1..4 : bucket' = [bucket EXCEPT ![b] = Life[i + 1]]
                BY <3>1 DEF Grow
            <4>2. Life[i + 1] \in {"absent", "live", "marked", "headless", "gone"}
                BY DEF Life
            <4> QED
                BY <3>1, <4>1, <4>2 DEF Grow, BootstrapInv, BasicTypes
        <3>2. CASE Age(b)
            BY <3>2 DEF Age, BootstrapInv, BasicTypes
        <3> QED
            BY <2>1, <3>1, <3>2
    <2>4. BasicTypes'
        BY <2>2, <2>3 DEF BootstrapInv, BasicTypes
    <2>5. StageInv' /\ PurgedInv'
        BY <2>2 DEF BootstrapInv, StageInv, PurgedInv
    <2>6. OrderInv'
        BY <2>2 DEF BootstrapInv, OrderInv, Doing
    <2>7. BuiltInv'
        BY <2>2 DEF BootstrapInv, BuiltInv, Reusable, CompletedManifest
    <2>8. CleanInv'
        BY <2>2 DEF BootstrapInv, CleanInv, StaleSeries, StaleManifests, Active, Doing
    <2> QED
        BY <2>4, <2>5, <2>6, <2>7, <2>8 DEF BootstrapInv
<1>2. CASE (\E c \in Configs : Start(c)) \/ Exit \/ Kill
    <2>1. /\ UNCHANGED <<bucket, old, chunkFile, seriesFile, manifest>>
          /\ config' \in Configs /\ phase' \in {"list", "stopped"}
          /\ cause' \in {"none", cause}
        BY <1>2 DEF Start, Exit, Kill, bucketVars, cacheDir, BootstrapInv, BasicTypes
    <2>2. work' \in [Blocks -> Stages] /\ \A b \in Blocks : work'[b] = "idle"
        <3>1. work \in [Blocks -> Stages] /\ StageInv
            BY DEF BootstrapInv, BasicTypes
        <3>2. CASE \E c \in Configs : Start(c)
            BY <3>1, <3>2 DEF Start, StageInv
        <3>3. CASE Exit
            BY <3>1, <3>3 DEF Exit, StageInv, Doing
        <3>4. CASE Kill
            BY <3>4 DEF Kill, Stages
        <3> QED
            BY <1>2, <3>2, <3>3, <3>4
    <2>3. BasicTypes'
        BY <2>1, <2>2 DEF BootstrapInv, BasicTypes, Running
    <2>4. StageInv' /\ BuiltInv' /\ PurgedInv' /\ CleanInv'
        BY <2>1, <2>2 DEF StageInv, BuiltInv, PurgedInv, CleanInv
    <2>5. OrderInv'
        <3>1. Doing({"task"})' = {} /\ Cardinality(Doing({"task"})') = 0
            BY <2>2, FS_EmptySet DEF Doing
        <3>2. order' = <<>>
            <4>1. CASE Kill
                BY <4>1 DEF Kill
            <4>2. CASE ~Kill
                <5>1. order' = order /\ work' = work
                    BY <1>2, <4>2 DEF Start, Exit
                <5>2. Len(order) = 0 /\ order \in Seq(Blocks)
                    BY <3>1, <5>1 DEF BootstrapInv, OrderInv, Doing
                <5> QED
                    BY <5>1, <5>2, EmptySeq
            <4> QED
                BY <4>1, <4>2
        <3>3. Len(order') = 0 /\ order' \in Seq(Blocks)
            BY <3>2
        <3> QED
            BY <2>2, <3>1, <3>3 DEF OrderInv
    <2> QED
        BY <2>3, <2>4, <2>5 DEF BootstrapInv
<1> QED
    BY <1>1, <1>2

\* A step of one block within a phase: what is asked of the stage it enters.
LEMMA SetWorkKeeps ==
    ASSUME BootstrapInv, NEW b \in Blocks, NEW from, NEW to, SetWork(b, from, to),
           from # "task", to \in Stages \ {"task"},
           UNCHANGED <<bucketVars, config, phase, order, cause>>,
           phase \in {"list", "metadata", "build", "failed"},
           phase = "failed" => to \in {"idle"} \cup OnThread,
           phase = "list" => to \in {"listed", "skipped"},
           phase = "metadata" => to \in {"skipped"} \cup InMetaRead,
           phase = "build" => to \in {"built"} \cup InBuild
    PROVE  /\ bucket' \in [Blocks -> {"absent", "live", "marked", "headless", "gone"}]
           /\ old' \subseteq Blocks /\ config' \in Configs
           /\ phase' \in Running \cup {"stopped", "serve", "failed"}
           /\ work' \in [Blocks -> Stages]
           /\ cause' \in {"none", "store", "disk", "corrupt", "metadata disappeared", "index disappeared"}
           /\ StageInv' /\ OrderInv' /\ CleanInv'
           /\ work'[b] = to /\ \A c \in Blocks \ {b} : work'[c] = work[c]
<1>1. /\ work' = [work EXCEPT ![b] = to] /\ work \in [Blocks -> Stages]
      /\ UNCHANGED <<bucket, old, config, phase, order, cause>>
    BY DEF SetWork, BootstrapInv, BasicTypes, bucketVars
<1>2. work' \in [Blocks -> Stages] /\ work'[b] = to /\ \A c \in Blocks \ {b} : work'[c] = work[c]
    BY <1>1
<1>3. OrderInv'
    BY <1>1, SetWorkKeepsOrder DEF BootstrapInv
<1>4. StageInv'
    <2> SUFFICES ASSUME NEW c \in Blocks
                 PROVE  /\ phase = "failed" => work'[c] \in {"idle"} \cup OnThread
                        /\ phase = "list" => work'[c] \in {"idle", "listed", "skipped"}
                        /\ phase = "metadata" => work'[c] \in {"listed", "skipped", "task"} \cup InMetaRead
                        /\ phase = "build" => work'[c] \in {"skipped", "task", "built"} \cup InBuild
        BY <1>1 DEF StageInv
    <2>1. CASE c = b
        BY <1>2, <2>1
    <2>2. CASE c # b
        BY <1>2, <2>2 DEF BootstrapInv, StageInv
    <2> QED
        BY <2>1, <2>2
<1>5. CleanInv'
    BY <1>1 DEF CleanInv
<1> QED
    BY <1>1, <1>2, <1>3, <1>4, <1>5 DEF BootstrapInv, BasicTypes

\* Such a step that touches no file and ends no thread keeps the invariant.
LEMMA QuietStepKeeps ==
    ASSUME BootstrapInv, NEW b \in Blocks, NEW from, NEW to, SetWork(b, from, to),
           from # "task", to \in Stages \ {"task", "series", "manifest", "built"},
           UNCHANGED <<bucketVars, config, phase, order, cause, cacheDir>>,
           phase \in {"list", "metadata", "build", "failed"},
           phase = "failed" => to \in {"idle"} \cup OnThread,
           phase = "list" => to \in {"listed", "skipped"},
           phase = "metadata" => to \in {"skipped"} \cup InMetaRead,
           phase = "build" => to \in {"built"} \cup InBuild
    PROVE  BootstrapInv'
<1>1. UNCHANGED <<config, phase, order, chunkFile, seriesFile, manifest>>
    BY DEF cacheDir
<1>2. /\ bucket' \in [Blocks -> {"absent", "live", "marked", "headless", "gone"}]
      /\ old' \subseteq Blocks /\ config' \in Configs
      /\ phase' \in Running \cup {"stopped", "serve", "failed"}
      /\ work' \in [Blocks -> Stages]
      /\ cause' \in {"none", "store", "disk", "corrupt", "metadata disappeared", "index disappeared"}
      /\ StageInv' /\ OrderInv' /\ CleanInv'
      /\ work'[b] = to /\ \A c \in Blocks \ {b} : work'[c] = work[c]
    BY SetWorkKeeps
<1>3. BasicTypes'
    BY <1>1, <1>2 DEF BootstrapInv, BasicTypes
<1>4. BuiltInv'
    <2> SUFFICES ASSUME NEW c \in Blocks
                 PROVE  /\ work'[c] = "series" => config.materialize /\ chunkFile[c] = config.repository
                        /\ work'[c] = "manifest" => seriesFile[c] = config.repository
                              /\ (config.materialize => chunkFile[c] = config.repository)
                        /\ work'[c] = "built" => Reusable(c)
        BY <1>1 DEF BuiltInv, Reusable, CompletedManifest
    <2>1. CASE c = b
        BY <1>2, <2>1
    <2>2. CASE c # b
        BY <1>2, <2>2 DEF BootstrapInv, BuiltInv
    <2> QED
        BY <2>1, <2>2
<1>5. PurgedInv'
    BY <1>1 DEF BootstrapInv, PurgedInv
<1> QED
    BY <1>2, <1>3, <1>4, <1>5 DEF BootstrapInv

\* A block whose metadata arrived is queued.
LEMMA AppendKeepsOrder ==
    ASSUME BasicTypes, OrderInv, NEW b \in Blocks, SetWork(b, "meta", "task"), order' = Append(order, b)
    PROVE  OrderInv'
<1>1. /\ work' = [work EXCEPT ![b] = "task"] /\ work[b] = "meta"
      /\ work \in [Blocks -> Stages] /\ order \in Seq(Blocks)
    BY DEF SetWork, BasicTypes, OrderInv
<1>2. /\ order' \in Seq(Blocks) /\ Len(order') = Len(order) + 1 /\ Len(order) \in Nat
      /\ order'[Len(order) + 1] = b /\ \A i \in 1..Len(order) : order'[i] = order[i]
    BY <1>1, AppendProperties
<1>3. \A i \in 1..Len(order') : i \in 1..Len(order) \/ i = Len(order) + 1
    BY <1>2
<1>4. \A i \in 1..Len(order) : order[i] # b
    BY <1>1 DEF OrderInv
<1>5. \A c \in Blocks : work'[c] = "task" <=> work[c] = "task" \/ c = b
    BY <1>1
<1>6. \A c \in Blocks : work'[c] = "task" <=> \E i \in 1..Len(order') : order'[i] = c
    <2> SUFFICES ASSUME NEW c \in Blocks
                 PROVE  work'[c] = "task" <=> \E i \in 1..Len(order') : order'[i] = c
        OBVIOUS
    <2>1. CASE c = b
        <3>1. Len(order) + 1 \in 1..Len(order')
            BY <1>2
        <3> QED
            BY <1>2, <1>5, <2>1, <3>1
    <2>2. CASE c # b
        <3>1. (\E i \in 1..Len(order') : order'[i] = c) <=> \E i \in 1..Len(order) : order[i] = c
            BY <1>2, <1>3, <2>2
        <3> QED
            BY <1>5, <2>2, <3>1 DEF OrderInv
    <2> QED
        BY <2>1, <2>2
<1>7. \A i, j \in 1..Len(order') : order'[i] = order'[j] => i = j
    BY <1>2, <1>3, <1>4 DEF OrderInv
<1>8. Cardinality(Doing({"task"})') = Cardinality(Doing({"task"})) + 1
    <2>1. Doing({"task"})' = Doing({"task"}) \cup {b} /\ b \notin Doing({"task"})
        BY <1>1, <1>5 DEF Doing
    <2> QED
        BY <2>1, DoingFinite, FS_AddElement
<1> QED
    BY <1>2, <1>6, <1>7, <1>8 DEF OrderInv

\* Listing and reading metadata.
LEMMA ReadKeeps ==
    ASSUME BootstrapInv, NEW b \in Blocks, ListEntry(b) \/ StartMeta(b) \/ CheckMark(b) \/ ReadMeta(b)
    PROVE  BootstrapInv'
<1>1. work \in [Blocks -> Stages] /\ StageInv
    BY DEF BootstrapInv, BasicTypes
<1>2. CASE ListEntry(b)
    <2>1. \E to \in {"listed", "skipped"} : SetWork(b, "idle", to)
        BY <1>2 DEF ListEntry
    <2>2. phase = "list" /\ UNCHANGED <<bucketVars, config, phase, order, cause, cacheDir>>
        BY <1>2 DEF ListEntry
    <2> QED
        BY <2>1, <2>2, QuietStepKeeps DEF Stages
<1>3. CASE StartMeta(b)
    <2>1. /\ phase = "metadata" /\ UNCHANGED <<bucketVars, config, phase, order, cause, cacheDir>>
          /\ SetWork(b, "listed", "mark")
        BY <1>3 DEF StartMeta
    <2> QED
        BY <2>1, QuietStepKeeps DEF Stages, InMetaRead
<1>4. CASE CheckMark(b)
    <2>1. \E to \in {"skipped", "meta"} : SetWork(b, "mark", to)
        BY <1>4 DEF CheckMark
    <2>2. UNCHANGED <<bucketVars, config, phase, order, cause, cacheDir>>
        BY <1>4 DEF CheckMark
    <2>3. phase = "metadata"
        BY <1>1, <2>1 DEF SetWork, StageInv, InBuild, OnThread, BootstrapInv, BasicTypes, Running
    <2> QED
        BY <2>1, <2>2, <2>3, QuietStepKeeps DEF Stages, InMetaRead
<1>5. CASE ReadMeta(b)
    <2>1. work[b] = "meta" /\ UNCHANGED <<bucketVars, cacheDir>>
        BY <1>5 DEF ReadMeta
    <2>2. phase = "metadata"
        BY <1>1, <2>1 DEF StageInv, InBuild, OnThread, BootstrapInv, BasicTypes, Running
    <2>3. CASE SetWork(b, "meta", "skipped") /\ UNCHANGED <<config, phase, order, cause>>
        BY <2>1, <2>2, <2>3, QuietStepKeeps DEF Stages
    <2>4. CASE SetWork(b, "meta", "task") /\ order' = Append(order, b) /\ UNCHANGED <<config, phase, cause>>
        <3>1. /\ work' = [work EXCEPT ![b] = "task"]
              /\ UNCHANGED <<bucket, old, config, phase, cause, chunkFile, seriesFile, manifest>>
            BY <2>1, <2>4 DEF SetWork, bucketVars, cacheDir
        <3>2. OrderInv'
            BY <2>4, AppendKeepsOrder DEF BootstrapInv
        <3>3. BasicTypes'
            BY <3>1 DEF BootstrapInv, BasicTypes, Stages
        <3>4. StageInv'
            BY <1>1, <2>2, <3>1 DEF StageInv
        <3>5. BuiltInv'
            <4>1. \A c \in Blocks : work'[c] \in {"series", "manifest", "built"} => work'[c] = work[c]
                BY <1>1, <3>1
            <4> QED
                BY <3>1, <4>1 DEF BootstrapInv, BuiltInv, Reusable, CompletedManifest
        <3>6. PurgedInv' /\ CleanInv'
            BY <2>2, <3>1 DEF PurgedInv, CleanInv
        <3> QED
            BY <3>2, <3>3, <3>4, <3>5, <3>6 DEF BootstrapInv
    <2>5. CASE Fail("metadata disappeared") \/ Fail("corrupt")
        BY <2>1, <2>5, FailKeeps DEF Fail
    <2> QED
        BY <1>5, <2>3, <2>4, <2>5 DEF ReadMeta
<1> QED
    BY <1>2, <1>3, <1>4, <1>5

\* The head of the queue leaves it.
LEMMA TailKeepsOrder ==
    ASSUME BasicTypes, OrderInv, order # <<>>, NEW to, to # "task",
           SetWork(Head(order), "task", to), order' = Tail(order)
    PROVE  OrderInv'
<1> DEFINE b == Head(order)
<1>1. /\ order \in Seq(Blocks) /\ Len(order) \in Nat \ {0} /\ b \in Blocks /\ b = order[1]
      /\ 1 \in 1..Len(order)
    <2>1. order \in Seq(Blocks)
        BY DEF OrderInv
    <2>2. Len(order) \in Nat /\ Len(order) # 0
        BY <2>1, EmptySeq
    <2> QED
        BY <2>1, <2>2
<1>2. /\ work' = [work EXCEPT ![b] = to] /\ work[b] = "task" /\ work \in [Blocks -> Stages]
    BY DEF SetWork, BasicTypes
<1>3. /\ order' \in Seq(Blocks) /\ Len(order') = Len(order) - 1
      /\ \A i \in 1..Len(order') : order'[i] = order[i + 1]
    BY <1>1
<1>4. \A i \in 1..Len(order') : i + 1 \in 1..Len(order) /\ order[i + 1] # b
    BY <1>1, <1>3 DEF OrderInv
<1>5. \A i \in 1..Len(order) : order[i] # b => i - 1 \in 1..Len(order') /\ order'[i - 1] = order[i]
    <2> SUFFICES ASSUME NEW i \in 1..Len(order), order[i] # b
                 PROVE  i - 1 \in 1..Len(order') /\ order'[i - 1] = order[i]
        OBVIOUS
    <2>1. i # 1
        BY <1>1
    <2>2. i - 1 \in 1..Len(order') /\ i - 1 + 1 = i
        BY <1>1, <1>3, <2>1
    <2> QED
        BY <1>3, <2>2
<1> HIDE DEF b
<1>6. \A c \in Blocks : work'[c] = "task" <=> work[c] = "task" /\ c # b
    BY <1>1, <1>2
<1>7. \A c \in Blocks : work'[c] = "task" <=> \E i \in 1..Len(order') : order'[i] = c
    <2> SUFFICES ASSUME NEW c \in Blocks
                 PROVE  work'[c] = "task" <=> \E i \in 1..Len(order') : order'[i] = c
        OBVIOUS
    <2>1. work[c] = "task" <=> \E i \in 1..Len(order) : order[i] = c
        BY DEF OrderInv
    <2> QED
        BY <1>3, <1>4, <1>5, <1>6, <2>1
<1>8. \A i, j \in 1..Len(order') : order'[i] = order'[j] => i = j
    <2> SUFFICES ASSUME NEW i \in 1..Len(order'), NEW j \in 1..Len(order'), order'[i] = order'[j]
                 PROVE  i = j
        OBVIOUS
    <2>1. order[i + 1] = order[j + 1] /\ i + 1 \in 1..Len(order) /\ j + 1 \in 1..Len(order)
        BY <1>3, <1>4
    <2>2. i + 1 = j + 1
        BY <2>1 DEF OrderInv
    <2> QED
        BY <1>3, <2>2
<1>9. Cardinality(Doing({"task"})') = Cardinality(Doing({"task"})) - 1
    <2>1. Doing({"task"})' = Doing({"task"}) \ {b} /\ b \in Doing({"task"})
        BY <1>1, <1>2, <1>6 DEF Doing
    <2> QED
        BY <2>1, DoingFinite, FS_RemoveElement
<1> QED
    BY <1>3, <1>7, <1>8, <1>9 DEF OrderInv

\* The old chunk files are removed, or the bootstrap fails.
LEMMA PurgeKeeps ==
    ASSUME BootstrapInv, NEW b \in Blocks, Purge(b)
    PROVE  BootstrapInv'
<1>1. phase = "purge" /\ UNCHANGED <<bucketVars, seriesFile, manifest>>
    BY DEF Purge
<1>2. CASE chunkFile' = [chunkFile EXCEPT ![b] = None] /\ UNCHANGED runVars
    <2>1. UNCHANGED <<bucket, old, config, phase, work, order, cause, seriesFile, manifest>>
        BY <1>1, <1>2 DEF bucketVars, runVars
    <2>2. BasicTypes'
        BY <1>2, <2>1 DEF BootstrapInv, BasicTypes
    <2>3. StageInv' /\ CleanInv'
        BY <1>1, <2>1 DEF BootstrapInv, StageInv, CleanInv
    <2>4. OrderInv'
        BY <2>1 DEF BootstrapInv, OrderInv, Doing
    <2>5. BuiltInv'
        BY <1>1, <2>1 DEF BootstrapInv, StageInv, BuiltInv
    <2>6. PurgedInv'
        BY <1>1, <2>1 DEF BootstrapInv, PurgedInv
    <2> QED
        BY <2>2, <2>3, <2>4, <2>5, <2>6 DEF BootstrapInv
<1>3. CASE Fail("disk") /\ UNCHANGED chunkFile
    <2>1. UNCHANGED <<bucketVars, cacheDir>>
        BY <1>1, <1>3 DEF cacheDir
    <2> QED
        BY <1>3, <2>1, FailKeeps DEF Fail
<1> QED
    BY <1>2, <1>3 DEF Purge

\* A task is taken from the queue, reused or built.
LEMMA StartBlockKeeps ==
    ASSUME BootstrapInv, StartBlock
    PROVE  BootstrapInv'
<1> DEFINE b == Head(order)
           to == IF Reusable(b) THEN "built" ELSE "download"
<1>1. phase = "build" /\ order # <<>> /\ UNCHANGED <<bucketVars, cacheDir>>
    BY DEF StartBlock
<1>2. CASE /\ SetWork(b, "task", to) /\ order' = Tail(order)
           /\ UNCHANGED <<config, phase, cause>>
    <2>1. b \in Blocks
        <3>1. order \in Seq(Blocks)
            BY DEF BootstrapInv, OrderInv
        <3> QED
            BY <1>1, <3>1
    <2>2. to \in {"built", "download"} /\ (to = "built" => Reusable(b))
        OBVIOUS
    <2> HIDE DEF to
    <2>3. OrderInv'
        <3>1. to # "task"
            BY <2>2
        <3> QED
            BY <1>1, <1>2, <3>1, TailKeepsOrder DEF BootstrapInv
    <2> HIDE DEF b
    <2>4. /\ work' = [work EXCEPT ![b] = to] /\ work \in [Blocks -> Stages]
          /\ UNCHANGED <<bucket, old, config, phase, cause, chunkFile, seriesFile, manifest>>
        BY <1>1, <1>2 DEF SetWork, bucketVars, cacheDir, BootstrapInv, BasicTypes
    <2>5. BasicTypes'
        BY <2>1, <2>2, <2>4 DEF BootstrapInv, BasicTypes, Stages, InBuild
    <2>6. StageInv'
        BY <1>1, <2>1, <2>2, <2>4 DEF BootstrapInv, StageInv, InBuild
    <2>7. BuiltInv'
        <3> SUFFICES ASSUME NEW c \in Blocks
                     PROVE  /\ work'[c] = "series" => config.materialize /\ chunkFile[c] = config.repository
                            /\ work'[c] = "manifest" => seriesFile[c] = config.repository
                                  /\ (config.materialize => chunkFile[c] = config.repository)
                            /\ work'[c] = "built" => Reusable(c)
            BY <2>4 DEF BuiltInv, Reusable, CompletedManifest
        <3>1. CASE c = b
            BY <2>1, <2>2, <2>4, <3>1
        <3>2. CASE c # b
            BY <2>1, <2>4, <3>2 DEF BootstrapInv, BuiltInv
        <3> QED
            BY <3>1, <3>2
    <2>8. PurgedInv' /\ CleanInv'
        BY <1>1, <2>4 DEF BootstrapInv, PurgedInv, CleanInv
    <2> QED
        BY <2>3, <2>5, <2>6, <2>7, <2>8 DEF BootstrapInv
<1>3. CASE Fail("disk")
    BY <1>1, <1>3, FailKeeps DEF Fail
<1> QED
    BY <1>2, <1>3 DEF StartBlock

\* Errors of the store and on the threads.
LEMMA ErrorKeeps ==
    ASSUME BootstrapInv, StoreError \/ \E b \in Blocks : ThreadError(b)
    PROVE  BootstrapInv'
<1>1. CASE StoreError
    BY <1>1, FailKeeps DEF StoreError, Fail
<1>2. CASE \E b \in Blocks : ThreadError(b)
    <2>1. PICK b \in Blocks : ThreadError(b)
        BY <1>2
    <2>2. UNCHANGED <<bucketVars, cacheDir>> /\ (FailWith("disk", {b}) \/ FailWith("corrupt", {b}))
        BY <2>1 DEF ThreadError
    <2> QED
        BY <2>2, FailKeeps
<1> QED
    BY <1>1, <1>2

\* Threads run while the bootstrap builds, or after it failed.
LEMMA BuildPhase ==
    ASSUME BootstrapInv, NEW b \in Blocks, work[b] \in InBuild
    PROVE  /\ phase \in {"build", "failed"}
           /\ phase = "failed" => work[b] \in OnThread
BY DEF BootstrapInv, BasicTypes, StageInv, Running, InBuild, OnThread, InMetaRead

\* The index arrives, or is gone.
LEMMA DownloadKeeps ==
    ASSUME BootstrapInv, NEW b \in Blocks, Download(b)
    PROVE  BootstrapInv'
<1>1. phase = "build" /\ UNCHANGED <<bucketVars, cacheDir>>
    BY BuildPhase DEF Download, InBuild, OnThread
<1>2. CASE SetWork(b, "download", "write") /\ UNCHANGED <<config, phase, order, cause>>
    BY <1>1, <1>2, QuietStepKeeps DEF Stages, InBuild, OnThread
<1>3. CASE Fail("index disappeared")
    BY <1>1, <1>3, FailKeeps DEF Fail
<1> QED
    BY <1>2, <1>3 DEF Download

\* A thread renames its files, chunks before series, and writes the manifest.
LEMMA ThreadKeeps ==
    ASSUME BootstrapInv, NEW b \in Blocks, RenameChunks(b) \/ RenameSeries(b) \/ WriteManifest(b)
    PROVE  BootstrapInv'
<1> DEFINE last == IF phase = "failed" THEN "idle" ELSE "built"
           first == IF config.materialize THEN "series" ELSE "write"
<1>1. /\ BasicTypes /\ StageInv /\ BuiltInv /\ PurgedInv
      /\ config \in Configs /\ config.repository \in Repositories /\ config.repository # None
      /\ config.materialize \in BOOLEAN
    BY ConfigFacts DEF BootstrapInv, BasicTypes
<1>2. /\ chunkFile \in [Blocks -> Repositories \cup {None}]
      /\ seriesFile \in [Blocks -> Repositories \cup {None}]
      /\ manifest \in [Blocks -> [repository : Repositories, materialize : BOOLEAN] \cup {None}]
      /\ CompletedManifest \in [repository : Repositories, materialize : BOOLEAN]
    BY <1>1 DEF BasicTypes, CompletedManifest
<1>3. last \in {"idle", "built"} /\ (phase = "failed" => last = "idle") /\ (phase # "failed" => last = "built")
    OBVIOUS
<1>4. first \in {"series", "write"} /\ (config.materialize => first = "series")
    BY <1>1
<1> HIDE DEF last, first
<1>5. PICK from \in {"write", "series", "manifest"}, to \in {"series", "manifest", last} :
        /\ SetWork(b, from, to)
        /\ from = "manifest" => to = last
        /\ UNCHANGED <<bucketVars, config, phase, order, cause>>
    BY <1>4 DEF RenameChunks, RenameSeries, WriteManifest, ThreadStep, last, first
<1>6. work[b] \in OnThread /\ phase \in {"build", "failed"}
    BY <1>5, BuildPhase DEF SetWork, OnThread, InBuild
<1>7. /\ phase = "failed" => to \in {"idle"} \cup OnThread
      /\ phase = "build" => to \in {"built"} \cup InBuild
      /\ to \in Stages \ {"task"}
    BY <1>3, <1>5 DEF OnThread, InBuild, Stages
<1>8. /\ bucket' \in [Blocks -> {"absent", "live", "marked", "headless", "gone"}]
      /\ old' \subseteq Blocks /\ config' \in Configs
      /\ phase' \in Running \cup {"stopped", "serve", "failed"}
      /\ work' \in [Blocks -> Stages]
      /\ cause' \in {"none", "store", "disk", "corrupt", "metadata disappeared", "index disappeared"}
      /\ StageInv' /\ OrderInv' /\ CleanInv'
      /\ work'[b] = to /\ \A c \in Blocks \ {b} : work'[c] = work[c]
    BY <1>5, <1>6, <1>7, SetWorkKeeps
<1>9. config' = config /\ phase' = phase
    BY <1>5
<1>10. /\ chunkFile' \in [Blocks -> Repositories \cup {None}]
       /\ seriesFile' \in [Blocks -> Repositories \cup {None}]
       /\ manifest' \in [Blocks -> [repository : Repositories, materialize : BOOLEAN] \cup {None}]
       /\ \A c \in Blocks \ {b} : chunkFile'[c] = chunkFile[c] /\ seriesFile'[c] = seriesFile[c]
                                    /\ manifest'[c] = manifest[c]
    BY <1>1, <1>2 DEF RenameChunks, RenameSeries, WriteManifest
<1>11. BasicTypes'
    BY <1>8, <1>10 DEF BasicTypes
<1>12. /\ work'[b] = "series" => config.materialize /\ chunkFile'[b] = config.repository
       /\ work'[b] = "manifest" => seriesFile'[b] = config.repository
              /\ (config.materialize => chunkFile'[b] = config.repository)
       /\ work'[b] = "built" =>
              /\ seriesFile'[b] # None /\ (config.materialize => chunkFile'[b] # None)
              /\ manifest'[b] = CompletedManifest
    <2>1. CASE RenameChunks(b)
        <3>1. work'[b] = "series" /\ config.materialize /\ chunkFile'[b] = config.repository
            BY <1>1, <1>2, <2>1 DEF RenameChunks, ThreadStep, SetWork, BasicTypes
        <3> QED
            BY <3>1
    <2>2. CASE RenameSeries(b)
        <3>1. /\ work'[b] = "manifest" /\ work[b] = first
              /\ seriesFile'[b] = config.repository /\ chunkFile' = chunkFile
            BY <1>1, <1>2, <2>2 DEF RenameSeries, ThreadStep, SetWork, BasicTypes, first
        <3> QED
            BY <1>1, <1>4, <3>1 DEF BuiltInv
    <2>3. CASE WriteManifest(b)
        <3>1. /\ work'[b] = last /\ work[b] = "manifest"
              /\ manifest'[b] = CompletedManifest /\ UNCHANGED <<chunkFile, seriesFile>>
            BY <1>1, <1>2, <2>3 DEF WriteManifest, ThreadStep, SetWork, BasicTypes, last
        <3> QED
            BY <1>1, <1>3, <3>1 DEF BuiltInv
    <2> QED
        BY <2>1, <2>2, <2>3
<1>13. BuiltInv'
    <2> SUFFICES ASSUME NEW c \in Blocks
                 PROVE  /\ work'[c] = "series" => config.materialize /\ chunkFile'[c] = config.repository
                        /\ work'[c] = "manifest" => seriesFile'[c] = config.repository
                              /\ (config.materialize => chunkFile'[c] = config.repository)
                        /\ work'[c] = "built" =>
                              /\ seriesFile'[c] # None /\ (config.materialize => chunkFile'[c] # None)
                              /\ manifest'[c] = CompletedManifest
        BY <1>9 DEF BuiltInv, Reusable, CompletedManifest
    <2>1. CASE c = b
        BY <1>12, <2>1
    <2>2. CASE c # b
        BY <1>1, <1>8, <1>10, <2>2 DEF BuiltInv, Reusable
    <2> QED
        BY <2>1, <2>2
<1>14. PurgedInv'
    <2>1. chunkFile' = chunkFile \/ config.materialize
        BY DEF RenameChunks, RenameSeries, WriteManifest
    <2> QED
        BY <1>1, <1>6, <1>9, <2>1 DEF PurgedInv
<1> QED
    BY <1>8, <1>11, <1>13, <1>14 DEF BootstrapInv

\* Cleaning up touches no active block, and serving begins when it is done.
LEMMA CleanupKeeps ==
    ASSUME BootstrapInv, Serve \/ \E b \in Blocks : CleanupSeries(b) \/ CleanupManifest(b)
    PROVE  BootstrapInv'
<1>1. phase = "cleanup" /\ UNCHANGED <<bucketVars, chunkFile>>
    BY DEF Serve, CleanupSeries, CleanupManifest, cacheDir
<1>2. CASE Fail("disk") /\ UNCHANGED cacheDir
    BY <1>1, <1>2, FailKeeps DEF Fail
<1>3. CASE Serve /\ phase' = "serve" /\ UNCHANGED <<config, work, order, cause>>
    <2>1. UNCHANGED <<bucket, old, config, work, order, cause, chunkFile, seriesFile, manifest>>
        BY <1>3 DEF Serve, bucketVars, cacheDir
    <2>2. BasicTypes'
        BY <1>3, <2>1 DEF BootstrapInv, BasicTypes
    <2>3. StageInv' /\ PurgedInv'
        BY <1>1, <1>3, <2>1 DEF BootstrapInv, StageInv, PurgedInv
    <2>4. OrderInv'
        BY <2>1 DEF BootstrapInv, OrderInv, Doing
    <2>5. BuiltInv'
        BY <2>1 DEF BootstrapInv, BuiltInv, Reusable, CompletedManifest
    <2>6. CleanInv'
        BY <1>3, <2>1 DEF CleanInv, StaleSeries, StaleManifests, Active, Doing, Serve
    <2> QED
        BY <2>2, <2>3, <2>4, <2>5, <2>6 DEF BootstrapInv
<1>4. CASE \E b \in Blocks \ Active :
             /\ UNCHANGED runVars
             /\ \/ seriesFile' = [seriesFile EXCEPT ![b] = None] /\ UNCHANGED manifest
                \/ manifest' = [manifest EXCEPT ![b] = None] /\ UNCHANGED seriesFile
    <2>1. PICK b \in Blocks \ Active :
             /\ UNCHANGED runVars
             /\ \/ seriesFile' = [seriesFile EXCEPT ![b] = None] /\ UNCHANGED manifest
                \/ manifest' = [manifest EXCEPT ![b] = None] /\ UNCHANGED seriesFile
        BY <1>4
    <2>2. UNCHANGED <<bucket, old, config, phase, work, order, cause, chunkFile>>
        BY <1>1, <2>1 DEF bucketVars, runVars
    <2>3. BasicTypes'
        BY <2>1, <2>2 DEF BootstrapInv, BasicTypes
    <2>4. StageInv' /\ PurgedInv'
        BY <2>2 DEF BootstrapInv, StageInv, PurgedInv
    <2>5. OrderInv'
        BY <2>2 DEF BootstrapInv, OrderInv, Doing
    <2>6. BuiltInv'
        <3> SUFFICES ASSUME NEW c \in Blocks
                     PROVE  /\ work[c] = "series" => config.materialize /\ chunkFile[c] = config.repository
                            /\ work[c] = "manifest" => seriesFile'[c] = config.repository
                                  /\ (config.materialize => chunkFile[c] = config.repository)
                            /\ work[c] = "built" =>
                                  /\ seriesFile'[c] # None /\ (config.materialize => chunkFile[c] # None)
                                  /\ manifest'[c] = CompletedManifest
            BY <2>2 DEF BuiltInv, Reusable, CompletedManifest
        <3>1. CASE c = b
            BY <2>1, <3>1, BuildPhase, <1>1 DEF Active, Doing, InBuild, OnThread
        <3>2. CASE c # b
            <4>1. seriesFile'[c] = seriesFile[c] /\ manifest'[c] = manifest[c]
                BY <2>1, <3>2 DEF BootstrapInv, BasicTypes
            <4> QED
                BY <4>1 DEF BootstrapInv, BuiltInv, Reusable
        <3> QED
            BY <3>1, <3>2
    <2>7. CleanInv'
        BY <1>1, <2>2 DEF CleanInv
    <2> QED
        BY <2>3, <2>4, <2>5, <2>6, <2>7 DEF BootstrapInv
<1> QED
    BY <1>1, <1>2, <1>3, <1>4
       DEF Serve, CleanupSeries, CleanupManifest, StaleSeries, StaleManifests, cacheDir

-----------------------------------------------------------------------------
(* The theorems. *)

\* Every step keeps the invariant.
LEMMA StepKeeps == BootstrapInv /\ [Next]_vars => BootstrapInv'
<1> SUFFICES ASSUME BootstrapInv, [Next]_vars PROVE BootstrapInv'
    OBVIOUS
<1>1. CASE UNCHANGED vars
    <2>1. UNCHANGED <<bucket, old, config, phase, work, order, cause, chunkFile, seriesFile, manifest>>
        BY <1>1 DEF vars, bucketVars, runVars, cacheDir
    <2>2. BasicTypes' /\ StageInv' /\ PurgedInv'
        BY <2>1 DEF BootstrapInv, BasicTypes, StageInv, PurgedInv
    <2>3. OrderInv'
        BY <2>1 DEF BootstrapInv, OrderInv, Doing
    <2>4. BuiltInv'
        BY <2>1 DEF BootstrapInv, BuiltInv, Reusable, CompletedManifest
    <2>5. CleanInv'
        BY <2>1 DEF BootstrapInv, CleanInv, StaleSeries, StaleManifests, Active, Doing
    <2> QED
        BY <2>2, <2>3, <2>4, <2>5 DEF BootstrapInv
<1>2. ASSUME NEW b \in Blocks, BlockStep(b) PROVE BootstrapInv'
    BY <1>2, ReadKeeps, PurgeKeeps, DownloadKeeps, ThreadKeeps, CleanupKeeps DEF BlockStep
<1>3. CASE ProcessStep
    BY <1>3, PhaseKeeps, StartBlockKeeps, CleanupKeeps, ProcessKeeps DEF ProcessStep
<1> QED
    BY <1>1, <1>2, <1>3, ErrorKeeps, ProcessKeeps DEF Next

\* The inductive invariant, of the whole behaviour.
LEMMA BootstrapInvariance == Spec => []BootstrapInv
BY InitBootstrap, StepKeeps, PTL DEF Spec

\* build_block_index keeps its types, and queues every task once.
THEOREM BlockIndexTypeCorrect == Spec => []TypeOK
<1>1. BootstrapInv => TypeOK
    <2> SUFFICES ASSUME BootstrapInv PROVE TypeOK
        OBVIOUS
    <2>1. order \in Seq(Blocks) /\ DOMAIN order = 1..Len(order)
        BY DEF BootstrapInv, OrderInv
    <2>2. {order[i] : i \in DOMAIN order} = Doing({"task"})
        BY <2>1 DEF BootstrapInv, OrderInv, Doing
    <2> QED
        BY <2>2 DEF BootstrapInv, BasicTypes, OrderInv, TypeOK
<1> QED
    BY <1>1, BootstrapInvariance, PTL

\* The manifests the blocks table is made of are those of the active blocks and
\* of no other, whatever fails and whenever the process is killed.
THEOREM ManifestsAreOfTheActive == Spec => []BlocksServed
<1>1. BootstrapInv => BlocksServed
    <2> SUFFICES ASSUME BootstrapInv, phase = "serve", NEW b \in Blocks
                 PROVE  manifest[b] = IF b \in Active THEN CompletedManifest ELSE None
        BY DEF BlocksServed
    <2>1. CASE b \in Active
        <3>1. work[b] = "built"
            BY <2>1 DEF BootstrapInv, StageInv, Active, Doing, InBuild, OnThread
        <3> QED
            BY <2>1, <3>1 DEF BootstrapInv, BuiltInv, Reusable
    <2>2. CASE b \notin Active
        BY <2>2 DEF BootstrapInv, CleanInv, StaleManifests
    <2> QED
        BY <2>1, <2>2
<1> QED
    BY <1>1, BootstrapInvariance, PTL

\* How a step may touch the files of a block.
LEMMA FilesChange ==
    ASSUME BootstrapInv, [Next]_vars, NEW b \in Blocks
    PROVE  \/ /\ chunkFile'[b] = chunkFile[b] /\ seriesFile'[b] = seriesFile[b] /\ manifest'[b] = manifest[b]
           \/ /\ config' = config /\ work' = work
              /\ \/ /\ phase = "purge" /\ chunkFile'[b] = None
                    /\ seriesFile'[b] = seriesFile[b] /\ manifest'[b] = manifest[b]
                 \/ /\ work[b] = "skipped" /\ chunkFile'[b] = chunkFile[b]
                    /\ \/ seriesFile'[b] = None /\ manifest'[b] = manifest[b]
                       \/ manifest'[b] = None /\ seriesFile'[b] = seriesFile[b]
           \/ /\ config' = config /\ work[b] \in OnThread
              /\ \/ /\ work'[b] = "series" /\ config.materialize /\ chunkFile'[b] = config.repository
                    /\ seriesFile'[b] = seriesFile[b] /\ manifest'[b] = manifest[b]
                 \/ /\ work'[b] = "manifest" /\ seriesFile'[b] = config.repository
                    /\ chunkFile'[b] = chunkFile[b] /\ manifest'[b] = manifest[b]
                 \/ /\ work[b] = "manifest" /\ manifest'[b] = CompletedManifest
                    /\ seriesFile'[b] = seriesFile[b] /\ chunkFile'[b] = chunkFile[b]
<1> DEFINE Same == chunkFile'[b] = chunkFile[b] /\ seriesFile'[b] = seriesFile[b] /\ manifest'[b] = manifest[b]
<1>1. /\ BasicTypes /\ StageInv
      /\ chunkFile \in [Blocks -> Repositories \cup {None}]
      /\ seriesFile \in [Blocks -> Repositories \cup {None}]
      /\ manifest \in [Blocks -> [repository : Repositories, materialize : BOOLEAN] \cup {None}]
      /\ work \in [Blocks -> Stages]
    BY DEF BootstrapInv, BasicTypes
<1>2. CASE UNCHANGED cacheDir
    BY <1>2 DEF cacheDir
<1>3. ASSUME NEW c \in Blocks, Purge(c), chunkFile' # chunkFile
      PROVE  Same \/ (config' = config /\ work' = work /\ phase = "purge" /\ chunkFile'[b] = None
                        /\ seriesFile'[b] = seriesFile[b] /\ manifest'[b] = manifest[b])
    <2>1. /\ phase = "purge" /\ chunkFile' = [chunkFile EXCEPT ![c] = None]
          /\ UNCHANGED <<config, work, seriesFile, manifest>>
        BY <1>3 DEF Purge, runVars
    <2> QED
        BY <1>1, <2>1
<1>4. ASSUME NEW c \in Blocks, CleanupSeries(c), seriesFile' # seriesFile
      PROVE  Same \/ (config' = config /\ work' = work /\ work[b] = "skipped" /\ seriesFile'[b] = None
                        /\ chunkFile'[b] = chunkFile[b] /\ manifest'[b] = manifest[b])
    <2>1. /\ phase = "cleanup" /\ c \in StaleSeries /\ seriesFile' = [seriesFile EXCEPT ![c] = None]
          /\ UNCHANGED <<config, work, chunkFile, manifest>>
        BY <1>4 DEF CleanupSeries, runVars
    <2>2. work[c] = "skipped"
        BY <1>1, <2>1 DEF StageInv, StaleSeries, Active, Doing
    <2> QED
        BY <1>1, <2>1, <2>2
<1>5. ASSUME NEW c \in Blocks, CleanupManifest(c), manifest' # manifest
      PROVE  Same \/ (config' = config /\ work' = work /\ work[b] = "skipped" /\ manifest'[b] = None
                        /\ chunkFile'[b] = chunkFile[b] /\ seriesFile'[b] = seriesFile[b])
    <2>1. /\ phase = "cleanup" /\ c \in StaleManifests /\ manifest' = [manifest EXCEPT ![c] = None]
          /\ UNCHANGED <<config, work, chunkFile, seriesFile>>
        BY <1>5 DEF CleanupManifest, runVars
    <2>2. work[c] = "skipped"
        BY <1>1, <2>1 DEF StageInv, StaleManifests, Active, Doing
    <2> QED
        BY <1>1, <2>1, <2>2
<1>6. ASSUME NEW c \in Blocks, RenameChunks(c)
      PROVE  Same \/ (config' = config /\ work[b] \in OnThread /\ work'[b] = "series" /\ config.materialize
                        /\ chunkFile'[b] = config.repository
                        /\ seriesFile'[b] = seriesFile[b] /\ manifest'[b] = manifest[b])
    <2>1. /\ config.materialize /\ work[c] = "write" /\ work' = [work EXCEPT ![c] = "series"]
          /\ chunkFile' = [chunkFile EXCEPT ![c] = config.repository]
          /\ UNCHANGED <<config, seriesFile, manifest>>
        BY <1>6 DEF RenameChunks, ThreadStep, SetWork
    <2> QED
        BY <1>1, <2>1 DEF OnThread
<1>7. ASSUME NEW c \in Blocks, RenameSeries(c)
      PROVE  Same \/ (config' = config /\ work[b] \in OnThread /\ work'[b] = "manifest"
                        /\ seriesFile'[b] = config.repository
                        /\ chunkFile'[b] = chunkFile[b] /\ manifest'[b] = manifest[b])
    <2>1. /\ work[c] \in OnThread /\ work' = [work EXCEPT ![c] = "manifest"]
          /\ seriesFile' = [seriesFile EXCEPT ![c] = config.repository]
          /\ UNCHANGED <<config, chunkFile, manifest>>
        BY <1>7 DEF RenameSeries, ThreadStep, SetWork, OnThread
    <2> QED
        BY <1>1, <2>1
<1>8. ASSUME NEW c \in Blocks, WriteManifest(c)
      PROVE  Same \/ (config' = config /\ work[b] \in OnThread /\ work[b] = "manifest"
                        /\ manifest'[b] = CompletedManifest
                        /\ seriesFile'[b] = seriesFile[b] /\ chunkFile'[b] = chunkFile[b])
    <2>1. /\ work[c] = "manifest" /\ manifest' = [manifest EXCEPT ![c] = CompletedManifest]
          /\ UNCHANGED <<config, chunkFile, seriesFile>>
        BY <1>8 DEF WriteManifest, ThreadStep, SetWork
    <2> QED
        BY <1>1, <2>1 DEF OnThread
<1>9. \/ UNCHANGED cacheDir
      \/ \E c \in Blocks :
            \/ Purge(c) /\ chunkFile' # chunkFile
            \/ CleanupSeries(c) /\ seriesFile' # seriesFile
            \/ CleanupManifest(c) /\ manifest' # manifest
            \/ RenameChunks(c) \/ RenameSeries(c) \/ WriteManifest(c)
    <2>1. CASE UNCHANGED vars
        BY <2>1 DEF vars
    <2>2. ASSUME NEW c \in Blocks, BlockStep(c)
          PROVE  \/ UNCHANGED cacheDir
                 \/ Purge(c) /\ chunkFile' # chunkFile
                 \/ CleanupSeries(c) /\ seriesFile' # seriesFile
                 \/ CleanupManifest(c) /\ manifest' # manifest
                 \/ RenameChunks(c) \/ RenameSeries(c) \/ WriteManifest(c)
        <3>1. CASE ListEntry(c) \/ StartMeta(c) \/ CheckMark(c) \/ ReadMeta(c) \/ Download(c)
            BY <3>1 DEF ListEntry, StartMeta, CheckMark, ReadMeta, Download
        <3>2. CASE Purge(c)
            BY <3>2 DEF Purge, cacheDir
        <3>3. CASE CleanupSeries(c)
            BY <3>3 DEF CleanupSeries, cacheDir
        <3>4. CASE CleanupManifest(c)
            BY <3>4 DEF CleanupManifest, cacheDir
        <3> QED
            BY <2>2, <3>1, <3>2, <3>3, <3>4 DEF BlockStep
    <2>3. ASSUME NEW c \in Blocks, ThreadError(c) \/ Grow(c) \/ Age(c) PROVE UNCHANGED cacheDir
        BY <2>3 DEF ThreadError, Grow, Age
    <2>4. CASE ProcessStep \/ StoreError \/ Kill
        BY <2>4 DEF ProcessStep, EndList, EndMetadata, EndPurge, StartBlock, EndBuild, Serve, Exit,
                    StoreError, Kill
    <2>5. ASSUME NEW c \in Configs, Start(c) PROVE UNCHANGED cacheDir
        BY <2>5 DEF Start
    <2> QED
        BY <2>1, <2>2, <2>3, <2>4, <2>5 DEF Next
<1> QED
    BY <1>2, <1>3, <1>4, <1>5, <1>6, <1>7, <1>8, <1>9

\* A bootstrap "can resume after a restart": what could be reused stays so, until
\* the configuration changes or the block turns out not to be active.
THEOREM ProgressIsKept == Spec => ProgressKept
<1>1. BootstrapInv /\ [Next]_vars =>
        \A b \in Blocks : Reusable(b) /\ ~Reusable(b)' => config' # config \/ work[b] = "skipped"
    <2> SUFFICES ASSUME BootstrapInv, [Next]_vars, NEW b \in Blocks,
                        Reusable(b), config' = config, work[b] # "skipped"
                 PROVE  Reusable(b)'
        OBVIOUS
    <2>1. config.repository # None
        BY ConfigFacts DEF BootstrapInv, BasicTypes
    <2>2. Reusable(b)' <=> /\ seriesFile'[b] # None
                           /\ config.materialize => chunkFile'[b] # None
                           /\ manifest'[b] = CompletedManifest
        BY DEF Reusable, CompletedManifest
    <2>3. phase = "purge" => ~config.materialize
        BY DEF BootstrapInv, PurgedInv
    <2> QED
        BY <2>1, <2>2, <2>3, FilesChange DEF Reusable
<1> QED
    BY <1>1, BootstrapInvariance, PTL DEF ProgressKept, Spec

-----------------------------------------------------------------------------
(* Deleted blocks. *)

\* A deleted block that this bootstrap, or a later one, will not index.
Away(b) ==
    /\ bucket[b] \in {"marked", "headless", "gone"}
    /\ work[b] \in {"idle", "listed", "skipped"} \cup InMetaRead
    /\ work[b] = "meta" => bucket[b] = "gone"

\* Once a block is away, no step brings it back.
LEMMA AwayKept ==
    ASSUME BootstrapInv, [Next]_vars, NEW b \in Blocks, Away(b)
    PROVE  Away(b)'
<1>1. /\ work \in [Blocks -> Stages] /\ order \in Seq(Blocks) /\ StageInv
      /\ bucket \in [Blocks -> {"absent", "live", "marked", "headless", "gone"}]
      /\ work[b] \notin {"task", "download", "write", "series", "manifest", "built"}
    BY DEF BootstrapInv, BasicTypes, OrderInv, Away, InMetaRead
<1>2. ASSUME UNCHANGED <<bucketVars, work>> PROVE Away(b)'
    BY <1>2 DEF Away, bucketVars
<1>3. ASSUME NEW why, NEW lost, FailWith(why, lost), UNCHANGED bucketVars PROVE Away(b)'
    <2>1. work'[b] = "idle" /\ bucket'[b] = bucket[b]
        BY <1>1, <1>3 DEF FailWith, OnThread, bucketVars
    <2> QED
        BY <2>1 DEF Away
<1>4. ASSUME NEW c \in Blocks, NEW from, NEW to, SetWork(c, from, to), c # b, UNCHANGED bucketVars
      PROVE  Away(b)'
    <2>1. work'[b] = work[b] /\ bucket'[b] = bucket[b]
        BY <1>1, <1>4 DEF SetWork, bucketVars
    <2> QED
        BY <2>1 DEF Away
<1>5. ASSUME NEW c \in Blocks, BlockStep(c) PROVE Away(b)'
    <2>1. CASE Purge(c) \/ CleanupSeries(c) \/ CleanupManifest(c)
        <3>1. UNCHANGED bucketVars /\ (UNCHANGED work \/ FailWith("disk", {}))
            BY <2>1 DEF Purge, CleanupSeries, CleanupManifest, Fail, runVars
        <3> QED
            BY <1>2, <1>3, <3>1
    <2>2. CASE RenameChunks(c) \/ RenameSeries(c) \/ WriteManifest(c)
        <3>1. UNCHANGED bucketVars /\ \E from \in OnThread, to \in Stages : SetWork(c, from, to)
            BY <2>2 DEF RenameChunks, RenameSeries, WriteManifest, ThreadStep, OnThread, Stages, InBuild
        <3>2. c # b
            BY <1>1, <3>1 DEF SetWork, OnThread
        <3> QED
            BY <1>4, <3>1, <3>2
    <2>3. CASE Download(c)
        <3>1. UNCHANGED bucketVars /\ c # b
              /\ (SetWork(c, "download", "write") \/ FailWith("index disappeared", {}))
            BY <1>1, <2>3 DEF Download, Fail
        <3> QED
            BY <1>3, <1>4, <3>1
    <2>4. CASE ListEntry(c)
        <3>1. UNCHANGED bucketVars /\ \E to \in {"listed", "skipped"} : SetWork(c, "idle", to)
            BY <2>4 DEF ListEntry
        <3>2. CASE c = b
            BY <1>1, <3>1, <3>2 DEF SetWork, Away, bucketVars, InMetaRead
        <3> QED
            BY <1>4, <3>1, <3>2
    <2>5. CASE StartMeta(c)
        <3>1. UNCHANGED bucketVars /\ SetWork(c, "listed", "mark")
            BY <2>5 DEF StartMeta
        <3>2. CASE c = b
            BY <1>1, <3>1, <3>2 DEF SetWork, Away, bucketVars, InMetaRead
        <3> QED
            BY <1>4, <3>1, <3>2
    <2>6. CASE CheckMark(c)
        <3>1. UNCHANGED bucketVars /\ \E to \in {"skipped", "meta"} : SetWork(c, "mark", to)
            BY <2>6 DEF CheckMark
        <3>2. CASE c = b
            <4>1. /\ work' = [work EXCEPT ![b] = IF HasMark(b) THEN "skipped" ELSE "meta"]
                  /\ bucket' = bucket
                BY <2>6, <3>1, <3>2 DEF CheckMark, SetWork, bucketVars
            <4>2. HasMark(b) \/ bucket[b] = "gone"
                BY DEF Away, HasMark
            <4> QED
                BY <1>1, <4>1, <4>2 DEF Away, InMetaRead
        <3> QED
            BY <1>4, <3>1, <3>2
    <2>7. CASE ReadMeta(c)
        <3>1. /\ UNCHANGED bucketVars
              /\ \/ HasMeta(c) /\ \E to \in {"skipped", "task"} : SetWork(c, "meta", to)
                 \/ FailWith("metadata disappeared", {}) \/ FailWith("corrupt", {})
            BY <2>7 DEF ReadMeta, Fail
        <3>2. c = b => ~HasMeta(b)
            BY <2>7 DEF ReadMeta, Away, HasMeta
        <3> QED
            BY <1>3, <1>4, <3>1, <3>2
    <2> QED
        BY <1>5, <2>1, <2>2, <2>3, <2>4, <2>5, <2>6, <2>7 DEF BlockStep
<1>6. ASSUME NEW c \in Blocks, ThreadError(c) PROVE Away(b)'
    <2>1. UNCHANGED bucketVars /\ (FailWith("disk", {c}) \/ FailWith("corrupt", {c}))
        BY <1>6 DEF ThreadError
    <2> QED
        BY <1>3, <2>1
<1>7. ASSUME NEW c \in Blocks, Grow(c) PROVE Away(b)'
    <2>1. work' = work
        BY <1>7 DEF Grow, runVars
    <2>2. PICK i \in 1..4 : bucket[c] = Life[i] /\ bucket' = [bucket EXCEPT ![c] = Life[i + 1]]
        BY <1>7 DEF Grow
    <2>3. CASE c = b
        <3>1. \/ bucket[b] = "marked" /\ bucket'[b] = "headless"
              \/ bucket[b] = "headless" /\ bucket'[b] = "gone"
            BY <1>1, <2>2, <2>3 DEF Life, Away
        <3> QED
            BY <2>1, <3>1 DEF Away
    <2>4. CASE c # b
        BY <1>1, <2>1, <2>2, <2>4 DEF Away
    <2> QED
        BY <2>3, <2>4
<1>8. ASSUME NEW c \in Blocks, Age(c) PROVE Away(b)'
    BY <1>8 DEF Age, runVars, Away
<1>9. CASE StartBlock
    <2>1. order # <<>> /\ UNCHANGED bucketVars
          /\ \/ \E to \in {"built", "download"} : SetWork(Head(order), "task", to)
             \/ FailWith("disk", {})
        BY <1>9 DEF StartBlock, Fail
    <2>2. Head(order) \in Blocks
        BY <1>1, <2>1
    <2>3. CASE FailWith("disk", {})
        BY <1>3, <2>1, <2>3
    <2>4. CASE \E to \in {"built", "download"} : SetWork(Head(order), "task", to)
        <3>1. Head(order) # b
            BY <1>1, <2>4 DEF SetWork
        <3> QED
            BY <1>4, <2>1, <2>2, <2>4, <3>1
    <2> QED
        BY <2>1, <2>3, <2>4
<1>10. CASE EndList \/ EndMetadata \/ EndPurge \/ EndBuild \/ Exit \/ \E c \in Configs : Start(c)
    BY <1>2, <1>10 DEF EndList, EndMetadata, EndPurge, EndBuild, Exit, Start
<1>11. CASE Serve \/ StoreError
    <2>1. UNCHANGED bucketVars /\ (UNCHANGED work \/ FailWith("disk", {}) \/ FailWith("store", {}))
        BY <1>11 DEF Serve, StoreError, Fail
    <2> QED
        BY <1>2, <1>3, <2>1
<1>12. CASE Kill
    BY <1>12 DEF Kill, Away, bucketVars
<1>13. CASE UNCHANGED vars
    BY <1>2, <1>13 DEF vars, runVars
<1> QED
    BY <1>5, <1>6, <1>7, <1>8, <1>9, <1>10, <1>11, <1>12, <1>13 DEF Next, ProcessStep

\* read_block_meta: a block that has a deletion mark when it is listed is not
\* indexed, in that bootstrap or in any later one.
THEOREM DeletedBlocksStayAway == Spec => DeletedStayAway
<1> SUFFICES ASSUME NEW b \in Blocks
             PROVE  Spec => [](phase = "list" /\ bucket[b] \in {"marked", "headless", "gone"} => [](b \notin Active))
    BY Zenon DEF DeletedStayAway
<1>1. BootstrapInv /\ phase = "list" /\ bucket[b] \in {"marked", "headless", "gone"} => Away(b)
    BY DEF BootstrapInv, StageInv, Away
<1>2. BootstrapInv /\ Away(b) /\ [Next]_vars => Away(b)'
    BY AwayKept
<1>3. Away(b) => b \notin Active
    BY DEF Away, Active, Doing, InMetaRead, InBuild, OnThread
<1> QED
    BY <1>1, <1>2, <1>3, BootstrapInvariance, PTL DEF Spec

-----------------------------------------------------------------------------
(* The rows in the files. *)

\* Either nothing breaks off a thread between its renames and its manifest, or
\* every start names the same repository.  Without this the property is false:
\* a thread that is cut short leaves rows of one repository beside a manifest
\* of another.
Settled ==
    \/ Faults \cap {"disk", "crash"} = {}
    \/ \A c, d \in Configs : c.repository = d.repository

\* The rows of a block are those that its manifest names.
Consistent(b) ==
    manifest[b] # None =>
        /\ seriesFile[b] \in {None, manifest[b].repository}
        /\ manifest[b].materialize => chunkFile[b] \in {None, manifest[b].repository}

\* It is so but while a thread is between its renames and the manifest.
AgreeInv == \A b \in Blocks : work[b] \in {"series", "manifest"} \/ Consistent(b)

\* All rows are of the repository that is configured.
HereInv ==
    \A b \in Blocks :
        /\ seriesFile[b] \in {None, config.repository}
        /\ chunkFile[b] \in {None, config.repository}
        /\ manifest[b] # None => manifest[b].repository = config.repository

\* A thread that has renamed a file goes on to its manifest if no system call
\* fails and nobody kills the bootstrap.
LEMMA ThreadGoesOn ==
    ASSUME BootstrapInv, [Next]_vars, NEW b \in Blocks,
           Faults \cap {"disk", "crash"} = {}, work[b] \in {"series", "manifest"}
    PROVE  \/ work'[b] \in {"series", "manifest"}
           \/ work[b] = "manifest" /\ config' = config
              /\ manifest'[b] = CompletedManifest
              /\ seriesFile'[b] = seriesFile[b] /\ chunkFile'[b] = chunkFile[b]
<1>1. /\ work \in [Blocks -> Stages] /\ order \in Seq(Blocks) /\ StageInv /\ BuiltInv
      /\ phase \in {"build", "failed"} /\ work[b] \in OnThread
      /\ manifest \in [Blocks -> [repository : Repositories, materialize : BOOLEAN] \cup {None}]
      /\ \A i \in 1..Len(order) : order[i] # b
    BY BuildPhase DEF BootstrapInv, BasicTypes, OrderInv, InBuild, OnThread
<1>2. ASSUME UNCHANGED work PROVE work'[b] \in {"series", "manifest"}
    BY <1>2
<1>3. ASSUME NEW why, NEW lost, FailWith(why, lost), b \notin lost PROVE work'[b] \in {"series", "manifest"}
    BY <1>1, <1>3 DEF FailWith
<1>4. ASSUME NEW c, NEW from, NEW to, SetWork(c, from, to), c # b PROVE work'[b] \in {"series", "manifest"}
    BY <1>1, <1>4 DEF SetWork
<1>5. ASSUME NEW c \in Blocks, BlockStep(c), ~WriteManifest(c)
      PROVE  work'[b] \in {"series", "manifest"}
    <2>1. CASE Purge(c) \/ CleanupSeries(c) \/ CleanupManifest(c)
        <3>1. UNCHANGED work \/ FailWith("disk", {})
            BY <2>1 DEF Purge, CleanupSeries, CleanupManifest, Fail, runVars
        <3> QED
            BY <1>2, <1>3, <3>1
    <2>2. CASE RenameChunks(c) \/ RenameSeries(c)
        <3>1. \E from \in OnThread, to \in {"series", "manifest"} : SetWork(c, from, to)
            BY <2>2 DEF RenameChunks, RenameSeries, ThreadStep, OnThread
        <3> QED
            BY <1>1, <1>4, <3>1 DEF SetWork
    <2>3. CASE Download(c) \/ ListEntry(c) \/ StartMeta(c) \/ CheckMark(c) \/ ReadMeta(c)
        <3>1. \/ \E why \in {"index disappeared", "metadata disappeared", "corrupt"} : FailWith(why, {})
              \/ \E from \in {"download", "idle", "listed", "mark", "meta"}, to \in Stages : SetWork(c, from, to)
            BY <2>3 DEF Download, ListEntry, StartMeta, CheckMark, ReadMeta, Fail, Stages,
                        InMetaRead, InBuild, OnThread
        <3>2. CASE \E why \in {"index disappeared", "metadata disappeared", "corrupt"} : FailWith(why, {})
            BY <1>3, <3>2
        <3>3. CASE \E from \in {"download", "idle", "listed", "mark", "meta"}, to \in Stages : SetWork(c, from, to)
            <4>1. c # b
                BY <3>3 DEF SetWork
            <4> QED
                BY <1>4, <3>3, <4>1
        <3> QED
            BY <3>1, <3>2, <3>3
    <2> QED
        BY <1>5, <2>1, <2>2, <2>3 DEF BlockStep
<1>6. ASSUME NEW c \in Blocks, WriteManifest(c)
      PROVE  \/ work'[b] \in {"series", "manifest"}
             \/ work[b] = "manifest" /\ config' = config
                /\ manifest'[b] = CompletedManifest
                /\ seriesFile'[b] = seriesFile[b] /\ chunkFile'[b] = chunkFile[b]
    <2>1. CASE c = b
        BY <1>1, <1>6, <2>1 DEF WriteManifest, ThreadStep, SetWork
    <2>2. CASE c # b
        <3>1. \E to \in Stages : SetWork(c, "manifest", to)
            BY <1>6 DEF WriteManifest, ThreadStep, Stages
        <3> QED
            BY <1>4, <2>2, <3>1
    <2> QED
        BY <2>1, <2>2
<1>7. ASSUME NEW c \in Blocks, ThreadError(c) PROVE work'[b] \in {"series", "manifest"}
    <2>1. work[c] = "write" /\ FailWith("corrupt", {c})
        BY <1>7 DEF ThreadError
    <2> QED
        BY <1>3, <2>1
<1>8. ASSUME NEW c \in Blocks, Grow(c) \/ Age(c) PROVE work'[b] \in {"series", "manifest"}
    BY <1>2, <1>8 DEF Grow, Age, runVars
<1>9. CASE StartBlock
    <2>1. order # <<>>
          /\ \/ \E to \in {"built", "download"} : SetWork(Head(order), "task", to)
             \/ FailWith("disk", {})
        BY <1>9 DEF StartBlock, Fail
    <2>2. CASE FailWith("disk", {})
        BY <1>3, <2>2
    <2>3. CASE \E to \in {"built", "download"} : SetWork(Head(order), "task", to)
        <3>1. Head(order) # b
            BY <2>3 DEF SetWork
        <3> QED
            BY <1>4, <2>3, <3>1
    <2> QED
        BY <2>1, <2>2, <2>3
<1>10. CASE EndList \/ EndMetadata \/ EndPurge \/ EndBuild \/ Exit \/ \E c \in Configs : Start(c)
    BY <1>2, <1>10 DEF EndList, EndMetadata, EndPurge, EndBuild, Exit, Start
<1>11. CASE Serve \/ StoreError
    <2>1. UNCHANGED work \/ FailWith("disk", {}) \/ FailWith("store", {})
        BY <1>11 DEF Serve, StoreError, Fail
    <2> QED
        BY <1>2, <1>3, <2>1
<1>12. ~Kill
    BY <1>1 DEF Kill
<1>13. CASE UNCHANGED vars
    BY <1>2, <1>13 DEF vars, runVars
<1> QED
    BY <1>5, <1>6, <1>7, <1>8, <1>9, <1>10, <1>11, <1>12, <1>13 DEF Next, ProcessStep

\* Reconfigurations alone leave the rows and the manifests in agreement.
LEMMA AgreementKept ==
    ASSUME BootstrapInv, AgreeInv, [Next]_vars, Faults \cap {"disk", "crash"} = {}
    PROVE  AgreeInv'
<1> SUFFICES ASSUME NEW b \in Blocks, work'[b] \notin {"series", "manifest"}
             PROVE  Consistent(b)'
    BY DEF AgreeInv
<1>1. /\ config \in Configs /\ config.repository # None /\ config.materialize \in BOOLEAN
      /\ BuiltInv /\ CompletedManifest.repository = config.repository
      /\ CompletedManifest.materialize = config.materialize
    BY ConfigFacts DEF BootstrapInv, BasicTypes, CompletedManifest
<1>2. Consistent(b)' <=>
        (manifest'[b] # None =>
            /\ seriesFile'[b] \in {None, manifest'[b].repository}
            /\ manifest'[b].materialize => chunkFile'[b] \in {None, manifest'[b].repository})
    BY DEF Consistent
<1>3. CASE work[b] \in {"series", "manifest"}
    <2>1. /\ work[b] = "manifest" /\ manifest'[b] = CompletedManifest
          /\ seriesFile'[b] = seriesFile[b] /\ chunkFile'[b] = chunkFile[b]
        BY <1>3, ThreadGoesOn
    <2>2. seriesFile[b] = config.repository /\ (config.materialize => chunkFile[b] = config.repository)
        BY <1>1, <2>1 DEF BuiltInv
    <2> QED
        BY <1>1, <1>2, <2>1, <2>2
<1>4. CASE work[b] \notin {"series", "manifest"}
    <2>1. Consistent(b)
        BY <1>4 DEF AgreeInv
    <2> QED
        BY <1>2, <1>4, <2>1, FilesChange DEF Consistent
<1> QED
    BY <1>3, <1>4

\* Only a start changes the configuration.
LEMMA ConfigChanges ==
    ASSUME BootstrapInv, [Next]_vars
    PROVE  config' \in Configs
BY StepKeeps DEF BootstrapInv, BasicTypes

\* With one repository every row names it.
LEMMA HereKept ==
    ASSUME BootstrapInv, HereInv, [Next]_vars, \A c, d \in Configs : c.repository = d.repository
    PROVE  HereInv'
<1> SUFFICES ASSUME NEW b \in Blocks
             PROVE  /\ seriesFile'[b] \in {None, config'.repository}
                    /\ chunkFile'[b] \in {None, config'.repository}
                    /\ manifest'[b] # None => manifest'[b].repository = config'.repository
    BY DEF HereInv
<1>1. config'.repository = config.repository /\ CompletedManifest.repository = config.repository
    <2>1. config \in Configs /\ config' \in Configs
        BY ConfigChanges DEF BootstrapInv, BasicTypes
    <2> QED
        BY <2>1 DEF CompletedManifest
<1> QED
    BY <1>1, FilesChange DEF HereInv

\* What the rows of a block name while the reader serves.
LEMMA RowsOfServed ==
    ASSUME BootstrapInv, phase = "serve", NEW b \in Blocks, HereInv \/ AgreeInv
    PROVE  /\ seriesFile[b] = IF b \in Active THEN config.repository ELSE None
           /\ IF config.materialize THEN b \in Active => chunkFile[b] = config.repository
                                    ELSE chunkFile[b] = None
<1>1. BuiltInv /\ PurgedInv /\ StaleSeries = {} /\ work[b] \in {"skipped", "built"}
    BY DEF BootstrapInv, CleanInv, StageInv
<1>2. CASE b \in Active
    <2>1. Reusable(b) /\ work[b] = "built"
        BY <1>1, <1>2 DEF BuiltInv, Active, Doing, InBuild, OnThread
    <2>2. /\ manifest[b] = CompletedManifest /\ manifest[b] # None
          /\ manifest[b].repository = config.repository /\ manifest[b].materialize = config.materialize
        <3>1. manifest[b] = CompletedManifest
            BY <2>1 DEF Reusable
        <3>2. config \in Configs
            BY DEF BootstrapInv, BasicTypes
        <3>3. CompletedManifest \in [repository : Repositories, materialize : BOOLEAN]
            BY <3>2, ConfigFacts DEF CompletedManifest
        <3>4. CompletedManifest # None
            BY <3>3, NoneAssumption
        <3> QED
            BY <3>1, <3>4 DEF CompletedManifest
    <2>3. HereInv \/ Consistent(b)
        BY <2>1 DEF AgreeInv
    <2> QED
        BY <1>1, <1>2, <2>1, <2>2, <2>3 DEF HereInv, Consistent, Reusable, PurgedInv
<1>3. CASE b \notin Active
    BY <1>1, <1>3 DEF StaleSeries, PurgedInv
<1> QED
    BY <1>2, <1>3

\* In the first state there is no file.
LEMMA InitAgrees == Init => AgreeInv /\ HereInv
BY DEF Init, AgreeInv, HereInv, Consistent

\* In either case what the rows name is as it should be, throughout.
LEMMA RowsInvariance ==
    ASSUME Settled
    PROVE  Spec => [](BootstrapInv /\ (HereInv \/ AgreeInv))
<1>1. CASE Faults \cap {"disk", "crash"} = {}
    <2>1. BootstrapInv /\ AgreeInv /\ [Next]_vars => AgreeInv'
        BY <1>1, AgreementKept
    <2> QED
        BY <2>1, InitAgrees, BootstrapInvariance, PTL DEF Spec
<1>2. CASE \A c, d \in Configs : c.repository = d.repository
    <2>1. BootstrapInv /\ HereInv /\ [Next]_vars => HereInv'
        BY <1>2, HereKept
    <2> QED
        BY <2>1, InitAgrees, BootstrapInvariance, PTL DEF Spec
<1> QED
    BY <1>1, <1>2 DEF Settled

\* While the reader serves, the series table holds the rows of the active blocks
\* and of no other, each naming the repository that is configured now.
THEOREM SeriesAreOfTheActive ==
    ASSUME Settled
    PROVE  Spec => []SeriesServed
<1>1. BootstrapInv /\ (HereInv \/ AgreeInv) => SeriesServed
    BY RowsOfServed DEF SeriesServed
<1> QED
    BY <1>1, RowsInvariance, PTL

\* With materialize_chunk_index the chunks table holds the rows of the active
\* blocks, as configured now; without it no chunk file is left.
THEOREM ChunksAreOfTheActive ==
    ASSUME Settled
    PROVE  Spec => []ChunksServed
<1>1. BootstrapInv /\ (HereInv \/ AgreeInv) => ChunksServed
    BY RowsOfServed DEF ChunksServed
<1> QED
    BY <1>1, RowsInvariance, PTL
=============================================================================
