----------------------------- MODULE RangeCache -----------------------------
(***************************************************************************)
(* The chunk page cache at work (storage/mod.rs): readers that ask for     *)
(* ranges of pages, the shared page loads ("flights") they wait for, the   *)
(* page files on the local disk, and a process that may be killed.         *)
(*                                                                         *)
(* A step is what runs between two points where another thread can         *)
(* interleave: a critical section of the state mutex, an operation on the  *)
(* flights map, a system call on a file, or an answer of the object store. *)
(* A flight is a futures::future::Shared: it has no task of its own and    *)
(* advances only while some reader that awaits it is polled.               *)
(***************************************************************************)
EXTENDS CacheState

CONSTANTS
    Readers,     \* tasks that run Repository::read_range, one read at a time
    Ranges,      \* the sequences of pages a range read may ask for
    FlightIds,   \* names for the flights alive at once
    InodeNumbers, \* with a page, names for the files created for it that are alive
    Faults,      \* what may go wrong: a set of the four strings below
    None

ASSUME RangesAssumption == Ranges \subseteq Seq(Keys) \ {<<>>}
ASSUME NamesAssumption ==
    /\ FlightIds \subseteq Nat /\ InodeNumbers \subseteq Nat
    /\ None \notin FlightIds \cup Keys \cup (Keys \X InodeNumbers)
ASSUME FaultsAssumption == Faults \subseteq {"store", "disk", "cancel", "crash"}

VARIABLES
    pc,         \* where each reader is
    todo,       \* the pages it still has to get, the current one first
    joined,     \* the flight it holds a handle of
    flights,    \* the DashMap `flights': page -> flight
    step,       \* where each flight is
    page,       \* the page each flight loads
    fd,         \* the temporary file a flight has open
    doomed,     \* the evicted pages whose files a flight still has to unlink
    pageFile,   \* the directory: page -> inode published under its name
    tmpFile,    \* the directory: page -> inode under its temporary name
    content     \* what an inode holds: all bytes of a page, or None if truncated

readerVars == <<pc, todo, joined>>
flightVars == <<flights, step, page, fd, doomed>>
diskVars   == <<pageFile, tmpFile, content>>
vars == <<cacheVars, readerVars, flightVars, diskVars>>

-----------------------------------------------------------------------------
Resting == {"idle", "ok", "eof", "error"}   \* "ok", "eof", "error": the reply
Working == {"load", "read", "forget", "miss", "await"}
Landed  == {"ready", "failed"}
FlightSteps == {"unused", "fetch", "create", "write", "rename", "insert", "unlink"}
                 \cup Landed

current(r) == Head(todo[r])

\* Faulty: a flight dies when the map forgets it.
HeldByMap(f, map, handles) == \E k \in Keys : map[k] = f

\* A flight lives as long as the map or a reader holds a handle of it.
Held(f, map, handles) ==
    (\E k \in Keys : map[k] = f) \/ (\E r \in Readers : handles[r] = f)

\* Dropping the last handle drops the future with everything it holds.
DropHandles(map, handles) ==
    /\ flights' = map
    /\ joined' = handles
    /\ step' = [f \in FlightIds |-> IF Held(f, map, handles) THEN step[f] ELSE "unused"]
    /\ fd' = [f \in FlightIds |-> IF Held(f, map, handles) THEN fd[f] ELSE None]
    /\ doomed' = [f \in FlightIds |-> IF Held(f, map, handles) THEN doomed[f] ELSE {}]
    /\ page' = [f \in FlightIds |-> IF Held(f, map, handles) THEN page[f] ELSE None]

\* Some reader polls the flight.
Driven(f) == \E r \in Readers : joined[r] = f

UnusedFlights == {f \in FlightIds : step[f] = "unused"}
Least(n, S) == n \in S /\ \A m \in S : n <= m

\* Inodes are anonymous: one that no name and no open file refers to is free,
\* and a new file for page k takes the first free one of those set aside for k.
Inodes == Keys \X InodeNumbers
InUse(i) == \/ \E k \in Keys : pageFile[k] = i \/ tmpFile[k] = i
            \/ \E f \in FlightIds : fd[f] = i
NewInode(i, k) ==
    /\ i[1] = k
    /\ Least(i[2], {n \in InodeNumbers : ~InUse(<<k, n>>)})

-----------------------------------------------------------------------------
Init ==
    /\ CacheInit
    /\ pc = [r \in Readers |-> "idle"]
    /\ todo = [r \in Readers |-> <<>>]
    /\ joined = [r \in Readers |-> None]
    /\ flights = [k \in Keys |-> None]
    /\ step = [f \in FlightIds |-> "unused"]
    /\ page = [f \in FlightIds |-> None]
    /\ fd = [f \in FlightIds |-> None]
    /\ doomed = [f \in FlightIds |-> {}]
    /\ pageFile = [k \in Keys |-> None]
    /\ tmpFile = [k \in Keys |-> None]
    /\ content = [i \in Inodes |-> None]

(* The reader. *)

Start(r, range) ==
    /\ pc[r] \in Resting
    /\ pc' = [pc EXCEPT ![r] = "load"]
    /\ todo' = [todo EXCEPT ![r] = range]
    /\ UNCHANGED <<cacheVars, joined, flightVars, diskVars>>

\* read_range goes on to the next page, or returns.
PageServed(r) ==
    /\ todo' = [todo EXCEPT ![r] = Tail(@)]
    /\ pc' = [pc EXCEPT ![r] = IF Len(todo[r]) = 1 THEN "ok" ELSE "load"]

\* Faulty: an early reply leaves the rest of the range behind.
ReplyOnly(r, outcome) == pc' = [pc EXCEPT ![r] = outcome] /\ UNCHANGED todo

Reply(r, outcome) ==
    /\ todo' = [todo EXCEPT ![r] = <<>>]
    /\ pc' = [pc EXCEPT ![r] = outcome]

\* load_cached, under the mutex: a miss, or a hit that is touched.
Load(r) ==
    /\ pc[r] = "load"
    /\ \/ /\ current(r) \notin entries
          /\ pc' = [pc EXCEPT ![r] = "miss"]
          /\ UNCHANGED cacheVars
       \/ /\ Touch(current(r))
          /\ pc' = [pc EXCEPT ![r] = "read"]
    /\ UNCHANGED <<todo, joined, flightVars, diskVars>>

\* load_cached, std::fs::read after the mutex is released.  A truncated file
\* fails the bounds check of read_range; an error other than NotFound is the
\* reader's.
ReadFile(r) ==
    LET inode == pageFile[current(r)] IN
    /\ pc[r] = "read"
    /\ \/ inode # None /\ content[inode] # None /\ PageServed(r)
       \/ inode # None /\ content[inode] = None /\ Reply(r, "eof")
       \/ inode = None /\ pc' = [pc EXCEPT ![r] = "forget"] /\ UNCHANGED todo
       \/ "disk" \in Faults /\ Reply(r, "error")
    /\ UNCHANGED <<cacheVars, joined, flightVars, diskVars>>

\* load_cached, the file was NotFound: the mutex is taken again.
ForgetEntry(r) ==
    /\ pc[r] = "forget"
    /\ Forget(current(r))
    /\ pc' = [pc EXCEPT ![r] = "miss"]
    /\ UNCHANGED <<todo, joined, flightVars, diskVars>>

\* flights.entry(key).or_insert_with(..).clone()
JoinFlight(r) ==
    LET k == current(r) IN
    /\ pc[r] = "miss"
    /\ pc' = [pc EXCEPT ![r] = "await"]
    /\ \/ /\ flights[k] # None
          /\ joined' = [joined EXCEPT ![r] = flights[k]]
          /\ UNCHANGED <<flights, step, page>>
       \/ /\ flights[k] = None
          /\ \E f \in FlightIds :
               /\ Least(f, UnusedFlights)
               /\ flights' = [flights EXCEPT ![k] = f]
               /\ joined' = [joined EXCEPT ![r] = f]
               /\ step' = [step EXCEPT ![f] = "fetch"]
               /\ page' = [page EXCEPT ![f] = k]
    /\ UNCHANGED <<cacheVars, todo, fd, doomed, diskVars>>

\* Faulty: the flight stays in the map.
LeaveFlightBehind(r) ==
    /\ pc[r] = "await"
    /\ step[joined[r]] \in Landed
    /\ DropHandles(flights, [joined EXCEPT ![r] = None])
    /\ IF step[joined[r]] = "ready" THEN PageServed(r) ELSE Reply(r, "error")
    /\ UNCHANGED <<cacheVars, diskVars>>

\* Faulty: only a success wakes the readers of a flight.
LeaveFlightOnSuccess(r) ==
    /\ pc[r] = "await"
    /\ step[joined[r]] = "ready"
    /\ DropHandles([flights EXCEPT ![current(r)] = None], [joined EXCEPT ![r] = None])
    /\ PageServed(r)
    /\ UNCHANGED <<cacheVars, diskVars>>

\* The shared future is done: the reader removes whatever flight the map now
\* has under its key, then goes on with the page or fails.
LeaveFlight(r) ==
    /\ pc[r] = "await"
    /\ step[joined[r]] \in Landed
    /\ DropHandles([flights EXCEPT ![current(r)] = None], [joined EXCEPT ![r] = None])
    /\ IF step[joined[r]] = "ready" THEN PageServed(r) ELSE Reply(r, "error")
    /\ UNCHANGED <<cacheVars, diskVars>>

(* The flight, polled by a reader that awaits it. *)

Advance(f, from, to) ==
    /\ Driven(f)
    /\ step[f] = from
    /\ step' = [step EXCEPT ![f] = to]

\* stat and the range read, either of which may fail; store_cached does not
\* keep a page larger than the whole cache.
Fetch(f) ==
    /\ \/ Advance(f, "fetch", IF Size[page[f]] > MaxSize THEN "ready" ELSE "create")
       \/ "store" \in Faults /\ Advance(f, "fetch", "failed")
    /\ UNCHANGED <<cacheVars, readerVars, flights, page, fd, doomed, diskVars>>

\* Faulty: the page is written under its final name.
CreateInPlace(f) ==
    LET k == page[f] IN
    /\ Advance(f, "create", "write")
    /\ \E i \in Inodes :
         /\ IF pageFile[k] = None THEN NewInode(i, k) ELSE i = pageFile[k]
         /\ pageFile' = [pageFile EXCEPT ![k] = i]
         /\ fd' = [fd EXCEPT ![f] = i]
         /\ content' = [content EXCEPT ![i] = None]
    /\ UNCHANGED <<cacheVars, readerVars, flights, page, doomed, tmpFile>>

\* Faulty: all pages share one temporary name.
CreateSharedTmp(f) ==
    LET k == page[f] IN
    /\ Advance(f, "create", "write")
    /\ \E i \in Inodes :
         /\ IF tmpFile[k] = None THEN NewInode(i, k) ELSE i = tmpFile[k]
         /\ tmpFile' = [l \in Keys |-> i]
         /\ fd' = [fd EXCEPT ![f] = i]
         /\ content' = [content EXCEPT ![i] = None]
    /\ UNCHANGED <<cacheVars, readerVars, flights, page, doomed, pageFile>>

\* std::fs::write opens the temporary file, the same for every writer of the
\* page in this process, with O_CREAT and O_TRUNC ...
CreateTmp(f) ==
    LET k == page[f] IN
    /\ \/ /\ Advance(f, "create", "write")
          /\ \E i \in Inodes :
               /\ IF tmpFile[k] = None THEN NewInode(i, k) ELSE i = tmpFile[k]
               /\ tmpFile' = [tmpFile EXCEPT ![k] = i]
               /\ fd' = [fd EXCEPT ![f] = i]
               /\ content' = [content EXCEPT ![i] = None]
       \/ /\ "disk" \in Faults /\ Advance(f, "create", "failed")
          /\ UNCHANGED <<tmpFile, fd, content>>
    /\ UNCHANGED <<cacheVars, readerVars, flights, page, doomed, pageFile>>

\* Faulty: an error of the rename is not reported.
RenameErrorIgnored(f) ==
    LET k == page[f] IN
    /\ Advance(f, "rename", "insert")
    /\ \/ /\ tmpFile[k] # None
          /\ pageFile' = [pageFile EXCEPT ![k] = tmpFile[k]]
          /\ tmpFile' = [tmpFile EXCEPT ![k] = None]
       \/ /\ tmpFile[k] = None \/ "disk" \in Faults
          /\ UNCHANGED <<pageFile, tmpFile>>
    /\ UNCHANGED <<cacheVars, readerVars, flights, page, fd, doomed, content>>

\* ... and writes the page at the start of the file it opened.
WriteTmp(f) ==
    /\ \/ /\ Advance(f, "write", "rename")
          /\ content' = [content EXCEPT ![fd[f]] = page[f]]
       \/ /\ "disk" \in Faults /\ Advance(f, "write", "failed")
          /\ UNCHANGED content
    /\ fd' = [fd EXCEPT ![f] = None]
    /\ UNCHANGED <<cacheVars, readerVars, flights, page, doomed, pageFile, tmpFile>>

\* std::fs::rename; it fails when another writer has renamed the file away.
RenameTmp(f) ==
    LET k == page[f] IN
    /\ \/ /\ Advance(f, "rename", "insert")
          /\ tmpFile[k] # None
          /\ pageFile' = [pageFile EXCEPT ![k] = tmpFile[k]]
          /\ tmpFile' = [tmpFile EXCEPT ![k] = None]
       \/ /\ Advance(f, "rename", "failed")
          /\ tmpFile[k] = None \/ "disk" \in Faults
          /\ UNCHANGED <<pageFile, tmpFile>>
    /\ UNCHANGED <<cacheVars, readerVars, flights, page, fd, doomed, content>>

\* The critical section of store_cached.
InsertEntry(f) ==
    LET k == page[f] IN
    /\ step[f] = "insert"
    /\ \E n \in 0..Len(Pops(k)) :
         /\ Insert(n, k)
         /\ doomed' = [doomed EXCEPT ![f] = Victims(n, k)]
         /\ Advance(f, "insert", IF Victims(n, k) = {} THEN "ready" ELSE "unlink")
    /\ UNCHANGED <<readerVars, flights, page, fd, diskVars>>

\* Faulty: the file of one evicted page is left on the disk.
UnlinkNobody(f) ==
    /\ doomed[f] # {}
    /\ doomed' = [doomed EXCEPT ![f] = {}]
    /\ Advance(f, "unlink", "ready")
    /\ UNCHANGED <<cacheVars, readerVars, flights, page, fd, diskVars>>

\* Files of evicted pages are unlinked after the mutex is released.  They are
\* different files, so their order is left open; a failed unlink is ignored.
UnlinkVictim(f) ==
    \E k \in doomed[f] :
        /\ doomed' = [doomed EXCEPT ![f] = @ \ {k}]
        /\ Advance(f, "unlink", IF doomed[f] = {k} THEN "ready" ELSE "unlink")
        /\ \/ pageFile' = [pageFile EXCEPT ![k] = None]
           \/ "disk" \in Faults /\ UNCHANGED pageFile
        /\ UNCHANGED <<cacheVars, readerVars, flights, page, fd, tmpFile, content>>

(* What the environment does to the process. *)

\* The client goes away: the reader's future is dropped, which is possible
\* where it is suspended: at a lock, or awaiting a flight that is itself
\* suspended or that another reader polls.
Cancel(r) ==
    /\ "cancel" \in Faults
    /\ \/ pc[r] \in {"load", "forget"}
       \/ /\ pc[r] = "await"
          /\ \/ step[joined[r]] \in {"fetch", "insert"} \cup Landed
             \/ \E q \in Readers \ {r} : joined[q] = joined[r]
    /\ DropHandles(flights, [joined EXCEPT ![r] = None])
    /\ Reply(r, "idle")
    /\ UNCHANGED <<cacheVars, diskVars>>

\* The process dies and a new one runs RangeCache::open on the directory:
\* temporary files go, page files stay, and the memory starts empty.
Restart ==
    /\ "crash" \in Faults
    /\ Reopen
    /\ pc' = [r \in Readers |-> "idle"]
    /\ todo' = [r \in Readers |-> <<>>]
    /\ DropHandles([k \in Keys |-> None], [r \in Readers |-> None])
    /\ tmpFile' = [k \in Keys |-> None]
    /\ UNCHANGED <<pageFile, content>>

ReaderStep(r) == Load(r) \/ ReadFile(r) \/ ForgetEntry(r) \/ JoinFlight(r) \/ LeaveFlight(r)

FlightStep(f) ==
    \/ Fetch(f) \/ CreateTmp(f) \/ WriteTmp(f) \/ RenameTmp(f)
    \/ InsertEntry(f) \/ UnlinkVictim(f)

Next ==
    \/ \E r \in Readers : ReaderStep(r) \/ Cancel(r)
                          \/ \E range \in Ranges : Start(r, range)
    \/ \E f \in FlightIds : FlightStep(f)
    \/ Restart

Spec == Init /\ [][Next]_vars

\* The runtime polls every task that can go on, and the retry and timeout
\* layers bound every call to the object store.  No reader has to read again,
\* nobody has to cancel and no process has to die.
Fairness ==
    /\ \A r \in Readers : WF_vars(ReaderStep(r))
    /\ \A f \in FlightIds : WF_vars(FlightStep(f))

FairSpec == Spec /\ Fairness

-----------------------------------------------------------------------------
(* Properties. *)

\* Type invariant: the readers, the flights map, the flights and the directory
\* hold what the code can put there, a reader has pages left to get exactly
\* while it works, and holds a handle exactly while it awaits.
TypeOK ==
    /\ CacheTypeOK
    /\ pc \in [Readers -> Resting \cup Working]
    /\ todo \in [Readers -> Seq(Keys)]
    /\ \A r \in Readers : pc[r] \in Working <=> todo[r] # <<>>
    /\ joined \in [Readers -> FlightIds \cup {None}]
    /\ \A r \in Readers : pc[r] = "await" <=> joined[r] # None
    /\ flights \in [Keys -> FlightIds \cup {None}]
    /\ step \in [FlightIds -> FlightSteps]
    /\ page \in [FlightIds -> Keys \cup {None}]
    /\ fd \in [FlightIds -> Inodes \cup {None}]
    /\ doomed \in [FlightIds -> SUBSET Keys]
    /\ pageFile \in [Keys -> Inodes \cup {None}]
    /\ tmpFile \in [Keys -> Inodes \cup {None}]
    /\ content \in [Inodes -> Keys \cup {None}]

AtRest == \A r \in Readers : pc[r] \in Resting

\* A page whose file is about to become an entry, or to go.
Pending(k) == \E f \in FlightIds : (step[f] = "insert" /\ page[f] = k) \/ k \in doomed[f]

\* get_page: a reader never waits for a flight that was dropped or that loads
\* another page, so what it is given is the page it asked for, although any
\* reader may remove from the map a flight that it did not put there.
HandlesAlive ==
    /\ \A r \in Readers : joined[r] # None =>
          step[joined[r]] # "unused" /\ page[joined[r]] = current(r)
    /\ \A k \in Keys : flights[k] # None =>
          step[flights[k]] # "unused" /\ page[flights[k]] = k

\* page_path and store_cached: whatever writers share a temporary file, a file
\* under the name of a page holds bytes of no other page.
FilesHoldTheirPage ==
    \A k \in Keys : pageFile[k] # None => content[pageFile[k]] \in {k, None}

\* store_cached writes to a temporary name, then renames, and open removes what
\* a crash left behind: with one flight at a time, whoever opens a published
\* page file finds all of the page, whatever fails and whenever the process dies.
PublishedPagesWhole ==
    \A k \in Keys : pageFile[k] # None => content[pageFile[k]] # None

\* store_cached and load_cached: when no reader is active, every entry of the
\* cache has its page file, so that the first read of it does not miss.
EntriesHaveFiles == AtRest => \A k \in entries : pageFile[k] # None

\* README, "the configured maximum includes all cached page bytes": when no
\* reader is active, the page files on the disk fit in max_size.
FilesWithinBudget ==
    AtRest => Occupied({k \in Keys : pageFile[k] # None}) <= MaxSize

\* The same while readers are active, of the files that are settled: those no
\* flight is about to enter in the map or to unlink.  A reader that was told
\* NotFound may forget an entry whose file a newer flight has put there since;
\* such a file has no entry, nothing evicts it, and only the bytes that are
\* left in the counter (load_cached does not subtract them) make room for it.
SettledFilesFit ==
    Occupied({k \in Keys : pageFile[k] # None /\ ~Pending(k)}) <= MaxSize

\* store_cached: the byte counter is exact, so that no part of the cache is lost
\* to pages that are not there.
ExactBytes == bytes = Occupied(entries)

\* get_page: no reader leaves a flight behind in the map, where it would keep
\* the bytes of its page in memory and answer later readers from it.
NoStrayFlight == AtRest => \A k \in Keys : flights[k] = None

\* README, "If cache I/O fails after startup, reads fall back to object
\* storage": with a sound object store no read fails.
ReadsFallBack ==
    "store" \notin Faults => \A r \in Readers : pc[r] \notin {"eof", "error"}

\* README, SLRU "resists scan pollution": storing a page drops a promoted entry
\* only when every entry that is not promoted, the new one included, is gone.
ScanResistance ==
    [][\A k \in Keys, n \in 0..Len(probationary) + Len(protected) + 1 :
          Insert(n, k) => promoted \subseteq entries' \/ entries' \subseteq promoted]_vars

\* Every range read returns, with a reply or because it was given up.
EveryReadReturns == \A r \in Readers : pc[r] \in Working ~> pc[r] \in Resting
=============================================================================
