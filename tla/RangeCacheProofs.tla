-------------------------- MODULE RangeCacheProofs --------------------------
(***************************************************************************)
(* Proofs about the page cache at work, for every set of readers, pages    *)
(* and faults: it is well typed, every step runs at most one critical      *)
(* section of CacheState, hence everything proved of the bookkeeping holds *)
(* of it, no reader is left with a dead flight or another page, and no     *)
(* page file holds the bytes of another page.  Unless a client goes away   *)
(* no flight is left behind, and unless the disk errs as well the page     *)
(* files keep to their budget.  With one reader at a time, published files *)
(* are whole, entries have files, the counter is exact and scans leave the *)
(* promoted entries alone, under every fault.                              *)
(***************************************************************************)
EXTENDS RangeCache, CacheStateProofs

\* What the steps of readers and flights need to know of each other.
Wiring ==
    /\ pc \in [Readers -> Resting \cup Working]
    /\ todo \in [Readers -> Seq(Keys)]
    /\ \A r \in Readers : pc[r] \in Working <=> todo[r] # <<>>
    /\ joined \in [Readers -> FlightIds \cup {None}]
    /\ \A r \in Readers : pc[r] = "await" <=> joined[r] # None
    /\ flights \in [Keys -> FlightIds \cup {None}]
    /\ step \in [FlightIds -> FlightSteps]
    /\ page \in [FlightIds -> Keys \cup {None}]
    /\ HandlesAlive

\* A reader at work has a page to get, and pages left to get after it.
LEMMA CurrentPage ==
    ASSUME Wiring, NEW r \in Readers, pc[r] \in Working
    PROVE  current(r) \in Keys /\ todo[r] # <<>> /\ Tail(todo[r]) \in Seq(Keys)
           /\ (Len(todo[r]) = 1 <=> Tail(todo[r]) = <<>>)
<1>1. todo[r] \in Seq(Keys) /\ todo[r] # <<>>
    BY DEF Wiring
<1>2. Head(todo[r]) \in Keys /\ Tail(todo[r]) \in Seq(Keys) /\ Len(Tail(todo[r])) = Len(todo[r]) - 1
    BY <1>1, HeadTailProperties
<1>3. Tail(todo[r]) = <<>> <=> Len(Tail(todo[r])) = 0
    BY <1>2, EmptySeq
<1> QED
    BY <1>1, <1>2, <1>3, EmptySeq DEF current

\* The outcome of a reader that stops waiting.
LEMMA DropKeepsWiring ==
    ASSUME Wiring, NEW r \in Readers, NEW map \in [Keys -> FlightIds \cup {None}],
           \A k \in Keys : map[k] \in {flights[k], None},
           DropHandles(map, [joined EXCEPT ![r] = None]),
           pc' \in [Readers -> Resting \cup Working], todo' \in [Readers -> Seq(Keys)],
           \A q \in Readers \ {r} : pc'[q] = pc[q] /\ todo'[q] = todo[q],
           pc'[r] # "await", pc'[r] \in Working <=> todo'[r] # <<>>
    PROVE  Wiring'
<1> DEFINE handles == [joined EXCEPT ![r] = None]
<1>1. /\ flights' = map /\ joined' = handles
      /\ step' = [f \in FlightIds |-> IF Held(f, map, handles) THEN step[f] ELSE "unused"]
      /\ page' = [f \in FlightIds |-> IF Held(f, map, handles) THEN page[f] ELSE None]
    BY DEF DropHandles
<1>2. handles \in [Readers -> FlightIds \cup {None}] /\ handles[r] = None
      /\ \A q \in Readers \ {r} : handles[q] = joined[q]
    BY DEF Wiring
<1>3. step' \in [FlightIds -> FlightSteps] /\ page' \in [FlightIds -> Keys \cup {None}]
    BY <1>1 DEF Wiring, FlightSteps
<1>4. \A q \in Readers : pc'[q] = "await" <=> joined'[q] # None
    BY <1>1, <1>2 DEF Wiring
<1>5. \A q \in Readers : pc'[q] \in Working <=> todo'[q] # <<>>
    BY DEF Wiring
<1>6. \A q \in Readers : handles[q] # None =>
         Held(handles[q], map, handles) /\ handles[q] \in FlightIds /\ q # r
    BY <1>2 DEF Held
<1>7. \A k \in Keys : map[k] # None => Held(map[k], map, handles) /\ map[k] \in FlightIds
    BY DEF Held
<1> HIDE DEF handles
<1>8. HandlesAlive'
    <2>1. ASSUME NEW q \in Readers, joined'[q] # None
          PROVE  step'[joined'[q]] # "unused" /\ page'[joined'[q]] = current(q)'
        <3>1. joined'[q] = joined[q] /\ todo'[q] = todo[q]
            BY <1>1, <1>2, <1>6, <2>1
        <3>2. step'[joined[q]] = step[joined[q]] /\ page'[joined[q]] = page[joined[q]]
            BY <1>1, <1>6, <2>1, <3>1
        <3> QED
            BY <2>1, <3>1, <3>2 DEF Wiring, HandlesAlive, current
    <2>2. ASSUME NEW k \in Keys, flights'[k] # None
          PROVE  step'[flights'[k]] # "unused" /\ page'[flights'[k]] = k
        <3>1. flights'[k] = flights[k]
            BY <1>1, <2>2
        <3>2. step'[flights[k]] = step[flights[k]] /\ page'[flights[k]] = page[flights[k]]
            BY <1>1, <1>7, <2>2, <3>1
        <3> QED
            BY <2>2, <3>1, <3>2 DEF Wiring, HandlesAlive
    <2> QED
        BY <2>1, <2>2 DEF HandlesAlive
<1> QED
    BY <1>1, <1>2, <1>3, <1>4, <1>5, <1>8 DEF Wiring

\* A flight that moves on keeps its handles and its page.
LEMMA AdvanceKeepsWiring ==
    ASSUME Wiring, NEW f \in FlightIds, NEW from, NEW to \in FlightSteps \ {"unused"},
           Advance(f, from, to), UNCHANGED <<readerVars, flights, page>>
    PROVE  Wiring'
<1>1. step' = [step EXCEPT ![f] = to]
    BY DEF Advance
<1>2. /\ pc' = pc /\ todo' = todo /\ joined' = joined /\ flights' = flights /\ page' = page
    BY DEF readerVars
<1>3. \A g \in FlightIds : step[g] # "unused" => step'[g] # "unused"
    BY <1>1 DEF Wiring
<1>4. HandlesAlive'
    BY <1>2, <1>3 DEF Wiring, HandlesAlive, current
<1> QED
    BY <1>1, <1>2, <1>4 DEF Wiring

\* A range read that starts has its pages to get and no handle.
LEMMA StartKeepsWiring ==
    ASSUME Wiring, NEW r \in Readers, NEW range \in Ranges, Start(r, range)
    PROVE  Wiring'
<1>1. range \in Seq(Keys) /\ range # <<>>
    BY RangesAssumption
<1>2. /\ pc[r] \in Resting /\ pc' = [pc EXCEPT ![r] = "load"]
      /\ todo' = [todo EXCEPT ![r] = range]
      /\ joined' = joined /\ flights' = flights /\ step' = step /\ page' = page
    BY DEF Start, flightVars
<1>3. joined[r] = None
    BY <1>2 DEF Wiring, Resting
<1>4. HandlesAlive'
    BY <1>2, <1>3 DEF Wiring, HandlesAlive, current
<1> QED
    BY <1>1, <1>2, <1>3, <1>4 DEF Wiring, Working

\* A reader that only changes its own pc, and is not waiting before or after.
LEMMA ReaderMoveKeepsWiring ==
    ASSUME Wiring, NEW r \in Readers,
           pc[r] # "await", pc'[r] # "await", pc' \in [Readers -> Resting \cup Working],
           todo' \in [Readers -> Seq(Keys)], pc'[r] \in Working <=> todo'[r] # <<>>,
           \A q \in Readers \ {r} : pc'[q] = pc[q] /\ todo'[q] = todo[q],
           UNCHANGED <<joined, flights, step, page>>
    PROVE  Wiring'
<1>1. joined[r] = None
    BY DEF Wiring
<1>2. HandlesAlive'
    BY <1>1 DEF Wiring, HandlesAlive, current
<1> QED
    BY <1>1, <1>2 DEF Wiring

\* Where a reader goes after a page.
LEMMA PageServedTypes ==
    ASSUME Wiring, NEW r \in Readers, pc[r] \in Working, PageServed(r)
    PROVE  /\ pc' \in [Readers -> Resting \cup Working] /\ todo' \in [Readers -> Seq(Keys)]
           /\ pc'[r] # "await" /\ (pc'[r] \in Working <=> todo'[r] # <<>>)
           /\ \A q \in Readers \ {r} : pc'[q] = pc[q] /\ todo'[q] = todo[q]
<1>1. /\ todo' = [todo EXCEPT ![r] = Tail(todo[r])]
      /\ pc' = [pc EXCEPT ![r] = IF Len(todo[r]) = 1 THEN "ok" ELSE "load"]
    BY DEF PageServed
<1>2. Tail(todo[r]) \in Seq(Keys) /\ (Len(todo[r]) = 1 <=> Tail(todo[r]) = <<>>)
    BY CurrentPage
<1> QED
    BY <1>1, <1>2 DEF Wiring, Working, Resting

\* What a reader does with a reply leaves it well typed.
LEMMA ReplyTypes ==
    ASSUME Wiring, NEW r \in Readers, NEW outcome \in Resting, Reply(r, outcome)
    PROVE  /\ pc' \in [Readers -> Resting \cup Working] /\ todo' \in [Readers -> Seq(Keys)]
           /\ pc'[r] # "await" /\ (pc'[r] \in Working <=> todo'[r] # <<>>)
           /\ \A q \in Readers \ {r} : pc'[q] = pc[q] /\ todo'[q] = todo[q]
<1>1. todo' = [todo EXCEPT ![r] = <<>>] /\ pc' = [pc EXCEPT ![r] = outcome]
    BY DEF Reply
<1>2. <<>> \in Seq(Keys)
    OBVIOUS
<1>3. outcome \notin Working /\ outcome # "await"
    BY DEF Resting, Working
<1> QED
    BY <1>1, <1>2, <1>3 DEF Wiring

\* Joining a flight, or starting one, gives the reader a handle on a live flight.
LEMMA JoinKeepsWiring ==
    ASSUME Wiring, NEW r \in Readers, JoinFlight(r)
    PROVE  Wiring'
<1> DEFINE k == current(r)
<1>1. pc[r] = "miss" /\ pc' = [pc EXCEPT ![r] = "await"] /\ todo' = todo
    BY DEF JoinFlight
<1>2. k \in Keys /\ todo[r] # <<>> /\ joined[r] = None
    BY <1>1, CurrentPage DEF Wiring, Working
<1>3. CASE /\ flights[k] # None
           /\ joined' = [joined EXCEPT ![r] = flights[k]]
           /\ UNCHANGED <<flights, step, page>>
    <2>1. HandlesAlive'
        BY <1>1, <1>2, <1>3 DEF Wiring, HandlesAlive, current
    <2> QED
        BY <1>1, <1>2, <1>3, <2>1 DEF Wiring, Working
<1>4. ASSUME NEW f \in FlightIds, Least(f, UnusedFlights),
             flights' = [flights EXCEPT ![k] = f], joined' = [joined EXCEPT ![r] = f],
             step' = [step EXCEPT ![f] = "fetch"], page' = [page EXCEPT ![f] = k]
      PROVE  Wiring'
    <2>1. step[f] = "unused" /\ f # None
        BY <1>4, NamesAssumption DEF Least, UnusedFlights
    <2>2. /\ \A q \in Readers : joined[q] # f
          /\ \A l \in Keys : flights[l] # f
        BY <2>1 DEF Wiring, HandlesAlive
    <2>3. HandlesAlive'
        <3>1. ASSUME NEW q \in Readers, joined'[q] # None
              PROVE  step'[joined'[q]] # "unused" /\ page'[joined'[q]] = current(q)'
            <4>1. CASE q = r
                BY <1>1, <1>4, <4>1 DEF Wiring, current
            <4>2. CASE q # r
                BY <1>1, <1>4, <2>2, <3>1, <4>2 DEF Wiring, HandlesAlive, current
            <4> QED
                BY <4>1, <4>2
        <3>2. ASSUME NEW l \in Keys, flights'[l] # None
              PROVE  step'[flights'[l]] # "unused" /\ page'[flights'[l]] = l
            <4>1. CASE l = k
                BY <1>4, <4>1 DEF Wiring
            <4>2. CASE l # k
                BY <1>4, <2>2, <3>2, <4>2 DEF Wiring, HandlesAlive
            <4> QED
                BY <4>1, <4>2
        <3> QED
            BY <3>1, <3>2 DEF HandlesAlive
    <2>4. step' \in [FlightIds -> FlightSteps] /\ page' \in [FlightIds -> Keys \cup {None}]
        BY <1>2, <1>4 DEF Wiring, FlightSteps
    <2> QED
        BY <1>1, <1>2, <1>4, <2>1, <2>3, <2>4 DEF Wiring, Working
<1> QED
    BY <1>3, <1>4 DEF JoinFlight

\* Nobody reads at first.
THEOREM InitWiring == Init => Wiring
<1> SUFFICES ASSUME Init PROVE Wiring
    OBVIOUS
<1>1. "idle" \in Resting /\ "idle" \notin Working /\ "unused" \in FlightSteps
    BY DEF Resting, Working, FlightSteps
<1>2. HandlesAlive
    BY DEF Init, HandlesAlive
<1> QED
    BY <1>1, <1>2 DEF Init, Wiring, Working

\* Every step keeps the wiring.
THEOREM NextWiring == Wiring /\ [Next]_vars => Wiring'
<1> SUFFICES ASSUME Wiring, [Next]_vars PROVE Wiring'
    OBVIOUS
<1> USE DEF readerVars, flightVars
<1>1. ASSUME NEW r \in Readers, Load(r) PROVE Wiring'
    <2>1. /\ pc[r] = "load" /\ todo' = todo /\ UNCHANGED <<joined, flights, step, page>>
          /\ pc' = [pc EXCEPT ![r] = "miss"] \/ pc' = [pc EXCEPT ![r] = "read"]
        BY <1>1 DEF Load
    <2>2. /\ pc' \in [Readers -> Resting \cup Working] /\ todo' \in [Readers -> Seq(Keys)]
          /\ pc'[r] \in {"miss", "read"} /\ \A q \in Readers \ {r} : pc'[q] = pc[q]
        BY <2>1 DEF Wiring, Working
    <2>3. pc[r] # "await" /\ pc'[r] # "await" /\ pc'[r] \in Working /\ todo'[r] # <<>>
        BY <2>1, <2>2 DEF Wiring, Working
    <2> QED
        BY <2>1, <2>2, <2>3, ReaderMoveKeepsWiring
<1>2. ASSUME NEW r \in Readers, ReadFile(r) PROVE Wiring'
    <2>1. pc[r] = "read" /\ UNCHANGED <<joined, flights, step, page>>
        BY <1>2 DEF ReadFile
    <2>2. pc[r] \in Working /\ pc[r] # "await"
        BY <2>1 DEF Working
    <2>3. CASE PageServed(r)
        BY <2>1, <2>2, <2>3, PageServedTypes, ReaderMoveKeepsWiring
    <2>4. CASE Reply(r, "eof") \/ Reply(r, "error")
        BY <2>1, <2>2, <2>4, ReplyTypes, ReaderMoveKeepsWiring DEF Resting
    <2>5. CASE pc' = [pc EXCEPT ![r] = "forget"] /\ UNCHANGED todo
        BY <2>1, <2>2, <2>5, ReaderMoveKeepsWiring DEF Wiring, Working
    <2> QED
        BY <1>2, <2>3, <2>4, <2>5 DEF ReadFile
<1>3. ASSUME NEW r \in Readers, ForgetEntry(r) PROVE Wiring'
    <2>1. /\ pc[r] = "forget" /\ todo' = todo /\ UNCHANGED <<joined, flights, step, page>>
          /\ pc' = [pc EXCEPT ![r] = "miss"]
        BY <1>3 DEF ForgetEntry
    <2> QED
        BY <2>1, ReaderMoveKeepsWiring DEF Wiring, Working
<1>4. ASSUME NEW r \in Readers, LeaveFlight(r) PROVE Wiring'
    <2> DEFINE map == [flights EXCEPT ![current(r)] = None]
    <2>1. pc[r] = "await" /\ pc[r] \in Working
        BY <1>4 DEF LeaveFlight, Working
    <2>2. /\ map \in [Keys -> FlightIds \cup {None}]
          /\ \A k \in Keys : map[k] \in {flights[k], None}
        BY DEF Wiring
    <2>3. DropHandles(map, [joined EXCEPT ![r] = None])
        BY <1>4 DEF LeaveFlight
    <2>4. PageServed(r) \/ Reply(r, "error")
        BY <1>4 DEF LeaveFlight
    <2> HIDE DEF map
    <2> QED
        BY <2>1, <2>2, <2>3, <2>4, PageServedTypes, ReplyTypes, DropKeepsWiring DEF Resting
<1>5. ASSUME NEW r \in Readers, Cancel(r) PROVE Wiring'
    <2>1. DropHandles(flights, [joined EXCEPT ![r] = None]) /\ Reply(r, "idle")
        BY <1>5 DEF Cancel
    <2>2. flights \in [Keys -> FlightIds \cup {None}]
        BY DEF Wiring
    <2> QED
        BY <2>1, <2>2, ReplyTypes, DropKeepsWiring DEF Resting
<1>6. ASSUME NEW f \in FlightIds, FlightStep(f) PROVE Wiring'
    <2>1. UNCHANGED <<readerVars, flights, page>>
        BY <1>6 DEF FlightStep, Fetch, CreateTmp, WriteTmp, RenameTmp, InsertEntry, UnlinkVictim
    <2>2. \E from \in FlightSteps, to \in FlightSteps \ {"unused"} : Advance(f, from, to)
        BY <1>6 DEF FlightStep, Fetch, CreateTmp, WriteTmp, RenameTmp, InsertEntry,
                    UnlinkVictim, FlightSteps, Landed
    <2> QED
        BY <2>1, <2>2, AdvanceKeepsWiring
<1>7. CASE Restart
    <2>1. /\ pc' = [r \in Readers |-> "idle"] /\ todo' = [r \in Readers |-> <<>>]
          /\ joined' = [r \in Readers |-> None] /\ flights' = [k \in Keys |-> None]
          /\ step' \in [FlightIds -> FlightSteps] /\ page' \in [FlightIds -> Keys \cup {None}]
        BY <1>7 DEF Restart, DropHandles, Wiring, FlightSteps
    <2>2. HandlesAlive'
        BY <2>1 DEF HandlesAlive
    <2> QED
        BY <2>1, <2>2 DEF Wiring, Resting, Working
<1>8. CASE UNCHANGED vars
    BY <1>8 DEF Wiring, HandlesAlive, current, vars
<1> QED
    BY <1>1, <1>2, <1>3, <1>4, <1>5, <1>6, <1>7, <1>8, JoinKeepsWiring, StartKeepsWiring
       DEF Next, ReaderStep

\* No reader holds a handle of a flight that is gone, and none is at work
\* without a page to get.
THEOREM WiringInvariance == Spec => []Wiring
BY InitWiring, NextWiring, PTL DEF Spec

\* A reader never waits for a dropped flight or for another page than its own.
THEOREM ReadersGetTheirPage == Spec => []HandlesAlive
<1>1. Wiring => HandlesAlive
    BY DEF Wiring
<1> QED
    BY <1>1, WiringInvariance, PTL

-----------------------------------------------------------------------------
(* The page cache implements the bookkeeping. *)

\* A step of readers, flights or the process runs at most one critical section
\* of the bookkeeping.
THEOREM StepImplementsCache == Wiring /\ [Next]_vars => [CacheNext]_cacheVars
<1> SUFFICES ASSUME Wiring, Next PROVE [CacheNext]_cacheVars
    BY DEF vars, cacheVars
<1>1. ASSUME NEW r \in Readers, ReaderStep(r) PROVE [CacheNext]_cacheVars
    <2>1. CASE Load(r)
        <3>1. current(r) \in Keys
            BY <2>1, CurrentPage DEF Load, Working
        <3> QED
            BY <2>1, <3>1 DEF Load, CacheNext
    <2>2. CASE ForgetEntry(r)
        <3>1. current(r) \in Keys
            BY <2>2, CurrentPage DEF ForgetEntry, Working
        <3> QED
            BY <2>2, <3>1 DEF ForgetEntry, CacheNext
    <2> QED
        BY <1>1, <2>1, <2>2 DEF ReaderStep, ReadFile, JoinFlight, LeaveFlight
<1>2. ASSUME NEW f \in FlightIds, FlightStep(f) PROVE [CacheNext]_cacheVars
    <2>1. CASE InsertEntry(f)
        <3>1. PICK r \in Readers : joined[r] = f
            BY <2>1 DEF InsertEntry, Advance, Driven
        <3>2. joined[r] # None
            BY <3>1, NamesAssumption
        <3>3. pc[r] \in Working /\ page[f] = current(r)
            BY <3>1, <3>2 DEF Wiring, HandlesAlive, Working
        <3>4. page[f] \in Keys
            BY <3>3, CurrentPage
        <3>5. Store(page[f])
            BY <2>1 DEF InsertEntry, Store
        <3> QED
            BY <3>4, <3>5 DEF CacheNext
    <2> QED
        BY <1>2, <2>1 DEF FlightStep, Fetch, CreateTmp, WriteTmp, RenameTmp, UnlinkVictim
<1>3. CASE Restart
    BY <1>3 DEF Restart, CacheNext
<1>4. ASSUME NEW r \in Readers, Cancel(r) \/ \E range \in Ranges : Start(r, range)
      PROVE  [CacheNext]_cacheVars
    BY <1>4 DEF Cancel, Start
<1> QED
    BY <1>1, <1>2, <1>3, <1>4 DEF Next

\* Seen through the state behind the mutex, every behaviour of the page cache
\* is a behaviour of CacheState.
THEOREM Implementation == Spec => CacheSpec
<1>1. Init => CacheInit
    BY DEF Init
<1> QED
    BY <1>1, WiringInvariance, StepImplementsCache, PTL DEF Spec, CacheSpec

\* Whatever the interleaving of readers, flights, cancellations and crashes,
\* the entries fit in max_size and the byte counter covers them.
THEOREM RangeCacheWithinBudget == Spec => []WithinBudget
BY Implementation, CacheWithinBudget, PTL

-----------------------------------------------------------------------------
(* The files of the cache. *)

\* The types of what flights and the directory hold.
DiskTypeOK ==
    /\ fd \in [FlightIds -> Inodes \cup {None}]
    /\ doomed \in [FlightIds -> SUBSET Keys]
    /\ pageFile \in [Keys -> Inodes \cup {None}]
    /\ tmpFile \in [Keys -> Inodes \cup {None}]
    /\ content \in [Inodes -> Keys \cup {None}]

\* A flight in use loads a page, has a file open exactly while it writes it, a
\* file of that page, and has files to unlink exactly while it unlinks them.
FlightsInv ==
    /\ \A f \in FlightIds : step[f] # "unused" => page[f] \in Keys
    /\ \A f \in FlightIds : step[f] = "write" <=> fd[f] # None
    /\ \A f \in FlightIds : fd[f] # None => fd[f][1] = page[f]
    /\ \A f \in FlightIds : step[f] = "unlink" <=> doomed[f] # {}

\* Both names of a page lead to a file created for that page, and such a file
\* holds that page or nothing.
DirectoryInv ==
    /\ \A k \in Keys : pageFile[k] # None => pageFile[k][1] = k
    /\ \A k \in Keys : tmpFile[k] # None => tmpFile[k][1] = k
    /\ \A i \in Inodes : content[i] \in {i[1], None}

FilesInv == Wiring /\ DiskTypeOK /\ FlightsInv /\ DirectoryInv

\* No file is called None.
LEMMA InodeFacts ==
    /\ None \notin Inodes /\ None \notin Keys /\ None \notin FlightIds
    /\ \A i \in Inodes : i[1] \in Keys
BY NamesAssumption DEF Inodes

\* A flight that moves was in use.
LEMMA AdvanceInUse ==
    ASSUME Wiring, NEW f \in FlightIds, NEW from, NEW to, Advance(f, from, to)
    PROVE  /\ step[f] = from /\ step' = [step EXCEPT ![f] = to]
           /\ step[f] # "unused"
           /\ \E r \in Readers : joined[r] = f
<1>1. PICK r \in Readers : joined[r] = f
    BY DEF Advance, Driven
<1>2. joined[r] # None
    BY <1>1, NamesAssumption
<1>3. step[f] # "unused"
    BY <1>1, <1>2 DEF Wiring, HandlesAlive
<1> QED
    BY <1>1, <1>3 DEF Advance

\* Dropping handles leaves flights as they were, or drops all they hold.
LEMMA DropKeepsFiles ==
    ASSUME FilesInv, NEW map, NEW handles, DropHandles(map, handles),
           UNCHANGED <<pageFile, content>>, \A k \in Keys : tmpFile'[k] \in {tmpFile[k], None},
           tmpFile' \in [Keys -> Inodes \cup {None}]
    PROVE  DiskTypeOK' /\ FlightsInv' /\ DirectoryInv'
<1>1. \A f \in FlightIds :
        \/ step'[f] = step[f] /\ fd'[f] = fd[f] /\ doomed'[f] = doomed[f] /\ page'[f] = page[f]
        \/ step'[f] = "unused" /\ fd'[f] = None /\ doomed'[f] = {} /\ page'[f] = None
    BY DEF DropHandles
<1>2. fd' \in [FlightIds -> Inodes \cup {None}] /\ doomed' \in [FlightIds -> SUBSET Keys]
    BY DEF DropHandles, FilesInv, DiskTypeOK
<1>3. FlightsInv'
    BY <1>1 DEF FilesInv, FlightsInv
<1> QED
    BY <1>2, <1>3 DEF FilesInv, DiskTypeOK, DirectoryInv

\* A step that only moves flight f, neither from nor to a step that holds files.
LEMMA MoveKeepsFiles ==
    ASSUME FilesInv, NEW f \in FlightIds, NEW from, NEW to, Advance(f, from, to),
           from \notin {"write", "unlink"}, to \notin {"write", "unlink"},
           UNCHANGED <<page, fd, doomed>>
    PROVE  FlightsInv'
<1>1. step[f] = from /\ step' = [step EXCEPT ![f] = to] /\ step[f] # "unused"
    BY AdvanceInUse DEF FilesInv
<1> QED
    BY <1>1 DEF FilesInv, FlightsInv, Wiring

\* Truncating or creating the temporary file, whoever else has it open, touches
\* no file that is published under the name of another page.
LEMMA CreateKeepsFiles ==
    ASSUME FilesInv, NEW f \in FlightIds, CreateTmp(f)
    PROVE  DiskTypeOK' /\ FlightsInv' /\ DirectoryInv'
<1> DEFINE k == page[f]
<1>1. UNCHANGED <<page, doomed, pageFile>>
    BY DEF CreateTmp
<1>2. CASE Advance(f, "create", "failed") /\ UNCHANGED <<tmpFile, fd, content>>
    <2>1. FlightsInv'
        BY <1>1, <1>2, MoveKeepsFiles
    <2> QED
        BY <1>1, <1>2, <2>1 DEF FilesInv, DiskTypeOK, DirectoryInv
<1>3. ASSUME NEW i \in Inodes, Advance(f, "create", "write"),
             IF tmpFile[k] = None THEN NewInode(i, k) ELSE i = tmpFile[k],
             tmpFile' = [tmpFile EXCEPT ![k] = i],
             fd' = [fd EXCEPT ![f] = i],
             content' = [content EXCEPT ![i] = None]
      PROVE  DiskTypeOK' /\ FlightsInv' /\ DirectoryInv'
    <2>1. step[f] = "create" /\ step' = [step EXCEPT ![f] = "write"]
        BY <1>3, AdvanceInUse DEF FilesInv
    <2>2. k \in Keys
        BY <2>1 DEF FilesInv, FlightsInv
    <2>3. i[1] = k
        BY <1>3, <2>2 DEF FilesInv, DirectoryInv, NewInode
    <2>4. DiskTypeOK'
        BY <1>1, <1>3 DEF FilesInv, DiskTypeOK
    <2>5. FlightsInv'
        <3>1. fd'[f] # None /\ fd'[f][1] = page[f] /\ step'[f] = "write" /\ doomed[f] = {}
            BY <1>3, <2>1, <2>3, InodeFacts DEF FilesInv, DiskTypeOK, FlightsInv, Wiring
        <3>2. \A g \in FlightIds \ {f} : fd'[g] = fd[g] /\ step'[g] = step[g]
            BY <1>3, <2>1 DEF FilesInv, DiskTypeOK, Wiring
        <3> QED
            BY <1>1, <2>2, <3>1, <3>2 DEF FilesInv, FlightsInv
    <2>6. DirectoryInv'
        BY <1>1, <1>3, <2>2, <2>3 DEF FilesInv, DiskTypeOK, DirectoryInv
    <2> QED
        BY <2>4, <2>5, <2>6
<1> QED
    BY <1>2, <1>3 DEF CreateTmp

\* A flight writes the bytes of its page into the file it opened, even when
\* another flight has renamed it.
LEMMA WriteKeepsFiles ==
    ASSUME FilesInv, NEW f \in FlightIds, WriteTmp(f)
    PROVE  DiskTypeOK' /\ FlightsInv' /\ DirectoryInv'
<1>1. PICK to \in {"rename", "failed"} : Advance(f, "write", to)
    BY DEF WriteTmp
<1>2. step[f] = "write" /\ step' = [step EXCEPT ![f] = to]
    BY <1>1, AdvanceInUse DEF FilesInv
<1>3. /\ fd' = [fd EXCEPT ![f] = None] /\ UNCHANGED <<page, doomed, pageFile, tmpFile>>
      /\ content' \in {content, [content EXCEPT ![fd[f]] = page[f]]}
    BY DEF WriteTmp
<1>4. page[f] \in Keys /\ fd[f] \in Inodes /\ fd[f][1] = page[f] /\ doomed[f] = {}
    BY <1>2 DEF FilesInv, FlightsInv, DiskTypeOK
<1>5. DiskTypeOK'
    BY <1>3, <1>4 DEF FilesInv, DiskTypeOK
<1>6. FlightsInv'
    <2>1. fd'[f] = None /\ step'[f] = to
        BY <1>2, <1>3 DEF FilesInv, DiskTypeOK, Wiring
    <2>2. \A g \in FlightIds \ {f} : fd'[g] = fd[g] /\ step'[g] = step[g]
        BY <1>2, <1>3 DEF FilesInv, DiskTypeOK, Wiring
    <2> QED
        BY <1>3, <1>4, <2>1, <2>2 DEF FilesInv, FlightsInv
<1>7. DirectoryInv'
    BY <1>3, <1>4 DEF FilesInv, DiskTypeOK, DirectoryInv
<1> QED
    BY <1>5, <1>6, <1>7

\* Renaming moves the temporary file of a page to the name of that page.
LEMMA RenameKeepsFiles ==
    ASSUME FilesInv, NEW f \in FlightIds, RenameTmp(f)
    PROVE  DiskTypeOK' /\ FlightsInv' /\ DirectoryInv'
<1>1. /\ UNCHANGED <<page, fd, doomed, content>>
      /\ Advance(f, "rename", "insert") \/ Advance(f, "rename", "failed")
      /\ \/ UNCHANGED <<pageFile, tmpFile>>
         \/ /\ pageFile' = [pageFile EXCEPT ![page[f]] = tmpFile[page[f]]]
            /\ tmpFile' = [tmpFile EXCEPT ![page[f]] = None]
    BY DEF RenameTmp
<1>2. FlightsInv'
    BY <1>1, MoveKeepsFiles
<1>3. step[f] = "rename"
    BY <1>1 DEF Advance
<1>4. page[f] \in Keys
    BY <1>3 DEF FilesInv, FlightsInv
<1>5. DiskTypeOK'
    BY <1>1, <1>4 DEF FilesInv, DiskTypeOK
<1>6. DirectoryInv'
    BY <1>1, <1>4 DEF FilesInv, DiskTypeOK, DirectoryInv
<1> QED
    BY <1>2, <1>5, <1>6

\* Entering a page touches no file; its victims are pages.
LEMMA InsertKeepsFiles ==
    ASSUME FilesInv, entries \subseteq Keys, NEW f \in FlightIds, InsertEntry(f)
    PROVE  DiskTypeOK' /\ FlightsInv' /\ DirectoryInv'
<1>1. PICK n \in 0..Len(Pops(page[f])) :
        /\ doomed' = [doomed EXCEPT ![f] = Victims(n, page[f])]
        /\ Advance(f, "insert", IF Victims(n, page[f]) = {} THEN "ready" ELSE "unlink")
    BY DEF InsertEntry
<1> DEFINE V == Victims(n, page[f])
<1>2. /\ step[f] = "insert"
      /\ step' = [step EXCEPT ![f] = IF V = {} THEN "ready" ELSE "unlink"]
    BY <1>1, AdvanceInUse DEF FilesInv
<1>3. UNCHANGED <<page, fd, diskVars>>
    BY DEF InsertEntry
<1>4. page[f] \in Keys
    BY <1>2 DEF FilesInv, FlightsInv
<1>5. V \subseteq Keys
    BY <1>4 DEF Victims
<1> HIDE DEF V
<1>6. doomed' \in [FlightIds -> SUBSET Keys] /\ doomed'[f] = V
      /\ \A g \in FlightIds \ {f} : doomed'[g] = doomed[g] /\ step'[g] = step[g]
    BY <1>1, <1>2, <1>5 DEF V, FilesInv, DiskTypeOK, Wiring
<1>7. step'[f] \in {"ready", "unlink"} /\ (step'[f] = "unlink" <=> V # {})
    BY <1>2 DEF FilesInv, Wiring
<1>8. FlightsInv'
    BY <1>2, <1>3, <1>4, <1>6, <1>7 DEF FilesInv, FlightsInv
<1> QED
    BY <1>3, <1>6, <1>8 DEF FilesInv, DiskTypeOK, DirectoryInv, diskVars

\* Unlinking a victim only takes a file away.
LEMMA UnlinkKeepsFiles ==
    ASSUME FilesInv, NEW f \in FlightIds, UnlinkVictim(f)
    PROVE  DiskTypeOK' /\ FlightsInv' /\ DirectoryInv'
<1>1. PICK k \in doomed[f] :
        /\ doomed' = [doomed EXCEPT ![f] = doomed[f] \ {k}]
        /\ Advance(f, "unlink", IF doomed[f] = {k} THEN "ready" ELSE "unlink")
        /\ pageFile' = [pageFile EXCEPT ![k] = None] \/ UNCHANGED pageFile
        /\ UNCHANGED <<page, fd, tmpFile, content>>
    BY DEF UnlinkVictim
<1>2. step[f] = "unlink" /\ step' = [step EXCEPT ![f] = IF doomed[f] = {k} THEN "ready" ELSE "unlink"]
    BY <1>1, AdvanceInUse DEF FilesInv
<1>3. k \in Keys /\ doomed[f] \subseteq Keys
    BY DEF FilesInv, DiskTypeOK
<1>4. /\ doomed' \in [FlightIds -> SUBSET Keys] /\ doomed'[f] = doomed[f] \ {k}
      /\ \A g \in FlightIds \ {f} : doomed'[g] = doomed[g] /\ step'[g] = step[g]
    BY <1>1, <1>2, <1>3 DEF FilesInv, DiskTypeOK, Wiring
<1>5. step'[f] \in {"ready", "unlink"} /\ (step'[f] = "unlink" <=> doomed[f] \ {k} # {})
    BY <1>2 DEF FilesInv, Wiring
<1>6. FlightsInv'
    BY <1>1, <1>2, <1>4, <1>5 DEF FilesInv, FlightsInv
<1> QED
    BY <1>1, <1>3, <1>4, <1>6 DEF FilesInv, DiskTypeOK, DirectoryInv

\* A new flight has neither file nor victims yet.
LEMMA JoinKeepsFiles ==
    ASSUME FilesInv, NEW r \in Readers, JoinFlight(r)
    PROVE  DiskTypeOK' /\ FlightsInv' /\ DirectoryInv'
<1>1. UNCHANGED <<fd, doomed, diskVars>> /\ pc[r] = "miss"
    BY DEF JoinFlight
<1>2. current(r) \in Keys
    BY <1>1, CurrentPage DEF FilesInv, Working
<1>3. CASE UNCHANGED <<step, page>>
    BY <1>1, <1>3 DEF FilesInv, DiskTypeOK, FlightsInv, DirectoryInv, diskVars
<1>4. ASSUME NEW f \in FlightIds, Least(f, UnusedFlights),
             step' = [step EXCEPT ![f] = "fetch"], page' = [page EXCEPT ![f] = current(r)]
      PROVE  DiskTypeOK' /\ FlightsInv' /\ DirectoryInv'
    <2>1. step[f] = "unused"
        BY <1>4 DEF Least, UnusedFlights
    <2>2. fd[f] = None /\ doomed[f] = {}
        BY <2>1 DEF FilesInv, FlightsInv
    <2>3. /\ step'[f] = "fetch" /\ page'[f] = current(r)
          /\ \A g \in FlightIds \ {f} : step'[g] = step[g] /\ page'[g] = page[g]
        BY <1>4 DEF FilesInv, Wiring
    <2>4. FlightsInv'
        BY <1>1, <1>2, <2>2, <2>3 DEF FilesInv, FlightsInv
    <2> QED
        BY <1>1, <2>4 DEF FilesInv, DiskTypeOK, DirectoryInv, diskVars
<1> QED
    BY <1>3, <1>4 DEF JoinFlight

\* The process starts in an empty directory.
THEOREM InitFiles == Init => FilesInv
<1> SUFFICES ASSUME Init PROVE FilesInv
    OBVIOUS
<1>1. DiskTypeOK
    BY DEF Init, DiskTypeOK
<1>2. FlightsInv /\ DirectoryInv
    BY DEF Init, FlightsInv, DirectoryInv
<1> QED
    BY <1>1, <1>2, InitWiring DEF FilesInv

\* Every step keeps the files in order.
THEOREM NextFiles == FilesInv /\ entries \subseteq Keys /\ [Next]_vars => FilesInv'
<1> SUFFICES ASSUME FilesInv, entries \subseteq Keys, [Next]_vars
             PROVE  DiskTypeOK' /\ FlightsInv' /\ DirectoryInv'
    BY NextWiring DEF FilesInv
<1>1. ASSUME UNCHANGED <<flightVars, diskVars>>
      PROVE  DiskTypeOK' /\ FlightsInv' /\ DirectoryInv'
    BY <1>1 DEF FilesInv, DiskTypeOK, FlightsInv, DirectoryInv, flightVars, diskVars
<1>2. ASSUME NEW r \in Readers, ReaderStep(r) \/ Cancel(r) \/ \E range \in Ranges : Start(r, range)
      PROVE  DiskTypeOK' /\ FlightsInv' /\ DirectoryInv'
    <2>1. CASE Load(r) \/ ReadFile(r) \/ ForgetEntry(r) \/ \E range \in Ranges : Start(r, range)
        <3>1. UNCHANGED <<flightVars, diskVars>>
            BY <2>1 DEF Load, ReadFile, ForgetEntry, Start
        <3> QED
            BY <1>1, <3>1
    <2>2. CASE LeaveFlight(r) \/ Cancel(r)
        <3>1. \E map : DropHandles(map, [joined EXCEPT ![r] = None])
            BY <2>2 DEF LeaveFlight, Cancel
        <3>2. UNCHANGED <<pageFile, content, tmpFile>>
            BY <2>2 DEF LeaveFlight, Cancel, diskVars
        <3>3. tmpFile \in [Keys -> Inodes \cup {None}]
            BY DEF FilesInv, DiskTypeOK
        <3> QED
            BY <3>1, <3>2, <3>3, DropKeepsFiles
    <2> QED
        BY <1>2, <2>1, <2>2, JoinKeepsFiles DEF ReaderStep
<1>3. ASSUME NEW f \in FlightIds, Fetch(f)
      PROVE  DiskTypeOK' /\ FlightsInv' /\ DirectoryInv'
    <2>1. \E to \in {"ready", "create", "failed"} : Advance(f, "fetch", to)
        BY <1>3 DEF Fetch
    <2>2. UNCHANGED <<page, fd, doomed, diskVars>>
        BY <1>3 DEF Fetch
    <2>3. FlightsInv'
        BY <2>1, <2>2, MoveKeepsFiles
    <2> QED
        BY <2>2, <2>3 DEF FilesInv, DiskTypeOK, DirectoryInv, diskVars
<1>4. CASE Restart
    <2>1. DropHandles([k \in Keys |-> None], [r \in Readers |-> None])
        BY <1>4 DEF Restart
    <2>2. UNCHANGED <<pageFile, content>> /\ tmpFile' = [k \in Keys |-> None]
        BY <1>4 DEF Restart
    <2> QED
        BY <2>1, <2>2, DropKeepsFiles
<1>5. CASE UNCHANGED vars
    BY <1>1, <1>5 DEF vars
<1> QED
    BY <1>2, <1>3, <1>4, <1>5, CreateKeepsFiles, WriteKeepsFiles, RenameKeepsFiles,
       InsertKeepsFiles, UnlinkKeepsFiles
    DEF Next, FlightStep

\* The files stay in order in every behaviour, with any faults.
THEOREM FilesInvariance == Spec => []FilesInv
<1>1. CacheTypeOK => entries \subseteq Keys
    BY DEF CacheTypeOK
<1> QED
    BY <1>1, InitFiles, NextFiles, Implementation, CacheTypeCorrect, PTL DEF Spec

\* The cache is well typed, whatever readers, flights and faults do.
THEOREM RangeCacheTypeCorrect == Spec => []TypeOK
<1>1. CacheTypeOK /\ FilesInv => TypeOK
    BY DEF TypeOK, FilesInv, Wiring, DiskTypeOK
<1> QED
    BY <1>1, FilesInvariance, Implementation, CacheTypeCorrect, PTL

\* A file under the name of a page never holds bytes of another page, whichever
\* flights share its temporary file.
THEOREM PageFilesHoldTheirPage == Spec => []FilesHoldTheirPage
<1>1. FilesInv => FilesHoldTheirPage
    <2> SUFFICES ASSUME FilesInv, NEW k \in Keys, pageFile[k] # None
                 PROVE  content[pageFile[k]] \in {k, None}
        BY DEF FilesHoldTheirPage
    <2>1. pageFile[k] \in Inodes /\ pageFile[k][1] = k
        BY DEF FilesInv, DiskTypeOK, DirectoryInv
    <2> QED
        BY <2>1 DEF FilesInv, DirectoryInv
<1> QED
    BY <1>1, FilesInvariance, PTL

-----------------------------------------------------------------------------
(* Flights that nobody gives up. *)

\* Every flight in use is awaited by a reader.
Accompanied == \A f \in FlightIds : step[f] # "unused" => \E r \in Readers : joined[r] = f

\* What dropping the handle of reader r, and its page's flight from the map,
\* leaves of the flights: those that another reader awaits, as they were.
LEMMA LeavingDropsOne ==
    ASSUME Wiring, Accompanied, NEW r \in Readers, joined[r] # None,
           DropHandles([flights EXCEPT ![current(r)] = None], [joined EXCEPT ![r] = None]),
           NEW f \in FlightIds
    PROVE  \/ /\ \E q \in Readers \ {r} : joined[q] = f /\ joined'[q] = f
              /\ step'[f] = step[f] /\ fd'[f] = fd[f] /\ doomed'[f] = doomed[f] /\ page'[f] = page[f]
           \/ step'[f] = "unused" /\ fd'[f] = None /\ doomed'[f] = {} /\ page'[f] = None
<1> DEFINE map == [flights EXCEPT ![current(r)] = None]
           handles == [joined EXCEPT ![r] = None]
<1>1. /\ \A q \in Readers \ {r} : handles[q] = joined[q]
      /\ handles[r] = None
      /\ \A k \in Keys : map[k] = f => flights[k] = f /\ k # current(r)
    BY InodeFacts DEF Wiring
<1>2. joined' = handles
    BY DEF DropHandles
<1>3. CASE Held(f, map, handles)
    <2>1. step'[f] = step[f] /\ fd'[f] = fd[f] /\ doomed'[f] = doomed[f] /\ page'[f] = page[f]
        BY <1>3 DEF DropHandles
    <2>2. \E q \in Readers \ {r} : joined[q] = f
        <3>1. CASE \E q \in Readers : handles[q] = f
            BY <1>1, <3>1, InodeFacts
        <3>2. ASSUME NEW k \in Keys, map[k] = f
              PROVE  \E q \in Readers \ {r} : joined[q] = f
            <4>1. flights[k] = f /\ k # current(r) /\ f # None
                BY <1>1, <3>2, InodeFacts
            <4>2. step[f] # "unused" /\ page[f] = k
                BY <4>1 DEF Wiring, HandlesAlive
            <4>3. PICK q \in Readers : joined[q] = f
                BY <4>2 DEF Accompanied
            <4>4. page[f] = current(q)
                BY <4>1, <4>3 DEF Wiring, HandlesAlive
            <4> QED
                BY <4>1, <4>2, <4>3, <4>4
        <3> QED
            BY <1>3, <3>1, <3>2 DEF Held
    <2> HIDE DEF map, handles
    <2> QED
        BY <1>1, <1>2, <2>1, <2>2
<1>4. CASE ~Held(f, map, handles)
    BY <1>4 DEF DropHandles
<1> QED
    BY <1>3, <1>4

\* As long as no reader is cancelled, no flight is left alone.
THEOREM NextAccompanied ==
    ASSUME "cancel" \notin Faults
    PROVE  Wiring /\ Accompanied /\ [Next]_vars => Accompanied'
<1> SUFFICES ASSUME Wiring, Accompanied, [Next]_vars PROVE Accompanied'
    OBVIOUS
<1>1. ASSUME UNCHANGED <<joined, step>> PROVE Accompanied'
    BY <1>1 DEF Accompanied
<1>2. ASSUME NEW r \in Readers, JoinFlight(r) PROVE Accompanied'
    <2>1. joined[r] = None
        BY <1>2 DEF JoinFlight, Wiring
    <2>2. CASE joined' = [joined EXCEPT ![r] = flights[current(r)]] /\ UNCHANGED step
        <3>1. \A q \in Readers \ {r} : joined'[q] = joined[q]
            BY <2>2 DEF Wiring
        <3> QED
            BY <2>1, <2>2, <3>1, InodeFacts DEF Accompanied
    <2>3. ASSUME NEW f \in FlightIds, joined' = [joined EXCEPT ![r] = f],
                 step' = [step EXCEPT ![f] = "fetch"]
          PROVE  Accompanied'
        <3>1. joined'[r] = f /\ \A q \in Readers \ {r} : joined'[q] = joined[q]
            BY <2>3 DEF Wiring
        <3>2. \A g \in FlightIds \ {f} : step'[g] = step[g]
            BY <2>3 DEF Wiring
        <3>3. ASSUME NEW g \in FlightIds, step'[g] # "unused"
              PROVE  \E q \in Readers : joined'[q] = g
            <4>1. CASE g = f
                BY <3>1, <4>1
            <4>2. CASE g # f
                <5>1. PICK q \in Readers : joined[q] = g
                    BY <3>2, <3>3, <4>2 DEF Accompanied
                <5>2. q # r
                    BY <2>1, <5>1, InodeFacts
                <5> QED
                    BY <3>1, <5>1, <5>2
            <4> QED
                BY <4>1, <4>2
        <3> QED
            BY <3>3 DEF Accompanied
    <2> QED
        BY <1>2, <2>2, <2>3 DEF JoinFlight
<1>3. ASSUME NEW r \in Readers, LeaveFlight(r) PROVE Accompanied'
    <2>1. joined[r] # None
        BY <1>3 DEF LeaveFlight, Wiring
    <2>2. DropHandles([flights EXCEPT ![current(r)] = None], [joined EXCEPT ![r] = None])
        BY <1>3 DEF LeaveFlight
    <2>3. \A f \in FlightIds : step'[f] # "unused" => \E q \in Readers : joined'[q] = f
        BY <2>1, <2>2, LeavingDropsOne
    <2> QED
        BY <2>3 DEF Accompanied
<1>4. ASSUME NEW f \in FlightIds, FlightStep(f) PROVE Accompanied'
    <2>1. PICK from, to : Advance(f, from, to)
        BY <1>4 DEF FlightStep, Fetch, CreateTmp, WriteTmp, RenameTmp, InsertEntry, UnlinkVictim
    <2>2. joined' = joined
        BY <1>4 DEF FlightStep, Fetch, CreateTmp, WriteTmp, RenameTmp, InsertEntry, UnlinkVictim,
                    readerVars
    <2>3. step' = [step EXCEPT ![f] = to] /\ \E r \in Readers : joined[r] = f
        BY <2>1, AdvanceInUse
    <2> QED
        BY <2>2, <2>3 DEF Accompanied, Wiring
<1>5. CASE Restart
    <2>1. \A f \in FlightIds : step'[f] = "unused"
        BY <1>5, InodeFacts DEF Restart, DropHandles, Held
    <2> QED
        BY <2>1 DEF Accompanied
<1>6. ASSUME NEW r \in Readers,
             Load(r) \/ ReadFile(r) \/ ForgetEntry(r) \/ \E range \in Ranges : Start(r, range)
      PROVE  Accompanied'
    BY <1>1, <1>6 DEF Load, ReadFile, ForgetEntry, Start, flightVars
<1>7. CASE UNCHANGED vars
    BY <1>1, <1>7 DEF vars, readerVars, flightVars
<1> QED
    BY <1>2, <1>3, <1>4, <1>5, <1>6, <1>7 DEF Next, ReaderStep, Cancel

\* While no reader is cancelled every flight has its reader, in every behaviour.
THEOREM AccompaniedInvariance ==
    ASSUME "cancel" \notin Faults
    PROVE  Spec => []Accompanied
<1>1. Init => Accompanied
    BY DEF Init, Accompanied
<1> QED
    BY <1>1, NextAccompanied, WiringInvariance, PTL DEF Spec

\* At rest nobody awaits a flight, so that none is in use.
LEMMA NothingInUseAtRest ==
    ASSUME Wiring, Accompanied, AtRest
    PROVE  \A f \in FlightIds : step[f] = "unused"
<1>1. \A r \in Readers : joined[r] = None
    BY DEF Wiring, AtRest, Resting
<1> QED
    BY <1>1, InodeFacts DEF Accompanied

\* Unless a client goes away, the readers leave no flight behind in the map,
\* whichever of them removes which flight.
THEOREM NoFlightIsLeftBehind ==
    ASSUME "cancel" \notin Faults
    PROVE  Spec => []NoStrayFlight
<1>1. Wiring /\ Accompanied => NoStrayFlight
    <2> SUFFICES ASSUME Wiring, Accompanied, AtRest PROVE \A k \in Keys : flights[k] = None
        BY DEF NoStrayFlight
    <2>1. \A k \in Keys : flights[k] # None => step[flights[k]] # "unused" /\ flights[k] \in FlightIds
        BY DEF Wiring, HandlesAlive
    <2> QED
        BY <2>1, NothingInUseAtRest
<1> QED
    BY <1>1, WiringInvariance, AccompaniedInvariance, PTL

-----------------------------------------------------------------------------
(* The disk holds no more than the counter says. *)

\* The pages the byte counter answers for: the entries, and the files that no
\* entry names and no flight will remove, which a reader leaves when it forgets
\* an entry whose file another flight has written again meanwhile.
Charged == entries \cup {k \in Keys : pageFile[k] # None /\ ~Pending(k)}

Counted == Occupied(Charged) <= bytes

\* A page occupies as many bytes as it has.
LEMMA PageOccupies ==
    ASSUME NEW k \in Keys
    PROVE  Occupied({k}) = Size[k]
<1>1. Cells({k}) = {k} \X (1..Size[k])
    BY DEF Cells
<1> QED
    BY <1>1, PageCells DEF Occupied

\* The charged pages are finitely many, so that their bytes are a number.
LEMMA ChargedFinite ==
    ASSUME CacheTypeOK
    PROVE  Charged \in SUBSET Keys /\ Occupied(Charged) \in Nat
BY CellsFinite DEF Charged, CacheTypeOK

\* A step that charges no page and takes nothing off the counter.
LEMMA CountedStays ==
    ASSUME CacheTypeOK, Counted, Charged' \subseteq Charged, bytes' = bytes
    PROVE  Counted'
<1> DEFINE before == Charged
           after == Charged'
<1>1. before \in SUBSET Keys /\ after \in SUBSET Keys /\ after \subseteq before
    BY ChargedFinite
<1>2. Occupied(after) <= Occupied(before)
    BY <1>1, OccupiedDifference
<1>3. Occupied(after) \in Nat /\ Occupied(before) \in Nat
    BY <1>1, CellsFinite
<1>4. Occupied(Charged)' = Occupied(after)
    BY DEF Occupied, Cells
<1>5. Occupied(before) <= bytes
    BY DEF Counted
<1> HIDE DEF before, after
<1>6. Occupied(after) <= bytes
    BY <1>2, <1>3, <1>5 DEF CacheTypeOK
<1> QED
    BY <1>4, <1>6 DEF Counted, after

\* No entry, no file and no pending page changes.
LEMMA CountedElsewhere ==
    ASSUME CacheTypeOK, Counted, UNCHANGED <<bytes, pageFile>>, entries' \subseteq entries,
           \A k \in Keys : Pending(k) => Pending(k)'
    PROVE  Counted'
<1>1. Charged' \subseteq Charged
    BY DEF Charged
<1> QED
    BY <1>1, CountedStays

\* A reader that drops its handle charges and discharges nothing.
LEMMA LeaveKeepsCount ==
    ASSUME FilesInv, Accompanied, CacheTypeOK, Counted, NEW r \in Readers, LeaveFlight(r)
    PROVE  Counted'
<1>1. /\ DropHandles([flights EXCEPT ![current(r)] = None], [joined EXCEPT ![r] = None])
      /\ step[joined[r]] \in Landed
      /\ UNCHANGED <<bytes, pageFile, entries>>
    BY DEF LeaveFlight, cacheVars, diskVars
<1>2. joined[r] # None
    BY DEF LeaveFlight, FilesInv, Wiring
<1>3. ASSUME NEW k \in Keys, NEW f \in FlightIds, (step[f] = "insert" /\ page[f] = k) \/ k \in doomed[f]
      PROVE  (step'[f] = "insert" /\ page'[f] = k) \/ k \in doomed'[f]
    <2>1. step[f] \in {"insert", "unlink"}
        BY <1>3 DEF FilesInv, FlightsInv
    <2>2. PICK q \in Readers : joined[q] = f
        BY <2>1 DEF Accompanied
    <2>3. q # r
        BY <1>1, <2>1, <2>2 DEF Landed
    <2>4. Held(f, [flights EXCEPT ![current(r)] = None], [joined EXCEPT ![r] = None])
        BY <2>2, <2>3 DEF Held, FilesInv, Wiring
    <2>5. step'[f] = step[f] /\ doomed'[f] = doomed[f] /\ page'[f] = page[f]
        BY <1>1, <2>4 DEF DropHandles
    <2> QED
        BY <1>3, <2>5
<1>4. \A k \in Keys : Pending(k) => Pending(k)'
    BY <1>3 DEF Pending
<1> QED
    BY <1>1, <1>4, CountedElsewhere

\* A renamed file is one that its flight answers for until it is entered.
LEMMA RenameKeepsCount ==
    ASSUME FilesInv, CacheTypeOK, Counted, NEW f \in FlightIds, RenameTmp(f)
    PROVE  Counted'
<1>1. /\ UNCHANGED <<bytes, entries, doomed, page>>
      /\ \/ Advance(f, "rename", "insert") /\ pageFile' = [pageFile EXCEPT ![page[f]] = tmpFile[page[f]]]
         \/ Advance(f, "rename", "failed") /\ UNCHANGED pageFile
    BY DEF RenameTmp, cacheVars
<1>2. PICK to : Advance(f, "rename", to)
    BY <1>1
<1>3. step[f] = "rename" /\ step' = [step EXCEPT ![f] = to]
    BY <1>2, AdvanceInUse DEF FilesInv
<1>4. \A g \in FlightIds : step[g] = "insert" => step'[g] = "insert"
    BY <1>3 DEF FilesInv, Wiring
<1>5. \A k \in Keys : Pending(k) => Pending(k)'
    BY <1>1, <1>4 DEF Pending
<1>6. \A k \in Keys : pageFile'[k] # pageFile[k] => Pending(k)'
    <2> SUFFICES ASSUME NEW k \in Keys, pageFile'[k] # pageFile[k] PROVE Pending(k)'
        OBVIOUS
    <2>1. k = page[f] /\ Advance(f, "rename", "insert")
        BY <1>1 DEF FilesInv, DiskTypeOK
    <2>2. step'[f] = "insert"
        BY <2>1, <1>3 DEF FilesInv, Wiring, Advance
    <2> QED
        BY <1>1, <2>1, <2>2 DEF Pending
<1>7. Charged' \subseteq Charged
    BY <1>1, <1>5, <1>6 DEF Charged
<1> QED
    BY <1>1, <1>7, CountedStays

\* A victim that is unlinked had left the counter when it was chosen.
LEMMA UnlinkKeepsCount ==
    ASSUME FilesInv, CacheTypeOK, Counted, "disk" \notin Faults,
           NEW f \in FlightIds, UnlinkVictim(f)
    PROVE  Counted'
<1>1. PICK k \in doomed[f] :
        /\ doomed' = [doomed EXCEPT ![f] = doomed[f] \ {k}]
        /\ Advance(f, "unlink", IF doomed[f] = {k} THEN "ready" ELSE "unlink")
        /\ pageFile' = [pageFile EXCEPT ![k] = None]
        /\ UNCHANGED <<page, bytes, entries>>
    BY DEF UnlinkVictim, cacheVars
<1>2. step[f] = "unlink" /\ step' = [step EXCEPT ![f] = IF doomed[f] = {k} THEN "ready" ELSE "unlink"]
    BY <1>1, AdvanceInUse DEF FilesInv
<1>3. k \in Keys /\ pageFile'[k] = None
    BY <1>1 DEF FilesInv, DiskTypeOK
<1>4. \A l \in Keys \ {k} : pageFile'[l] = pageFile[l]
    BY <1>1 DEF FilesInv, DiskTypeOK
<1>5. \A l \in Keys \ {k} : Pending(l) => Pending(l)'
    <2>1. \A g \in FlightIds : step[g] = "insert" => step'[g] = "insert"
        BY <1>2 DEF FilesInv, Wiring
    <2>2. \A g \in FlightIds : doomed[g] \ {k} \subseteq doomed'[g]
        BY <1>1 DEF FilesInv, DiskTypeOK
    <2> QED
        BY <1>1, <2>1, <2>2 DEF Pending
<1>6. Charged' \subseteq Charged
    BY <1>1, <1>3, <1>4, <1>5 DEF Charged
<1> QED
    BY <1>1, <1>6, CountedStays

\* An insertion charges its page, and takes off the counter what it evicts.
LEMMA InsertKeepsCount ==
    ASSUME FilesInv, CacheInv, Counted, NEW f \in FlightIds, InsertEntry(f)
    PROVE  Counted'
<1> DEFINE k == page[f]
<1>1. PICK n \in 0..Len(Pops(k)) :
        /\ Insert(n, k)
        /\ doomed' = [doomed EXCEPT ![f] = Victims(n, k)]
        /\ Advance(f, "insert", IF Victims(n, k) = {} THEN "ready" ELSE "unlink")
    BY DEF InsertEntry
<1> DEFINE V == Victims(n, k)
           before == Charged \cup {k}
           after == Charged'
<1>2. /\ step[f] = "insert" /\ \E to : step' = [step EXCEPT ![f] = to]
      /\ page' = page /\ pageFile' = pageFile
    BY <1>1, AdvanceInUse DEF FilesInv, InsertEntry, diskVars
<1>3. k \in Keys /\ entries \in SUBSET Keys /\ bytes \in Nat /\ CacheTypeOK /\ WithinBudget
    BY <1>2 DEF FilesInv, FlightsInv, CacheInv, CacheTypeOK
<1>4. entries' = (entries \cup {k}) \ V /\ V \subseteq entries \cup {k}
    BY <1>1 DEF Insert, Victims
<1>5. doomed'[f] = V /\ \A g \in FlightIds \ {f} : doomed'[g] = doomed[g] /\ step'[g] = step[g]
    BY <1>1, <1>2 DEF FilesInv, DiskTypeOK, Wiring
<1>6. doomed[f] = {}
    BY <1>2 DEF FilesInv, FlightsInv
<1>7. \A l \in Keys : l # k /\ Pending(l) => Pending(l)'
    BY <1>2, <1>5, <1>6 DEF Pending
<1>8. \A l \in V : Pending(l)'
    BY <1>5 DEF Pending
<1>9. Charged \in SUBSET Keys /\ Occupied(Charged) \in Nat
    BY <1>3, ChargedFinite
<1>10. before \in SUBSET Keys /\ V \in SUBSET before
    BY <1>3, <1>4, <1>9 DEF Charged
<1>11. after \subseteq before \ V
    <2> SUFFICES ASSUME NEW l \in after PROVE l \in before /\ l \notin V
        OBVIOUS
    <2> HIDE DEF V
    <2>1. l \in entries' \/ (l \in Keys /\ pageFile[l] # None /\ ~Pending(l)')
        BY <1>2 DEF Charged
    <2>2. CASE l \in entries'
        BY <1>4, <2>2 DEF Charged
    <2>3. CASE l \in Keys /\ pageFile[l] # None /\ ~Pending(l)'
        BY <1>7, <1>8, <2>3 DEF Charged
    <2> QED
        BY <2>1, <2>2, <2>3
<1>12. Occupied(before) <= BytesBefore(k) /\ BytesBefore(k) \in Nat
    <2>1. Size[k] \in Nat /\ BytesBefore(k) \in Nat
        BY <1>3, BytesBeforeCovers, SizeAssumption
    <2>2. Occupied(Charged) <= bytes
        BY DEF Counted
    <2>3. CASE k \in entries
        <3>1. before = Charged
            BY <2>3 DEF Charged
        <3>2. Size[k] <= bytes
            <4>1. Occupied({k}) = Size[k]
                BY <1>3, PageOccupies
            <4>2. Occupied({k}) <= Occupied(entries) /\ Occupied(entries) <= bytes
                BY <1>3, <2>3, OccupiedDifference DEF WithinBudget
            <4>3. Occupied(entries) \in Nat
                BY <1>3, CellsFinite
            <4> QED
                BY <1>3, <2>1, <4>1, <4>2, <4>3
        <3>3. BytesBefore(k) = bytes
            BY <1>3, <2>1, <2>3, <3>2 DEF BytesBefore, SaturatingSub
        <3> QED
            BY <2>1, <2>2, <3>1, <3>3
    <2>4. CASE k \notin entries
        <3>1. BytesBefore(k) = bytes + Size[k]
            BY <1>3, <2>1, <2>4 DEF BytesBefore, SaturatingSub
        <3>2. Occupied(before) <= Occupied(Charged) + Size[k]
            <4>1. CASE k \in Charged
                <5>1. before = Charged
                    BY <4>1
                <5> HIDE DEF before
                <5> QED
                    BY <1>9, <2>1, <5>1
            <4>2. CASE k \notin Charged
                <5>1. Occupied(before) = Occupied(Charged) + Size[k]
                    BY <1>3, <1>9, <4>2, OccupiedAdd
                <5> HIDE DEF before
                <5> QED
                    BY <1>9, <2>1, <5>1
            <4> QED
                BY <4>1, <4>2
        <3>3. Occupied(before) \in Nat
            BY <1>10, CellsFinite
        <3> HIDE DEF before
        <3> QED
            BY <1>3, <1>9, <2>1, <2>2, <3>1, <3>2, <3>3
    <2> QED
        BY <2>3, <2>4
<1>13. /\ Occupied(before \ V) = Occupied(before) - Occupied(V)
       /\ Occupied(V) <= Occupied(before)
    <2>1. before \cap V = V
        BY <1>10
    <2>2. V \in SUBSET Keys
        BY <1>10
    <2> HIDE DEF before, V
    <2> QED
        BY <1>10, <2>1, <2>2, OccupiedDifference
<1>14. bytes' = BytesBefore(k) - Occupied(V)
    <2>1. bytes' = SaturatingSub(BytesBefore(k), Occupied(V))
        BY <1>1 DEF Insert, BytesAfter
    <2>2. Occupied(V) \in Nat /\ Occupied(before) \in Nat
        BY <1>10, CellsFinite
    <2> HIDE DEF before, V
    <2> QED
        BY <1>12, <1>13, <2>1, <2>2 DEF SaturatingSub
<1>15. Occupied(after) <= Occupied(before \ V)
    <2>1. before \ V \in SUBSET Keys /\ after \in SUBSET Keys
        BY <1>10, <1>11
    <2> HIDE DEF before, after, V
    <2> QED
        BY <1>11, <2>1, OccupiedDifference
<1>16. Occupied(Charged)' = Occupied(after)
    BY DEF Occupied, Cells
<1>17. Occupied(after) \in Nat /\ Occupied(before) \in Nat /\ Occupied(V) \in Nat
    BY <1>10, <1>11, CellsFinite
<1> HIDE DEF before, after, V
<1>18. Occupied(after) <= bytes'
    BY <1>12, <1>13, <1>14, <1>15, <1>17
<1> QED
    BY <1>16, <1>18 DEF Counted

\* While files are written and unlinked without error, and no reader is given
\* up, the counter answers for every file that is not about to go.
THEOREM NextCounted ==
    ASSUME Faults \subseteq {"store"}
    PROVE  FilesInv /\ CacheInv /\ Accompanied /\ Counted /\ [Next]_vars => Counted'
<1> SUFFICES ASSUME FilesInv, CacheInv, Accompanied, Counted, [Next]_vars PROVE Counted'
    OBVIOUS
<1>1. CacheTypeOK /\ "disk" \notin Faults /\ "cancel" \notin Faults /\ "crash" \notin Faults
    BY DEF CacheInv
<1>2. ASSUME UNCHANGED <<bytes, pageFile, step, page, doomed>>, entries' \subseteq entries
      PROVE  Counted'
    <2>1. \A k \in Keys : Pending(k) => Pending(k)'
        BY <1>2 DEF Pending
    <2> QED
        BY <1>1, <1>2, <2>1, CountedElsewhere
<1>3. ASSUME NEW r \in Readers,
             Load(r) \/ ReadFile(r) \/ ForgetEntry(r) \/ \E range \in Ranges : Start(r, range)
      PROVE  Counted'
    <2>1. UNCHANGED <<bytes, pageFile, step, page, doomed>> /\ entries' \subseteq entries
        BY <1>3 DEF Load, ReadFile, ForgetEntry, Start, Touch, Forget, cacheVars, flightVars, diskVars
    <2> QED
        BY <1>2, <2>1
<1>4. ASSUME NEW r \in Readers, JoinFlight(r) PROVE Counted'
    <2>1. UNCHANGED <<bytes, pageFile, entries, doomed>>
        BY <1>4 DEF JoinFlight, cacheVars, diskVars
    <2>2. \A f \in FlightIds : step[f] = "insert" => step'[f] = step[f] /\ page'[f] = page[f]
        BY <1>4 DEF JoinFlight, Least, UnusedFlights, FilesInv, Wiring
    <2>3. \A k \in Keys : Pending(k) => Pending(k)'
        BY <2>1, <2>2 DEF Pending
    <2> QED
        BY <1>1, <2>1, <2>3, CountedElsewhere
<1>5. ASSUME NEW f \in FlightIds, Fetch(f) \/ CreateTmp(f) \/ WriteTmp(f) PROVE Counted'
    <2>1. UNCHANGED <<bytes, pageFile, entries, doomed, page>>
        BY <1>5 DEF Fetch, CreateTmp, WriteTmp, cacheVars, diskVars
    <2>2. PICK from \in {"fetch", "create", "write"}, to \in {"create", "write", "rename", "ready", "failed"} :
              Advance(f, from, to)
        BY <1>5 DEF Fetch, CreateTmp, WriteTmp
    <2>3. step[f] # "insert" /\ step' = [step EXCEPT ![f] = to]
        BY <2>2 DEF Advance
    <2>4. \A g \in FlightIds : step[g] = "insert" => step'[g] = "insert"
        BY <2>3 DEF FilesInv, Wiring
    <2>5. \A k \in Keys : Pending(k) => Pending(k)'
        BY <2>1, <2>4 DEF Pending
    <2> QED
        BY <1>1, <2>1, <2>5, CountedElsewhere
<1>6. CASE UNCHANGED vars
    BY <1>2, <1>6 DEF vars, cacheVars, flightVars, diskVars
<1> QED
    BY <1>1, <1>3, <1>4, <1>5, <1>6, LeaveKeepsCount, RenameKeepsCount, UnlinkKeepsCount, InsertKeepsCount
    DEF Next, ReaderStep, FlightStep, Cancel, Restart

THEOREM CountedInvariance ==
    ASSUME Faults \subseteq {"store"}
    PROVE  Spec => [](FilesInv /\ CacheInv /\ Accompanied /\ Counted)
<1>1. Init => Counted
    <2> SUFFICES ASSUME Init PROVE Counted
        OBVIOUS
    <2>1. Charged = {}
        BY DEF Init, CacheInit, Charged
    <2> QED
        BY <2>1, OccupiedNothing DEF Counted, Init, CacheInit
<1>2. "cancel" \notin Faults
    OBVIOUS
<1>3. Spec => []CacheInv
    BY Implementation, CacheInvariance, PTL
<1> QED
    BY <1>1, <1>2, <1>3, NextCounted, FilesInvariance, AccompaniedInvariance, PTL DEF Spec

\* With a local disk that obeys and no reader cancelled, the files that no
\* flight is about to enter or to unlink fit in max_size in every state,
\* however readers and flights interleave: the bytes that the counter keeps of
\* forgotten entries make up for the files that no entry names.
THEOREM SettledFilesWithinBudget ==
    ASSUME Faults \subseteq {"store"}
    PROVE  Spec => []SettledFilesFit
<1>1. CacheInv /\ Counted => SettledFilesFit
    <2> SUFFICES ASSUME CacheInv, Counted
                 PROVE  Occupied({k \in Keys : pageFile[k] # None /\ ~Pending(k)}) <= MaxSize
        BY DEF SettledFilesFit
    <2> DEFINE files == {k \in Keys : pageFile[k] # None /\ ~Pending(k)}
    <2>1. files \subseteq Charged
        BY DEF Charged
    <2>2. Charged \in SUBSET Keys /\ Occupied(Charged) \in Nat
        BY ChargedFinite DEF CacheInv
    <2>3. Occupied(files) <= Occupied(Charged) /\ Occupied(files) \in Nat
        BY <2>1, <2>2, OccupiedDifference, CellsFinite
    <2>4. Occupied(Charged) <= bytes /\ bytes <= MaxSize /\ bytes \in Nat
        BY DEF Counted, CacheInv, WithinBudget, CacheTypeOK
    <2> HIDE DEF files
    <2>5. Occupied(files) <= MaxSize
        BY <2>2, <2>3, <2>4, LimitAssumption
    <2> QED
        BY <2>5 DEF files
<1> QED
    BY <1>1, CountedInvariance, PTL

\* When no reader is active every file is settled, so that all page files fit
\* in max_size, although the counter is never set right after an entry is
\* forgotten.
THEOREM DiskWithinBudget ==
    ASSUME Faults \subseteq {"store"}
    PROVE  Spec => []FilesWithinBudget
<1>1. FilesInv /\ Accompanied /\ SettledFilesFit => FilesWithinBudget
    <2> SUFFICES ASSUME FilesInv, Accompanied, SettledFilesFit, AtRest
                 PROVE  Occupied({k \in Keys : pageFile[k] # None}) <= MaxSize
        BY DEF FilesWithinBudget
    <2>1. \A f \in FlightIds : step[f] # "insert" /\ doomed[f] = {}
        BY NothingInUseAtRest DEF FilesInv, FlightsInv
    <2>2. {k \in Keys : pageFile[k] # None} = {k \in Keys : pageFile[k] # None /\ ~Pending(k)}
        BY <2>1 DEF Pending
    <2> QED
        BY <2>2 DEF SettledFilesFit
<1> QED
    BY <1>1, CountedInvariance, SettledFilesWithinBudget, PTL

-----------------------------------------------------------------------------
(* One reader at a time. *)

\* What the code does not see to, and the file of a page needs: that no two
\* flights of the page are under way, which two readers can bring about.
LoneReader == \A r, q \in Readers : r = q

\* A flight in use is the one the map has for its page.
OneFlightEach == \A f \in FlightIds : step[f] # "unused" => flights[page[f]] = f

\* A flight at work on the disk is awaited: it can be given up only where it is
\* suspended.
Uninterrupted ==
    \A f \in FlightIds :
        step[f] \in {"create", "write", "rename", "unlink"} => \E r \in Readers : joined[r] = f

AloneInv == FilesInv /\ OneFlightEach /\ Uninterrupted

\* A single reader awaits a single flight.
LEMMA SameFlight ==
    ASSUME LoneReader, NEW f \in FlightIds, NEW g \in FlightIds,
           \E r \in Readers : joined[r] = f, \E r \in Readers : joined[r] = g
    PROVE  f = g
BY DEF LoneReader

\* Two flights under way are about two pages.
LEMMA OtherPage ==
    ASSUME OneFlightEach, NEW f \in FlightIds, NEW g \in FlightIds, f # g,
           step[f] # "unused", step[g] # "unused"
    PROVE  page[f] # page[g]
BY DEF OneFlightEach

\* A reader that goes takes no flight with it but the one it awaits, and that
\* one only when it also leaves the map.
LEMMA LeavingAlone ==
    ASSUME LoneReader, AloneInv, NEW r \in Readers,
           NEW map \in {flights, [flights EXCEPT ![current(r)] = None]},
           DropHandles(map, [joined EXCEPT ![r] = None]),
           NEW f \in FlightIds, step'[f] # "unused"
    PROVE  /\ step'[f] = step[f] /\ page'[f] = page[f] /\ fd'[f] = fd[f] /\ doomed'[f] = doomed[f]
           /\ map[page[f]] = f
<1>1. Held(f, map, [joined EXCEPT ![r] = None])
    BY DEF DropHandles
<1>2. step'[f] = step[f] /\ page'[f] = page[f] /\ fd'[f] = fd[f] /\ doomed'[f] = doomed[f]
    BY <1>1 DEF DropHandles
<1>3. page[f] \in Keys /\ flights[page[f]] = f
    BY <1>2 DEF AloneInv, OneFlightEach, FilesInv, FlightsInv
<1>4. ASSUME map # flights PROVE map[page[f]] = f
    <2>1. map = [flights EXCEPT ![current(r)] = None]
        BY <1>4
    <2>2. \A q \in Readers : [joined EXCEPT ![r] = None][q] = None
        BY DEF LoneReader, AloneInv, FilesInv, Wiring
    <2>3. PICK k \in Keys : map[k] = f
        BY <1>1, <2>2, InodeFacts DEF Held
    <2>4. flights[k] = f
        BY <2>1, <2>3, InodeFacts DEF AloneInv, FilesInv, Wiring
    <2>5. page[f] = k
        BY <2>4, InodeFacts DEF AloneInv, FilesInv, Wiring, HandlesAlive
    <2> QED
        BY <2>3, <2>5
<1> QED
    BY <1>2, <1>3, <1>4

\* Every step of a single reader keeps one flight for each page.
THEOREM NextAlone ==
    ASSUME LoneReader
    PROVE  AloneInv /\ FilesInv' /\ [Next]_vars => AloneInv'
<1> SUFFICES ASSUME AloneInv, FilesInv', [Next]_vars PROVE OneFlightEach' /\ Uninterrupted'
    BY DEF AloneInv
<1>1. ASSUME UNCHANGED <<joined, flights, step, page>> PROVE OneFlightEach' /\ Uninterrupted'
    BY <1>1 DEF AloneInv, OneFlightEach, Uninterrupted
<1>2. ASSUME NEW r \in Readers, JoinFlight(r) PROVE OneFlightEach' /\ Uninterrupted'
    <2>1. pc[r] = "miss" /\ joined[r] = None
        BY <1>2 DEF JoinFlight, AloneInv, FilesInv, Wiring
    <2>2. \A f \in FlightIds : step[f] \notin {"create", "write", "rename", "unlink"}
        BY <2>1, InodeFacts DEF AloneInv, Uninterrupted, LoneReader
    <2>3. CASE UNCHANGED <<flights, step, page>>
        BY <2>2, <2>3 DEF AloneInv, OneFlightEach, Uninterrupted
    <2>4. ASSUME NEW f \in FlightIds, flights[current(r)] = None, Least(f, UnusedFlights),
                 flights' = [flights EXCEPT ![current(r)] = f],
                 step' = [step EXCEPT ![f] = "fetch"],
                 page' = [page EXCEPT ![f] = current(r)]
          PROVE  OneFlightEach' /\ Uninterrupted'
        <3>1. current(r) \in Keys
            BY <2>1, CurrentPage DEF AloneInv, FilesInv, Working
        <3>2. /\ step'[f] = "fetch" /\ page'[f] = current(r) /\ flights'[current(r)] = f
              /\ \A g \in FlightIds \ {f} : step'[g] = step[g] /\ page'[g] = page[g]
              /\ \A k \in Keys \ {current(r)} : flights'[k] = flights[k]
            BY <2>4, <3>1 DEF AloneInv, FilesInv, Wiring
        <3>3. ASSUME NEW g \in FlightIds, g # f, step[g] # "unused"
              PROVE  page[g] \in Keys \ {current(r)} /\ flights[page[g]] = g
            BY <2>4, <3>3, InodeFacts DEF AloneInv, OneFlightEach, FilesInv, FlightsInv
        <3>4. OneFlightEach'
            BY <3>2, <3>3 DEF OneFlightEach
        <3>5. Uninterrupted'
            BY <2>2, <3>2 DEF Uninterrupted
        <3> QED
            BY <3>4, <3>5
    <2> QED
        BY <1>2, <2>3, <2>4 DEF JoinFlight
<1>3. ASSUME NEW r \in Readers, LeaveFlight(r) PROVE OneFlightEach' /\ Uninterrupted'
    <2> DEFINE map == [flights EXCEPT ![current(r)] = None]
    <2>1. /\ joined[r] # None /\ step[joined[r]] \in Landed
          /\ DropHandles(map, [joined EXCEPT ![r] = None])
        BY <1>3 DEF LeaveFlight, AloneInv, FilesInv, Wiring
    <2>2. flights' = map
        BY <2>1 DEF DropHandles
    <2>3. \A f \in FlightIds : step'[f] # "unused" =>
              step'[f] = step[f] /\ page'[f] = page[f] /\ map[page[f]] = f
        BY <2>1, LeavingAlone
    <2> HIDE DEF map
    <2>4. OneFlightEach'
        BY <2>2, <2>3 DEF OneFlightEach
    <2>5. \A f \in FlightIds : step[f] \notin {"create", "write", "rename", "unlink"}
        BY <2>1 DEF AloneInv, Uninterrupted, LoneReader, Landed
    <2> QED
        BY <2>3, <2>4, <2>5 DEF Uninterrupted
<1>4. ASSUME NEW r \in Readers, Cancel(r) PROVE OneFlightEach' /\ Uninterrupted'
    <2>1. DropHandles(flights, [joined EXCEPT ![r] = None])
        BY <1>4 DEF Cancel
    <2>2. flights' = flights
        BY <2>1 DEF DropHandles
    <2>3. \A f \in FlightIds : step'[f] # "unused" =>
              step'[f] = step[f] /\ page'[f] = page[f] /\ flights[page[f]] = f
        BY <2>1, LeavingAlone DEF AloneInv, OneFlightEach
    <2>4. OneFlightEach'
        BY <2>2, <2>3 DEF OneFlightEach
    <2>5. joined[r] = None \/ step[joined[r]] \in {"fetch", "insert"} \cup Landed
        BY <1>4 DEF Cancel, LoneReader, AloneInv, FilesInv, Wiring
    <2>6. \A f \in FlightIds : step[f] \notin {"create", "write", "rename", "unlink"}
        BY <2>5, InodeFacts DEF AloneInv, Uninterrupted, LoneReader, Landed
    <2> QED
        BY <2>3, <2>4, <2>6 DEF Uninterrupted
<1>5. ASSUME NEW f \in FlightIds, FlightStep(f) PROVE OneFlightEach' /\ Uninterrupted'
    <2>1. PICK from, to : Advance(f, from, to)
        BY <1>5 DEF FlightStep, Fetch, CreateTmp, WriteTmp, RenameTmp, InsertEntry, UnlinkVictim
    <2>2. UNCHANGED <<joined, flights, page>>
        BY <1>5 DEF FlightStep, Fetch, CreateTmp, WriteTmp, RenameTmp, InsertEntry, UnlinkVictim,
                    readerVars
    <2>3. /\ step' = [step EXCEPT ![f] = to] /\ step[f] # "unused"
          /\ \E r \in Readers : joined[r] = f
        BY <2>1, AdvanceInUse DEF AloneInv, FilesInv
    <2>4. \A g \in FlightIds \ {f} : step'[g] = step[g]
        BY <2>3 DEF AloneInv, FilesInv, Wiring
    <2> QED
        BY <2>2, <2>3, <2>4 DEF AloneInv, OneFlightEach, Uninterrupted
<1>6. CASE Restart
    <2>1. \A f \in FlightIds : step'[f] = "unused"
        BY <1>6, InodeFacts DEF Restart, DropHandles, Held
    <2> QED
        BY <2>1 DEF OneFlightEach, Uninterrupted
<1>7. ASSUME NEW r \in Readers,
             Load(r) \/ ReadFile(r) \/ ForgetEntry(r) \/ \E range \in Ranges : Start(r, range)
      PROVE  OneFlightEach' /\ Uninterrupted'
    BY <1>1, <1>7 DEF Load, ReadFile, ForgetEntry, Start, flightVars
<1>8. CASE UNCHANGED vars
    BY <1>1, <1>8 DEF vars, readerVars, flightVars
<1> QED
    BY <1>2, <1>3, <1>4, <1>5, <1>6, <1>7, <1>8 DEF Next, ReaderStep

\* A single reader has one flight for a page at a time, in every behaviour.
THEOREM AloneInvariance ==
    ASSUME LoneReader
    PROVE  Spec => []AloneInv
<1>1. Init => OneFlightEach /\ Uninterrupted
    BY DEF Init, OneFlightEach, Uninterrupted
<1>2. Init => AloneInv
    BY <1>1, InitFiles DEF AloneInv
<1> QED
    BY <1>2, NextAlone, FilesInvariance, PTL DEF Spec

-----------------------------------------------------------------------------
(* Page files are whole. *)

\* A published file is whole and has no second name, a flight writes to the
\* file that has the temporary name, and it renames that file when it is whole.
WholeInv ==
    /\ \A k \in Keys : pageFile[k] # None =>
          content[pageFile[k]] # None /\ tmpFile[k] # pageFile[k]
    /\ \A f \in FlightIds : step[f] = "write" => tmpFile[page[f]] = fd[f]
    /\ \A f \in FlightIds : step[f] = "rename" =>
          tmpFile[page[f]] # None /\ content[tmpFile[page[f]]] # None

\* The temporary file that is truncated is not a published one.
LEMMA CreateKeepsWhole ==
    ASSUME AloneInv, WholeInv, NEW f \in FlightIds, CreateTmp(f)
    PROVE  WholeInv'
<1> DEFINE k == page[f]
<1>1. UNCHANGED <<page, pageFile>>
    BY DEF CreateTmp
<1>2. CASE Advance(f, "create", "failed") /\ UNCHANGED <<tmpFile, fd, content>>
    <2>1. step' = [step EXCEPT ![f] = "failed"]
        BY <1>2, AdvanceInUse DEF AloneInv, FilesInv
    <2>2. \A g \in FlightIds : step'[g] \in {"write", "rename"} => step'[g] = step[g]
        BY <2>1 DEF AloneInv, FilesInv, Wiring
    <2> QED
        BY <1>1, <1>2, <2>2 DEF WholeInv
<1>3. ASSUME NEW i \in Inodes, Advance(f, "create", "write"),
             IF tmpFile[k] = None THEN NewInode(i, k) ELSE i = tmpFile[k],
             tmpFile' = [tmpFile EXCEPT ![k] = i],
             fd' = [fd EXCEPT ![f] = i],
             content' = [content EXCEPT ![i] = None]
      PROVE  WholeInv'
    <2>1. step[f] = "create" /\ step' = [step EXCEPT ![f] = "write"]
        BY <1>3, AdvanceInUse DEF AloneInv, FilesInv
    <2>2. k \in Keys
        BY <2>1 DEF AloneInv, FilesInv, FlightsInv
    <2>3. i[1] = k /\ pageFile[k] # i
        <3>1. CASE tmpFile[k] = None
            <4>1. i = <<k, i[2]>> /\ i[2] \in InodeNumbers
                BY <1>3, <3>1 DEF NewInode, Inodes
            <4>2. ~InUse(i)
                BY <1>3, <3>1, <4>1 DEF NewInode, Least
            <4> QED
                BY <2>2, <4>1, <4>2, <1>3, <3>1 DEF InUse, NewInode
        <3>2. CASE tmpFile[k] # None
            <4>1. i = tmpFile[k] /\ i[1] = k
                BY <1>3, <2>2, <3>2 DEF AloneInv, FilesInv, DirectoryInv
            <4> QED
                BY <2>2, <3>2, <4>1 DEF WholeInv
        <3> QED
            BY <3>1, <3>2
    <2>4. /\ tmpFile'[k] = i /\ fd'[f] = i
          /\ \A l \in Keys \ {k} : tmpFile'[l] = tmpFile[l]
          /\ \A j \in Inodes \ {i} : content'[j] = content[j]
        BY <1>3, <2>2 DEF AloneInv, FilesInv, DiskTypeOK
    <2>5. \A g \in FlightIds \ {f} :
             step'[g] = step[g] /\ fd'[g] = fd[g] /\ (step[g] # "unused" => page[g] \in Keys \ {k})
        BY <1>3, <2>1, OtherPage DEF AloneInv, FilesInv, DiskTypeOK, Wiring, FlightsInv
    <2>6. \A l \in Keys : pageFile[l] # None =>
             content'[pageFile[l]] # None /\ tmpFile'[l] # pageFile[l]
        <3> SUFFICES ASSUME NEW l \in Keys, pageFile[l] # None
                     PROVE  content'[pageFile[l]] # None /\ tmpFile'[l] # pageFile[l]
            OBVIOUS
        <3>1. pageFile[l] \in Inodes /\ pageFile[l][1] = l
            BY DEF AloneInv, FilesInv, DiskTypeOK, DirectoryInv
        <3>2. pageFile[l] # i
            BY <2>3, <3>1
        <3> QED
            BY <2>3, <2>4, <3>1, <3>2 DEF WholeInv
    <2>7. \A g \in FlightIds : step'[g] = "write" => tmpFile'[page[g]] = fd'[g]
        BY <2>4, <2>5 DEF WholeInv
    <2>8. \A g \in FlightIds : step'[g] = "rename" =>
             tmpFile'[page[g]] # None /\ content'[tmpFile'[page[g]]] # None
        <3> SUFFICES ASSUME NEW g \in FlightIds, step'[g] = "rename"
                     PROVE  tmpFile'[page[g]] # None /\ content'[tmpFile'[page[g]]] # None
            OBVIOUS
        <3>1. g # f
            BY <2>1 DEF AloneInv, FilesInv, Wiring
        <3>2. step[g] = "rename" /\ page[g] \in Keys \ {k}
            BY <2>5, <3>1
        <3>3. tmpFile[page[g]] # None /\ content[tmpFile[page[g]]] # None
            BY <3>2 DEF WholeInv
        <3>4. tmpFile[page[g]] \in Inodes \ {i}
            BY <2>3, <3>2, <3>3 DEF AloneInv, FilesInv, DiskTypeOK, DirectoryInv
        <3> QED
            BY <2>4, <3>2, <3>3, <3>4
    <2> QED
        BY <1>1, <2>6, <2>7, <2>8 DEF WholeInv
<1> QED
    BY <1>2, <1>3 DEF CreateTmp

\* The file that is written holds the whole page once the write is over.
LEMMA WriteKeepsWhole ==
    ASSUME AloneInv, WholeInv, NEW f \in FlightIds, WriteTmp(f)
    PROVE  WholeInv'
<1>1. \/ Advance(f, "write", "rename") /\ content' = [content EXCEPT ![fd[f]] = page[f]]
      \/ Advance(f, "write", "failed") /\ UNCHANGED content
    BY DEF WriteTmp
<1>2. fd' = [fd EXCEPT ![f] = None] /\ UNCHANGED <<page, pageFile, tmpFile>>
    BY DEF WriteTmp
<1>3. PICK to : Advance(f, "write", to)
    BY <1>1
<1>4. step[f] = "write" /\ step' = [step EXCEPT ![f] = to]
    BY <1>3, AdvanceInUse DEF AloneInv, FilesInv
<1>5. page[f] \in Keys /\ fd[f] \in Inodes /\ tmpFile[page[f]] = fd[f]
    BY <1>4 DEF AloneInv, FilesInv, FlightsInv, DiskTypeOK, WholeInv
<1>6. \A i \in Inodes : content[i] # None => content'[i] # None
    BY <1>1, <1>5, InodeFacts DEF AloneInv, FilesInv, DiskTypeOK
<1>7. \A g \in FlightIds \ {f} : step'[g] = step[g] /\ fd'[g] = fd[g]
    BY <1>2, <1>4 DEF AloneInv, FilesInv, DiskTypeOK, Wiring
<1>8. step'[f] = "rename" => content'[tmpFile[page[f]]] # None /\ tmpFile[page[f]] # None
    <2>1. step'[f] = to
        BY <1>4 DEF AloneInv, FilesInv, Wiring
    <2>2. step'[f] = "rename" => content' = [content EXCEPT ![fd[f]] = page[f]]
        BY <1>1, <2>1 DEF Advance, AloneInv, FilesInv, Wiring
    <2> QED
        BY <1>5, <2>2, InodeFacts DEF AloneInv, FilesInv, DiskTypeOK
<1>9. step'[f] # "write"
    BY <1>1, <1>4 DEF Advance, AloneInv, FilesInv, Wiring
<1>10. \A k \in Keys : pageFile[k] # None => pageFile[k] \in Inodes
    BY DEF AloneInv, FilesInv, DiskTypeOK
<1>11. \A g \in FlightIds : step[g] = "rename" => tmpFile[page[g]] \in Inodes
    BY DEF AloneInv, FilesInv, DiskTypeOK, FlightsInv, WholeInv
<1> QED
    BY <1>2, <1>6, <1>7, <1>8, <1>9, <1>10, <1>11 DEF WholeInv

\* What is renamed was written first, by the same flight.
LEMMA RenameKeepsWhole ==
    ASSUME AloneInv, WholeInv, NEW f \in FlightIds, RenameTmp(f)
    PROVE  WholeInv'
<1> DEFINE k == page[f]
<1>1. UNCHANGED <<page, fd, content>>
    BY DEF RenameTmp
<1>2. PICK to \in {"insert", "failed"} : Advance(f, "rename", to)
    BY DEF RenameTmp
<1>3. step[f] = "rename" /\ step' = [step EXCEPT ![f] = to]
    BY <1>2, AdvanceInUse DEF AloneInv, FilesInv
<1>4. /\ \A g \in FlightIds \ {f} : step'[g] = step[g]
      /\ step'[f] \notin {"write", "rename"}
    BY <1>3 DEF AloneInv, FilesInv, Wiring
<1>5. CASE UNCHANGED <<pageFile, tmpFile>>
    BY <1>1, <1>4, <1>5 DEF WholeInv
<1>6. CASE pageFile' = [pageFile EXCEPT ![k] = tmpFile[k]] /\ tmpFile' = [tmpFile EXCEPT ![k] = None]
    <2>1. k \in Keys /\ tmpFile[k] # None /\ content[tmpFile[k]] # None
        BY <1>3 DEF AloneInv, FilesInv, FlightsInv, WholeInv
    <2>2. /\ pageFile'[k] = tmpFile[k] /\ tmpFile'[k] = None
          /\ \A l \in Keys \ {k} : pageFile'[l] = pageFile[l] /\ tmpFile'[l] = tmpFile[l]
        BY <1>6, <2>1 DEF AloneInv, FilesInv, DiskTypeOK
    <2>3. \A g \in FlightIds \ {f} : step[g] # "unused" => page[g] \in Keys \ {k}
        BY <1>3, OtherPage DEF AloneInv, FilesInv, FlightsInv
    <2> QED
        BY <1>1, <1>4, <2>1, <2>2, <2>3 DEF WholeInv
<1> QED
    BY <1>5, <1>6 DEF RenameTmp

\* Every step of a single reader keeps the published files whole.
THEOREM NextWhole == AloneInv /\ WholeInv /\ [Next]_vars => WholeInv'
<1> SUFFICES ASSUME AloneInv, WholeInv, [Next]_vars PROVE WholeInv'
    OBVIOUS
<1>1. ASSUME UNCHANGED content,
             \A k \in Keys : pageFile'[k] \in {pageFile[k], None} /\ tmpFile'[k] = tmpFile[k],
             \A f \in FlightIds : step'[f] \in {"write", "rename"} =>
                 step'[f] = step[f] /\ page'[f] = page[f] /\ fd'[f] = fd[f]
      PROVE  WholeInv'
    <2>1. \A f \in FlightIds : step[f] \in {"write", "rename"} => page[f] \in Keys
        BY DEF AloneInv, FilesInv, FlightsInv
    <2> QED
        BY <1>1, <2>1 DEF WholeInv
<1>2. ASSUME NEW r \in Readers, ReaderStep(r) \/ Cancel(r) \/ \E range \in Ranges : Start(r, range)
      PROVE  WholeInv'
    <2>1. UNCHANGED diskVars
        BY <1>2 DEF ReaderStep, Load, ReadFile, ForgetEntry, JoinFlight, LeaveFlight, Cancel, Start
    <2>2. CASE Load(r) \/ ReadFile(r) \/ ForgetEntry(r) \/ \E range \in Ranges : Start(r, range)
        <3>1. UNCHANGED <<step, page, fd>>
            BY <2>2 DEF Load, ReadFile, ForgetEntry, Start, flightVars
        <3> QED
            BY <1>1, <2>1, <3>1 DEF diskVars
    <2>3. CASE JoinFlight(r)
        <3>1. UNCHANGED fd
            BY <2>3 DEF JoinFlight
        <3>2. \A f \in FlightIds : step'[f] \in {"write", "rename"} =>
                 step'[f] = step[f] /\ page'[f] = page[f]
            BY <2>3 DEF JoinFlight, Least, UnusedFlights, AloneInv, FilesInv, Wiring
        <3> QED
            BY <1>1, <2>1, <3>1, <3>2 DEF diskVars
    <2>4. CASE LeaveFlight(r) \/ Cancel(r)
        <3>1. \E map, handles : DropHandles(map, handles)
            BY <2>4 DEF LeaveFlight, Cancel
        <3>2. \A f \in FlightIds : step'[f] \in {"write", "rename"} =>
                 step'[f] = step[f] /\ page'[f] = page[f] /\ fd'[f] = fd[f]
            BY <3>1 DEF DropHandles
        <3> QED
            BY <1>1, <2>1, <3>2 DEF diskVars
    <2> QED
        BY <1>2, <2>2, <2>3, <2>4 DEF ReaderStep
<1>3. ASSUME NEW f \in FlightIds, Fetch(f) \/ InsertEntry(f) \/ UnlinkVictim(f)
      PROVE  WholeInv'
    <2>1. UNCHANGED <<page, fd, tmpFile, content>>
        BY <1>3 DEF Fetch, InsertEntry, UnlinkVictim, diskVars
    <2>2. \A k \in Keys : pageFile'[k] \in {pageFile[k], None}
        BY <1>3 DEF Fetch, InsertEntry, UnlinkVictim, diskVars, AloneInv, FilesInv, DiskTypeOK
    <2>3. PICK from \in FlightSteps, to \in {"ready", "create", "failed", "unlink"} : Advance(f, from, to)
        BY <1>3 DEF Fetch, InsertEntry, UnlinkVictim, FlightSteps
    <2>4. step' = [step EXCEPT ![f] = to]
        BY <2>3 DEF Advance
    <2>5. \A g \in FlightIds : step'[g] \in {"write", "rename"} => step'[g] = step[g]
        BY <2>4 DEF AloneInv, FilesInv, Wiring
    <2> QED
        BY <1>1, <2>1, <2>2, <2>5
<1>4. CASE Restart
    <2>1. \A f \in FlightIds : step'[f] = "unused"
        BY <1>4, InodeFacts DEF Restart, DropHandles, Held
    <2>2. UNCHANGED <<pageFile, content>> /\ \A k \in Keys : tmpFile'[k] = None
        BY <1>4 DEF Restart
    <2> QED
        BY <2>1, <2>2 DEF WholeInv
<1>5. CASE UNCHANGED vars
    BY <1>5 DEF vars, flightVars, diskVars, WholeInv
<1> QED
    BY <1>2, <1>3, <1>4, <1>5, CreateKeepsWhole, WriteKeepsWhole, RenameKeepsWhole
    DEF Next, FlightStep

\* With one reader at a time, no page file that can be opened is half written,
\* whatever fails and whenever the process dies or the client goes.
THEOREM PublishedFilesAreWhole ==
    ASSUME LoneReader
    PROVE  Spec => []PublishedPagesWhole
<1>1. Init => WholeInv
    BY DEF Init, WholeInv
<1>2. WholeInv => PublishedPagesWhole
    BY DEF WholeInv, PublishedPagesWhole
<1> QED
    BY <1>1, <1>2, NextWhole, AloneInvariance, PTL DEF Spec

-----------------------------------------------------------------------------
(* Entries, files and the byte counter of one reader. *)

Loading == {"fetch", "create", "write", "rename", "insert"}

\* Every entry has its file, no entry is loaded or unlinked, and a flight that
\* is about to insert its page has its file.
FiledInv ==
    /\ \A k \in entries : pageFile[k] # None
    /\ \A f \in FlightIds : step[f] = "insert" => pageFile[page[f]] # None
    /\ \A f \in FlightIds : step[f] \in Loading => page[f] \notin entries
    /\ \A f \in FlightIds : doomed[f] \cap entries = {}
    /\ \A f, g \in FlightIds : step[f] = "insert" => page[f] \notin doomed[g]

\* A reader finds the file of an entry it hit, and has missed when it says so.
LookupInv ==
    \A r \in Readers : /\ pc[r] # "forget"
                       /\ pc[r] = "read" => current(r) \in entries
                       /\ pc[r] = "miss" => current(r) \notin entries

SettledInv == FiledInv /\ LookupInv /\ ExactBytes

\* What an insertion leaves of entries and counter.
LEMMA InsertExactly ==
    ASSUME CacheInv, ExactBytes, NEW k \in Keys, k \notin entries,
           NEW n \in 0..Len(Pops(k)), Insert(n, k)
    PROVE  /\ entries' = (entries \cup {k}) \ Victims(n, k)
           /\ Victims(n, k) \subseteq entries \cup {k}
           /\ ExactBytes'
<1> DEFINE V == Victims(n, k)
           held == entries \cup {k}
<1>1. entries' = held \ V /\ V \in SUBSET held /\ bytes' = SaturatingSub(BytesBefore(k), Occupied(V))
    BY DEF Insert, Victims, BytesAfter
<1>2. entries \in SUBSET Keys /\ held \in SUBSET Keys /\ V \in SUBSET Keys /\ CacheTypeOK /\ WithinBudget
    BY <1>1 DEF CacheInv, CacheTypeOK
<1>3. Occupied(held) = BytesBefore(k)
    <2>1. /\ BytesBefore(k) \in Nat
          /\ BytesBefore(k) - Occupied(held) = bytes - Occupied(entries)
        BY <1>2, BytesBeforeCovers
    <2>2. bytes = Occupied(entries) /\ Occupied(entries) \in Nat /\ Occupied(held) \in Nat
        BY <1>2, CellsFinite DEF ExactBytes
    <2> HIDE DEF held
    <2> QED
        BY <2>1, <2>2
<1>4. Occupied(held \ V) = Occupied(held) - Occupied(V) /\ Occupied(V) <= Occupied(held)
    <2>1. held \cap V = V
        BY <1>1
    <2> HIDE DEF held, V
    <2> QED
        BY <1>1, <1>2, <2>1, OccupiedDifference
<1>5. Occupied(V) \in Nat /\ Occupied(held) \in Nat
    BY <1>2, CellsFinite
<1>6. Occupied(entries)' = Occupied(held \ V)
    BY <1>1 DEF Occupied, Cells
<1> HIDE DEF held, V
<1>7. bytes' = Occupied(held) - Occupied(V)
    BY <1>1, <1>3, <1>4, <1>5 DEF SaturatingSub
<1>8. ExactBytes'
    BY <1>4, <1>6, <1>7 DEF ExactBytes
<1> QED
    BY <1>1, <1>8 DEF held, V

\* A page that is entered has its file, and the counter takes in its size once.
LEMMA InsertKeepsSettled ==
    ASSUME LoneReader, AloneInv, CacheInv, SettledInv, NEW f \in FlightIds, InsertEntry(f)
    PROVE  SettledInv'
<1> DEFINE k == page[f]
<1>1. PICK n \in 0..Len(Pops(k)) :
        /\ Insert(n, k)
        /\ doomed' = [doomed EXCEPT ![f] = Victims(n, k)]
        /\ Advance(f, "insert", IF Victims(n, k) = {} THEN "ready" ELSE "unlink")
    BY DEF InsertEntry
<1> DEFINE V == Victims(n, k)
<1>2. /\ step[f] = "insert" /\ step' = [step EXCEPT ![f] = IF V = {} THEN "ready" ELSE "unlink"]
      /\ \E r \in Readers : joined[r] = f
      /\ UNCHANGED <<page, pageFile, pc, todo>>
    BY <1>1, AdvanceInUse DEF AloneInv, FilesInv, InsertEntry, diskVars, readerVars
<1>3. k \in Keys /\ k \notin entries /\ pageFile[k] # None
    BY <1>2 DEF AloneInv, FilesInv, FlightsInv, SettledInv, FiledInv, Loading
<1>4. entries' = (entries \cup {k}) \ V /\ V \subseteq entries \cup {k} /\ ExactBytes'
    BY <1>1, <1>3, InsertExactly DEF SettledInv
<1> HIDE DEF V
<1>5. /\ doomed'[f] = V /\ step'[f] \in {"ready", "unlink"}
      /\ \A g \in FlightIds \ {f} : doomed'[g] = doomed[g] /\ step'[g] = step[g]
    BY <1>1, <1>2 DEF V, AloneInv, FilesInv, DiskTypeOK, Wiring
<1>6. \A g \in FlightIds \ {f} : doomed[g] = {}
    BY <1>2, SameFlight DEF AloneInv, FilesInv, FlightsInv, Uninterrupted
<1>7. \A g \in FlightIds \ {f} : step[g] \in Loading => page[g] # k /\ page[g] \notin entries
    BY <1>2, OtherPage DEF AloneInv, SettledInv, FiledInv, Loading
<1>8. FiledInv'
    <2>1. \A l \in entries' : pageFile'[l] # None
        BY <1>2, <1>3, <1>4 DEF SettledInv, FiledInv
    <2>2. \A g \in FlightIds : step'[g] = "insert" => g # f /\ step[g] = "insert"
        BY <1>5
    <2>3. \A g \in FlightIds : step'[g] \in Loading => page'[g] \notin entries'
        BY <1>2, <1>4, <1>5, <1>7 DEF Loading
    <2>4. \A g \in FlightIds : doomed'[g] \cap entries' = {}
        BY <1>4, <1>5, <1>6
    <2>5. \A g, h \in FlightIds : step'[g] = "insert" => page'[g] \notin doomed'[h]
        <3> SUFFICES ASSUME NEW g \in FlightIds, NEW h \in FlightIds, step'[g] = "insert"
                     PROVE  page[g] \notin doomed'[h]
            BY <1>2
        <3>1. page[g] # k /\ page[g] \notin entries
            BY <1>7, <2>2 DEF Loading
        <3> QED
            BY <1>4, <1>5, <1>6, <3>1
    <2> QED
        BY <1>2, <2>1, <2>2, <2>3, <2>4, <2>5 DEF SettledInv, FiledInv
<1>9. LookupInv'
    <2>1. \A r \in Readers : pc[r] = "await"
        BY <1>2, InodeFacts DEF AloneInv, FilesInv, Wiring, LoneReader
    <2> QED
        BY <1>2, <2>1 DEF LookupInv
<1> QED
    BY <1>4, <1>8, <1>9 DEF SettledInv

\* A page that is being published is not an entry yet.
LEMMA RenameKeepsSettled ==
    ASSUME LoneReader, AloneInv, WholeInv, SettledInv, entries \subseteq Keys, NEW f \in FlightIds, RenameTmp(f)
    PROVE  SettledInv'
<1>1. UNCHANGED <<entries, bytes, pc, todo, page, doomed>>
    BY DEF RenameTmp, cacheVars, readerVars
<1>2. PICK to \in {"insert", "failed"} : Advance(f, "rename", to)
    BY DEF RenameTmp
<1>3. step[f] = "rename" /\ step' = [step EXCEPT ![f] = to] /\ \E r \in Readers : joined[r] = f
    BY <1>2, AdvanceInUse DEF AloneInv, FilesInv
<1>4. step'[f] = to /\ \A g \in FlightIds \ {f} : step'[g] = step[g]
    BY <1>3 DEF AloneInv, FilesInv, Wiring
<1>5. page[f] \in Keys /\ tmpFile[page[f]] # None /\ page[f] \notin entries
    BY <1>3 DEF AloneInv, FilesInv, FlightsInv, WholeInv, SettledInv, FiledInv, Loading
<1>6. \A k \in Keys : pageFile[k] # None => pageFile'[k] # None
    BY <1>5 DEF RenameTmp, AloneInv, FilesInv, DiskTypeOK
<1>7. to = "insert" => pageFile'[page[f]] # None
    BY <1>2, <1>5 DEF RenameTmp, Advance, AloneInv, FilesInv, DiskTypeOK, Wiring
<1>8. \A g \in FlightIds : doomed[g] = {}
    BY <1>3, SameFlight DEF AloneInv, FilesInv, FlightsInv, Uninterrupted
<1>9. entries \subseteq Keys /\ \A g \in FlightIds : step[g] = "insert" => page[g] \in Keys
    <2>1. \A g \in FlightIds : step[g] = "insert" => page[g] \in Keys
        BY DEF AloneInv, FilesInv, FlightsInv
    <2> QED
        BY <2>1
<1>10. FiledInv'
    BY <1>1, <1>4, <1>5, <1>6, <1>7, <1>8, <1>9 DEF SettledInv, FiledInv, Loading
<1>11. LookupInv' /\ ExactBytes'
    BY <1>1 DEF SettledInv, LookupInv, ExactBytes, current, Occupied, Cells
<1> QED
    BY <1>10, <1>11 DEF SettledInv

\* The file of a victim goes only after its entry.
LEMMA UnlinkKeepsSettled ==
    ASSUME AloneInv, SettledInv, entries \subseteq Keys, NEW f \in FlightIds, UnlinkVictim(f)
    PROVE  SettledInv'
<1>1. PICK k \in doomed[f] :
        /\ doomed' = [doomed EXCEPT ![f] = doomed[f] \ {k}]
        /\ Advance(f, "unlink", IF doomed[f] = {k} THEN "ready" ELSE "unlink")
        /\ pageFile' = [pageFile EXCEPT ![k] = None] \/ UNCHANGED pageFile
        /\ UNCHANGED <<page, bytes, entries, pc, todo>>
    BY DEF UnlinkVictim, cacheVars, readerVars
<1>2. step[f] = "unlink" /\ step' = [step EXCEPT ![f] = IF doomed[f] = {k} THEN "ready" ELSE "unlink"]
    BY <1>1, AdvanceInUse DEF AloneInv, FilesInv
<1>3. /\ step'[f] \in {"ready", "unlink"} /\ \A g \in FlightIds \ {f} : step'[g] = step[g]
      /\ \A g \in FlightIds : doomed'[g] \subseteq doomed[g]
    BY <1>1, <1>2 DEF AloneInv, FilesInv, DiskTypeOK, Wiring
<1>4. \A l \in Keys \ {k} : pageFile'[l] = pageFile[l]
    BY <1>1 DEF AloneInv, FilesInv, DiskTypeOK
<1>5. k \notin entries /\ \A g \in FlightIds : step[g] = "insert" => page[g] \in Keys \ {k}
    BY DEF SettledInv, FiledInv, AloneInv, FilesInv, FlightsInv
<1>6. FiledInv'
    BY <1>1, <1>3, <1>4, <1>5 DEF SettledInv, FiledInv, Loading
<1>7. LookupInv' /\ ExactBytes'
    BY <1>1 DEF SettledInv, LookupInv, ExactBytes, current, Occupied, Cells
<1> QED
    BY <1>6, <1>7 DEF SettledInv

\* The flights of a step that touches no entry, no file and no reader's lookup.
LEMMA FlightsKeepSettled ==
    ASSUME SettledInv, UNCHANGED <<entries, bytes, pageFile>>, LookupInv',
           \A f \in FlightIds :
              /\ step'[f] \in Loading => step[f] \in Loading /\ page'[f] = page[f]
              /\ step'[f] = "insert" => step[f] = "insert"
              /\ doomed'[f] \in {doomed[f], {}}
    PROVE  SettledInv'
<1>1. FiledInv'
    BY DEF SettledInv, FiledInv, Loading
<1>2. ExactBytes'
    BY DEF SettledInv, ExactBytes, Occupied, Cells
<1> QED
    BY <1>1, <1>2 DEF SettledInv

\* A single reader starts no load of a page that has an entry.
LEMMA ReaderKeepsSettled ==
    ASSUME LoneReader, AloneInv, SettledInv, NEW r \in Readers,
           ReaderStep(r) \/ Cancel(r) \/ \E range \in Ranges : Start(r, range)
    PROVE  SettledInv'
<1>1. ASSUME UNCHANGED <<entries, step, page, doomed>>,
             pc'[r] # "forget", pc'[r] = "read" => current(r)' \in entries,
             pc'[r] = "miss" => current(r)' \notin entries, UNCHANGED <<bytes, pageFile>>
      PROVE  SettledInv'
    <2>1. LookupInv'
        BY <1>1 DEF LookupInv, LoneReader
    <2> QED
        BY <1>1, <2>1, FlightsKeepSettled
<1>2. CASE Load(r)
    <2>1. /\ UNCHANGED <<entries, bytes, step, page, doomed, pageFile, todo>>
          /\ \/ pc' = [pc EXCEPT ![r] = "miss"] /\ current(r) \notin entries
             \/ pc' = [pc EXCEPT ![r] = "read"] /\ current(r) \in entries
        BY <1>2 DEF Load, Touch, cacheVars, flightVars, diskVars
    <2>2. current(r)' = current(r)
        BY <2>1 DEF current
    <2> QED
        BY <1>1, <2>1, <2>2 DEF AloneInv, FilesInv, Wiring
<1>3. CASE ReadFile(r)
    <2>1. pc[r] = "read" /\ UNCHANGED <<entries, bytes, step, page, doomed, pageFile>>
        BY <1>3 DEF ReadFile, cacheVars, flightVars, diskVars
    <2>2. pageFile[current(r)] # None
        BY <2>1 DEF SettledInv, FiledInv, LookupInv
    <2>3. PageServed(r) \/ Reply(r, "eof") \/ Reply(r, "error")
        BY <1>3, <2>2 DEF ReadFile
    <2>4. pc'[r] \notin {"forget", "read", "miss"}
        BY <2>3 DEF PageServed, Reply, AloneInv, FilesInv, Wiring
    <2> QED
        BY <1>1, <2>1, <2>4
<1>4. ~ForgetEntry(r)
    BY DEF ForgetEntry, SettledInv, LookupInv
<1>5. CASE JoinFlight(r)
    <2>1. /\ pc[r] = "miss" /\ pc' = [pc EXCEPT ![r] = "await"]
          /\ UNCHANGED <<entries, bytes, doomed, pageFile>>
        BY <1>5 DEF JoinFlight, cacheVars, diskVars
    <2>2. current(r) \notin entries
        BY <2>1 DEF SettledInv, LookupInv
    <2>3. LookupInv'
        BY <2>1 DEF LookupInv, LoneReader, AloneInv, FilesInv, Wiring
    <2>4. CASE UNCHANGED <<step, page>>
        BY <2>1, <2>3, <2>4, FlightsKeepSettled
    <2>5. ASSUME NEW f \in FlightIds, Least(f, UnusedFlights),
                 step' = [step EXCEPT ![f] = "fetch"], page' = [page EXCEPT ![f] = current(r)]
          PROVE  SettledInv'
        <3>1. /\ step'[f] = "fetch" /\ page'[f] = current(r)
              /\ \A g \in FlightIds \ {f} : step'[g] = step[g] /\ page'[g] = page[g]
            BY <2>5 DEF AloneInv, FilesInv, Wiring
        <3>2. FiledInv'
            BY <2>1, <2>2, <3>1 DEF SettledInv, FiledInv, Loading
        <3>3. ExactBytes'
            BY <2>1 DEF SettledInv, ExactBytes, Occupied, Cells
        <3> QED
            BY <2>3, <3>2, <3>3 DEF SettledInv
    <2> QED
        BY <1>5, <2>4, <2>5 DEF JoinFlight
<1>6. CASE LeaveFlight(r) \/ Cancel(r)
    <2>1. UNCHANGED <<entries, bytes, pageFile>>
        BY <1>6 DEF LeaveFlight, Cancel, cacheVars, diskVars
    <2>2. \E map, handles : DropHandles(map, handles)
        BY <1>6 DEF LeaveFlight, Cancel
    <2>3. PageServed(r) \/ Reply(r, "error") \/ Reply(r, "idle")
        BY <1>6 DEF LeaveFlight, Cancel
    <2>4. pc'[r] \notin {"forget", "read", "miss"}
        BY <2>3 DEF PageServed, Reply, AloneInv, FilesInv, Wiring
    <2>5. LookupInv'
        BY <2>4 DEF LookupInv, LoneReader
    <2>6. \A f \in FlightIds :
            \/ step'[f] = step[f] /\ doomed'[f] = doomed[f] /\ page'[f] = page[f]
            \/ step'[f] = "unused" /\ doomed'[f] = {} /\ page'[f] = None
        BY <2>2 DEF DropHandles
    <2> QED
        BY <2>1, <2>5, <2>6, FlightsKeepSettled DEF Loading
<1>7. ASSUME NEW range \in Ranges, Start(r, range) PROVE SettledInv'
    <2>1. pc' = [pc EXCEPT ![r] = "load"] /\ UNCHANGED <<entries, bytes, step, page, doomed, pageFile>>
        BY <1>7 DEF Start, cacheVars, flightVars, diskVars
    <2>2. pc'[r] = "load"
        BY <2>1 DEF AloneInv, FilesInv, Wiring
    <2> QED
        BY <1>1, <2>1, <2>2
<1> QED
    BY <1>2, <1>3, <1>4, <1>5, <1>6, <1>7 DEF ReaderStep

\* Every step of a single reader keeps entries, files and counter in step.
THEOREM NextSettled ==
    ASSUME LoneReader
    PROVE  AloneInv /\ WholeInv /\ CacheInv /\ SettledInv /\ [Next]_vars => SettledInv'
<1> SUFFICES ASSUME AloneInv, WholeInv, CacheInv, SettledInv, [Next]_vars PROVE SettledInv'
    OBVIOUS
<1>1. entries \subseteq Keys
    BY DEF CacheInv, CacheTypeOK
<1>2. ASSUME NEW f \in FlightIds, Fetch(f) \/ CreateTmp(f) \/ WriteTmp(f) PROVE SettledInv'
    <2>1. UNCHANGED <<entries, bytes, pageFile, doomed, page, pc, todo>>
        BY <1>2 DEF Fetch, CreateTmp, WriteTmp, cacheVars, diskVars, readerVars
    <2>2. PICK from \in {"fetch", "create", "write"}, to \in {"ready", "create", "write", "rename", "failed"} :
              Advance(f, from, to)
        BY <1>2 DEF Fetch, CreateTmp, WriteTmp
    <2>3. step[f] \in Loading /\ step' = [step EXCEPT ![f] = to]
        BY <2>2 DEF Advance, Loading
    <2>4. step'[f] # "insert" /\ \A g \in FlightIds \ {f} : step'[g] = step[g]
        BY <2>3 DEF AloneInv, FilesInv, Wiring
    <2>5. LookupInv'
        BY <2>1 DEF SettledInv, LookupInv, current
    <2> QED
        BY <2>1, <2>3, <2>4, <2>5, FlightsKeepSettled
<1>3. CASE Restart
    <2>1. entries' = {} /\ bytes' = 0 /\ pc' = [r \in Readers |-> "idle"]
        BY <1>3 DEF Restart, Reopen
    <2>2. \A f \in FlightIds : step'[f] = "unused" /\ doomed'[f] = {}
        BY <1>3, InodeFacts DEF Restart, DropHandles, Held
    <2>3. FiledInv' /\ LookupInv'
        BY <2>1, <2>2 DEF FiledInv, LookupInv, Loading
    <2>4. ExactBytes'
        BY <2>1, OccupiedNothing DEF ExactBytes, Occupied, Cells
    <2> QED
        BY <2>3, <2>4 DEF SettledInv
<1>4. CASE UNCHANGED vars
    <2>1. UNCHANGED <<entries, bytes, pageFile, step, page, doomed, pc, todo>>
        BY <1>4 DEF vars, cacheVars, readerVars, flightVars, diskVars
    <2>2. LookupInv'
        BY <2>1 DEF SettledInv, LookupInv, current
    <2> QED
        BY <2>1, <2>2, FlightsKeepSettled
<1> QED
    BY <1>1, <1>2, <1>3, <1>4, ReaderKeepsSettled, InsertKeepsSettled, RenameKeepsSettled,
       UnlinkKeepsSettled DEF Next, FlightStep

\* With a single reader entries, files and counter agree, in every behaviour.
THEOREM SettledInvariance ==
    ASSUME LoneReader
    PROVE  Spec => [](AloneInv /\ CacheInv /\ SettledInv)
<1>1. Init => WholeInv /\ SettledInv
    <2> SUFFICES ASSUME Init PROVE WholeInv /\ SettledInv
        OBVIOUS
    <2>1. WholeInv /\ FiledInv /\ LookupInv
        BY DEF Init, CacheInit, WholeInv, FiledInv, LookupInv, Loading
    <2>2. ExactBytes
        BY OccupiedNothing DEF Init, CacheInit, ExactBytes
    <2> QED
        BY <2>1, <2>2 DEF SettledInv
<1>2. Spec => []CacheInv
    BY Implementation, CacheInvariance, PTL
<1> QED
    BY <1>1, <1>2, NextWhole, NextSettled, AloneInvariance, PTL DEF Spec

\* With one reader at a time, the first read of an entry finds its file.
THEOREM EveryEntryHasItsFile ==
    ASSUME LoneReader
    PROVE  Spec => []EntriesHaveFiles
<1>1. SettledInv => EntriesHaveFiles
    BY DEF SettledInv, FiledInv, EntriesHaveFiles
<1> QED
    BY <1>1, SettledInvariance, PTL

\* With one reader at a time the counter is exact: nothing of the cache is lost.
THEOREM CounterIsExact ==
    ASSUME LoneReader
    PROVE  Spec => []ExactBytes
<1>1. SettledInv => ExactBytes
    BY DEF SettledInv
<1> QED
    BY <1>1, SettledInvariance, PTL

-----------------------------------------------------------------------------
(* The queues of one reader. *)

\* No key is queued twice.
Distinct(queue) == \A i, j \in 1..Len(queue) : queue[i] = queue[j] => i = j

\* The protected queue holds the promoted entries, the probationary queue the
\* others, each once.
QueuesExact ==
    /\ Distinct(probationary) /\ Distinct(protected)
    /\ ToSet(protected) = promoted
    /\ ToSet(probationary) = entries \ promoted

\* A queue cut in two, perhaps with a gap, has no key on both sides.
LEMMA DistinctCut ==
    ASSUME NEW q \in Seq(Keys), Distinct(q), NEW m \in 0..Len(q), NEW n \in m..Len(q)
    PROVE  /\ Distinct(Prefix(q, m)) /\ Distinct(Suffix(q, n))
           /\ ToSet(Prefix(q, m)) \cap ToSet(Suffix(q, n)) = {}
<1>1. /\ Prefix(q, m) \in Seq(Keys) /\ Len(Prefix(q, m)) = m
      /\ \A i \in 1..m : Prefix(q, m)[i] = q[i] /\ i \in 1..Len(q)
    BY SubSeqProperties DEF Prefix
<1>2. /\ Suffix(q, n) \in Seq(Keys) /\ Len(Suffix(q, n)) = Len(q) - n
      /\ \A i \in 1..(Len(q) - n) : Suffix(q, n)[i] = q[n + i] /\ n + i \in 1..Len(q)
    BY SubSeqProperties DEF Suffix
<1>3. Distinct(Prefix(q, m))
    BY <1>1 DEF Distinct
<1>4. Distinct(Suffix(q, n))
    <2> SUFFICES ASSUME NEW i \in 1..(Len(q) - n), NEW j \in 1..(Len(q) - n),
                        Suffix(q, n)[i] = Suffix(q, n)[j]
                 PROVE  i = j
        BY <1>2 DEF Distinct
    <2>1. q[n + i] = q[n + j] /\ n + i \in 1..Len(q) /\ n + j \in 1..Len(q)
        BY <1>2
    <2>2. n + i = n + j
        BY <2>1 DEF Distinct
    <2> QED
        BY <2>2
<1>5. ASSUME NEW k, k \in ToSet(Prefix(q, m)), k \in ToSet(Suffix(q, n))
      PROVE  FALSE
    <2>1. PICK i \in 1..m : Prefix(q, m)[i] = k
        BY <1>1, <1>5, InToSet
    <2>2. PICK j \in 1..(Len(q) - n) : Suffix(q, n)[j] = k
        BY <1>2, <1>5, InToSet
    <2>3. q[i] = k /\ q[n + j] = k /\ i \in 1..Len(q) /\ n + j \in 1..Len(q)
        BY <1>1, <1>2, <2>1, <2>2
    <2>4. i = n + j
        BY <2>3 DEF Distinct
    <2> QED
        BY <2>4
<1> QED
    BY <1>3, <1>4, <1>5

\* Two queues with no key in common make one.
LEMMA DistinctConcat ==
    ASSUME NEW p \in Seq(Keys), NEW q \in Seq(Keys), Distinct(p), Distinct(q),
           ToSet(p) \cap ToSet(q) = {}
    PROVE  Distinct(p \o q)
<1>1. /\ Len(p \o q) = Len(p) + Len(q) /\ Len(p) \in Nat /\ Len(q) \in Nat
      /\ \A i \in 1..(Len(p) + Len(q)) : (p \o q)[i] = IF i <= Len(p) THEN p[i] ELSE q[i - Len(p)]
    BY ConcatProperties
<1>2. \A i \in 1..Len(p) : p[i] \in ToSet(p)
    BY InToSet
<1>3. \A i \in 1..Len(q) : q[i] \in ToSet(q)
    BY InToSet
<1>4. ASSUME NEW i \in 1..(Len(p) + Len(q)), NEW j \in 1..(Len(p) + Len(q)),
             (p \o q)[i] = (p \o q)[j]
      PROVE  i = j
    <2>1. CASE i <= Len(p) /\ j <= Len(p)
        BY <1>1, <1>4, <2>1 DEF Distinct
    <2>2. CASE i > Len(p) /\ j > Len(p)
        <3>1. q[i - Len(p)] = q[j - Len(p)] /\ i - Len(p) \in 1..Len(q) /\ j - Len(p) \in 1..Len(q)
            BY <1>1, <1>4, <2>2
        <3>2. i - Len(p) = j - Len(p)
            BY <3>1 DEF Distinct
        <3> QED
            BY <1>1, <3>2
    <2>3. CASE i <= Len(p) /\ j > Len(p)
        <3>1. i \in 1..Len(p) /\ j - Len(p) \in 1..Len(q) /\ p[i] = q[j - Len(p)]
            BY <1>1, <1>4, <2>3
        <3> QED
            BY <1>2, <1>3, <3>1
    <2>4. CASE i > Len(p) /\ j <= Len(p)
        <3>1. j \in 1..Len(p) /\ i - Len(p) \in 1..Len(q) /\ p[j] = q[i - Len(p)]
            BY <1>1, <1>4, <2>4
        <3> QED
            BY <1>2, <1>3, <3>1
    <2> QED
        BY <1>1, <2>1, <2>2, <2>3, <2>4
<1> QED
    BY <1>1, <1>4 DEF Distinct

\* Queueing a key that is not queued keeps the keys of a queue distinct.
LEMMA DistinctAppend ==
    ASSUME NEW q \in Seq(Keys), NEW k \in Keys, Distinct(q), k \notin ToSet(q)
    PROVE  Distinct(Append(q, k))
<1>1. /\ Len(Append(q, k)) = Len(q) + 1 /\ Len(q) \in Nat
      /\ \A i \in 1..Len(q) : Append(q, k)[i] = q[i] /\ q[i] # k
      /\ Append(q, k)[Len(q) + 1] = k
    BY AppendProperties, InToSet
<1>2. \A i \in 1..(Len(q) + 1) : i \in 1..Len(q) \/ i = Len(q) + 1
    OBVIOUS
<1> QED
    BY <1>1, <1>2 DEF Distinct

\* remove_key drops the key where it is queued once.
LEMMA RemoveKeyExactly ==
    ASSUME NEW q \in Seq(Keys), NEW k \in Keys, Distinct(q)
    PROVE  /\ RemoveKey(q, k) \in Seq(Keys) /\ Distinct(RemoveKey(q, k))
           /\ ToSet(RemoveKey(q, k)) = ToSet(q) \ {k}
<1>1. CASE k \notin ToSet(q)
    <2>1. \A i \in 1..Len(q) : q[i] # k
        BY <1>1, InToSet
    <2>2. RemoveKey(q, k) = q
        BY <2>1 DEF RemoveKey, FirstAt
    <2> QED
        BY <1>1, <2>2
<1>2. CASE k \in ToSet(q)
    <2> DEFINE first == CHOOSE i \in 1..Len(q) : FirstAt(q, k, i)
    <2>1. \E i \in 1..Len(q) : FirstAt(q, k, i)
        <3>1. PICK i \in 1..Len(q) : q[i] = k
            BY <1>2, InToSet
        <3>2. \A j \in 1..(i - 1) : j \in 1..Len(q) /\ j # i
            OBVIOUS
        <3> QED
            BY <3>1, <3>2 DEF FirstAt, Distinct
    <2>2. first \in 1..Len(q) /\ q[first] = k
        BY <2>1 DEF FirstAt
    <2>3. RemoveKey(q, k) = SubSeq(q, 1, first - 1) \o SubSeq(q, first + 1, Len(q))
        BY <2>1 DEF RemoveKey, RemoveAt
    <2> HIDE DEF first
    <2> DEFINE before == first - 1
               head == Prefix(q, before)
               tail == Suffix(q, first)
    <2>4. before \in 0..Len(q) /\ first \in before..Len(q) /\ first \in 0..Len(q)
        BY <2>2
    <2> HIDE DEF before
    <2>5. /\ head \in Seq(Keys) /\ tail \in Seq(Keys) /\ Distinct(head) /\ Distinct(tail)
          /\ ToSet(head) \cap ToSet(tail) = {}
        BY <2>4, DistinctCut, PrefixSuffix
    <2>6. RemoveKey(q, k) = head \o tail
        BY <2>3 DEF Prefix, Suffix, before
    <2>7. ToSet(head) \subseteq ToSet(q) /\ ToSet(tail) \subseteq ToSet(q)
        BY <2>4, PrefixSuffix
    <2>8. k \notin ToSet(head) /\ k \notin ToSet(tail)
        <3>1. \A i \in 1..before : head[i] = q[i] /\ i \in 1..Len(q) /\ i # first
            BY <2>2, <2>4, SubSeqProperties DEF Prefix, before
        <3>2. Len(head) = before
            BY <2>4, SubSeqProperties DEF Prefix
        <3>3. \A i \in 1..(Len(q) - first) : tail[i] = q[first + i] /\ first + i \in 1..Len(q) /\ first + i # first
            BY <2>2, SubSeqProperties DEF Suffix
        <3>4. Len(tail) = Len(q) - first
            BY <2>2, SubSeqProperties DEF Suffix
        <3> HIDE DEF head, tail
        <3>5. \A i \in 1..before : head[i] # k
            BY <2>2, <3>1 DEF Distinct
        <3>6. \A i \in 1..(Len(q) - first) : tail[i] # k
            BY <2>2, <3>3 DEF Distinct
        <3> QED
            BY <2>5, <3>2, <3>4, <3>5, <3>6, InToSet
    <2> HIDE DEF head, tail
    <2>9. Distinct(head \o tail) /\ head \o tail \in Seq(Keys) /\ ToSet(head \o tail) = ToSet(head) \cup ToSet(tail)
        BY <2>5, DistinctConcat, ToSetConcat, ConcatProperties
    <2>10. ToSet(q) \ {k} \subseteq ToSet(head) \cup ToSet(tail)
        BY <2>6, <2>9, RemoveKeyKeepsOthers
    <2> QED
        BY <2>6, <2>7, <2>8, <2>9, <2>10
<1> QED
    BY <1>1, <1>2

\* What a prefix of two queues takes of each.
LEMMA PrefixOfConcat ==
    ASSUME NEW p \in Seq(Keys), NEW q \in Seq(Keys), NEW n \in 0..(Len(p) + Len(q))
    PROVE  /\ n <= Len(p) => ToSet(Prefix(p \o q, n)) = ToSet(Prefix(p, n))
           /\ n >= Len(p) => ToSet(Prefix(p \o q, n)) = ToSet(p) \cup ToSet(Prefix(q, n - Len(p)))
<1>1. /\ p \o q \in Seq(Keys) /\ Len(p \o q) = Len(p) + Len(q) /\ Len(p) \in Nat /\ Len(q) \in Nat
      /\ \A i \in 1..(Len(p) + Len(q)) : (p \o q)[i] = IF i <= Len(p) THEN p[i] ELSE q[i - Len(p)]
    BY ConcatProperties
<1>2. /\ Prefix(p \o q, n) \in Seq(Keys) /\ Len(Prefix(p \o q, n)) = n
      /\ \A i \in 1..n : Prefix(p \o q, n)[i] = IF i <= Len(p) THEN p[i] ELSE q[i - Len(p)]
    BY <1>1, SubSeqProperties DEF Prefix
<1>3. CASE n <= Len(p)
    <2>1. /\ Prefix(p, n) \in Seq(Keys) /\ Len(Prefix(p, n)) = n
          /\ \A i \in 1..n : Prefix(p, n)[i] = p[i]
        BY <1>3, SubSeqProperties DEF Prefix
    <2>2. Prefix(p \o q, n) = Prefix(p, n)
        BY <1>1, <1>2, <1>3, <2>1, SeqEqual
    <2>3. n >= Len(p) => n = Len(p) /\ Prefix(q, n - Len(p)) = <<>> /\ Prefix(p, n) = p
        <3>1. ASSUME n >= Len(p) PROVE n = Len(p) /\ n - Len(p) = 0
            BY <1>1, <1>3, <3>1
        <3>2. SubSeq(q, 1, 0) = <<>>
            BY SubSeqEmpty
        <3>3. n = Len(p) => Prefix(p, n) = p
            BY <2>1, SeqEqual
        <3> QED
            BY <3>1, <3>2, <3>3 DEF Prefix
    <2>4. ToSet(<<>>) = {}
        BY DEF ToSet
    <2> QED
        BY <2>2, <2>3, <2>4
<1>4. CASE n > Len(p)
    <2> DEFINE m == n - Len(p)
    <2>1. m \in 0..Len(q)
        BY <1>1, <1>4
    <2>2. /\ Prefix(q, m) \in Seq(Keys) /\ Len(Prefix(q, m)) = m
          /\ \A i \in 1..m : Prefix(q, m)[i] = q[i]
        BY <2>1, SubSeqProperties DEF Prefix
    <2>3. /\ p \o Prefix(q, m) \in Seq(Keys) /\ Len(p \o Prefix(q, m)) = n
          /\ \A i \in 1..n : (p \o Prefix(q, m))[i] = IF i <= Len(p) THEN p[i] ELSE Prefix(q, m)[i - Len(p)]
        BY <1>1, <1>4, <2>2, ConcatProperties
    <2>4. \A i \in 1..n : i <= Len(p) \/ i - Len(p) \in 1..m
        BY <1>1, <1>4
    <2>5. \A i \in 1..n : Prefix(p \o q, n)[i] = (p \o Prefix(q, m))[i]
        BY <1>2, <2>2, <2>3, <2>4
    <2>6. Prefix(p \o q, n) = p \o Prefix(q, m)
        BY <1>2, <2>3, <2>5, SeqEqual
    <2>7. ~(n <= Len(p))
        BY <1>1, <1>4
    <2> QED
        BY <2>2, <2>6, <2>7, ToSetConcat
<1> QED
    BY <1>1, <1>3, <1>4

\* An empty queue holds nothing, and nothing twice.
LEMMA NothingQueued == ToSet(<<>>) = {} /\ Distinct(<<>>)
BY EmptySeq DEF ToSet, Distinct

\* A hit moves its key: it leaves one place of the queues and takes another.
LEMMA TouchKeepsQueues ==
    ASSUME CacheTypeOK, QueuesExact, NEW k \in Keys, Touch(k)
    PROVE  QueuesExact'
<1>1. /\ k \in entries /\ entries' = entries
      /\ probationary \in Seq(Keys) /\ protected \in Seq(Keys) /\ promoted \subseteq entries
    BY DEF Touch, CacheTypeOK
<1> DEFINE prob == RemoveKey(probationary, k)
           prot == RemoveKey(protected, k)
<1>2. /\ prob \in Seq(Keys) /\ Distinct(prob) /\ ToSet(prob) = (entries \ promoted) \ {k}
      /\ prot \in Seq(Keys) /\ Distinct(prot) /\ ToSet(prot) = promoted \ {k}
    BY <1>1, RemoveKeyExactly DEF QueuesExact
<1> HIDE DEF prob, prot
<1>3. CASE Requeue(k) /\ k \notin promoted
    <2>1. probationary' = Append(prob, k) /\ protected' = prot /\ promoted' = promoted
        BY <1>3 DEF Requeue, prob, prot
    <2>2. Distinct(Append(prob, k)) /\ ToSet(Append(prob, k)) = ToSet(prob) \cup {k}
        BY <1>2, DistinctAppend, ToSetAppend
    <2>3. ToSet(Append(prob, k)) = entries \ promoted
        BY <1>1, <1>2, <1>3, <2>2
    <2>4. ToSet(prot) = promoted
        BY <1>2, <1>3
    <2> QED
        BY <1>1, <1>2, <2>1, <2>2, <2>3, <2>4 DEF QueuesExact
<1>4. ASSUME NEW n \in 0..(Len(protected) + 1), Demote(n, k) PROVE QueuesExact'
    <2> DEFINE pushed == Append(prot, k)
               kept == Suffix(pushed, n)
               demoted == Prefix(pushed, n)
    <2>1. /\ n \in 0..Len(pushed) /\ protected' = kept
          /\ promoted' = (promoted \cup {k}) \ ToSet(demoted)
          /\ probationary' = prob \o demoted
        BY <1>4 DEF Demote, prob, prot
    <2>2. pushed \in Seq(Keys) /\ Distinct(pushed) /\ ToSet(pushed) = promoted \cup {k}
        BY <1>2, AppendProperties, DistinctAppend, ToSetAppend
    <2> HIDE DEF pushed
    <2>3. /\ kept \in Seq(Keys) /\ demoted \in Seq(Keys)
          /\ ToSet(pushed) = ToSet(demoted) \cup ToSet(kept)
        BY <2>1, <2>2, PrefixSuffix
    <2>4. Distinct(kept) /\ Distinct(demoted) /\ ToSet(demoted) \cap ToSet(kept) = {}
        <3>1. n \in n..Len(pushed)
            BY <2>1
        <3> QED
            BY <2>1, <2>2, <3>1, DistinctCut
    <2> HIDE DEF kept, demoted
    <2>5. ToSet(protected') = promoted'
        BY <2>1, <2>2, <2>3, <2>4
    <2>6. ToSet(prob) \cap ToSet(demoted) = {}
        BY <1>2, <2>2, <2>3
    <2>7. Distinct(prob \o demoted) /\ ToSet(prob \o demoted) = ToSet(prob) \cup ToSet(demoted)
        BY <1>2, <2>3, <2>4, <2>6, DistinctConcat, ToSetConcat
    <2>8. ToSet(prob) \cup ToSet(demoted) = entries \ promoted'
        BY <1>1, <1>2, <2>1, <2>2, <2>3
    <2> QED
        BY <1>1, <2>1, <2>4, <2>5, <2>7, <2>8 DEF QueuesExact
<1> QED
    BY <1>3, <1>4 DEF Touch

\* An insertion pops a prefix of the queues, and only what it pops loses its entry.
LEMMA InsertKeepsQueues ==
    ASSUME CacheTypeOK, QueuesExact, NEW k \in Keys, k \notin entries,
           NEW n \in 0..Len(Pops(k)), Insert(n, k)
    PROVE  QueuesExact'
<1> DEFINE queue == Append(probationary, k)
           L == Len(queue)
           popped == ToSet(Prefix(Pops(k), n))
           V == Victims(n, k)
<1>1. /\ entries' = (entries \cup {k}) \ V /\ promoted' = (promoted \ {k}) \ V
      /\ probationary' = Suffix(queue, n)
      /\ protected' = IF n <= L THEN protected ELSE Suffix(protected, n - L)
    BY DEF Insert
<1>2. /\ probationary \in Seq(Keys) /\ protected \in Seq(Keys) /\ promoted \subseteq entries
      /\ Distinct(probationary) /\ Distinct(protected) /\ ToSet(protected) = promoted
      /\ ToSet(probationary) = entries \ promoted
    BY DEF CacheTypeOK, QueuesExact
<1>3. /\ queue \in Seq(Keys) /\ Distinct(queue) /\ ToSet(queue) = (entries \ promoted) \cup {k}
      /\ L \in Nat
    BY <1>2, AppendProperties, DistinctAppend, ToSetAppend
<1>4. n \in 0..(L + Len(protected)) /\ Len(protected) \in Nat
    <2>1. Len(Pops(k)) = L + Len(protected)
        BY <1>2, <1>3, ConcatProperties DEF Pops
    <2> QED
        BY <1>2, <2>1
<1>5. /\ n <= L => popped = ToSet(Prefix(queue, n))
      /\ n >= L => popped = ToSet(queue) \cup ToSet(Prefix(protected, n - L))
    <2>1. popped = ToSet(Prefix(queue \o protected, n))
        BY DEF Pops
    <2> HIDE DEF queue, popped
    <2> QED
        BY <1>2, <1>3, <1>4, <2>1, PrefixOfConcat
<1>6. V = popped \cap (entries \cup {k})
    BY DEF Victims
<1> HIDE DEF queue, L, popped, V
<1>7. CASE n <= L
    <2>1. n \in 0..Len(queue) /\ n \in n..Len(queue)
        BY <1>3, <1>4, <1>7 DEF L
    <2>2. /\ ToSet(queue) = ToSet(Prefix(queue, n)) \cup ToSet(Suffix(queue, n))
          /\ Distinct(Suffix(queue, n)) /\ ToSet(Prefix(queue, n)) \cap ToSet(Suffix(queue, n)) = {}
        BY <1>3, <2>1, PrefixSuffix, DistinctCut
    <2>3. V = ToSet(Prefix(queue, n))
        BY <1>3, <1>5, <1>6, <1>7, <2>2
    <2>4. promoted' = promoted
        BY <1>1, <1>2, <1>3, <2>2, <2>3
    <2>5. ToSet(Suffix(queue, n)) = entries' \ promoted
        BY <1>1, <1>2, <1>3, <2>2, <2>3
    <2> QED
        BY <1>1, <1>2, <1>7, <2>2, <2>4, <2>5 DEF QueuesExact
<1>8. CASE n > L
    <2> DEFINE m == n - L
    <2>1. m \in 0..Len(protected) /\ m \in m..Len(protected) /\ ~(n <= L) /\ n >= L
        BY <1>3, <1>4, <1>8
    <2>2. /\ ToSet(protected) = ToSet(Prefix(protected, m)) \cup ToSet(Suffix(protected, m))
          /\ Distinct(Suffix(protected, m))
          /\ ToSet(Prefix(protected, m)) \cap ToSet(Suffix(protected, m)) = {}
        BY <1>2, <2>1, PrefixSuffix, DistinctCut
    <2>3. probationary' = <<>> /\ protected' = Suffix(protected, m)
        <3>1. n + 1 \in Int /\ Len(queue) \in Int /\ Len(queue) < n + 1
            BY <1>3, <1>4, <2>1 DEF L
        <3>2. Suffix(queue, n) = <<>>
            BY <3>1, SubSeqEmpty DEF Suffix
        <3> QED
            BY <1>1, <2>1, <3>2
    <2>4. V = (entries \ promoted) \cup {k} \cup ToSet(Prefix(protected, m))
        BY <1>2, <1>3, <1>5, <1>6, <2>1, <2>2
    <2>5. promoted' = ToSet(Suffix(protected, m)) /\ entries' = ToSet(Suffix(protected, m))
        BY <1>1, <1>2, <2>2, <2>4
    <2> QED
        BY <2>2, <2>3, <2>5, NothingQueued DEF QueuesExact
<1> QED
    BY <1>3, <1>4, <1>7, <1>8

\* Every step of a single reader keeps the queues exact.
THEOREM NextQueues ==
    ASSUME LoneReader
    PROVE  AloneInv /\ CacheInv /\ SettledInv /\ QueuesExact /\ [Next]_vars => QueuesExact'
<1> SUFFICES ASSUME AloneInv, CacheInv, SettledInv, QueuesExact, [Next]_vars PROVE QueuesExact'
    OBVIOUS
<1>1. CacheTypeOK
    BY DEF CacheInv
<1>2. ASSUME UNCHANGED cacheVars PROVE QueuesExact'
    BY <1>2 DEF QueuesExact, Distinct, cacheVars
<1>3. ASSUME NEW r \in Readers, ReaderStep(r) \/ Cancel(r) \/ \E range \in Ranges : Start(r, range)
      PROVE  QueuesExact'
    <2>1. CASE Load(r)
        <3>1. current(r) \in Keys
            BY <2>1, CurrentPage DEF Load, Working, AloneInv, FilesInv
        <3> QED
            BY <1>1, <1>2, <2>1, <3>1, TouchKeepsQueues DEF Load
    <2>2. ~ForgetEntry(r)
        BY DEF ForgetEntry, SettledInv, LookupInv
    <2>3. CASE ReadFile(r) \/ JoinFlight(r) \/ LeaveFlight(r) \/ Cancel(r) \/ \E range \in Ranges : Start(r, range)
        <3>1. UNCHANGED cacheVars
            BY <2>3 DEF ReadFile, JoinFlight, LeaveFlight, Cancel, Start
        <3> QED
            BY <1>2, <3>1
    <2> QED
        BY <1>3, <2>1, <2>2, <2>3 DEF ReaderStep
<1>4. ASSUME NEW f \in FlightIds, FlightStep(f) PROVE QueuesExact'
    <2>1. CASE InsertEntry(f)
        <3>1. step[f] = "insert"
            BY <2>1 DEF InsertEntry
        <3>2. page[f] \in Keys /\ page[f] \notin entries
            BY <3>1 DEF AloneInv, FilesInv, FlightsInv, SettledInv, FiledInv, Loading
        <3> QED
            BY <1>1, <2>1, <3>2, InsertKeepsQueues DEF InsertEntry
    <2>2. CASE Fetch(f) \/ CreateTmp(f) \/ WriteTmp(f) \/ RenameTmp(f) \/ UnlinkVictim(f)
        <3>1. UNCHANGED cacheVars
            BY <2>2 DEF Fetch, CreateTmp, WriteTmp, RenameTmp, UnlinkVictim
        <3> QED
            BY <1>2, <3>1
    <2> QED
        BY <1>4, <2>1, <2>2 DEF FlightStep
<1>5. CASE Restart
    <2>1. entries' = {} /\ promoted' = {} /\ probationary' = <<>> /\ protected' = <<>>
        BY <1>5 DEF Restart, Reopen
    <2> QED
        BY <2>1, NothingQueued DEF QueuesExact
<1>6. CASE UNCHANGED vars
    BY <1>2, <1>6 DEF vars
<1> QED
    BY <1>3, <1>4, <1>5, <1>6 DEF Next

\* An insertion takes a promoted entry only after all that are not promoted.
LEMMA InsertResistsScans ==
    ASSUME CacheTypeOK, QueuesExact, NEW k \in Keys,
           NEW n \in 0..(Len(probationary) + Len(protected) + 1), Insert(n, k)
    PROVE  promoted \subseteq entries' \/ entries' \subseteq promoted
<1> DEFINE queue == Append(probationary, k)
           popped == ToSet(Prefix(Pops(k), n))
<1>1. /\ entries' = (entries \cup {k}) \ popped
      /\ promoted \subseteq entries /\ ToSet(probationary) = entries \ promoted
    BY DEF Insert, Victims, CacheTypeOK, QueuesExact
<1>2. /\ probationary \in Seq(Keys) /\ protected \in Seq(Keys)
      /\ queue \in Seq(Keys) /\ Len(queue) = Len(probationary) + 1
      /\ ToSet(queue) = ToSet(probationary) \cup {k}
      /\ Len(probationary) \in Nat /\ Len(protected) \in Nat
    BY PopsOrder DEF CacheTypeOK
<1>3. n \in 0..(Len(queue) + Len(protected))
    BY <1>2
<1>4. /\ n <= Len(queue) => popped = ToSet(Prefix(queue, n))
      /\ n >= Len(queue) => popped = ToSet(queue) \cup ToSet(Prefix(protected, n - Len(queue)))
    <2>1. popped = ToSet(Prefix(queue \o protected, n))
        BY DEF Pops
    <2> HIDE DEF queue
    <2>2. /\ n <= Len(queue) => ToSet(Prefix(queue \o protected, n)) = ToSet(Prefix(queue, n))
          /\ n >= Len(queue) => ToSet(Prefix(queue \o protected, n))
                                  = ToSet(queue) \cup ToSet(Prefix(protected, n - Len(queue)))
        <3>1. queue \in Seq(Keys) /\ protected \in Seq(Keys) /\ n \in 0..(Len(queue) + Len(protected))
            BY <1>2, <1>3
        <3> QED
            BY <3>1, PrefixOfConcat
    <2> QED
        BY <2>1, <2>2
<1> HIDE DEF popped
<1>5. CASE n >= Len(queue)
    BY <1>1, <1>2, <1>4, <1>5
<1>6. CASE n <= Len(probationary)
    <2>1. n \in 0..Len(probationary)
        BY <1>2, <1>6
    <2>2. /\ Prefix(queue, n) \in Seq(Keys) /\ Len(Prefix(queue, n)) = n
          /\ \A i \in 1..n : Prefix(queue, n)[i] = queue[i]
        BY <1>2, <2>1, SubSeqProperties DEF Prefix
    <2>3. \A i \in 1..n : queue[i] = probationary[i] /\ i \in 1..Len(probationary)
        BY <1>2, <2>1, AppendProperties
    <2>4. ToSet(Prefix(queue, n)) \subseteq ToSet(probationary)
        BY <1>2, <2>2, <2>3, InToSet
    <2>5. popped = ToSet(Prefix(queue, n))
        BY <1>2, <1>4, <2>1
    <2> QED
        BY <1>1, <2>4, <2>5
<1>7. n >= Len(queue) \/ n <= Len(probationary)
    BY <1>2
<1> QED
    BY <1>5, <1>6, <1>7

\* With one reader at a time a scan drops no promoted entry before the last of
\* the others, the page that the scan stores included.
THEOREM ScansLeaveThePromoted ==
    ASSUME LoneReader
    PROVE  Spec => ScanResistance
<1>1. Init => QueuesExact
    BY NothingQueued DEF Init, CacheInit, QueuesExact
<1>2. Spec => []QueuesExact
    BY <1>1, NextQueues, SettledInvariance, PTL DEF Spec
<1>3. CacheInv /\ QueuesExact =>
        \A k \in Keys, n \in 0..Len(probationary) + Len(protected) + 1 :
            Insert(n, k) => promoted \subseteq entries' \/ entries' \subseteq promoted
    BY InsertResistsScans DEF CacheInv
<1>4. Spec => []CacheInv
    BY Implementation, CacheInvariance, PTL
<1> QED
    BY <1>2, <1>3, <1>4, PTL DEF ScanResistance
=============================================================================
