----------------------------- MODULE CacheState -----------------------------
(***************************************************************************)
(* The bookkeeping of the chunk page cache: the struct CacheState that     *)
(* RangeCache keeps behind one tokio::sync::Mutex (storage/mod.rs).  Every *)
(* action is one critical section of that mutex, so a behaviour of this    *)
(* module is the order in which the critical sections of all readers run.  *)
(*                                                                         *)
(* Keys are pages (repository, path, offset).  Objects are immutable, so   *)
(* the length of a page is a constant of its key and `entries', a map to   *)
(* (size, protected) in the code, is the set of its keys together with     *)
(* `promoted', the keys whose `protected' flag is set.                     *)
(***************************************************************************)
EXTENDS Integers, FiniteSets, Sequences, SequencesExt

CONSTANTS
    Keys,            \* the pages that readers may ask for
    Size,            \* bytes of a page, at most the configured page_size
    MaxSize,         \* max_size of the configuration, in bytes
    ProtectedLimit,  \* max_size * protected_fraction, rounded down
    Policy           \* CachePolicy: "Lru" or "Slru"

ASSUME KeysAssumption == IsFiniteSet(Keys)
ASSUME SizeAssumption == Size \in [Keys -> Nat \ {0}]
ASSUME LimitAssumption == MaxSize \in Nat /\ ProtectedLimit \in 0..MaxSize
ASSUME PolicyAssumption == Policy \in {"Lru", "Slru"}

VARIABLES
    entries,       \* keys of the map `entries'
    promoted,      \* entries whose flag `protected' is true
    probationary,  \* queue of keys, oldest first
    protected,     \* queue of keys, oldest first
    bytes          \* the byte counter that eviction compares with MaxSize

cacheVars == <<entries, promoted, probationary, protected, bytes>>

-----------------------------------------------------------------------------
(* Byte arithmetic. *)

\* The bytes of the pages in S, as a set of cells: a page of n bytes owns n.
Cells(S) == UNION {{k} \X (1..Size[k]) : k \in S}

Occupied(S) == Cardinality(Cells(S))

\* u64::saturating_sub
SaturatingSub(a, b) == IF a >= b THEN a - b ELSE 0

\* The bytes of a queue as `touch' adds them up: an occurrence counts when its
\* key is an entry, and a key that is queued twice counts twice.
QueuedBytes(queue) ==
    Cardinality(UNION {{i} \X (1..Size[queue[i]]) :
                          i \in {j \in DOMAIN queue : queue[j] \in entries}})

Prefix(queue, n) == SubSeq(queue, 1, n)
Suffix(queue, n) == SubSeq(queue, n + 1, Len(queue))

\* remove_key: the first occurrence of k, if there is one, leaves the queue.
FirstAt(queue, k, i) == queue[i] = k /\ \A j \in 1..(i - 1) : queue[j] # k

RemoveKey(queue, k) ==
    IF \E i \in 1..Len(queue) : FirstAt(queue, k, i)
      THEN RemoveAt(queue, CHOOSE i \in 1..Len(queue) : FirstAt(queue, k, i))
      ELSE queue

-----------------------------------------------------------------------------
(* The critical sections.  A loop that pops while some condition holds is    *)
(* described by the number n of its pops: the condition fails after n pops,  *)
(* or nothing is left, and it held after every smaller number of them.       *)

CacheInit ==
    /\ entries = {}
    /\ promoted = {}
    /\ probationary = <<>>
    /\ protected = <<>>
    /\ bytes = 0

\* Faulty: the demotion loop is missing.
DemoteNobody(n, k) ==
    /\ n = 0
    /\ protected' = Append(RemoveKey(protected, k), k)
    /\ promoted' = promoted \cup {k}
    /\ probationary' = RemoveKey(probationary, k)

\* Faulty: demoted keys are not queued again.
DemoteAndDrop(n, k) ==
    LET pushed == Append(RemoveKey(protected, k), k) IN
    /\ n \in 0..Len(pushed)
    /\ QueuedBytes(Suffix(pushed, n)) <= ProtectedLimit \/ n = Len(pushed)
    /\ \A m \in 0..(n - 1) : QueuedBytes(Suffix(pushed, m)) > ProtectedLimit
    /\ protected' = Suffix(pushed, n)
    /\ promoted' = (promoted \cup {k}) \ ToSet(Prefix(pushed, n))
    /\ probationary' = RemoveKey(probationary, k)

\* CacheState::touch on a key that is not an entry returns at once: callers
\* guard Touch with k \in entries.  Otherwise the first occurrence of k leaves
\* both queues, and under Slru the entry becomes protected.
Demote(n, k) ==
    LET pushed == Append(RemoveKey(protected, k), k) IN
    /\ n \in 0..Len(pushed)
    /\ QueuedBytes(Suffix(pushed, n)) <= ProtectedLimit \/ n = Len(pushed)
    /\ \A m \in 0..(n - 1) : QueuedBytes(Suffix(pushed, m)) > ProtectedLimit
    /\ protected' = Suffix(pushed, n)
    /\ promoted' = (promoted \cup {k}) \ ToSet(Prefix(pushed, n))
    /\ probationary' = RemoveKey(probationary, k) \o Prefix(pushed, n)

Requeue(k) ==
    /\ probationary' = Append(RemoveKey(probationary, k), k)
    /\ protected' = RemoveKey(protected, k)
    /\ UNCHANGED promoted

Touch(k) ==
    /\ k \in entries
    /\ IF Policy = "Slru" \/ k \in promoted
         THEN \E n \in 0..(Len(protected) + 1) : Demote(n, k)
         ELSE Requeue(k)
    /\ UNCHANGED <<entries, bytes>>

\* Faulty: the protected queue is evicted first.
PopsSwapped(k) == protected \o Append(probationary, k)

\* The locked part of store_cached.  `Pops' is the order in which the eviction
\* loop takes candidates, `Victims' the entries among the first n of them.
Pops(k) == Append(probationary, k) \o protected

Victims(n, k) == ToSet(Prefix(Pops(k), n)) \cap (entries \cup {k})

\* Faulty: a previous page is subtracted even when there was none.
BytesBeforeUnconditional(k) == SaturatingSub(bytes, Size[k]) + Size[k]

BytesBefore(k) ==
    SaturatingSub(bytes, IF k \in entries THEN Size[k] ELSE 0) + Size[k]

BytesAfter(n, k) == SaturatingSub(BytesBefore(k), Occupied(Victims(n, k)))

Insert(n, k) ==
    LET queue == Append(probationary, k) IN
    /\ Size[k] <= MaxSize
    /\ n \in 0..Len(Pops(k))
    /\ BytesAfter(n, k) <= MaxSize \/ n = Len(Pops(k))
    /\ \A m \in 0..(n - 1) : BytesAfter(m, k) > MaxSize
    /\ entries' = (entries \cup {k}) \ Victims(n, k)
    /\ promoted' = (promoted \ {k}) \ Victims(n, k)
    /\ bytes' = BytesAfter(n, k)
    /\ probationary' = Suffix(queue, n)
    /\ protected' = IF n <= Len(queue) THEN protected
                                       ELSE Suffix(protected, n - Len(queue))

Store(k) == \E n \in 0..Len(Pops(k)) : Insert(n, k)

\* Faulty: forgetting an entry gives its bytes back.
ForgetAndRefund(k) ==
    /\ entries' = entries \ {k}
    /\ promoted' = promoted \ {k}
    /\ bytes' = SaturatingSub(bytes, IF k \in entries THEN Size[k] ELSE 0)
    /\ UNCHANGED <<probationary, protected>>

\* load_cached found no page file: the entry goes, the byte counter and the
\* queues stay as they are.
Forget(k) ==
    /\ entries' = entries \ {k}
    /\ promoted' = promoted \ {k}
    /\ UNCHANGED <<probationary, protected, bytes>>

\* RangeCache::open in a new process: the page files are not read back.
Reopen ==
    /\ entries' = {}
    /\ promoted' = {}
    /\ probationary' = <<>>
    /\ protected' = <<>>
    /\ bytes' = 0

CacheNext ==
    \/ \E k \in Keys : Touch(k) \/ Store(k) \/ Forget(k)
    \/ Reopen

CacheSpec == CacheInit /\ [][CacheNext]_cacheVars

-----------------------------------------------------------------------------
(* Properties. *)

\* Type invariant: entries are pages, only entries are promoted, the queues
\* hold pages (perhaps stale, perhaps twice) and the counter is a natural.
CacheTypeOK ==
    /\ entries \subseteq Keys
    /\ promoted \subseteq entries
    /\ probationary \in Seq(Keys)
    /\ protected \in Seq(Keys)
    /\ bytes \in Nat

\* README, "the configured maximum includes all cached page bytes": the entries
\* fit in max_size.  The counter that eviction consults never falls short of
\* what the entries occupy, whatever order stores, touches and forgotten
\* entries come in (a forgotten entry leaves it too high, never too low).
WithinBudget ==
    /\ Occupied(entries) <= bytes
    /\ bytes <= MaxSize

\* An entry that no queue names can never be evicted: the eviction loop would
\* run out of candidates with the cache still over its budget.
EveryEntryQueued == entries \subseteq ToSet(probationary) \cup ToSet(protected)

\* The promoted entries stay within the protected share of the cache even when
\* stale or repeated occurrences of their keys are queued.
ProtectedShare == Occupied(promoted) <= ProtectedLimit
=============================================================================
