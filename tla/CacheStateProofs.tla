-------------------------- MODULE CacheStateProofs --------------------------
(***************************************************************************)
(* Proofs about the cache bookkeeping, for every set of pages, every page  *)
(* size and either policy.                                                 *)
(***************************************************************************)
EXTENDS CacheState, FiniteSetTheorems, SequenceTheorems, TLAPS

-----------------------------------------------------------------------------
(* Lemmas on the byte arithmetic. *)

\* A page owns as many cells as it has bytes.
LEMMA PageCells ==
    ASSUME NEW k \in Keys
    PROVE  /\ IsFiniteSet({k} \X (1..Size[k]))
           /\ Cardinality({k} \X (1..Size[k])) = Size[k]
<1>1. Size[k] \in Nat \ {0}
    BY SizeAssumption
<1>2. /\ IsFiniteSet(1..Size[k])
      /\ Cardinality(1..Size[k]) = Size[k]
    <2>1. 1 \in Int /\ Size[k] \in Int /\ 1 <= Size[k] /\ Size[k] - 1 + 1 = Size[k]
        BY <1>1
    <2> QED
        BY <2>1, FS_Interval
<1>3. IsFiniteSet({k}) /\ Cardinality({k}) = 1
    BY FS_Singleton
<1>4. /\ IsFiniteSet({k} \X (1..Size[k]))
      /\ Cardinality({k} \X (1..Size[k])) = Cardinality({k}) * Cardinality(1..Size[k])
    BY <1>2, <1>3, FS_Product
<1>5. 1 * Size[k] = Size[k]
    BY <1>1
<1> QED
    BY <1>2, <1>3, <1>4, <1>5

\* The cells of a set of pages are finitely many.
LEMMA CellsFinite ==
    ASSUME NEW S \in SUBSET Keys
    PROVE  IsFiniteSet(Cells(S)) /\ Occupied(S) \in Nat
<1> DEFINE own == [k \in S |-> {k} \X (1..Size[k])]
           Family == {own[k] : k \in S}
<1>1. IsFiniteSet(S)
    BY KeysAssumption, FS_Subset
<1>2. own \in Surjection(S, Family)
    BY DEF Surjection
<1>3. IsFiniteSet(Family)
    BY <1>1, <1>2, FS_Surjection
<1>4. \A T \in Family : IsFiniteSet(T)
    BY PageCells
<1>5. Cells(S) = UNION Family
    BY DEF Cells
<1>6. IsFiniteSet(Cells(S))
    BY <1>3, <1>4, <1>5, FS_UNION
<1> QED
    BY <1>6, FS_CardinalityType DEF Occupied

\* A cell belongs to the page it names.
LEMMA CellOwner ==
    ASSUME NEW S \in SUBSET Keys, NEW c
    PROVE  c \in Cells(S) <=> \E k \in S : c \in {k} \X (1..Size[k])
BY DEF Cells

\* Sets of pages that share no page share no cell.
LEMMA CellsDistribute ==
    ASSUME NEW S \in SUBSET Keys, NEW T \in SUBSET Keys
    PROVE  /\ Cells(S \cup T) = Cells(S) \cup Cells(T)
           /\ Cells(S \cap T) = Cells(S) \cap Cells(T)
           /\ Cells(S \ T) = Cells(S) \ Cells(T)
<1>1. \A c : c \in Cells(S \cup T) <=> c \in Cells(S) \/ c \in Cells(T)
    BY DEF Cells
<1>2. \A c : \A k, l \in Keys : c \in {k} \X (1..Size[k]) /\ c \in {l} \X (1..Size[l]) => k = l
    OBVIOUS
<1>3. \A c : c \in Cells(S \cap T) <=> c \in Cells(S) /\ c \in Cells(T)
    BY <1>2, CellOwner
<1>4. \A c : c \in Cells(S \ T) <=> c \in Cells(S) /\ c \notin Cells(T)
    BY <1>2, CellOwner
<1> QED
    BY <1>1, <1>3, <1>4

\* Occupied adds up.
LEMMA OccupiedDifference ==
    ASSUME NEW S \in SUBSET Keys, NEW T \in SUBSET Keys
    PROVE  /\ Occupied(S \ T) = Occupied(S) - Occupied(S \cap T)
           /\ T \subseteq S => Occupied(T) <= Occupied(S)
<1>1. IsFiniteSet(Cells(S)) /\ Occupied(S) \in Nat /\ Occupied(T) \in Nat
    BY CellsFinite
<1>2. Occupied(S \ T) = Occupied(S) - Occupied(S \cap T)
    <2>1. Cardinality(Cells(S) \ Cells(T)) =
             Cardinality(Cells(S)) - Cardinality(Cells(S) \cap Cells(T))
        BY <1>1, FS_Difference
    <2> QED
        BY <2>1, CellsDistribute DEF Occupied
<1>3. ASSUME T \subseteq S PROVE Occupied(T) <= Occupied(S)
    <2>1. Cells(T) \subseteq Cells(S)
        BY <1>3 DEF Cells
    <2> QED
        BY <1>1, <2>1, FS_Subset DEF Occupied
<1> QED
    BY <1>2, <1>3

LEMMA OccupiedAdd ==
    ASSUME NEW S \in SUBSET Keys, NEW k \in Keys, k \notin S
    PROVE  Occupied(S \cup {k}) = Occupied(S) + Size[k]
<1>1. Cells({k}) = {k} \X (1..Size[k])
    BY DEF Cells
<1>2. Occupied({k}) = Size[k]
    BY <1>1, PageCells DEF Occupied
<1>3. (S \cup {k}) \ {k} = S /\ (S \cup {k}) \cap {k} = {k}
    OBVIOUS
<1>4. Occupied(S) = Occupied(S \cup {k}) - Occupied({k})
    BY <1>3, OccupiedDifference
<1> QED
    BY <1>2, <1>4, SizeAssumption, CellsFinite

LEMMA OccupiedNothing == Occupied({}) = 0
BY FS_EmptySet DEF Occupied, Cells

-----------------------------------------------------------------------------
(* Lemmas on the queues. *)

LEMMA InToSet ==
    ASSUME NEW q \in Seq(Keys)
    PROVE  \A k : k \in ToSet(q) <=> \E i \in 1..Len(q) : q[i] = k
BY DEF ToSet

\* The keys of a queue are among those of a set that has each of them.
LEMMA AllIn ==
    ASSUME NEW q \in Seq(Keys), NEW S, \A i \in 1..Len(q) : q[i] \in S
    PROVE  ToSet(q) \subseteq S
BY InToSet

\* Cutting a queue in two loses no key and invents none.
LEMMA PrefixSuffix ==
    ASSUME NEW q \in Seq(Keys), NEW n \in 0..Len(q)
    PROVE  /\ Prefix(q, n) \in Seq(Keys)
           /\ Suffix(q, n) \in Seq(Keys)
           /\ ToSet(q) = ToSet(Prefix(q, n)) \cup ToSet(Suffix(q, n))
<1>1. /\ Prefix(q, n) \in Seq(Keys) /\ Len(Prefix(q, n)) = n
      /\ \A i \in 1..n : Prefix(q, n)[i] = q[i]
    BY SubSeqProperties DEF Prefix
<1>2. /\ Suffix(q, n) \in Seq(Keys) /\ Len(Suffix(q, n)) = Len(q) - n
      /\ \A i \in 1..(Len(q) - n) : Suffix(q, n)[i] = q[n + i]
    BY SubSeqProperties DEF Suffix
<1>3. \A i \in 1..Len(q) : i <= n \/ i - n \in 1..(Len(q) - n)
    OBVIOUS
<1>4. ToSet(q) \subseteq ToSet(Prefix(q, n)) \cup ToSet(Suffix(q, n))
    <2> SUFFICES ASSUME NEW i \in 1..Len(q)
                 PROVE  q[i] \in ToSet(Prefix(q, n)) \cup ToSet(Suffix(q, n))
        BY DEF ToSet
    <2>1. CASE i <= n
        BY <2>1, <1>1 DEF ToSet
    <2>2. CASE i > n
        <3>1. i - n \in 1..(Len(q) - n) /\ q[i] = Suffix(q, n)[i - n]
            BY <2>2, <1>2
        <3> QED
            BY <3>1, <1>2 DEF ToSet
    <2> QED
        BY <2>1, <2>2
<1>5. ToSet(Prefix(q, n)) \cup ToSet(Suffix(q, n)) \subseteq ToSet(q)
    <2>1. \A i \in 1..n : Prefix(q, n)[i] \in ToSet(q)
        BY <1>1 DEF ToSet
    <2>2. \A i \in 1..(Len(q) - n) : n + i \in 1..Len(q)
        OBVIOUS
    <2>3. \A i \in 1..(Len(q) - n) : Suffix(q, n)[i] \in ToSet(q)
        <3> TAKE i \in 1..(Len(q) - n)
        <3>1. Suffix(q, n)[i] = q[n + i]
            BY <1>2
        <3>2. n + i \in 1..Len(q)
            BY <2>2
        <3>3. q[n + i] \in ToSet(q)
            BY <3>2, InToSet
        <3> QED
            BY <3>1, <3>3
    <2>4. \A k \in ToSet(Prefix(q, n)) : k \in ToSet(q)
        BY <1>1, <2>1, InToSet
    <2>5. \A k \in ToSet(Suffix(q, n)) : k \in ToSet(q)
        BY <1>2, <2>3, InToSet
    <2> QED
        BY <2>4, <2>5
<1> QED
    BY <1>1, <1>2, <1>4, <1>5

LEMMA ToSetAppend ==
    ASSUME NEW q \in Seq(Keys), NEW k \in Keys
    PROVE  ToSet(Append(q, k)) = ToSet(q) \cup {k}
BY AppendProperties DEF ToSet

LEMMA ToSetConcat ==
    ASSUME NEW p \in Seq(Keys), NEW q \in Seq(Keys)
    PROVE  ToSet(p \o q) = ToSet(p) \cup ToSet(q)
<1>1. /\ p \o q \in Seq(Keys) /\ Len(p \o q) = Len(p) + Len(q)
      /\ \A i \in 1..Len(p) : (p \o q)[i] = p[i] /\ i \in 1..(Len(p) + Len(q))
      /\ \A i \in 1..Len(q) : (p \o q)[Len(p) + i] = q[i] /\ Len(p) + i \in 1..(Len(p) + Len(q))
    BY ConcatProperties
<1>2. \A i \in 1..(Len(p) + Len(q)) : i \in 1..Len(p) \/ i - Len(p) \in 1..Len(q)
    OBVIOUS
<1>3. ToSet(p) \subseteq ToSet(p \o q) /\ ToSet(q) \subseteq ToSet(p \o q)
    <2>0. \A i \in 1..(Len(p) + Len(q)) : (p \o q)[i] \in ToSet(p \o q)
        BY <1>1, InToSet
    <2>1. \A i \in 1..Len(p) : p[i] \in ToSet(p \o q)
        BY <1>1, <2>0
    <2>2. \A i \in 1..Len(q) : q[i] \in ToSet(p \o q)
        BY <1>1, <2>0
    <2> QED
        BY <2>1, <2>2, InToSet
<1>4. ASSUME NEW i \in 1..(Len(p) + Len(q))
      PROVE  (p \o q)[i] \in ToSet(p) \cup ToSet(q)
    <2>1. CASE i \in 1..Len(p)
        BY <2>1, <1>1 DEF ToSet
    <2>2. CASE i - Len(p) \in 1..Len(q)
        <3>1. (p \o q)[i] = q[i - Len(p)]
            BY <2>2, <1>1
        <3> QED
            BY <2>2, <3>1 DEF ToSet
    <2> QED
        BY <1>2, <2>1, <2>2
<1>5. ToSet(p \o q) \subseteq ToSet(p) \cup ToSet(q)
    BY <1>1, <1>4 DEF ToSet
<1> QED
    BY <1>3, <1>5

\* remove_key drops one occurrence of k and nothing else.
LEMMA RemoveKeyKeepsOthers ==
    ASSUME NEW q \in Seq(Keys), NEW k \in Keys
    PROVE  /\ RemoveKey(q, k) \in Seq(Keys)
           /\ ToSet(q) \ {k} \subseteq ToSet(RemoveKey(q, k))
<1>1. CASE ~ \E i \in 1..Len(q) : FirstAt(q, k, i)
    BY <1>1 DEF RemoveKey
<1>2. CASE \E i \in 1..Len(q) : FirstAt(q, k, i)
    <2> DEFINE first == CHOOSE i \in 1..Len(q) : FirstAt(q, k, i)
    <2>1. first \in 1..Len(q) /\ q[first] = k
        BY <1>2 DEF FirstAt
    <2> HIDE DEF first
    <2>2. RemoveKey(q, k) = SubSeq(q, 1, first - 1) \o SubSeq(q, first + 1, Len(q))
        BY <1>2 DEF RemoveKey, RemoveAt, first
    <2> DEFINE head == SubSeq(q, 1, first - 1)
               tail == SubSeq(q, first + 1, Len(q))
    <2>3. /\ head \in Seq(Keys) /\ Len(head) = first - 1
          /\ \A i \in 1..(first - 1) : head[i] = q[i]
        BY <2>1, SubSeqProperties
    <2>4. /\ tail \in Seq(Keys) /\ Len(tail) = Len(q) - first
          /\ \A i \in 1..(Len(q) - first) : tail[i] = q[first + i]
        BY <2>1, SubSeqProperties
    <2> HIDE DEF head, tail
    <2>5. head \o tail \in Seq(Keys) /\ ToSet(head \o tail) = ToSet(head) \cup ToSet(tail)
        BY <2>3, <2>4, ToSetConcat, ConcatProperties
    <2>6. ASSUME NEW i \in 1..Len(q), q[i] # k
          PROVE  q[i] \in ToSet(head) \cup ToSet(tail)
        <3>1. CASE i < first
            BY <3>1, <2>1, <2>3 DEF ToSet
        <3>2. CASE i > first
            <4>1. i - first \in 1..(Len(q) - first) /\ q[i] = tail[i - first]
                BY <3>2, <2>1, <2>4
            <4> QED
                BY <4>1, <2>4 DEF ToSet
        <3> QED
            BY <2>1, <2>6, <3>1, <3>2
    <2>7. ToSet(q) \ {k} \subseteq ToSet(head) \cup ToSet(tail)
        BY <2>6 DEF ToSet
    <2> QED
        BY <2>2, <2>5, <2>7 DEF head, tail
<1> QED
    BY <1>1, <1>2

-----------------------------------------------------------------------------
(* The inductive invariant. *)

\* WithinBudget is not inductive alone: that the eviction loop ends with the
\* counter at or below max_size needs that the loop meets every entry, which is
\* EveryEntryQueued.  In the same way ProtectedShare, about the flags, follows
\* from the loop of `touch', about the queue, because of PromotedListed.
PromotedListed == promoted \subseteq ToSet(protected)

CacheInv ==
    /\ CacheTypeOK
    /\ WithinBudget
    /\ EveryEntryQueued
    /\ PromotedListed
    /\ ProtectedShare

THEOREM CacheInitInv == CacheInit => CacheInv
<1> SUFFICES ASSUME CacheInit PROVE CacheInv
    OBVIOUS
<1>1. CacheTypeOK
    BY DEF CacheInit, CacheTypeOK
<1>2. WithinBudget /\ ProtectedShare
    BY OccupiedNothing, LimitAssumption DEF CacheInit, WithinBudget, ProtectedShare
<1>3. EveryEntryQueued /\ PromotedListed
    BY DEF CacheInit, EveryEntryQueued, PromotedListed
<1> QED
    BY <1>1, <1>2, <1>3 DEF CacheInv

\* The order in which the eviction loop takes its candidates.
LEMMA PopsOrder ==
    ASSUME CacheTypeOK, NEW k \in Keys
    PROVE  /\ Append(probationary, k) \in Seq(Keys)
           /\ Len(Append(probationary, k)) = Len(probationary) + 1
           /\ ToSet(Append(probationary, k)) = ToSet(probationary) \cup {k}
           /\ Pops(k) \in Seq(Keys)
           /\ Len(Pops(k)) = Len(probationary) + 1 + Len(protected)
           /\ ToSet(Pops(k)) = ToSet(probationary) \cup {k} \cup ToSet(protected)
<1>1. probationary \in Seq(Keys) /\ protected \in Seq(Keys)
    BY DEF CacheTypeOK
<1>2. /\ Append(probationary, k) \in Seq(Keys)
      /\ Len(Append(probationary, k)) = Len(probationary) + 1
      /\ ToSet(Append(probationary, k)) = ToSet(probationary) \cup {k}
    BY <1>1, AppendProperties, ToSetAppend
<1>3. /\ Pops(k) \in Seq(Keys)
      /\ Len(Pops(k)) = Len(Append(probationary, k)) + Len(protected)
    BY <1>1, <1>2, ConcatProperties DEF Pops
<1>4. ToSet(Pops(k)) = ToSet(Append(probationary, k)) \cup ToSet(protected)
    BY <1>1, <1>2, ToSetConcat DEF Pops
<1> QED
    BY <1>2, <1>3, <1>4

\* What a prefix of that order leaves in the two queues is the rest of it.
LEMMA PopsSplit ==
    ASSUME CacheTypeOK, NEW k \in Keys, NEW n \in 0..Len(Pops(k)), Insert(n, k)
    PROVE  /\ probationary' \in Seq(Keys)
           /\ protected' \in Seq(Keys)
           /\ ToSet(probationary) \cup {k} \cup ToSet(protected) \subseteq
                ToSet(Prefix(Pops(k), n)) \cup ToSet(probationary') \cup ToSet(protected')
           /\ ToSet(protected) \subseteq ToSet(Prefix(Pops(k), n)) \cup ToSet(protected')
<1> DEFINE queue == Append(probationary, k)
           L == Len(queue)
<1>1. /\ protected \in Seq(Keys) /\ queue \in Seq(Keys) /\ Pops(k) \in Seq(Keys)
      /\ L \in Nat /\ Len(Pops(k)) = L + Len(protected)
      /\ ToSet(Pops(k)) = ToSet(queue) \cup ToSet(protected)
      /\ ToSet(queue) = ToSet(probationary) \cup {k}
    BY PopsOrder DEF CacheTypeOK
<1>2. /\ \A i \in 1..L : Pops(k)[i] = queue[i]
      /\ \A i \in 1..Len(protected) : Pops(k)[L + i] = protected[i]
    BY <1>1, ConcatProperties DEF Pops
<1>3. \A i \in 1..n : Pops(k)[i] \in ToSet(Prefix(Pops(k), n))
    <2>1. Len(Prefix(Pops(k), n)) = n /\ \A i \in 1..n : Prefix(Pops(k), n)[i] = Pops(k)[i]
        BY <1>1, SubSeqProperties DEF Prefix
    <2> QED
        BY <1>1, <2>1, PrefixSuffix, InToSet
<1> HIDE DEF queue
<1>4. CASE n <= L
    <2>1. probationary' = Suffix(queue, n) /\ protected' = protected
        BY <1>4 DEF Insert, queue
    <2>2. n \in 0..L
        BY <1>4, <1>1
    <2>3. probationary' \in Seq(Keys) /\ ToSet(queue) = ToSet(Prefix(queue, n)) \cup ToSet(probationary')
        BY <1>1, <2>1, <2>2, PrefixSuffix
    <2>4. Prefix(queue, n) \in Seq(Keys) /\ Len(Prefix(queue, n)) = n
          /\ \A i \in 1..n : Prefix(queue, n)[i] = Pops(k)[i]
        BY <1>1, <1>2, <2>2, SubSeqProperties DEF Prefix
    <2>5. ToSet(Prefix(queue, n)) \subseteq ToSet(Prefix(Pops(k), n))
        <3>1. \A i \in 1..n : Prefix(queue, n)[i] \in ToSet(Prefix(Pops(k), n))
            BY <1>3, <2>4
        <3> QED
            BY ONLY <2>4, <3>1, AllIn
    <2> QED
        BY <1>1, <2>1, <2>3, <2>5
<1>5. CASE n > L
    <2>1. probationary' = Suffix(queue, n) /\ protected' = Suffix(protected, n - L)
        BY <1>5 DEF Insert, queue
    <2>2. n - L \in 0..Len(protected)
        BY <1>5, <1>1
    <2>3. probationary' = <<>>
        BY <1>1, <1>5, <2>1, SubSeqEmpty DEF Suffix
    <2>4. /\ protected' \in Seq(Keys)
          /\ ToSet(protected) = ToSet(Prefix(protected, n - L)) \cup ToSet(protected')
        BY <1>1, <2>1, <2>2, PrefixSuffix
    <2>5. /\ Prefix(protected, n - L) \in Seq(Keys) /\ Len(Prefix(protected, n - L)) = n - L
          /\ \A i \in 1..(n - L) : Prefix(protected, n - L)[i] = Pops(k)[L + i]
        BY <1>1, <1>2, <2>2, SubSeqProperties DEF Prefix
    <2>6. \A i \in 1..(n - L) : Pops(k)[L + i] \in ToSet(Prefix(Pops(k), n))
        <3>1. \A i \in 1..(n - L) : L + i \in 1..n
            BY <1>1, <1>5
        <3> QED
            BY <1>3, <3>1
    <2>7. ToSet(Prefix(protected, n - L)) \subseteq ToSet(Prefix(Pops(k), n))
        <3>1. \A i \in 1..(n - L) : Prefix(protected, n - L)[i] \in ToSet(Prefix(Pops(k), n))
            BY <2>5, <2>6
        <3> QED
            BY ONLY <2>5, <3>1, AllIn
    <2>8. \A i \in 1..L : queue[i] \in ToSet(Prefix(Pops(k), n))
        <3>1. \A i \in 1..L : i \in 1..n
            BY <1>1, <1>5
        <3> QED
            BY <1>2, <1>3, <3>1
    <2>9. ToSet(queue) \subseteq ToSet(Prefix(Pops(k), n))
        <3>1. queue \in Seq(Keys) /\ \A i \in 1..Len(queue) : queue[i] \in ToSet(Prefix(Pops(k), n))
            BY ONLY <1>1, <2>8
        <3> QED
            BY ONLY <3>1, AllIn
    <2>10. probationary' \in Seq(Keys)
        BY <2>3
    <2>11. ToSet(probationary) \cup {k} \cup ToSet(protected) \subseteq
              ToSet(Prefix(Pops(k), n)) \cup ToSet(protected')
        BY <1>1, <2>4, <2>7, <2>9
    <2>12. ToSet(protected) \subseteq ToSet(Prefix(Pops(k), n)) \cup ToSet(protected')
        BY <2>4, <2>7
    <2> QED
        BY <2>4, <2>10, <2>11, <2>12
<1> QED
    BY <1>1, <1>4, <1>5

\* The counter before the eviction loop covers the entries and the new page.
LEMMA BytesBeforeCovers ==
    ASSUME CacheTypeOK, WithinBudget, NEW k \in Keys
    PROVE  /\ BytesBefore(k) \in Nat
           /\ Occupied(entries \cup {k}) <= BytesBefore(k)
           /\ BytesBefore(k) - Occupied(entries \cup {k}) = bytes - Occupied(entries)
<1>1. /\ entries \in SUBSET Keys /\ bytes \in Nat /\ Occupied(entries) \in Nat
      /\ Occupied(entries) <= bytes /\ Size[k] \in Nat \ {0}
    BY CellsFinite, SizeAssumption DEF CacheTypeOK, WithinBudget
<1>2. CASE k \in entries
    <2>1. entries \cup {k} = entries
        BY <1>2
    <2>2. Size[k] <= Occupied(entries)
        <3>1. Occupied({k}) <= Occupied(entries)
            BY <1>1, <1>2, OccupiedDifference
        <3>2. Occupied({} \cup {k}) = Occupied({}) + Size[k]
            BY OccupiedAdd
        <3> QED
            BY <1>1, <3>1, <3>2, OccupiedNothing
    <2>3. BytesBefore(k) = bytes
        BY <1>1, <1>2, <2>2 DEF BytesBefore, SaturatingSub
    <2> QED
        BY <1>1, <2>1, <2>3
<1>3. CASE k \notin entries
    <2>1. Occupied(entries \cup {k}) = Occupied(entries) + Size[k]
        BY <1>1, <1>3, OccupiedAdd
    <2>2. BytesBefore(k) = bytes + Size[k]
        BY <1>1, <1>3 DEF BytesBefore, SaturatingSub
    <2> QED
        BY <1>1, <2>1, <2>2
<1> QED
    BY <1>2, <1>3

LEMMA InsertInv ==
    ASSUME CacheInv, NEW k \in Keys, NEW n \in 0..Len(Pops(k)), Insert(n, k)
    PROVE  CacheInv'
<1> DEFINE held == entries \cup {k}
           V == Victims(n, k)
           popped == ToSet(Prefix(Pops(k), n))
<1>1. /\ CacheTypeOK /\ WithinBudget /\ EveryEntryQueued /\ PromotedListed /\ ProtectedShare
      /\ held \in SUBSET Keys /\ V \in SUBSET held /\ promoted \in SUBSET Keys
    BY DEF CacheInv, CacheTypeOK, Victims
<1>2. /\ entries' = held \ V /\ promoted' = (promoted \ {k}) \ V /\ bytes' = BytesAfter(n, k)
      /\ V = popped \cap held
    BY DEF Insert, Victims
<1>3. /\ probationary' \in Seq(Keys) /\ protected' \in Seq(Keys)
      /\ ToSet(probationary) \cup {k} \cup ToSet(protected) \subseteq
           popped \cup ToSet(probationary') \cup ToSet(protected')
      /\ ToSet(protected) \subseteq popped \cup ToSet(protected')
    BY <1>1, PopsSplit
<1>4. /\ BytesBefore(k) \in Nat /\ Occupied(held) \in Nat /\ Occupied(V) \in Nat
      /\ Occupied(entries) \in Nat /\ bytes \in Nat
      /\ Occupied(V) <= Occupied(held) /\ Occupied(held) <= BytesBefore(k)
      /\ BytesBefore(k) - Occupied(held) = bytes - Occupied(entries)
    BY <1>1, BytesBeforeCovers, CellsFinite, OccupiedDifference DEF CacheTypeOK
<1>5. bytes' = BytesBefore(k) - Occupied(V)
    BY <1>2, <1>4 DEF BytesAfter, SaturatingSub
<1>6. CacheTypeOK'
    <2>1. promoted' \subseteq entries'
        BY <1>1, <1>2 DEF CacheTypeOK
    <2>2. bytes' \in Nat
        BY <1>4, <1>5
    <2> QED
        BY <1>1, <1>2, <1>3, <2>1, <2>2 DEF CacheTypeOK
<1>7. WithinBudget'
    <2>1. Occupied(held \ V) = Occupied(held) - Occupied(V)
        <3>1. held \cap V = V
            BY <1>1
        <3> QED
            BY <1>1, <3>1, OccupiedDifference
    <2>2. Occupied(entries') <= bytes'
        BY <1>2, <1>4, <1>5, <2>1
    <2>3. CASE bytes' <= MaxSize
        BY <2>2, <2>3 DEF WithinBudget
    <2>4. CASE n = Len(Pops(k))
        <3>1. Prefix(Pops(k), n) = Pops(k)
            BY <1>1, <2>4, PopsOrder, SubSeqFull DEF Prefix
        <3>2. V = held
            BY <1>1, <1>2, <3>1, PopsOrder DEF EveryEntryQueued
        <3>3. bytes' <= bytes
            BY <1>4, <1>5, <3>2
        <3> QED
            BY <1>1, <1>4, <1>5, <2>2, <3>2, <3>3, LimitAssumption DEF WithinBudget
    <2> QED
        BY <1>2, <2>3, <2>4 DEF Insert
<1>8. EveryEntryQueued'
    BY <1>1, <1>2, <1>3 DEF EveryEntryQueued
<1>9. PromotedListed'
    BY <1>1, <1>2, <1>3 DEF PromotedListed, CacheTypeOK
<1>10. ProtectedShare'
    <2>1. promoted' \in SUBSET Keys /\ promoted' \subseteq promoted
        BY <1>1, <1>2
    <2>2. Occupied(promoted') <= Occupied(promoted)
        BY <1>1, <2>1, OccupiedDifference
    <2>3. Occupied(promoted') \in Nat /\ Occupied(promoted) \in Nat
        BY <1>1, <2>1, CellsFinite
    <2> QED
        BY <1>1, <2>2, <2>3, LimitAssumption DEF ProtectedShare
<1> QED
    BY <1>6, <1>7, <1>8, <1>9, <1>10 DEF CacheInv

\* Pages that are queued, and are entries, are counted by the sum over a queue.
LEMMA QueuedBytesCount ==
    ASSUME entries \subseteq Keys, NEW q \in Seq(Keys),
           NEW P \in SUBSET entries, P \subseteq ToSet(q)
    PROVE  QueuedBytes(q) \in Nat /\ Occupied(P) <= QueuedBytes(q)
<1> DEFINE I == {j \in DOMAIN q : q[j] \in entries}
           own == [i \in I |-> {i} \X (1..Size[q[i]])]
           Family == {own[i] : i \in I}
           pos == [k \in P |-> CHOOSE i \in 1..Len(q) : q[i] = k]
           move == [c \in Cells(P) |-> <<pos[c[1]], c[2]>>]
<1>1. IsFiniteSet(I) /\ I \subseteq 1..Len(q)
    BY FS_Interval, FS_Subset
<1>2. \A i \in I : IsFiniteSet(own[i])
    <2> SUFFICES ASSUME NEW i \in I PROVE IsFiniteSet(own[i])
        OBVIOUS
    <2>1. Size[q[i]] \in Nat
        BY <1>1, SizeAssumption
    <2>2. IsFiniteSet({i})
        BY FS_Singleton
    <2>3. IsFiniteSet(1..Size[q[i]])
        BY <2>1, FS_Interval
    <2>4. IsFiniteSet({i} \X (1..Size[q[i]]))
        BY <2>2, <2>3, FS_Product
    <2> QED
        BY <2>4
<1>3. IsFiniteSet(UNION Family)
    <2>1. own \in Surjection(I, Family)
        BY DEF Surjection
    <2>2. IsFiniteSet(Family)
        BY <1>1, <2>1, FS_Surjection
    <2> QED
        BY <1>2, <2>2, FS_UNION
<1>4. QueuedBytes(q) = Cardinality(UNION Family)
    <2>1. UNION Family = UNION {{i} \X (1..Size[q[i]]) : i \in I}
        OBVIOUS
    <2> QED
        BY <2>1 DEF QueuedBytes
<1>5. \A k \in P : pos[k] \in I /\ q[pos[k]] = k
    <2> SUFFICES ASSUME NEW k \in P PROVE pos[k] \in I /\ q[pos[k]] = k
        OBVIOUS
    <2>1. \E i \in 1..Len(q) : q[i] = k
        BY InToSet
    <2> QED
        BY <2>1
<1>6. move \in [Cells(P) -> UNION Family]
    <2> SUFFICES ASSUME NEW c \in Cells(P) PROVE <<pos[c[1]], c[2]>> \in UNION Family
        OBVIOUS
    <2>1. PICK k \in P : c \in {k} \X (1..Size[k])
        BY DEF Cells
    <2>2. c[1] = k /\ c[2] \in 1..Size[k]
        BY <2>1
    <2>3. <<pos[k], c[2]>> \in own[pos[k]]
        BY <1>5, <2>2
    <2>4. own[pos[k]] \in Family
        BY <1>5
    <2> QED
        BY <2>2, <2>3, <2>4
<1>7. \A c, d \in Cells(P) : move[c] = move[d] => c = d
    <2> SUFFICES ASSUME NEW c \in Cells(P), NEW d \in Cells(P),
                        <<pos[c[1]], c[2]>> = <<pos[d[1]], d[2]>>
                 PROVE  c = d
        OBVIOUS
    <2>1. PICK k \in P : c \in {k} \X (1..Size[k])
        BY DEF Cells
    <2>2. PICK l \in P : d \in {l} \X (1..Size[l])
        BY DEF Cells
    <2> HIDE DEF pos
    <2>3. c = <<k, c[2]>> /\ c[1] = k /\ d = <<l, d[2]>> /\ d[1] = l
        BY <2>1, <2>2
    <2>4. pos[k] = pos[l] /\ c[2] = d[2]
      <3>1. <<pos[k], c[2]>> = <<pos[l], d[2]>>
        BY <2>3
      <3> QED
        BY <3>1
    <2>5. k = l
        BY <1>5, <2>4
    <2>6. c = <<k, c[2]>> /\ d = <<l, c[2]>>
        BY <2>3, <2>4
    <2> QED
        BY <2>5, <2>6
<1>8. move \in Injection(Cells(P), UNION Family)
    BY <1>6, <1>7 DEF Injection, IsInjective
<1> QED
    BY <1>3, <1>4, <1>8, FS_Injection, FS_CardinalityType DEF Occupied

\* A touch keeps every key that was queued, and queues k again.
LEMMA DemoteInv ==
    ASSUME CacheInv, NEW k \in entries, NEW n \in 0..(Len(protected) + 1),
           Demote(n, k), UNCHANGED <<entries, bytes>>
    PROVE  CacheInv'
<1> DEFINE pushed == Append(RemoveKey(protected, k), k)
           kept == RemoveKey(probationary, k)
<1>1. /\ CacheTypeOK /\ WithinBudget /\ EveryEntryQueued /\ PromotedListed
      /\ probationary \in Seq(Keys) /\ protected \in Seq(Keys) /\ k \in Keys
      /\ entries \subseteq Keys /\ promoted \subseteq entries
    BY DEF CacheInv, CacheTypeOK
<1>2. /\ kept \in Seq(Keys) /\ ToSet(probationary) \ {k} \subseteq ToSet(kept)
      /\ RemoveKey(protected, k) \in Seq(Keys)
      /\ ToSet(protected) \ {k} \subseteq ToSet(RemoveKey(protected, k))
    BY <1>1, RemoveKeyKeepsOthers
<1>3. pushed \in Seq(Keys) /\ ToSet(pushed) = ToSet(RemoveKey(protected, k)) \cup {k}
    BY <1>1, <1>2, AppendProperties, ToSetAppend
<1>4. /\ n \in 0..Len(pushed)
      /\ QueuedBytes(Suffix(pushed, n)) <= ProtectedLimit \/ n = Len(pushed)
      /\ protected' = Suffix(pushed, n)
      /\ promoted' = (promoted \cup {k}) \ ToSet(Prefix(pushed, n))
      /\ probationary' = kept \o Prefix(pushed, n)
    BY DEF Demote
<1> HIDE DEF pushed, kept
<1>5. /\ Prefix(pushed, n) \in Seq(Keys) /\ protected' \in Seq(Keys)
      /\ ToSet(pushed) = ToSet(Prefix(pushed, n)) \cup ToSet(protected')
    BY <1>3, <1>4, PrefixSuffix
<1>6. probationary' \in Seq(Keys) /\ ToSet(probationary') = ToSet(kept) \cup ToSet(Prefix(pushed, n))
    BY <1>2, <1>4, <1>5, ConcatProperties, ToSetConcat
<1>7. CacheTypeOK'
    BY <1>1, <1>4, <1>5, <1>6 DEF CacheTypeOK
<1>8. WithinBudget'
    BY <1>1 DEF WithinBudget
<1>9. EveryEntryQueued'
    BY <1>1, <1>2, <1>3, <1>5, <1>6 DEF EveryEntryQueued
<1>10. promoted' \subseteq ToSet(protected')
    BY <1>1, <1>2, <1>3, <1>4, <1>5 DEF PromotedListed
<1>11. ProtectedShare'
    <2>1. promoted' \in SUBSET entries
        BY <1>1, <1>4
    <2>2. CASE QueuedBytes(Suffix(pushed, n)) <= ProtectedLimit
        <3>1. /\ Occupied(promoted') <= QueuedBytes(protected')
              /\ QueuedBytes(protected') \in Nat
            BY <1>1, <1>5, <1>10, <2>1, QueuedBytesCount
        <3>2. Occupied(promoted') \in Nat
            BY <1>1, <2>1, CellsFinite
        <3> QED
            BY <1>4, <2>2, <3>1, <3>2, LimitAssumption DEF ProtectedShare
    <2>3. CASE n = Len(pushed)
        <3>1. protected' = <<>>
            BY <1>3, <1>4, <2>3, SubSeqEmpty DEF Suffix
        <3>2. promoted' = {}
            BY <1>10, <3>1 DEF ToSet
        <3> QED
            BY <3>2, OccupiedNothing, LimitAssumption DEF ProtectedShare
    <2> QED
        BY <1>4, <2>2, <2>3
<1> QED
    BY <1>7, <1>8, <1>9, <1>10, <1>11 DEF CacheInv, PromotedListed

LEMMA RequeueInv ==
    ASSUME CacheInv, NEW k \in entries, k \notin promoted,
           Requeue(k), UNCHANGED <<entries, bytes>>
    PROVE  CacheInv'
<1> DEFINE kept == RemoveKey(probationary, k)
<1>1. /\ CacheTypeOK /\ WithinBudget /\ EveryEntryQueued /\ PromotedListed /\ ProtectedShare
      /\ probationary \in Seq(Keys) /\ protected \in Seq(Keys) /\ k \in Keys
    BY DEF CacheInv, CacheTypeOK
<1>2. /\ kept \in Seq(Keys) /\ ToSet(probationary) \ {k} \subseteq ToSet(kept)
      /\ protected' \in Seq(Keys) /\ ToSet(protected) \ {k} \subseteq ToSet(protected')
    BY <1>1, RemoveKeyKeepsOthers DEF Requeue
<1>3. probationary' \in Seq(Keys) /\ ToSet(probationary') = ToSet(kept) \cup {k}
    BY <1>1, <1>2, AppendProperties, ToSetAppend DEF Requeue
<1>4. CacheTypeOK'
    BY <1>1, <1>2, <1>3 DEF CacheTypeOK, Requeue
<1>5. WithinBudget' /\ ProtectedShare'
    BY <1>1 DEF WithinBudget, ProtectedShare, Requeue
<1>6. EveryEntryQueued' /\ PromotedListed'
    BY <1>1, <1>2, <1>3 DEF EveryEntryQueued, PromotedListed, Requeue
<1> QED
    BY <1>4, <1>5, <1>6 DEF CacheInv

LEMMA ForgetInv ==
    ASSUME CacheInv, NEW k \in Keys, Forget(k)
    PROVE  CacheInv'
<1>1. /\ CacheTypeOK /\ WithinBudget /\ EveryEntryQueued /\ PromotedListed /\ ProtectedShare
      /\ entries \in SUBSET Keys /\ promoted \in SUBSET Keys /\ bytes \in Nat
    BY DEF CacheInv, CacheTypeOK
<1>2. /\ Occupied(entries') <= Occupied(entries) /\ Occupied(promoted') <= Occupied(promoted)
      /\ Occupied(entries') \in Nat /\ Occupied(entries) \in Nat
      /\ Occupied(promoted') \in Nat /\ Occupied(promoted) \in Nat
    BY <1>1, OccupiedDifference, CellsFinite DEF Forget
<1>3. CacheTypeOK'
    BY <1>1 DEF CacheTypeOK, Forget
<1>4. WithinBudget' /\ ProtectedShare'
    BY <1>1, <1>2, LimitAssumption DEF WithinBudget, ProtectedShare, Forget
<1>5. EveryEntryQueued' /\ PromotedListed'
    BY <1>1 DEF EveryEntryQueued, PromotedListed, Forget
<1> QED
    BY <1>3, <1>4, <1>5 DEF CacheInv

\* Every critical section keeps the invariant.
THEOREM CacheNextInv == CacheInv /\ [CacheNext]_cacheVars => CacheInv'
<1> SUFFICES ASSUME CacheInv, [CacheNext]_cacheVars PROVE CacheInv'
    OBVIOUS
<1>1. ASSUME NEW k \in Keys, Touch(k) PROVE CacheInv'
    <2>1. CASE Policy = "Slru" \/ k \in promoted
        BY <1>1, <2>1, DemoteInv DEF Touch
    <2>2. CASE ~(Policy = "Slru" \/ k \in promoted)
        BY <1>1, <2>2, RequeueInv DEF Touch
    <2> QED
        BY <2>1, <2>2
<1>2. ASSUME NEW k \in Keys, Store(k) PROVE CacheInv'
    BY <1>2, InsertInv DEF Store
<1>3. ASSUME NEW k \in Keys, Forget(k) PROVE CacheInv'
    BY <1>3, ForgetInv
<1>4. CASE Reopen
    <2>1. CacheInit'
        BY <1>4 DEF Reopen, CacheInit
    <2> QED
        BY <2>1, CacheInitInv, PTL
<1>5. CASE UNCHANGED cacheVars
    BY <1>5 DEF CacheInv, CacheTypeOK, WithinBudget, EveryEntryQueued, PromotedListed,
                ProtectedShare, cacheVars
<1> QED
    BY <1>1, <1>2, <1>3, <1>4, <1>5 DEF CacheNext

-----------------------------------------------------------------------------
(* The theorems. *)

THEOREM CacheInvariance == CacheSpec => []CacheInv
BY CacheInitInv, CacheNextInv, PTL DEF CacheSpec

\* The bookkeeping is well typed at all times.
THEOREM CacheTypeCorrect == CacheSpec => []CacheTypeOK
<1>1. CacheInv => CacheTypeOK
    BY DEF CacheInv
<1> QED
    BY <1>1, CacheInvariance, PTL

\* The entries fit in max_size and the byte counter never falls short of them,
\* whatever order the critical sections of concurrent readers come in.
THEOREM CacheWithinBudget == CacheSpec => []WithinBudget
<1>1. CacheInv => WithinBudget
    BY DEF CacheInv
<1> QED
    BY <1>1, CacheInvariance, PTL

\* No entry is out of reach of the eviction loop.
THEOREM CacheEntriesQueued == CacheSpec => []EveryEntryQueued
<1>1. CacheInv => EveryEntryQueued
    BY DEF CacheInv
<1> QED
    BY <1>1, CacheInvariance, PTL

\* The promoted entries stay within the protected share.
THEOREM CacheProtectedShare == CacheSpec => []ProtectedShare
<1>1. CacheInv => ProtectedShare
    BY DEF CacheInv
<1> QED
    BY <1>1, CacheInvariance, PTL
=============================================================================
