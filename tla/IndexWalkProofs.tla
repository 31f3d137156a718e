-------------------------- MODULE IndexWalkProofs --------------------------
(***************************************************************************)
(* Why the walk over the series section delivers every series once.  The   *)
(* invariant says that the walk never stands inside of an entry; it needs  *)
(* no induction over the file, since an entry is aligned and the walk goes *)
(* to the first aligned offset that is free.                               *)
(***************************************************************************)
EXTENDS IndexWalk, SequenceLemmas

\* align_series: the least multiple of 16 that is not below the offset.
LEMMA AlignIsLeast ==
    ASSUME NEW o \in Nat
    PROVE  /\ align_series(o) \in Nat /\ o <= align_series(o)
           /\ \A m \in Nat : m % SERIES_ALIGNMENT = 0 /\ o <= m => align_series(o) <= m
BY DEF align_series, SERIES_ALIGNMENT

\* parse_each: the reference of a series is its place, in units of 16.
LEMMA ReferenceIsPlace ==
    ASSUME NEW f, NEW e, e.at \in Nat, e.at % SERIES_ALIGNMENT = 0
    PROVE  SeriesOf(f, e).reference * SERIES_ALIGNMENT = e.at
BY DEF SeriesOf, SERIES_ALIGNMENT

\* parse_each: an entry ends behind its start.
LEMMA EntryHasEnd ==
    ASSUME NEW e, e.at \in Nat, e.head \in Nat \ {0}, e.size \in Nat
    PROVE  ChecksumEnd(e) \in Nat /\ e.at < ChecksumEnd(e)
BY DEF ChecksumEnd, BodyStart, CHECKSUM_SIZE

Delivered(e) == \E i \in DOMAIN parsed : parsed[i] = SeriesOf(index, e)

\* The walk stands between entries, and exactly those behind it are delivered.
WalkInv ==
    walk # "idle" /\ IsIndex(index) /\ WellFormed(index) =>
        /\ walk # "failed"
        /\ offset \in Nat
        /\ \A e \in index.entries : ChecksumEnd(e) <= offset \/ offset <= e.at
        /\ parsed \in Seq({SeriesOf(index, e) : e \in {d \in index.entries : d.at < offset}})
        /\ \A e \in index.entries : e.at < offset => Delivered(e)
        /\ \A i, j \in DOMAIN parsed : i < j => parsed[i].reference < parsed[j].reference
        /\ walk = "done" => index.end <= offset

\* What WellFormed says of one entry and of two.
LEMMA EntriesOf ==
    ASSUME NEW f, IsIndex(f), WellFormed(f), NEW e \in f.entries
    PROVE  /\ e.at \in Nat /\ e.head \in Nat \ {0} /\ e.size \in Nat
           /\ e.at % SERIES_ALIGNMENT = 0 /\ f.start <= e.at /\ ChecksumEnd(e) <= f.end
           /\ SeriesParses(f, e)
           /\ \A d \in f.entries : d # e => ChecksumEnd(d) <= e.at \/ ChecksumEnd(e) <= d.at
BY DEF IsIndex, WellFormed

\* An opened file: nothing is delivered yet, and nothing lies behind the walk.
LEMMA WalkInvOpen ==
    ASSUME NEW f, OpenIndex(f)
    PROVE  WalkInv'
<1> SUFFICES ASSUME IsIndex(f), WellFormed(f)
             PROVE  WalkInv'
    BY DEF WalkInv, OpenIndex
<1>1. index' = f /\ offset' = f.start /\ parsed' = <<>> /\ walk' = "walking"
    BY DEF OpenIndex, WellFormed
<1>2. \A e \in f.entries : e.at \in Nat /\ f.start <= e.at
    BY EntriesOf
<1>3. f.start \in Nat
    BY DEF IsIndex
<1> QED
    BY <1>1, <1>2, <1>3 DEF WalkInv, Delivered

\* Padding is skipped over to the next entry at most.
LEMMA WalkInvSkip ==
    ASSUME WalkInv, SkipPadding
    PROVE  WalkInv'
<1> SUFFICES ASSUME IsIndex(index), WellFormed(index)
             PROVE  WalkInv'
    BY DEF WalkInv, SkipPadding
<1>1. /\ index' = index /\ parsed' = parsed /\ walk' = "walking" /\ walk = "walking"
      /\ offset' = align_series(offset)
    BY DEF SkipPadding
<1>2. offset \in Nat /\ \A e \in index.entries : ChecksumEnd(e) <= offset \/ offset <= e.at
    BY <1>1 DEF WalkInv
<1>3. offset' \in Nat /\ offset <= offset'
    BY <1>1, <1>2, AlignIsLeast
<1>4. \A e \in index.entries : offset <= e.at => offset' <= e.at
    BY <1>1, <1>2, AlignIsLeast, EntriesOf
<1>5. \A e \in index.entries : ChecksumEnd(e) \in Nat /\ e.at \in Nat
    BY EntriesOf, EntryHasEnd
<1>6. \A e \in index.entries : e.at < offset' <=> e.at < offset
    BY <1>2, <1>3, <1>4, <1>5
<1>7. {d \in index.entries : d.at < offset'} = {d \in index.entries : d.at < offset}
    BY <1>6
<1>8. \A e \in index.entries : ChecksumEnd(e) <= offset' \/ offset' <= e.at
    BY <1>2, <1>3, <1>4, <1>5
<1>9. \A e : Delivered(e)' = Delivered(e) /\ ChecksumEnd(e)' = ChecksumEnd(e)
    BY <1>1 DEF Delivered, ChecksumEnd, BodyStart
<1> QED
    BY <1>1, <1>3, <1>6, <1>7, <1>8, <1>9 DEF WalkInv

\* An entry is delivered, and the walk is behind it.
LEMMA WalkInvParse ==
    ASSUME WalkInv, ParseSeries
    PROVE  WalkInv'
<1> SUFFICES ASSUME IsIndex(index), WellFormed(index)
             PROVE  WalkInv'
    BY DEF WalkInv, ParseSeries
<1>1. PICK d \in index.entries :
        /\ d.at = offset
        /\ parsed' = Append(parsed, SeriesOf(index, d))
        /\ offset' = align_series(ChecksumEnd(d))
    BY DEF ParseSeries
<1>2. index' = index /\ walk' = "walking" /\ walk = "walking"
    BY DEF ParseSeries
<1> DEFINE Behind(o) == {SeriesOf(index, e) : e \in {c \in index.entries : c.at < o}}
<1>3. /\ \A e \in index.entries : ChecksumEnd(e) <= offset \/ offset <= e.at
      /\ parsed \in Seq(Behind(offset))
      /\ \A e \in index.entries : e.at < offset => Delivered(e)
      /\ \A i, j \in DOMAIN parsed : i < j => parsed[i].reference < parsed[j].reference
    BY <1>2 DEF WalkInv
<1>4. \A e \in index.entries : e.at \in Nat /\ ChecksumEnd(e) \in Nat /\ e.at < ChecksumEnd(e)
    BY EntriesOf, EntryHasEnd
<1>5. offset' \in Nat /\ ChecksumEnd(d) <= offset'
    BY <1>1, <1>4, AlignIsLeast
<1>6. \A e \in index.entries : ChecksumEnd(d) <= e.at => offset' <= e.at
    BY <1>1, <1>4, AlignIsLeast, EntriesOf
<1>7. \A e \in index.entries : e # d => ChecksumEnd(e) <= offset \/ ChecksumEnd(d) <= e.at
    BY <1>1, EntriesOf
<1>8. \A e \in index.entries : ChecksumEnd(e) <= offset' \/ offset' <= e.at
  <2> SUFFICES ASSUME NEW e \in index.entries
               PROVE  ChecksumEnd(e) <= offset' \/ offset' <= e.at
      OBVIOUS
  <2>1. CASE e = d
      BY <2>1, <1>5
  <2>2. CASE ChecksumEnd(e) <= offset
      BY <2>2, <1>1, <1>4, <1>5
  <2>3. CASE ChecksumEnd(d) <= e.at
      BY <2>3, <1>6
  <2> QED
      BY <1>7, <2>1, <2>2, <2>3
<1>9. \A e \in index.entries : e.at < offset' => e = d \/ e.at < offset
    BY <1>1, <1>4, <1>5, <1>6, <1>7
<1>10. d.at < offset' /\ offset < offset'
    BY <1>1, <1>4, <1>5
<1>11. parsed' \in Seq(Behind(offset'))
  <2>1. Behind(offset) \subseteq Behind(offset')
      BY <1>1, <1>4, <1>5, <1>10
  <2>2. SeriesOf(index, d) \in Behind(offset')
      BY <1>10
  <2> HIDE DEF Behind
  <2>3. parsed \in Seq(Behind(offset'))
      BY <1>3, <2>1
  <2> QED
      BY <1>1, <2>2, <2>3
<1>12. /\ Len(parsed) \in Nat /\ DOMAIN parsed = 1..Len(parsed) /\ DOMAIN parsed' = 1..(Len(parsed) + 1)
       /\ \A i \in DOMAIN parsed : parsed'[i] = parsed[i]
       /\ parsed'[Len(parsed) + 1] = SeriesOf(index, d)
  <2> HIDE DEF Behind
  <2> QED
      BY <1>1, <1>3
<1>13. \A e \in index.entries : e.at < offset' => \E i \in DOMAIN parsed' : parsed'[i] = SeriesOf(index, e)
  <2> SUFFICES ASSUME NEW e \in index.entries, e.at < offset'
               PROVE  \E i \in DOMAIN parsed' : parsed'[i] = SeriesOf(index, e)
      OBVIOUS
  <2> HIDE DEF Behind
  <2>1. CASE e = d
    <3>1. Len(parsed) + 1 \in DOMAIN parsed'
        BY <1>12
    <3> QED
        BY <1>12, <2>1, <3>1
  <2>2. CASE e.at < offset
    <3>1. PICK i \in DOMAIN parsed : parsed[i] = SeriesOf(index, e)
        BY <1>3, <2>2 DEF Delivered
    <3>2. i \in DOMAIN parsed'
        BY <1>12
    <3> QED
        BY <1>12, <3>1, <3>2
  <2> QED
      BY <1>9, <2>1, <2>2
<1>14. \A i \in DOMAIN parsed : parsed[i].reference < SeriesOf(index, d).reference
  <2> SUFFICES ASSUME NEW i \in DOMAIN parsed
               PROVE  parsed[i].reference < SeriesOf(index, d).reference
      OBVIOUS
  <2>1. parsed[i] \in Behind(offset)
    <3> HIDE DEF Behind
    <3> QED
        BY <1>3
  <2>2. PICK e \in index.entries : e.at < d.at /\ parsed[i] = SeriesOf(index, e)
      BY <2>1, <1>1
  <2>3. /\ e.at \in Nat /\ e.at % SERIES_ALIGNMENT = 0
        /\ d.at \in Nat /\ d.at % SERIES_ALIGNMENT = 0
      BY EntriesOf
  <2> QED
      BY <2>2, <2>3 DEF SeriesOf, SERIES_ALIGNMENT
<1>15. \A i, j \in DOMAIN parsed' : i < j => parsed'[i].reference < parsed'[j].reference
    BY <1>3, <1>12, <1>14
<1>16. \A e : ChecksumEnd(e)' = ChecksumEnd(e)
    BY DEF ChecksumEnd, BodyStart
<1> QED
    BY <1>2, <1>5, <1>8, <1>11, <1>13, <1>15, <1>16 DEF WalkInv, Delivered

\* In a well formed index no entry is refused.
LEMMA WalkInvRefuse ==
    ASSUME WalkInv, RefuseSeries
    PROVE  WalkInv'
<1> SUFFICES ASSUME IsIndex(index), WellFormed(index)
             PROVE  FALSE
    BY DEF WalkInv, RefuseSeries
<1>1. walk = "walking" /\ ~IsZero(offset)
    BY DEF RefuseSeries
<1>2. PICK e \in index.entries : Covers(e, offset)
    BY <1>1 DEF IsZero
<1>3. offset \in Nat /\ (ChecksumEnd(e) <= offset \/ offset <= e.at)
    BY <1>1 DEF WalkInv
<1>4. e.at \in Nat /\ ChecksumEnd(e) \in Nat /\ ChecksumEnd(e) <= index.end /\ SeriesParses(index, e)
    BY EntriesOf, EntryHasEnd
<1>5. e.at = offset
    BY <1>2, <1>3, <1>4 DEF Covers
<1> QED
    BY <1>4, <1>5 DEF RefuseSeries

\* At the end of the section nothing lies ahead.
LEMMA WalkInvEnd ==
    ASSUME WalkInv, EndOfSeries
    PROVE  WalkInv'
<1>1. UNCHANGED <<index, offset, parsed>> /\ walk = "walking" /\ walk' = "done" /\ index.end <= offset
    BY DEF EndOfSeries
<1>2. WellFormed(index)' = WellFormed(index) /\ IsIndex(index)' = IsIndex(index)
    BY <1>1
<1> QED
    BY <1>1, <1>2 DEF WalkInv, Delivered, ChecksumEnd, BodyStart

\* The invariant of the walk is kept by each of its steps, and when it rests.
LEMMA WalkInvStep ==
    ASSUME WalkInv, WalkStep
    PROVE  WalkInv'
BY WalkInvSkip, WalkInvParse, WalkInvRefuse, WalkInvEnd DEF WalkStep

\* A parser that is done holds nothing.
LEMMA WalkInvDone ==
    ASSUME WalkDone
    PROVE  WalkInv'
BY DEF WalkDone, WalkInv

\* What leaves the parser alone keeps its invariant.
LEMMA WalkInvStutter ==
    ASSUME WalkInv, UNCHANGED walkVars
    PROVE  WalkInv'
<1>1. index' = index /\ offset' = offset /\ parsed' = parsed /\ walk' = walk
    BY DEF walkVars
<1> QED
    BY <1>1 DEF WalkInv, Delivered, ChecksumEnd, BodyStart

\* NoSeriesLost, from the invariant and the types of the file.
LEMMA WalkInvLosesNothing ==
    ASSUME WalkInv, walk # "idle" => IsIndex(index)
    PROVE  NoSeriesLost
<1> SUFFICES ASSUME walk # "idle", IsIndex(index), WellFormed(index)
             PROVE  /\ walk # "failed"
                    /\ walk = "done" => \A e \in index.entries : e.at < offset
                    /\ {e.at : e \in {d \in index.entries : d.at < offset}}
                            = {parsed[i].reference * SERIES_ALIGNMENT : i \in DOMAIN parsed}
                    /\ \A i, j \in DOMAIN parsed : i < j => parsed[i].reference < parsed[j].reference
                    /\ \A i \in DOMAIN parsed : \E e \in index.entries : parsed[i] = SeriesOf(index, e)
    BY DEF NoSeriesLost
<1>1. walk # "failed" /\ \A i, j \in DOMAIN parsed : i < j => parsed[i].reference < parsed[j].reference
    BY DEF WalkInv
<1>2. offset \in Nat /\ (walk = "done" => index.end <= offset)
    BY DEF WalkInv
<1>3. \A e \in index.entries : /\ e.at \in Nat /\ ChecksumEnd(e) \in Nat
                               /\ e.at < ChecksumEnd(e) /\ ChecksumEnd(e) <= index.end
    BY EntriesOf, EntryHasEnd
<1>4. walk = "done" => \A e \in index.entries : e.at < offset
    BY <1>2, <1>3 DEF IsIndex
<1> DEFINE Behind == {SeriesOf(index, e) : e \in {d \in index.entries : d.at < offset}}
<1>5. \A i \in DOMAIN parsed : parsed[i] \in Behind
  <2> HIDE DEF Behind
  <2>1. parsed \in Seq(Behind)
      BY DEF WalkInv, Behind
  <2> QED
      BY <2>1
<1>6. \A i \in DOMAIN parsed : \E e \in index.entries : e.at < offset /\ parsed[i] = SeriesOf(index, e)
    BY <1>5
<1>7. \A e \in index.entries : SeriesOf(index, e).reference * SERIES_ALIGNMENT = e.at
    BY EntriesOf, ReferenceIsPlace
<1>8. \A e \in index.entries : e.at < offset => \E i \in DOMAIN parsed : parsed[i] = SeriesOf(index, e)
    BY DEF WalkInv, Delivered
<1>9. {e.at : e \in {d \in index.entries : d.at < offset}}
        = {parsed[i].reference * SERIES_ALIGNMENT : i \in DOMAIN parsed}
    BY <1>6, <1>7, <1>8
<1> QED
    BY <1>1, <1>4, <1>6, <1>9

-----------------------------------------------------------------------------
(* The chunks of a series. *)

ChunkPlaces == [mint : Int, maxt : Int, reference : Int]

\* The places of the first n chunks of an entry.
Placed(at, e, n) ==
    at = [i \in 1..n |->
            LET c == e.chunks[i]
                mint == IF i = 1 THEN c.delta ELSE at[i - 1].maxt + c.delta
            IN  [mint |-> mint, maxt |-> mint + c.duration,
                 reference |-> IF i = 1 THEN c.step ELSE at[i - 1].reference + c.step]]

\* The place of a chunk that follows a given one.
After(p, c) ==
    [mint |-> p.maxt + c.delta, maxt |-> p.maxt + c.delta + c.duration,
     reference |-> p.reference + c.step]

\* The place of the next chunk, and its bounds.
LEMMA AfterIsPlace ==
    ASSUME NEW p, NEW c, p.maxt \in Int, p.reference \in Int,
           c.delta \in Int, c.duration \in Nat, c.step \in Int
    PROVE  After(p, c) \in ChunkPlaces /\ After(p, c).mint <= After(p, c).maxt
<1> DEFINE a == p.maxt + c.delta
           b == p.maxt + c.delta + c.duration
           r == p.reference + c.step
<1>1. a \in Int /\ b \in Int /\ r \in Int /\ a <= b
    OBVIOUS
<1>2. After(p, c) = [mint |-> a, maxt |-> b, reference |-> r]
    BY DEF After
<1> HIDE DEF a, b, r
<1>3. [mint |-> a, maxt |-> b, reference |-> r] \in ChunkPlaces
    BY <1>1 DEF ChunkPlaces
<1> QED
    BY <1>1, <1>2, <1>3

\* The function that Chunks chooses exists.
LEMMA PlacedExists ==
    ASSUME NEW e, e.chunks \in Seq(ChunkMetas), NEW n \in 1..Len(e.chunks)
    PROVE  \E at \in [1..n -> ChunkPlaces] : Placed(at, e, n)
<1> DEFINE L == Len(e.chunks)
           good == {i \in 1..L : \E at \in [1..i -> ChunkPlaces] : Placed(at, e, i)}
<1>1. L \in Nat /\ \A i \in 1..L : e.chunks[i] \in ChunkMetas
    BY LenProperties, ElementOfSeq
<1>2. \A c \in ChunkMetas : c.delta \in Int /\ c.duration \in Nat /\ c.step \in Int
    BY DEF ChunkMetas
<1> HIDE DEF L
<1>3. 1 \in good
  <2> DEFINE c == e.chunks[1]
             g == [i \in 1..1 |-> [mint |-> c.delta, maxt |-> c.delta + c.duration, reference |-> c.step]]
  <2>1. 1 \in 1..L /\ c \in ChunkMetas
      BY <1>1 DEF L
  <2>2. g \in [1..1 -> ChunkPlaces]
      BY <1>2, <2>1 DEF ChunkPlaces
  <2>3. Placed(g, e, 1)
      BY DEF Placed
  <2> QED
      BY <2>1, <2>2, <2>3
<1>4. ASSUME NEW i \in 1..(L - 1), i \in good PROVE i + 1 \in good
  <2>1. PICK f \in [1..i -> ChunkPlaces] : Placed(f, e, i)
      BY <1>4
  <2> DEFINE c == e.chunks[i + 1]
             g == [j \in 1..(i + 1) |-> IF j = i + 1 THEN After(f[i], c) ELSE f[j]]
  <2>2. i \in 1..i /\ i + 1 \in 1..L /\ i + 1 # 1 /\ i \in Nat
      BY <1>1, <1>4
  <2>3. c \in ChunkMetas /\ f[i] \in ChunkPlaces
      BY <1>1, <2>2
  <2>4. After(f[i], c) \in ChunkPlaces
    <3> DEFINE p == f[i]
    <3>1. p.maxt \in Int /\ p.reference \in Int
        BY <2>3 DEF ChunkPlaces
    <3>2. c.delta \in Int /\ c.duration \in Nat /\ c.step \in Int
        BY <1>2, <2>3
    <3> HIDE DEF c, p
    <3>3. After(p, c) \in ChunkPlaces
        BY <3>1, <3>2, AfterIsPlace
    <3> QED
        BY <3>3 DEF p
  <2>5. g \in [1..(i + 1) -> ChunkPlaces]
      BY <2>4
  <2> DEFINE next(h, j) ==
          LET d == e.chunks[j]
              mint == IF j = 1 THEN d.delta ELSE h[j - 1].maxt + d.delta
          IN  [mint |-> mint, maxt |-> mint + d.duration,
               reference |-> IF j = 1 THEN d.step ELSE h[j - 1].reference + d.step]
  <2>6. \A j \in 1..i : f[j] = next(f, j)
      BY <2>1 DEF Placed
  <2>7. \A j \in 1..(i + 1) : g[j] = next(g, j)
    <3> TAKE j \in 1..(i + 1)
    <3>1. CASE j = i + 1
      <4>1. j - 1 = i /\ i \in 1..(i + 1) /\ i # i + 1
          BY <2>2, <3>1
      <4>2. g[i] = f[i] /\ g[j] = After(f[i], c)
          BY <3>1, <4>1
      <4> HIDE DEF g
      <4> QED
          BY <2>2, <3>1, <4>1, <4>2 DEF After
    <3>2. CASE j # i + 1
      <4>1. j \in 1..i /\ g[j] = f[j] /\ (j # 1 => g[j - 1] = f[j - 1])
          BY <2>2, <3>2
      <4> HIDE DEF g
      <4> QED
          BY <2>6, <4>1
    <3> QED
        BY <3>1, <3>2
  <2>8. g = [j \in 1..(i + 1) |-> g[j]]
      OBVIOUS
  <2> HIDE DEF g
  <2>9. Placed(g, e, i + 1)
      BY <2>7, <2>8 DEF Placed
  <2> QED
      BY <2>2, <2>5, <2>9
<1>5. 1..L \subseteq good
  <2> HIDE DEF good
  <2> QED
      BY <1>1, <1>3, <1>4, UpTo
<1> QED
    BY <1>5 DEF L

\* Chunks: each chunk ends behind its start, and lies where it says after the
\* chunk before it.
LEMMA ChunksFollow ==
    ASSUME NEW e, e.chunks \in Seq(ChunkMetas)
    PROVE  /\ Chunks(e) \in Seq(ChunkPlaces) /\ Len(Chunks(e)) = Len(e.chunks)
           /\ Len(e.chunks) \in Nat /\ DOMAIN e.chunks = 1..Len(e.chunks)
           /\ \A i \in 1..Len(e.chunks) :
                 Chunks(e)[i] \in ChunkPlaces /\ Chunks(e)[i].mint <= Chunks(e)[i].maxt
<1> DEFINE n == Len(e.chunks)
           f == CHOOSE f : Placed(f, e, n)
<1>1. n \in Nat /\ DOMAIN e.chunks = 1..n /\ \A i \in 1..n : e.chunks[i] \in ChunkMetas
    BY LenProperties, ElementOfSeq
<1>2. Chunks(e) = [i \in 1..n |-> f[i]]
    BY Zenon DEF Chunks, Placed
<1>3. CASE n = 0
  <2>1. Chunks(e) = <<>>
      BY <1>2, <1>3
  <2> QED
      BY <1>1, <1>3, <2>1
<1>4. CASE n # 0
  <2>1. n \in 1..n /\ 1 \in 1..n
      BY <1>1, <1>4
  <2>2. \E g \in [1..n -> ChunkPlaces] : Placed(g, e, n)
      BY <2>1, PlacedExists
  <2>3. Placed(f, e, n)
      BY <2>2, Zenon
  <2> HIDE DEF f, n
  <2> DEFINE c(i) == e.chunks[i]
             sound(p) == p \in ChunkPlaces /\ p.mint <= p.maxt
             good == {i \in 1..n : sound(f[i])}
  <2>4. \A i \in 1..n : c(i).delta \in Int /\ c(i).duration \in Nat /\ c(i).step \in Int
      BY <1>1 DEF ChunkMetas
  <2>5. f[1] = [mint |-> c(1).delta, maxt |-> c(1).delta + c(1).duration, reference |-> c(1).step]
      BY <2>1, <2>3 DEF Placed
  <2>6. ASSUME NEW i \in 1..(n - 1) PROVE f[i + 1] = After(f[i], c(i + 1))
    <3>1. i + 1 \in 1..n /\ i + 1 # 1 /\ (i + 1) - 1 = i
        BY <1>1
    <3> QED
        BY <2>3, <3>1 DEF Placed, After
  <2>7. 1 \in good
    <3>1. c(1).delta \in Int /\ c(1).duration \in Nat /\ c(1).step \in Int
        BY <2>1, <2>4
    <3> HIDE DEF c
    <3>2. sound(f[1])
        BY <2>5, <3>1 DEF ChunkPlaces
    <3> QED
        BY <2>1, <3>2
  <2>8. ASSUME NEW i \in 1..(n - 1), i \in good PROVE i + 1 \in good
    <3> DEFINE p == f[i]
               d == c(i + 1)
    <3>1. i + 1 \in 1..n
        BY <1>1
    <3>2. d.delta \in Int /\ d.duration \in Nat /\ d.step \in Int
        BY <2>4, <3>1
    <3>3. p.maxt \in Int /\ p.reference \in Int
        BY <2>8 DEF ChunkPlaces
    <3>4. f[i + 1] = After(p, d)
        BY <2>6
    <3> HIDE DEF p, d
    <3>5. sound(f[i + 1])
        BY <3>2, <3>3, <3>4, AfterIsPlace
    <3> QED
        BY <3>1, <3>5
  <2>9. 1..n \subseteq good
    <3> HIDE DEF good
    <3> QED
        BY <1>1, <2>7, <2>8, UpTo
  <2>10. \A i \in 1..n : Chunks(e)[i] = f[i] /\ sound(f[i])
      BY <1>2, <2>9
  <2>11. Chunks(e) \in [1..n -> ChunkPlaces]
      BY <1>2, <2>10
  <2>12. Chunks(e) \in Seq(ChunkPlaces) /\ Len(Chunks(e)) = n
      BY <1>1, <2>11
  <2> QED
      BY <1>1, <2>10, <2>12 DEF n
<1> QED
    BY <1>3, <1>4

\* parse_series refuses chunks out of order: of those it accepts, an earlier one
\* ends before a later one begins, under a lower reference.
LEMMA ChunksInOrder ==
    ASSUME NEW e, e.chunks \in Seq(ChunkMetas), ChunksParse(e),
           NEW j \in 1..Len(e.chunks), NEW k \in 1..Len(e.chunks), j < k
    PROVE  /\ Chunks(e)[j].maxt <= Chunks(e)[k].mint
           /\ Chunks(e)[j].reference < Chunks(e)[k].reference
<1> DEFINE n == Len(e.chunks)
           before(p, q) == p.maxt <= q.mint /\ p.reference < q.reference
           good == {i \in 1..n : \A h \in 1..n : h < i => before(Chunks(e)[h], Chunks(e)[i])}
<1>1. /\ n \in Nat /\ DOMAIN e.chunks = 1..n
      /\ \A i \in 1..n : /\ Chunks(e)[i].mint \in Int /\ Chunks(e)[i].maxt \in Int
                         /\ Chunks(e)[i].reference \in Int /\ Chunks(e)[i].mint <= Chunks(e)[i].maxt
  <2>1. \A p \in ChunkPlaces : p.mint \in Int /\ p.maxt \in Int /\ p.reference \in Int
      BY DEF ChunkPlaces
  <2> QED
      BY ChunksFollow, <2>1
<1>2. \A i \in 1..n : i > 1 => before(Chunks(e)[i - 1], Chunks(e)[i])
    BY <1>1 DEF ChunksParse
<1> HIDE DEF n
<1>3. 1 \in good
    BY <1>1 DEF n
<1>4. ASSUME NEW i \in 1..(n - 1), i \in good PROVE i + 1 \in good
  <2>1. i \in 1..n /\ i + 1 \in 1..n /\ i + 1 > 1 /\ (i + 1) - 1 = i
      BY <1>1
  <2>2. before(Chunks(e)[i], Chunks(e)[i + 1])
      BY <1>2, <2>1
  <2> SUFFICES ASSUME NEW h \in 1..n, h < i + 1 PROVE before(Chunks(e)[h], Chunks(e)[i + 1])
      BY <2>1
  <2>3. CASE h = i
      BY <2>2, <2>3
  <2>4. CASE h < i
    <3>1. before(Chunks(e)[h], Chunks(e)[i])
        BY <1>4, <2>4
    <3> DEFINE p == Chunks(e)[h]
               q == Chunks(e)[i]
               r == Chunks(e)[i + 1]
    <3>2. /\ p.maxt \in Int /\ p.reference \in Int /\ q.mint \in Int /\ q.maxt \in Int /\ q.reference \in Int
          /\ q.mint <= q.maxt /\ r.mint \in Int /\ r.reference \in Int
        BY <1>1, <2>1
    <3>3. before(p, q) /\ before(q, r)
        BY <2>2, <3>1
    <3> HIDE DEF p, q, r
    <3>4. before(p, r)
        BY <3>2, <3>3
    <3> QED
        BY <3>4 DEF p, q, r
  <2> QED
      BY <1>1, <2>3, <2>4
<1>5. 1..n \subseteq good
  <2> HIDE DEF good
  <2> QED
      BY <1>1, <1>3, <1>4, UpTo
<1>6. j \in 1..n /\ k \in 1..n
    BY DEF n
<1> QED
    BY <1>5, <1>6
-----------------------------------------------------------------------------
(* What the walk holds, of any file. *)

\* The series of the entries that parse.
Parsable(f) == {SeriesOf(f, e) : e \in {d \in f.entries : SeriesParses(f, d)}}

WalkTypes ==
    /\ walk \in {"idle", "walking", "done", "failed"}
    /\ offset \in Nat
    /\ walk \in {"walking", "done"} => offset < index.end + SERIES_ALIGNMENT
    /\ parsed \in Seq(Parsable(index))
    /\ walk = "idle" => parsed = <<>>

\* An opened file has its sections in order, or is refused.
LEMMA WalkTypesOpen ==
    ASSUME NEW f, IsIndex(f), OpenIndex(f)
    PROVE  WalkTypes'
<1>1. /\ index' = f /\ offset' = f.start /\ parsed' = <<>>
      /\ walk' = IF HeaderOk(f) THEN "walking" ELSE "failed"
    BY DEF OpenIndex
<1>2. f.start \in Nat /\ f.end \in Nat /\ (HeaderOk(f) => f.start <= f.end)
    BY DEF IsIndex, HeaderOk
<1> QED
    BY <1>1, <1>2 DEF WalkTypes, SERIES_ALIGNMENT

\* align_series moves by less than 16 bytes.
LEMMA AlignIsNear ==
    ASSUME NEW o \in Nat
    PROVE  align_series(o) \in Nat /\ align_series(o) < o + SERIES_ALIGNMENT
BY DEF align_series, SERIES_ALIGNMENT

\* What is delivered parses, and the walk leaves the section by less than 16 bytes.
LEMMA WalkTypesStep ==
    ASSUME WalkTypes, WalkStep, IsIndex(index)
    PROVE  WalkTypes'
<1>1. index' = index /\ index.end \in Nat /\ walk = "walking" /\ offset \in Nat
    BY DEF WalkStep, SkipPadding, ParseSeries, RefuseSeries, EndOfSeries, IsIndex, WalkTypes
<1>2. Parsable(index)' = Parsable(index)
    BY <1>1 DEF Parsable
<1>3. CASE SkipPadding
  <2>1. offset < index.end /\ offset' = align_series(offset) /\ UNCHANGED <<parsed, walk>>
      BY <1>3 DEF SkipPadding
  <2>2. offset' \in Nat /\ offset' < offset + SERIES_ALIGNMENT
      BY <1>1, <2>1, AlignIsNear
  <2>3. offset' < index.end + SERIES_ALIGNMENT
      BY <1>1, <2>1, <2>2 DEF SERIES_ALIGNMENT
  <2> QED
      BY <1>1, <1>2, <2>1, <2>2, <2>3 DEF WalkTypes
<1>4. CASE ParseSeries
  <2>1. PICK e \in index.entries :
            /\ ChecksumEnd(e) <= index.end /\ SeriesParses(index, e)
            /\ parsed' = Append(parsed, SeriesOf(index, e))
            /\ offset' = align_series(ChecksumEnd(e))
      BY <1>4 DEF ParseSeries
  <2>2. walk' = walk
      BY <1>4 DEF ParseSeries
  <2>3. ChecksumEnd(e) \in Nat
      BY EntryHasEnd DEF IsIndex
  <2>4. offset' \in Nat /\ offset' < ChecksumEnd(e) + SERIES_ALIGNMENT
      BY <2>1, <2>3, AlignIsNear
  <2>5. offset' < index.end + SERIES_ALIGNMENT
      BY <1>1, <2>1, <2>3, <2>4 DEF SERIES_ALIGNMENT
  <2>6. SeriesOf(index, e) \in Parsable(index) /\ parsed \in Seq(Parsable(index))
      BY <2>1 DEF Parsable, WalkTypes
  <2>7. parsed' \in Seq(Parsable(index))
      BY <2>1, <2>6
  <2> QED
      BY <1>1, <1>2, <2>2, <2>4, <2>5, <2>7 DEF WalkTypes
<1>5. CASE RefuseSeries \/ EndOfSeries
  <2>1. UNCHANGED <<offset, parsed>> /\ walk' \in {"failed", "done"}
      BY <1>5 DEF RefuseSeries, EndOfSeries
  <2> QED
      BY <1>1, <1>2, <2>1 DEF WalkTypes
<1> QED
    BY <1>3, <1>4, <1>5 DEF WalkStep

\* A parser that is done holds nothing.
LEMMA WalkTypesDone ==
    ASSUME WalkDone
    PROVE  WalkTypes'
BY DEF WalkDone, WalkTypes

\* What leaves the parser alone keeps its types.
LEMMA WalkTypesStutter ==
    ASSUME WalkTypes, UNCHANGED walkVars
    PROVE  WalkTypes'
<1>1. index' = index /\ offset' = offset /\ parsed' = parsed /\ walk' = walk
    BY DEF walkVars
<1>2. Parsable(index)' = Parsable(index)
    BY <1>1 DEF Parsable
<1> QED
    BY <1>1, <1>2 DEF WalkTypes

\* What is delivered is the series of an entry that parses.
LEMMA DeliveredParses ==
    ASSUME WalkTypes, NEW i \in DOMAIN parsed
    PROVE  \E e \in index.entries : SeriesParses(index, e) /\ parsed[i] = SeriesOf(index, e)
<1> DEFINE S == Parsable(index)
<1>1. parsed \in Seq(S)
    BY DEF WalkTypes
<1> HIDE DEF S
<1>2. parsed[i] \in S
    BY <1>1
<1> QED
    BY <1>2 DEF S, Parsable

\* BoundsCoverChunks, from the order of the chunks of each entry.
LEMMA BoundsCover ==
    ASSUME WalkTypes, walk # "idle" => IsIndex(index)
    PROVE  BoundsCoverChunks
<1> SUFFICES ASSUME NEW i \in DOMAIN parsed
             PROVE  LET chunks == parsed[i].chunks IN
                    \A j \in DOMAIN chunks :
                        /\ chunks[1].mint <= chunks[j].mint
                        /\ chunks[j].maxt <= chunks[Len(chunks)].maxt
                        /\ \A k \in DOMAIN chunks : j < k => chunks[j].reference < chunks[k].reference
    BY DEF BoundsCoverChunks
<1>1. walk # "idle"
    BY DEF WalkTypes
<1>2. PICK e \in index.entries : SeriesParses(index, e) /\ parsed[i] = SeriesOf(index, e)
    BY DeliveredParses
<1>3. e.chunks \in Seq(ChunkMetas) /\ ChunksParse(e) /\ parsed[i].chunks = Chunks(e)
    BY <1>1, <1>2 DEF IsIndex, SeriesParses, SeriesOf
<1> DEFINE n == Len(e.chunks)
           C(j) == Chunks(e)[j]
<1>4. /\ n \in Nat /\ Len(Chunks(e)) = n /\ DOMAIN Chunks(e) = 1..n
      /\ \A j \in 1..n : C(j) \in ChunkPlaces /\ C(j).mint <= C(j).maxt
    BY <1>3, ChunksFollow, LenProperties
<1>5. \A j, k \in 1..n : j < k => C(j).maxt <= C(k).mint /\ C(j).reference < C(k).reference
    BY <1>3, ChunksInOrder
<1>6. \A j \in 1..n : C(j).mint \in Int /\ C(j).maxt \in Int
    BY <1>4 DEF ChunkPlaces
<1> HIDE DEF n, C
<1>7. ASSUME NEW j \in 1..n
      PROVE  C(1).mint <= C(j).mint /\ C(j).maxt <= C(n).maxt
  <2>1. 1 \in 1..n /\ n \in 1..n
      BY <1>4
  <2>2. j = 1 \/ 1 < j
      BY <1>4
  <2>3. j = n \/ j < n
      BY <1>4
  <2>4. C(1).mint <= C(j).mint
      BY <1>4, <1>5, <1>6, <2>1, <2>2
  <2>5. C(j).maxt <= C(n).maxt
      BY <1>4, <1>5, <1>6, <2>1, <2>3
  <2> QED
      BY <2>4, <2>5
<1> QED
    BY <1>3, <1>4, <1>5, <1>7 DEF C
=============================================================================
