-------------------------- MODULE ChunkReadProofs --------------------------
(***************************************************************************)
(* Why a byte range survives being cut into pages, and a chunk record its  *)
(* being read in two ranges, for every page size and every segment.        *)
(***************************************************************************)
EXTENDS ChunkRead, SequenceTheorems, TLAPS

\* The greater of two integers.
LEMMA MaxOfTwo ==
    ASSUME NEW a \in Int, NEW b \in Int
    PROVE  Sets!Max({a, b}) = IF a >= b THEN a ELSE b
  BY DEF Sets!Max

\* The smaller of two integers.
LEMMA MinOfTwo ==
    ASSUME NEW a \in Int, NEW b \in Int
    PROVE  Sets!Min({a, b}) = IF a <= b THEN a ELSE b
  BY DEF Sets!Min

\* Two ranges of bytes, one after the other, are one.
LEMMA IntervalsJoin ==
    ASSUME NEW a \in Int, NEW b \in Int, NEW c \in Int, a <= b, b <= c
    PROVE  Interval(a, b) \o Interval(b, c) = Interval(a, c)
  <1>1. Interval(a, b) \in Seq(Int) /\ Len(Interval(a, b)) = b - a
    BY DEF Interval
  <1>2. Interval(b, c) \in Seq(Int) /\ Len(Interval(b, c)) = c - b
    BY DEF Interval
  <1>3. Interval(a, c) \in Seq(Int) /\ Len(Interval(a, c)) = c - a
    BY DEF Interval
  <1> QED
    BY <1>1, <1>2, <1>3 DEF Interval

\* A range of bytes that is not empty is no other range.
LEMMA IntervalsDiffer ==
    ASSUME NEW a \in Int, NEW b \in Int, NEW c \in Int, NEW d \in Int, a < b,
           Interval(a, b) = Interval(c, d)
    PROVE  a = c /\ b = d
  <1>1. 1 \in DOMAIN Interval(a, b) /\ Interval(a, b)[1] = a
    BY DEF Interval
  <1>2. 1 \in DOMAIN Interval(c, d) /\ Interval(c, d)[1] = c
    BY <1>1 DEF Interval
  <1>3. b - a \in DOMAIN Interval(a, b) /\ d - c \in DOMAIN Interval(c, d)
    BY <1>1, <1>2 DEF Interval
  <1>4. DOMAIN Interval(a, b) = 1..(b - a) /\ DOMAIN Interval(c, d) = 1..(d - c)
    BY DEF Interval
  <1>5. b - a \in 1..(d - c) /\ d - c \in 1..(b - a)
    BY <1>3, <1>4
  <1> QED
    BY <1>1, <1>2, <1>5

\* The page of a byte begins at a multiple of the page size and holds the byte.
LEMMA PageHoldsByte ==
    ASSUME NEW o \in Nat, pageSize \in Nat, pageSize > 0
    PROVE  /\ PageOf(o) \in Nat /\ PageOf(o) <= o /\ o < PageOf(o) + pageSize
           /\ \E k \in Nat : PageOf(o) = k * pageSize
  <1>1. o \div pageSize \in Nat
    OBVIOUS
  <1>2. o = pageSize * (o \div pageSize) + (o % pageSize) /\ (o % pageSize) \in 0..(pageSize - 1)
    OBVIOUS
  <1> QED
    BY <1>1, <1>2 DEF PageOf

\* Two page starts are equal or at least a page apart.
LEMMA PagesApart ==
    ASSUME NEW k \in Nat, NEW m \in Nat, NEW size \in Nat, m * size < k * size
    PROVE  m * size + size <= k * size
  <1>1. k > m
    <2>1. SUFFICES ASSUME k <= m PROVE FALSE
      OBVIOUS
    <2>2. PICK d \in Nat : m = k + d
      BY <2>1
    <2>3. d * size >= 0
      OBVIOUS
    <2> QED
      BY <2>2, <2>3
  <1>2. PICK d \in Nat : k = m + 1 + d
    BY <1>1
  <1>3. d * size >= 0
    OBVIOUS
  <1> QED
    BY <1>2, <1>3

\* A range that ends where it begins, or before, has no bytes.
LEMMA IntervalEmpty ==
    ASSUME NEW a \in Int, NEW b \in Int, b <= a
    PROVE  Interval(a, b) = <<>>
  BY DEF Interval

\* A range is a sequence, as long as it says.
LEMMA IntervalIsSequence ==
    ASSUME NEW a \in Int, NEW b \in Int, a <= b
    PROVE  Interval(a, b) \in Seq(Int) /\ Len(Interval(a, b)) = b - a
  BY DEF Interval

\* The first bytes of a range are a range.
LEMMA IntervalPrefix ==
    ASSUME NEW a \in Nat, NEW n \in Nat, NEW h \in 0..n
    PROVE  SubSeq(Interval(a, a + n), 1, h) = Interval(a, a + h)
  <1> DEFINE s == SubSeq(Interval(a, a + n), 1, h)
             t == Interval(a, a + h)
  <1>1. \A i \in 1..n : Interval(a, a + n)[i] = a + i - 1
    BY DEF Interval
  <1>2. t \in Seq(Int) /\ Len(t) = h
    <2>1. a \in Int /\ a + h \in Int /\ a <= a + h /\ (a + h) - a = h
      OBVIOUS
    <2>2. t \in Seq(Int) /\ Len(t) = (a + h) - a
      BY <2>1, IntervalIsSequence
    <2> QED
      BY <2>1, <2>2
  <1>3. \A i \in 1..h : t[i] = a + i - 1
    BY DEF Interval
  <1>4. /\ s \in Seq(Int)
        /\ Len(s) = h
        /\ \A i \in 1..h : s[i] = Interval(a, a + n)[i]
    <2>1. \A i \in 1..h : Interval(a, a + n)[i] \in Int
      BY <1>1
    <2>2. h \in Int /\ 1 \in Int
      OBVIOUS
    <2>3. /\ s \in Seq(Int)
          /\ Len(s) = IF 1 <= h THEN h - 1 + 1 ELSE 0
          /\ \A i \in 1..(h - 1 + 1) : s[i] = Interval(a, a + n)[1 + i - 1]
      BY <2>1, <2>2, SubSeqProperties
    <2> HIDE DEF s
    <2> QED
      BY <2>3
  <1> HIDE DEF s, t
  <1>5. \A i \in 1..Len(s) : s[i] = t[i]
    BY <1>1, <1>3, <1>4
  <1> QED
    <2>1. s = t
      BY <1>2, <1>4, <1>5, SeqEqual
    <2> QED
      BY <2>1 DEF s, t

-----------------------------------------------------------------------------
(* The invariant of a read. *)

Reach == IF page <= range[2] THEN page ELSE range[2]

\* The part of the range that lies before the next page has been read.
RangeInv ==
    /\ range[1] = want /\ range[2] \in Nat /\ want < range[2]
    /\ page \in Nat
    /\ pageSize = 0 => output \in {<<>>, Interval(want, range[2])}
    /\ pageSize > 0 => /\ \E k \in Nat : page = k * pageSize
                       /\ PageOf(want) <= page
                       /\ output = Interval(want, Reach)

\* Of a record that lies at the place that is wanted, the range is that of its
\* prefix and then its own; the end of a read is the property.
ReadInv ==
    reading # "idle" /\ IsSegment(segment) /\ want \in Nat /\ pageSize \in Nat =>
        /\ reading \in {"prefix", "record", "read", "failed"}
        /\ reading \in {"prefix", "record"} => RangeInv
        /\ reading = "prefix" => range[2] = want + MAX_UVARINT_SIZE + 1
        /\ reading = "record" => \E r \in segment.records : r.at = want /\ range[2] = RecordEnd(r)
        /\ reading = "read" => \E r \in segment.records : r.at = want
        /\ RecordIsExact

\* What one page adds to the bytes that are read.
LEMMA OnePage ==
    ASSUME want \in Nat, pageSize \in Nat, pageSize > 0, segment.length \in Nat, RangeInv, MorePages
    PROVE  /\ PageLength > 0 /\ FromPage(PageLength) # <<>> =>
                 output \o FromPage(PageLength)
                    = Interval(want, IF page + pageSize <= range[2] THEN page + pageSize ELSE range[2])
           /\ range[2] <= segment.length => PageLength > 0 /\ FromPage(PageLength) # <<>>
  <1> DEFINE start == IF want >= page THEN want - page ELSE 0
             end   == (IF range[2] <= page + pageSize THEN range[2] ELSE page + pageSize) - page
             size  == (IF page + pageSize <= segment.length THEN page + pageSize ELSE segment.length) - page
             first == page + start
             last  == page + end
  <1>1. /\ page \in Nat /\ range[2] \in Nat /\ want < range[2] /\ range[1] = want
        /\ output = Interval(want, Reach)
    BY DEF RangeInv
  <1>2. want < page + pageSize
    <2>1. PageOf(want) <= page /\ PageOf(want) \in Nat /\ want < PageOf(want) + pageSize
      BY PageHoldsByte DEF RangeInv
    <2> QED
      BY <2>1, <1>1
  <1>3. page < range[2]
    <2>1. range[2] - 1 \in Nat
      BY <1>1
    <2>2. PageOf(range[2] - 1) \in Nat /\ PageOf(range[2] - 1) <= range[2] - 1
      BY <2>1, PageHoldsByte
    <2>3. page <= PageOf(range[2] - 1)
      BY DEF MorePages
    <2> QED
      BY <1>1, <2>2, <2>3
  <1>4. PageLength = size
    BY <1>1, MinOfTwo DEF PageLength
  <1>5. FromPage(size) = IF start > size \/ end > size THEN <<>> ELSE Interval(first, last)
    <2>1. Sets!Max({range[1] - page, 0}) = start
      BY <1>1, MaxOfTwo
    <2>2. Sets!Min({range[2], page + pageSize}) - page = end
      BY <1>1, MinOfTwo
    <2> QED
      BY <2>1, <2>2 DEF FromPage
  <1>6. start \in Nat /\ end \in Nat /\ size \in Int /\ start < end
    BY <1>1, <1>2, <1>3
  <1>7. first \in Int /\ last \in Int /\ first < last /\ page < last
    BY <1>1, <1>3, <1>6
  <1> HIDE DEF start, end, size, first, last
  <1>8. ASSUME range[2] <= segment.length
        PROVE  PageLength > 0 /\ FromPage(PageLength) # <<>>
    <2>1. end <= size /\ size > 0
      BY <1>8, <1>1, <1>3 DEF end, size
    <2>2. FromPage(size) = Interval(first, last)
      BY <1>5, <1>6, <2>1
    <2>3. Len(Interval(first, last)) = last - first
      BY <1>7, IntervalIsSequence
    <2> QED
      BY <1>4, <1>7, <2>1, <2>2, <2>3
  <1>9. ASSUME FromPage(PageLength) # <<>>
        PROVE  output \o FromPage(PageLength)
                 = Interval(want, IF page + pageSize <= range[2] THEN page + pageSize ELSE range[2])
    <2>1. FromPage(PageLength) = Interval(first, last)
      BY <1>4, <1>5, <1>9
    <2>2. last = IF page + pageSize <= range[2] THEN page + pageSize ELSE range[2]
      BY <1>1 DEF last, end
    <2>3. Reach = page
      BY <1>1, <1>3 DEF Reach
    <2>4. CASE want >= page
      <3>1. Interval(want, page) = <<>>
        BY <1>1, <2>4, IntervalEmpty
      <3>2. first = want
        BY <1>1, <2>4 DEF first, start
      <3>3. Interval(want, last) \in Seq(Int)
        BY <1>1, <1>7, <3>2, IntervalIsSequence
      <3> QED
        BY <1>1, <2>1, <2>2, <2>3, <3>1, <3>2, <3>3
    <2>5. CASE want < page
      <3>1. first = page
        BY <1>1, <2>5 DEF first, start
      <3>2. Interval(want, page) \o Interval(page, last) = Interval(want, last)
        BY <1>1, <1>7, <2>5, <3>1, IntervalsJoin
      <3> QED
        BY <1>1, <2>1, <2>2, <2>3, <3>1, <3>2
    <2> QED
      BY <1>1, <2>4, <2>5
  <1> QED
    BY <1>8, <1>9

\* When no page is left, the range has been read in full.
LEMMA WholeRange ==
    ASSUME want \in Nat, pageSize \in Nat, RangeInv, ~MorePages
    PROVE  output = Interval(want, range[2])
  <1>1. CASE pageSize = 0
    BY <1>1 DEF RangeInv, MorePages
  <1>2. CASE pageSize > 0
    <2>1. range[2] - 1 \in Nat
      BY DEF RangeInv
    <2>2. PICK m \in Nat : PageOf(range[2] - 1) = m * pageSize
      BY <1>2, <2>1, PageHoldsByte
    <2>3. PICK k \in Nat : page = k * pageSize
      BY <1>2 DEF RangeInv
    <2>4. PageOf(range[2] - 1) \in Nat /\ range[2] - 1 < PageOf(range[2] - 1) + pageSize
      BY <1>2, <2>1, PageHoldsByte
    <2>5. m * pageSize < k * pageSize
      BY <1>2, <2>2, <2>3, <2>4 DEF MorePages, RangeInv
    <2>6. m * pageSize + pageSize <= k * pageSize
      BY <2>5, PagesApart
    <2>7. PageOf(range[2] - 1) + pageSize <= page
      BY <2>2, <2>3, <2>6
    <2>8. range[2] <= page
      BY <2>1, <2>4, <2>7 DEF RangeInv
    <2> QED
      BY <1>2, <2>8 DEF RangeInv, Reach
  <1> QED
    BY <1>1, <1>2

-----------------------------------------------------------------------------
(* Every step of a read preserves the invariant. *)

\* AskFor: nothing of a new range has been read.
LEMMA RangeAsked ==
    ASSUME NEW from \in Nat, NEW to \in Nat, from < to, AskFor(from, to), want' = from,
           pageSize \in Nat, UNCHANGED pageSize
    PROVE  RangeInv'
  <1>1. range' = <<from, to>> /\ output' = <<>> /\ page' = IF pageSize = 0 THEN from ELSE PageOf(from)
    BY DEF AskFor
  <1>2. range'[1] = want' /\ range'[2] = to
    BY <1>1
  <1>3. CASE pageSize = 0
    BY <1>1, <1>2, <1>3 DEF RangeInv
  <1>4. CASE pageSize > 0
    <2>1. /\ PageOf(from) \in Nat /\ PageOf(from) <= from
          /\ \E k \in Nat : PageOf(from) = k * pageSize
      BY <1>4, PageHoldsByte
    <2>2. PageOf(want)' = PageOf(from)
      BY DEF PageOf
    <2>3. page' = PageOf(from)
      BY <1>1, <1>4
    <2>4. Reach' = PageOf(from)
      BY <1>2, <2>1, <2>3 DEF Reach
    <2>5. Interval(want', PageOf(from)) = <<>>
      BY <2>1, IntervalEmpty
    <2>6. Interval(want, Reach)' = <<>>
      BY <2>4, <2>5 DEF Interval
    <2> QED
      BY <1>1, <1>2, <1>4, <2>1, <2>2, <2>3, <2>6 DEF RangeInv
  <1> QED
    BY <1>3, <1>4

\* read_record begins.
LEMMA ReadInvBegin ==
    ASSUME NEW s, NEW o, ReadRecord(s, o)
    PROVE  ReadInv'
  <1> SUFFICES ASSUME want' \in Nat, pageSize' \in Nat
               PROVE  /\ reading' = "prefix" /\ RangeInv' /\ RecordIsExact'
                      /\ range'[2] = want' + MAX_UVARINT_SIZE + 1
    BY DEF ReadInv
  <1>1. /\ reading' = "prefix" /\ want' = o /\ AskFor(o, o + MAX_UVARINT_SIZE + 1)
        /\ UNCHANGED pageSize
    BY DEF ReadRecord
  <1>2. o \in Nat /\ o + MAX_UVARINT_SIZE + 1 \in Nat /\ o < o + MAX_UVARINT_SIZE + 1
    BY <1>1 DEF MAX_UVARINT_SIZE
  <1>3. RangeInv'
    BY <1>1, <1>2, RangeAsked
  <1>4. range'[2] = want' + MAX_UVARINT_SIZE + 1
    BY <1>1 DEF AskFor
  <1> QED
    BY <1>1, <1>3, <1>4 DEF RecordIsExact

\* A failure before the end of the range: a sound record would have been there.
LEMMA RangeBeyondEnd ==
    ASSUME ReadInv, reading \in {"prefix", "record"}, IsSegment(segment), want \in Nat,
           pageSize \in Nat, segment.length < range[2],
           NEW r \in segment.records, r.at = want
    PROVE  ~r.sound
  <1>1. r.head \in 1..MAX_UVARINT_SIZE /\ Len(r.payload) \in Nat /\ segment.length \in Nat
    BY DEF IsSegment
  <1>2. r.sound => RecordEnd(r) <= segment.length
    BY DEF IsSegment
  <1>3. RangeInv
    BY DEF ReadInv
  <1>4. CASE reading = "prefix"
    <2>1. range[2] = want + MAX_UVARINT_SIZE + 1
      BY <1>4 DEF ReadInv
    <2>2. RecordEnd(r) \in Nat /\ range[2] <= RecordEnd(r)
      <3>1. PICK n \in Nat : n = Len(r.payload)
        BY <1>1
      <3>2. RecordEnd(r) = want + r.head + 1 + n + 4 /\ range[2] = want + 6
        BY <2>1, <3>1 DEF RecordEnd, MAX_UVARINT_SIZE, CRC_SIZE
      <3>3. r.head \in Int /\ r.head >= 1
        BY <1>1 DEF MAX_UVARINT_SIZE
      <3> QED
        BY <3>2, <3>3
    <2> QED
      BY <1>1, <1>2, <1>3, <2>2 DEF RangeInv
  <1>5. CASE reading = "record"
    <2>1. PICK q \in segment.records : q.at = want /\ range[2] = RecordEnd(q)
      BY <1>5 DEF ReadInv
    <2>2. q = r
      BY <2>1 DEF IsSegment
    <2> QED
      BY <1>1, <1>2, <1>3, <2>1, <2>2 DEF RangeInv
  <1> QED
    BY <1>4, <1>5

\* What a failed step leaves is the property of a failed read.
LEMMA ReadInvFails ==
    ASSUME ReadInv, ReadFailed,
           IsSegment(segment) /\ want \in Nat /\ pageSize \in Nat =>
               \A r \in segment.records : r.at = want => ~r.sound
    PROVE  ReadInv'
  <1>1. reading' = "failed" /\ UNCHANGED <<pageSize, segment, want, range, page, output>>
    BY DEF ReadFailed
  <1> QED
    BY <1>1 DEF ReadInv, IsSegment, RecordEnd, RecordIsExact

\* A page is read, or it is not there.
LEMMA ReadInvPage ==
    ASSUME ReadInv, ReadPage
    PROVE  ReadInv'
  <1>1. reading \in {"prefix", "record"} /\ pageSize > 0 /\ MorePages
    BY DEF ReadPage, InRange
  <1>2. CASE ReadFailed
    <2> SUFFICES ASSUME IsSegment(segment), want \in Nat, pageSize \in Nat,
                        PageLength <= 0 \/ FromPage(PageLength) = <<>>
                 PROVE  segment.length < range[2]
      <3>1. PageLength <= 0 \/ FromPage(PageLength) = <<>>
        BY <1>2 DEF ReadPage, ReadFailed
      <3>2. reading # "idle"
        BY <1>1
      <3> QED
        BY <1>1, <1>2, <3>1, RangeBeyondEnd, ReadInvFails
    <2>1. RangeInv /\ segment.length \in Nat /\ range[2] \in Nat
      BY <1>1 DEF ReadInv, RangeInv, IsSegment
    <2>2. range[2] <= segment.length => PageLength > 0 /\ FromPage(PageLength) # <<>>
      BY <1>1, <2>1, OnePage
    <2>3. PageLength > 0 => ~(PageLength <= 0)
      BY <2>1, <1>1, MinOfTwo DEF PageLength, RangeInv
    <2> QED
      BY <2>1, <2>2, <2>3
  <1>3. CASE ~ReadFailed
    <2>1. /\ ~(PageLength <= 0) /\ FromPage(PageLength) # <<>>
          /\ output' = output \o FromPage(PageLength)
          /\ page' = page + pageSize
          /\ UNCHANGED <<pageSize, segment, want, range, reading>>
      BY <1>3 DEF ReadPage
    <2> SUFFICES ASSUME IsSegment(segment), want \in Nat, pageSize \in Nat
                 PROVE  RangeInv'
      <3>1. IsSegment(segment)' = IsSegment(segment)
        BY <2>1
      <3>2. RecordIsExact'
        BY <1>1, <2>1 DEF RecordIsExact
      <3>3. reading = "record" /\ (\E r \in segment.records : r.at = want /\ range[2] = RecordEnd(r))
              => \E r \in segment'.records : r.at = want' /\ range'[2] = RecordEnd(r)
        BY <2>1
      <3> QED
        BY <1>1, <2>1, <3>1, <3>2, <3>3 DEF ReadInv
    <2>2. RangeInv /\ segment.length \in Nat
      BY <1>1 DEF ReadInv, IsSegment
    <2>3. PageLength > 0
      <3>1. page + pageSize \in Int /\ segment.length \in Int /\ page \in Int
        BY <2>2 DEF RangeInv
      <3>2. Sets!Min({page + pageSize, segment.length}) \in Int
        BY <3>1, MinOfTwo
      <3>3. PageLength \in Int
        BY <3>1, <3>2 DEF PageLength
      <3> QED
        BY <2>1, <3>3
    <2>4. output' = Interval(want, IF page + pageSize <= range[2] THEN page + pageSize ELSE range[2])
      BY <1>1, <2>1, <2>2, <2>3, OnePage
    <2>5. output' = Interval(want, Reach)'
      BY <2>1, <2>4 DEF Reach, Interval
    <2>6. \E k \in Nat : page' = k * pageSize'
      <3>1. PICK k \in Nat : page = k * pageSize
        BY <1>1, <2>2 DEF RangeInv
      <3>2. page' = (k + 1) * pageSize /\ pageSize' = pageSize
        BY <2>1, <3>1
      <3> WITNESS k + 1 \in Nat
      <3> QED
        BY <3>2
    <2>7. PageOf(want)' = PageOf(want) /\ PageOf(want) \in Nat
      BY <1>1, <2>1, PageHoldsByte DEF PageOf
    <2>8. page \in Nat /\ PageOf(want) <= page
      BY <1>1, <2>2 DEF RangeInv
    <2>9. page' \in Nat /\ PageOf(want)' <= page'
      BY <2>1, <2>7, <2>8
    <2>10. range'[1] = want' /\ range'[2] \in Nat /\ want' < range'[2]
      BY <2>1, <2>2 DEF RangeInv
    <2>11. pageSize' # 0
      BY <1>1, <2>1
    <2> QED
      BY <2>5, <2>6, <2>9, <2>10, <2>11 DEF RangeInv
  <1> QED
    BY <1>2, <1>3

\* Without a cache, the whole range is read, or it is not there.
LEMMA ReadInvDirect ==
    ASSUME ReadInv, ReadDirect
    PROVE  ReadInv'
  <1>1. reading \in {"prefix", "record"} /\ pageSize = 0
    BY DEF ReadDirect, InRange
  <1>2. CASE ReadFailed
    <2>1. reading' = "failed"
      BY <1>2 DEF ReadFailed
    <2>2. range[2] > segment.length
      BY <1>1, <2>1 DEF ReadDirect
    <2> SUFFICES ASSUME IsSegment(segment), want \in Nat
                 PROVE  segment.length < range[2]
      BY <1>1, <1>2, RangeBeyondEnd, ReadInvFails
    <2> QED
      BY <1>1, <2>2 DEF ReadInv, RangeInv, IsSegment
  <1>3. CASE ~ReadFailed
    <2>1. /\ output' = Interval(range[1], range[2])
          /\ UNCHANGED <<pageSize, segment, want, range, page, reading>>
      BY <1>3 DEF ReadDirect
    <2> SUFFICES ASSUME IsSegment(segment), want \in Nat
                 PROVE  RangeInv'
      <3>1. IsSegment(segment)' = IsSegment(segment)
        BY <2>1
      <3>2. RecordIsExact'
        BY <1>1, <2>1 DEF RecordIsExact
      <3>3. reading = "record" /\ (\E r \in segment.records : r.at = want /\ range[2] = RecordEnd(r))
              => \E r \in segment'.records : r.at = want' /\ range'[2] = RecordEnd(r)
        BY <2>1
      <3> QED
        BY <1>1, <2>1, <3>1, <3>2, <3>3 DEF ReadInv
    <2>2. RangeInv
      BY <1>1 DEF ReadInv
    <2>3. output' = Interval(want, range[2])'
      BY <2>1, <2>2 DEF RangeInv, Interval
    <2> QED
      BY <1>1, <2>1, <2>2, <2>3 DEF RangeInv
  <1> QED
    BY <1>2, <1>3

\* The bytes of the prefix are the length field of the record that is wanted,
\* if there is one.
LEMMA PrefixNamesRecord ==
    ASSUME want \in Nat, IsSegment(segment), output = Interval(want, want + MAX_UVARINT_SIZE + 1),
           NEW r \in segment.records
    PROVE  r.head <= Len(output) /\ SubSeq(output, 1, r.head) = Interval(r.at, r.at + r.head)
                <=> r.at = want
  <1>1. r.at \in Nat /\ r.head \in 1..MAX_UVARINT_SIZE
    BY DEF IsSegment
  <1>2. output \in Seq(Int) /\ Len(output) = 6
    <2>1. want + MAX_UVARINT_SIZE + 1 = want + 6
      BY DEF MAX_UVARINT_SIZE
    <2>2. output = Interval(want, want + 6)
      BY <2>1
    <2>3. want \in Int /\ want + 6 \in Int /\ want <= want + 6 /\ (want + 6) - want = 6
      OBVIOUS
    <2>4. Interval(want, want + 6) \in Seq(Int) /\ Len(Interval(want, want + 6)) = (want + 6) - want
      BY <2>3, IntervalIsSequence
    <2> QED
      BY <2>2, <2>3, <2>4
  <1>3. SubSeq(output, 1, r.head) = Interval(want, want + r.head)
    <2>1. r.head \in 0..6
      BY <1>1 DEF MAX_UVARINT_SIZE
    <2>2. want + MAX_UVARINT_SIZE + 1 = want + 6
      BY DEF MAX_UVARINT_SIZE
    <2>3. output = Interval(want, want + 6)
      BY <2>2
    <2> QED
      BY <2>1, <2>3, IntervalPrefix
  <1>4. r.head <= Len(output)
    <2>1. r.head \in Int /\ r.head <= 5
      BY <1>1 DEF MAX_UVARINT_SIZE
    <2>2. r.head <= 6
      BY <2>1
    <2> QED
      BY <1>2, <2>2
  <1>5. want + r.head \in Int /\ r.at + r.head \in Int /\ want < want + r.head
    BY <1>1
  <1>6. Interval(want, want + r.head) = Interval(r.at, r.at + r.head) => want = r.at
    BY <1>1, <1>5, IntervalsDiffer
  <1> QED
    BY <1>3, <1>4, <1>6

\* The length of the record is known.
LEMMA ReadInvPrefix ==
    ASSUME ReadInv, ParsePrefix
    PROVE  ReadInv'
  <1> DEFINE Named(r) == r.head <= Len(output) /\ SubSeq(output, 1, r.head) = Interval(r.at, r.at + r.head)
  <1>1. reading = "prefix" /\ ~MorePages
    BY DEF ParsePrefix
  <1>2. ASSUME IsSegment(segment), want \in Nat, pageSize \in Nat
        PROVE  \A r \in segment.records : Named(r) <=> r.at = want
    <2>1. RangeInv /\ range[2] = want + MAX_UVARINT_SIZE + 1
      BY <1>1, <1>2 DEF ReadInv
    <2>2. output = Interval(want, want + MAX_UVARINT_SIZE + 1)
      BY <1>1, <1>2, <2>1, WholeRange
    <2> QED
      BY <1>2, <2>2, PrefixNamesRecord
  <1>3. CASE \E r \in segment.records :
                 /\ Named(r)
                 /\ AskFor(want, want + r.head + 1 + Len(r.payload) + CRC_SIZE)
                 /\ reading' = "record"
                 /\ UNCHANGED <<pageSize, segment, want>>
    <2>1. PICK r \in segment.records :
                 /\ Named(r)
                 /\ AskFor(want, want + r.head + 1 + Len(r.payload) + CRC_SIZE)
                 /\ reading' = "record"
                 /\ UNCHANGED <<pageSize, segment, want>>
      BY <1>3
    <2> HIDE DEF Named
    <2> SUFFICES ASSUME IsSegment(segment), want \in Nat, pageSize \in Nat
                 PROVE  /\ RangeInv'
                        /\ \E q \in segment.records : q.at = want /\ range'[2] = RecordEnd(q)
      <3>1. IsSegment(segment)' = IsSegment(segment)
        BY <2>1
      <3>2. RecordIsExact'
        BY <2>1 DEF RecordIsExact
      <3> QED
        BY <2>1, <3>1, <3>2 DEF ReadInv
    <2>2. r.at = want
      BY <1>2, <2>1
    <2>3. r.head \in 1..MAX_UVARINT_SIZE /\ Len(r.payload) \in Nat
      BY DEF IsSegment
    <2>4. want + r.head + 1 + Len(r.payload) + CRC_SIZE = RecordEnd(r)
      BY <2>2 DEF RecordEnd
    <2>5. RecordEnd(r) \in Nat /\ want < RecordEnd(r)
      <3>1. PICK n \in Nat : n = Len(r.payload)
        BY <2>3
      <3>2. RecordEnd(r) = want + r.head + 1 + n + 4
        BY <2>2, <3>1 DEF RecordEnd, CRC_SIZE
      <3>3. r.head \in Int /\ r.head >= 1
        BY <2>3 DEF MAX_UVARINT_SIZE
      <3> QED
        BY <3>2, <3>3
    <2>6. RangeInv'
      BY <2>1, <2>4, <2>5, RangeAsked
    <2>7. range'[2] = RecordEnd(r)
      BY <2>1, <2>4 DEF AskFor
    <2> QED
      BY <2>2, <2>6, <2>7
  <1>4. CASE ReadFailed /\ ~\E r \in segment.records : Named(r)
    BY <1>2, <1>4, ReadInvFails
  <1> QED
    BY <1>3, <1>4 DEF ParsePrefix

\* validated_payload: what was read is the record that is wanted.
LEMMA ReadInvCheck ==
    ASSUME ReadInv, CheckRecord
    PROVE  ReadInv'
  <1> DEFINE Checked == \E r \in segment.records : output = Interval(r.at, RecordEnd(r)) /\ r.sound
  <1>1. reading = "record" /\ ~MorePages
    BY DEF CheckRecord
  <1>2. ASSUME IsSegment(segment), want \in Nat, pageSize \in Nat,
               NEW r \in segment.records, r.at = want
        PROVE  output = Interval(want, RecordEnd(r)) /\ (Checked <=> r.sound)
    <2>1. PICK q \in segment.records : q.at = want /\ range[2] = RecordEnd(q)
      BY <1>1, <1>2 DEF ReadInv
    <2>2. q = r
      BY <1>2, <2>1 DEF IsSegment
    <2>3. RangeInv
      BY <1>1, <1>2 DEF ReadInv
    <2>4. output = Interval(want, RecordEnd(r))
      BY <1>1, <1>2, <2>1, <2>2, <2>3, WholeRange
    <2>5. want < RecordEnd(r) /\ RecordEnd(r) \in Int
      BY <2>1, <2>2, <2>3 DEF RangeInv
    <2>6. ASSUME NEW d \in segment.records, output = Interval(d.at, RecordEnd(d))
          PROVE  d = r
      <3>1. d.at \in Int /\ RecordEnd(d) \in Int
        BY <1>2 DEF IsSegment, RecordEnd, CRC_SIZE
      <3>2. Interval(want, RecordEnd(r)) = Interval(d.at, RecordEnd(d))
        BY <2>4, <2>6
      <3>3. d.at = want
        BY <2>5, <3>1, <3>2, IntervalsDiffer, <1>2
      <3> QED
        BY <1>2, <3>3 DEF IsSegment
    <2> QED
      BY <1>2, <2>4, <2>6
  <1>3. CASE Checked
    <2>1. reading' = "read" /\ UNCHANGED <<pageSize, segment, want, range, page, output>>
      BY <1>3 DEF CheckRecord
    <2> HIDE DEF Checked
    <2> SUFFICES ASSUME IsSegment(segment), want \in Nat, pageSize \in Nat
                 PROVE  RecordIsExact'
      BY <1>1, <2>1 DEF ReadInv
    <2>2. ASSUME NEW r \in segment.records, r.at = want
          PROVE  r.sound /\ output = Interval(want, RecordEnd(r))
      BY <1>2, <1>3, <2>2
    <2> QED
      BY <2>1, <2>2 DEF RecordIsExact, Interval, RecordEnd
  <1>4. CASE ~Checked
    <2>1. ReadFailed
      BY <1>4 DEF CheckRecord
    <2> HIDE DEF Checked
    <2> QED
      BY <1>2, <1>4, <2>1, ReadInvFails, <1>1
  <1> QED
    BY <1>3, <1>4

\* The invariant is kept by every step of a read.
LEMMA ReadInvStep ==
    ASSUME ReadInv, ReadStep
    PROVE  ReadInv'
  BY ReadInvPage, ReadInvDirect, ReadInvPrefix, ReadInvCheck DEF ReadStep

\* A reader that is done holds nothing.
LEMMA ReadInvDone ==
    ASSUME ReadDone
    PROVE  ReadInv'
  BY DEF ReadDone, ReadInv

\* What leaves the reader alone keeps its invariant.
LEMMA ReadInvStutter ==
    ASSUME ReadInv, UNCHANGED readVars
    PROVE  ReadInv'
  BY DEF readVars, ReadInv, RangeInv, Reach, PageOf, Interval, RecordEnd, IsSegment, RecordIsExact

\* The property follows, as a place in a segment is a natural number.
LEMMA ReadInvIsExact ==
    ASSUME ReadInv, pageSize \in Nat, reading # "idle" => IsSegment(segment)
    PROVE  RecordIsExact
  <1> SUFFICES ASSUME reading # "idle", NEW r \in segment.records, r.at = want
               PROVE  RecordIsExact
    BY DEF RecordIsExact
  <1>1. want \in Nat
    BY DEF IsSegment
  <1> QED
    BY <1>1 DEF ReadInv

-----------------------------------------------------------------------------
(* Decoding. *)

\* A number that is in a set and below all others is its least.
LEMMA LeastIs ==
    ASSUME NEW S \in SUBSET Int, NEW n \in S, \A m \in S : n <= m
    PROVE  Sets!Min(S) = n
  <1>1. Sets!Min(S) = CHOOSE x \in S : \A m \in S : x <= m
    BY DEF Sets!Min
  <1>2. Sets!Min(S) \in S /\ \A m \in S : Sets!Min(S) <= m
    BY <1>1
  <1>3. Sets!Min(S) \in Int /\ n \in Int /\ Sets!Min(S) <= n /\ n <= Sets!Min(S)
    BY <1>2
  <1> QED
    BY <1>3

\* A sequence in front of another one, and what it leaves.
LEMMA CutJoined ==
    ASSUME NEW S, NEW s \in Seq(S), NEW t \in Seq(S)
    PROVE  /\ s \o t \in Seq(S) /\ Len(s \o t) = Len(s) + Len(t)
           /\ Len(s) \in Nat /\ Len(t) \in Nat
           /\ SubSeq(s \o t, 1, Len(s)) = s
           /\ SubSeq(s \o t, Len(s) + 1, Len(s \o t)) = t
  <1> DEFINE m == Len(s)
             n == Len(t)
             u == s \o t
  <1>1. /\ u \in Seq(S) /\ Len(u) = m + n /\ m \in Nat /\ n \in Nat
        /\ \A i \in 1..(m + n) : u[i] = IF i <= m THEN s[i] ELSE t[i - m]
    BY ConcatProperties, LenProperties
  <1>2. \A i \in 1..(m + n) : u[i] \in S
    BY <1>1, ElementOfSeq
  <1>3. SubSeq(u, 1, m) = s
    <2>1. \A i \in 1..m : u[i] \in S
      BY <1>1, <1>2
    <2>2. /\ SubSeq(u, 1, m) \in Seq(S)
          /\ Len(SubSeq(u, 1, m)) = m
          /\ \A i \in 1..m : SubSeq(u, 1, m)[i] = u[i]
      <3> HIDE DEF u, m
      <3> QED
        BY <1>1, <2>1, SubSeqProperties
    <2> HIDE DEF u
    <2> QED
      BY <1>1, <2>2, SeqEqual
  <1>4. SubSeq(u, m + 1, Len(u)) = t
    <2>1. \A i \in (m + 1)..(m + n) : u[i] \in S
      BY <1>1, <1>2
    <2>2. /\ SubSeq(u, m + 1, m + n) \in Seq(S)
          /\ Len(SubSeq(u, m + 1, m + n)) = n
          /\ \A i \in 1..n : SubSeq(u, m + 1, m + n)[i] = u[m + i]
      <3> HIDE DEF u, m, n
      <3> DEFINE v == SubSeq(u, m + 1, m + n)
                 k == m + 1
                 e == m + n
      <3>1. k \in Int /\ e \in Int /\ m \in Nat /\ n \in Nat
        BY <1>1
      <3>2. \A i \in k..e : u[i] \in S
        BY <2>1
      <3>3. /\ SubSeq(u, k, e) \in Seq(S)
            /\ Len(SubSeq(u, k, e)) = IF k <= e THEN e - k + 1 ELSE 0
            /\ \A i \in 1..(e - k + 1) : SubSeq(u, k, e)[i] = u[k + i - 1]
        <4> HIDE DEF k, e
        <4> QED
          BY <3>1, <3>2, SubSeqProperties
      <3>4. v \in Seq(S)
        BY <3>3
      <3>5. Len(v) = n
        <4>1. (IF k <= e THEN e - k + 1 ELSE 0) = n
          BY <3>1
        <4> QED
          BY <3>3, <4>1
      <3>6. ASSUME NEW i \in 1..n PROVE v[i] = u[m + i]
        <4>1. i \in 1..(e - k + 1) /\ k + i - 1 = m + i
          BY <3>1
        <4>2. v[i] = u[k + i - 1]
          <5> HIDE DEF e, k
          <5> QED
            BY <3>3, <4>1 DEF k, e
        <4> QED
          BY <4>1, <4>2
      <3> QED
        BY <3>4, <3>5, <3>6
    <2>3. \A i \in 1..n : u[m + i] = t[i]
      <3> SUFFICES ASSUME NEW i \in 1..n PROVE u[m + i] = t[i]
        OBVIOUS
      <3>1. m + i \in 1..(m + n) /\ ~(m + i <= m) /\ (m + i) - m = i
        BY <1>1
      <3> QED
        BY <1>1, <3>1
    <2> HIDE DEF u
    <2> QED
      BY <1>1, <2>2, <2>3, SeqEqual
  <1> QED
    BY <1>1, <1>3, <1>4

\* read_uvarint looks no further than the field it reads.
LEMMA FieldIsRead ==
    ASSUME NEW h \in Bytes, NEW t \in Bytes, NEW n,
           read_uvarint(h) = [ok |-> TRUE, value |-> n, size |-> Len(h)]
    PROVE  read_uvarint(h \o t) = [ok |-> TRUE, value |-> n, size |-> Len(h)]
  <1> DEFINE m == Len(h)
             EndsOf(bytes) == {i \in 1..MAX_UVARINT_SIZE : i <= Len(bytes) /\ bytes[i] < 128}
             Value(bytes) == Septets[SubSeq(bytes, 1, Sets!Min(EndsOf(bytes)))]
             Read(bytes) == IF EndsOf(bytes) = {} THEN [ok |-> FALSE, value |-> 0, size |-> 0]
                            ELSE [ok |-> TRUE, value |-> Value(bytes), size |-> Sets!Min(EndsOf(bytes))]
  <1>1. \A bytes : read_uvarint(bytes) = Read(bytes)
    BY DEF read_uvarint, FieldOf
  <1>2. /\ Len(h \o t) = m + Len(t) /\ m \in Nat /\ Len(t) \in Nat
        /\ \A i \in 1..m : (h \o t)[i] = h[i]
    BY ConcatProperties, LenProperties DEF Bytes
  <1>3. EndsOf(h) # {} /\ Sets!Min(EndsOf(h)) = m /\ Value(h) = n
    <2>1. Read(h) = [ok |-> TRUE, value |-> n, size |-> m]
      BY <1>1
    <2>2. EndsOf(h) # {}
      BY <2>1
    <2> HIDE DEF EndsOf, Value
    <2> QED
      BY <2>1, <2>2
  <1>4. \E i \in EndsOf(h) : \A j \in EndsOf(h) : i <= j
    <2>1. EndsOf(h) # {} /\ \A j \in EndsOf(h) : j = 1 \/ j = 2 \/ j = 3 \/ j = 4 \/ j = 5
      BY <1>3 DEF MAX_UVARINT_SIZE
    <2> HIDE DEF EndsOf
    <2>2. CASE 1 \in EndsOf(h)
      <3>1. \A j \in EndsOf(h) : 1 <= j
        BY <2>1
      <3> QED
        BY <2>2, <3>1
    <2>3. CASE 1 \notin EndsOf(h) /\ 2 \in EndsOf(h)
      <3>1. \A j \in EndsOf(h) : 2 <= j
        BY <2>1, <2>3
      <3> QED
        BY <2>3, <3>1
    <2>4. CASE 1 \notin EndsOf(h) /\ 2 \notin EndsOf(h) /\ 3 \in EndsOf(h)
      <3>1. \A j \in EndsOf(h) : 3 <= j
        BY <2>1, <2>4
      <3> QED
        BY <2>4, <3>1
    <2>5. CASE 1 \notin EndsOf(h) /\ 2 \notin EndsOf(h) /\ 3 \notin EndsOf(h) /\ 4 \in EndsOf(h)
      <3>1. \A j \in EndsOf(h) : 4 <= j
        BY <2>1, <2>5
      <3> QED
        BY <2>5, <3>1
    <2>6. CASE 1 \notin EndsOf(h) /\ 2 \notin EndsOf(h) /\ 3 \notin EndsOf(h) /\ 4 \notin EndsOf(h)
      <3>1. 5 \in EndsOf(h) /\ \A j \in EndsOf(h) : 5 <= j
        BY <2>1, <2>6
      <3> QED
        BY <3>1
    <2> QED
      BY <2>2, <2>3, <2>4, <2>5, <2>6
  <1>5. m \in EndsOf(h) /\ \A j \in EndsOf(h) : m <= j
    <2>1. PICK i \in EndsOf(h) : \A j \in EndsOf(h) : i <= j
      BY <1>4
    <2>2. EndsOf(h) \in SUBSET Int
      OBVIOUS
    <2>3. Sets!Min(EndsOf(h)) = i
      <3> HIDE DEF EndsOf
      <3> QED
        BY <2>1, <2>2, LeastIs
    <2> QED
      BY <1>3, <2>1, <2>3
  <1>6. m \in EndsOf(h \o t) /\ \A j \in EndsOf(h \o t) : m <= j
    <2>1. m \in EndsOf(h \o t)
      BY <1>2, <1>5
    <2>2. ASSUME NEW j \in EndsOf(h \o t), j < m
          PROVE  FALSE
      <3>1. j \in 1..m /\ j \in 1..MAX_UVARINT_SIZE /\ (h \o t)[j] < 128
        BY <1>2, <2>2 DEF MAX_UVARINT_SIZE
      <3>2. j \in EndsOf(h)
        BY <1>2, <3>1
      <3> QED
        BY <1>2, <1>5, <2>2, <3>1
    <2>3. \A j \in EndsOf(h \o t) : j \in Int
      BY DEF MAX_UVARINT_SIZE
    <2> HIDE DEF EndsOf
    <2> QED
      BY <1>2, <2>1, <2>2, <2>3
  <1>7. Sets!Min(EndsOf(h \o t)) = m
    <2>1. EndsOf(h \o t) \in SUBSET Int
      BY DEF MAX_UVARINT_SIZE
    <2> HIDE DEF EndsOf
    <2> QED
      BY <1>6, <2>1, LeastIs
  <1>8. SubSeq(h \o t, 1, m) = h /\ SubSeq(h, 1, m) = h
    <2>1. SubSeq(h \o t, 1, m) = h
      BY CutJoined DEF Bytes
    <2>2. <<>> \in Bytes /\ h \o <<>> = h
      BY ConcatEmptySeq DEF Bytes
    <2>3. SubSeq(h \o <<>>, 1, m) = h
      BY <2>2, CutJoined DEF Bytes
    <2> QED
      BY <2>1, <2>2, <2>3
  <1>9. Value(h \o t) = n
    <2>1. Value(h \o t) = Septets[h] /\ Value(h) = Septets[h]
      <3> HIDE DEF EndsOf
      <3> QED
        BY <1>3, <1>7, <1>8
    <2> QED
      BY <1>3, <2>1
  <1>10. EndsOf(h \o t) # {}
    BY <1>6
  <1> HIDE DEF EndsOf, Value
  <1> QED
    BY <1>1, <1>7, <1>9, <1>10

\* The same of what is left alone.
LEMMA CutBehind ==
    ASSUME NEW S, NEW s \in Seq(S), NEW t \in Seq(S)
    PROVE  SubSeq(s \o t, Len(s) + 1, Len(s \o t)) = t
  BY CutJoined

\* Concatenation is associative.
LEMMA JoinedInAnyOrder ==
    ASSUME NEW S, NEW s \in Seq(S), NEW t \in Seq(S), NEW u \in Seq(S)
    PROVE  (s \o t) \o u = s \o (t \o u)
  BY SMT

\* A turn of the loop takes one slot off, and leaves what follows.
LEMMA SlotIsCut ==
    ASSUME NEW s, IsSlot(s), NEW t \in Bytes
    PROVE  /\ Written(s) \o t \in Bytes
           /\ Slot[Written(s) \o t] = [ok |-> TRUE, content |-> s.content, rest |-> t]
  <1> DEFINE Byte == 0..255
             n == IF s.content = <<>> THEN 0 ELSE Len(s.content) - 1
             length(h) == [ok |-> TRUE, value |-> n, size |-> Len(h)]
  <1>1. PICK h \in Seq(Byte), c \in Seq(Byte) : h = s.head /\ c = s.content
    BY DEF IsSlot, Bytes
  <1>2. Len(c) # 1 /\ read_uvarint(h) = length(h) /\ Written(s) = h \o c
    BY <1>1 DEF IsSlot, Written
  <1>3. /\ c \o t \in Seq(Byte) /\ Len(c \o t) = Len(c) + Len(t) /\ Len(c) \in Nat /\ Len(t) \in Nat
        /\ SubSeq(c \o t, 1, Len(c)) = c
        /\ SubSeq(c \o t, Len(c) + 1, Len(c \o t)) = t
        /\ h \o (c \o t) \in Seq(Byte)
        /\ SubSeq(h \o (c \o t), Len(h) + 1, Len(h \o (c \o t))) = c \o t
        /\ (h \o c) \o t = h \o (c \o t)
    <2>1. c \in Seq(Byte) /\ t \in Seq(Byte) /\ h \in Seq(Byte)
      BY <1>1 DEF Bytes
    <2>2. /\ c \o t \in Seq(Byte) /\ Len(c \o t) = Len(c) + Len(t) /\ Len(c) \in Nat /\ Len(t) \in Nat
          /\ SubSeq(c \o t, 1, Len(c)) = c
          /\ SubSeq(c \o t, Len(c) + 1, Len(c \o t)) = t
      BY <2>1, CutJoined
    <2>3. h \o (c \o t) \in Seq(Byte)
      BY <2>1, <2>2, CutJoined
    <2>4. SubSeq(h \o (c \o t), Len(h) + 1, Len(h \o (c \o t))) = c \o t
      <3>1. PICK u \in Seq(Byte) : u = c \o t
        BY <2>2
      <3>2. SubSeq(h \o u, Len(h) + 1, Len(h \o u)) = u
        BY <2>1, <3>1, CutBehind
      <3> QED
        BY <3>1, <3>2
    <2>5. (h \o c) \o t = h \o (c \o t)
      BY <2>1, JoinedInAnyOrder
    <2> QED
      BY <2>2, <2>3, <2>4, <2>5
  <1>4. read_uvarint(h \o (c \o t)) = length(h)
    <2>2. h \in Bytes /\ c \o t \in Bytes
      BY <1>1, <1>3 DEF Bytes
    <2>1. ASSUME NEW k, read_uvarint(h) = [ok |-> TRUE, value |-> k, size |-> Len(h)]
          PROVE  read_uvarint(h \o (c \o t)) = [ok |-> TRUE, value |-> k, size |-> Len(h)]
      BY <1>3, <2>2, <2>1, FieldIsRead
    <2> HIDE DEF n
    <2> QED
      BY <1>2, <2>1
  <1>5. (IF n = 0 THEN 0 ELSE n + 1) = Len(c)
    <2>1. CASE c = <<>>
      BY <1>1, <2>1
    <2>2. CASE c # <<>>
      <3>1. Len(c) # 0
        BY <2>2, EmptySeq
      <3> QED
        BY <1>1, <1>2, <1>3, <2>2, <3>1
    <2> QED
      BY <2>1, <2>2
  <1> DEFINE bytes == h \o (c \o t)
             remaining == SubSeq(bytes, Len(h) + 1, Len(bytes))
  <1>6. Slot[bytes] = Cut[remaining][Len(c)]
    <2>2. bytes \in Bytes
      BY <1>3 DEF Bytes
    <2>1. /\ read_uvarint(bytes).ok /\ read_uvarint(bytes).size = Len(h)
          /\ read_uvarint(bytes).value = n
      BY <1>4
    <2> HIDE DEF n, bytes
    <2>3. SlotSize(read_uvarint(bytes)) = Len(c)
      BY <1>5, <2>1 DEF SlotSize
    <2> QED
      BY <2>1, <2>2, <2>3 DEF Slot, CutBy
  <1>7. ~(Len(c) > Len(c \o t))
    <2>1. \A a, b \in Nat : ~(a > a + b)
      OBVIOUS
    <2> QED
      BY <1>3, <2>1
  <1>8. Cut[c \o t][Len(c)] = [ok |-> TRUE, content |-> c, rest |-> t]
    <2>1. c \o t \in Bytes /\ Len(c) \in Nat
      BY <1>3 DEF Bytes
    <2>2. Cut[c \o t][Len(c)]
            = IF Len(c) > Len(c \o t) THEN Truncated
              ELSE [ok |-> TRUE, content |-> SubSeq(c \o t, 1, Len(c)),
                    rest |-> SubSeq(c \o t, Len(c) + 1, Len(c \o t))]
      BY <2>1 DEF Cut
    <2> QED
      BY <1>3, <1>7, <2>2
  <1> QED
    BY <1>1, <1>2, <1>3, <1>6, <1>8 DEF Bytes

\* Appending to a tuple.
LEMMA AppendToOne ==
    ASSUME NEW a, NEW b
    PROVE  Append(<<a>>, b) = <<a, b>>
  <1> DEFINE S == {a, b}
  <1>1. /\ <<a>> \in Seq(S) /\ Len(<<a>>) = 1
        /\ <<a, b>> \in Seq(S) /\ Len(<<a, b>>) = 2
    OBVIOUS
  <1>2. Append(<<a>>, b) \in Seq(S) /\ Len(Append(<<a>>, b)) = 2
    BY <1>1, AppendProperties
  <1>3. \A i \in 1..2 : Append(<<a>>, b)[i] = <<a, b>>[i]
    BY <1>1, AppendProperties
  <1> QED
    BY <1>1, <1>2, <1>3, SeqEqual

LEMMA AppendToTwo ==
    ASSUME NEW a, NEW b, NEW c
    PROVE  Append(<<a, b>>, c) = <<a, b, c>>
  <1> DEFINE S == {a, b, c}
  <1>1. /\ <<a, b>> \in Seq(S) /\ Len(<<a, b>>) = 2
        /\ <<a, b, c>> \in Seq(S) /\ Len(<<a, b, c>>) = 3
    OBVIOUS
  <1>2. Append(<<a, b>>, c) \in Seq(S) /\ Len(Append(<<a, b>>, c)) = 3
    BY <1>1, AppendProperties
  <1>3. \A i \in 1..3 : Append(<<a, b>>, c)[i] = <<a, b, c>>[i]
    BY <1>1, AppendProperties
  <1> QED
    BY <1>1, <1>2, <1>3, SeqEqual

LEMMA AppendToThree ==
    ASSUME NEW a, NEW b, NEW c, NEW d
    PROVE  Append(<<a, b, c>>, d) = <<a, b, c, d>>
  <1> DEFINE S == {a, b, c, d}
  <1>1. /\ <<a, b, c>> \in Seq(S) /\ Len(<<a, b, c>>) = 3
        /\ <<a, b, c, d>> \in Seq(S) /\ Len(<<a, b, c, d>>) = 4
    OBVIOUS
  <1>2. Append(<<a, b, c>>, d) \in Seq(S) /\ Len(Append(<<a, b, c>>, d)) = 4
    BY <1>1, AppendProperties
  <1>3. \A i \in 1..4 : Append(<<a, b, c>>, d)[i] = <<a, b, c, d>>[i]
    BY <1>1, AppendProperties
  <1> QED
    BY <1>1, <1>2, <1>3, SeqEqual

LEMMA AppendToFour ==
    ASSUME NEW a, NEW b, NEW c, NEW d, NEW e
    PROVE  Append(<<a, b, c, d>>, e) = <<a, b, c, d, e>>
  <1> DEFINE S == {a, b, c, d, e}
  <1>1. /\ <<a, b, c, d>> \in Seq(S) /\ Len(<<a, b, c, d>>) = 4
        /\ <<a, b, c, d, e>> \in Seq(S) /\ Len(<<a, b, c, d, e>>) = 5
    OBVIOUS
  <1>2. Append(<<a, b, c, d>>, e) \in Seq(S) /\ Len(Append(<<a, b, c, d>>, e)) = 5
    BY <1>1, AppendProperties
  <1>3. \A i \in 1..5 : Append(<<a, b, c, d>>, e)[i] = <<a, b, c, d, e>>[i]
    BY <1>1, AppendProperties
  <1> QED
    BY <1>1, <1>2, <1>3, SeqEqual

\* The slots of a payload, each cut from what the one before it left.
LEMMA SlotsAreTurns ==
    ASSUME NEW payload
    PROVE  \E a, b, c, d, e :
              /\ SlotsOf(payload) = <<a, b, c, d, e>> /\ a = Slot[payload]
              /\ b = Slot[a.rest] /\ c = Slot[b.rest] /\ d = Slot[c.rest] /\ e = Slot[d.rest]
  <1> DEFINE a == Slot[payload]
             b == Slot[a.rest]
             c == Slot[b.rest]
             d == Slot[c.rest]
             e == Slot[d.rest]
  <1>1. Turn(<<a>>) = <<a, b>>
    <2> HIDE DEF a
    <2>1. Len(<<a>>) = 1
      OBVIOUS
    <2>2. Turn(<<a>>) = Append(<<a>>, b)
      BY <2>1 DEF Turn
    <2> QED
      BY <2>2, AppendToOne
  <1>2. Turn(<<a, b>>) = <<a, b, c>>
    <2> HIDE DEF a, b
    <2>1. Len(<<a, b>>) = 2
      OBVIOUS
    <2>2. Turn(<<a, b>>) = Append(<<a, b>>, c)
      BY <2>1 DEF Turn
    <2> QED
      BY <2>2, AppendToTwo
  <1>3. Turn(<<a, b, c>>) = <<a, b, c, d>>
    <2> HIDE DEF a, b, c
    <2>1. Len(<<a, b, c>>) = 3
      OBVIOUS
    <2>2. Turn(<<a, b, c>>) = Append(<<a, b, c>>, d)
      BY <2>1 DEF Turn
    <2> QED
      BY <2>2, AppendToThree
  <1>4. Turn(<<a, b, c, d>>) = <<a, b, c, d, e>>
    <2> HIDE DEF a, b, c, d
    <2>1. Len(<<a, b, c, d>>) = 4
      OBVIOUS
    <2>2. Turn(<<a, b, c, d>>) = Append(<<a, b, c, d>>, e)
      BY <2>1 DEF Turn
    <2> QED
      BY <2>2, AppendToFour
  <1>5. SlotsOf(payload) = Turn(Turn(Turn(Turn(<<a>>))))
    BY DEF SlotsOf
  <1> HIDE DEF a, b, c, d, e
  <1>6. SlotsOf(payload) = <<a, b, c, d, e>>
    BY <1>1, <1>2, <1>3, <1>4, <1>5
  <1>7. a = Slot[payload] /\ b = Slot[a.rest] /\ c = Slot[b.rest] /\ d = Slot[c.rest] /\ e = Slot[d.rest]
    BY DEF a, b, c, d, e
  <1> QED
    BY <1>6, <1>7

\* The five turns take an aggregate apart into what it was made of.
LEMMA AggregateIsCut ==
    ASSUME NEW slots, NEW payload, IsAggregate(slots, payload)
    PROVE  SlotsOf(payload)
             = <<[ok |-> TRUE, content |-> slots[1].content, rest |-> SlotsOf(payload)[1].rest],
                 [ok |-> TRUE, content |-> slots[2].content, rest |-> SlotsOf(payload)[2].rest],
                 [ok |-> TRUE, content |-> slots[3].content, rest |-> SlotsOf(payload)[3].rest],
                 [ok |-> TRUE, content |-> slots[4].content, rest |-> SlotsOf(payload)[4].rest],
                 [ok |-> TRUE, content |-> slots[5].content, rest |-> <<>>]>>
  <1> DEFINE w(i) == Written(slots[i])
             t4 == w(5)
             t3 == w(4) \o t4
             t2 == w(3) \o t3
             t1 == w(2) \o t2
  <1>1. IsSlot(slots[1]) /\ IsSlot(slots[2]) /\ IsSlot(slots[3]) /\ IsSlot(slots[4]) /\ IsSlot(slots[5])
    BY DEF IsAggregate
  <1>2. payload = w(1) \o t1
    BY DEF IsAggregate
  <1>3. w(5) \in Bytes /\ w(5) \o <<>> = w(5) /\ <<>> \in Bytes
    <2>1. slots[5].head \in Bytes /\ slots[5].content \in Bytes
      BY <1>1 DEF IsSlot
    <2>2. w(5) \in Bytes
      BY <2>1, ConcatProperties DEF Written, Bytes
    <2> QED
      BY <2>2, ConcatEmptySeq DEF Bytes
  <1> HIDE DEF w
  <1>4. Slot[t4] = [ok |-> TRUE, content |-> slots[5].content, rest |-> <<>>]
    <2>1. Slot[Written(slots[5]) \o <<>>] = [ok |-> TRUE, content |-> slots[5].content, rest |-> <<>>]
      BY <1>1, <1>3, SlotIsCut
    <2>2. Written(slots[5]) \o <<>> = t4
      BY <1>3 DEF w
    <2> QED
      BY <2>1, <2>2
  <1>5. t3 \in Bytes /\ Slot[t3] = [ok |-> TRUE, content |-> slots[4].content, rest |-> t4]
    BY <1>1, <1>3, SlotIsCut DEF w
  <1>6. t2 \in Bytes /\ Slot[t2] = [ok |-> TRUE, content |-> slots[3].content, rest |-> t3]
    <2> HIDE DEF t3
    <2> QED
      BY <1>1, <1>5, SlotIsCut DEF w
  <1>7. t1 \in Bytes /\ Slot[t1] = [ok |-> TRUE, content |-> slots[2].content, rest |-> t2]
    <2> HIDE DEF t2
    <2> QED
      BY <1>1, <1>6, SlotIsCut DEF w
  <1> HIDE DEF t1, t2, t3, t4
  <1>8. Slot[payload] = [ok |-> TRUE, content |-> slots[1].content, rest |-> t1]
    BY <1>1, <1>2, <1>7, SlotIsCut, Zenon DEF w
  <1>9. SlotsOf(payload) = <<Slot[payload], Slot[t1], Slot[t2], Slot[t3], Slot[t4]>>
    <2>1. Slot[payload].rest = t1 /\ Slot[t1].rest = t2 /\ Slot[t2].rest = t3 /\ Slot[t3].rest = t4
      BY <1>5, <1>6, <1>7, <1>8
    <2>2. PICK a, b, c, d, e :
              /\ SlotsOf(payload) = <<a, b, c, d, e>> /\ a = Slot[payload]
              /\ b = Slot[a.rest] /\ c = Slot[b.rest] /\ d = Slot[c.rest] /\ e = Slot[d.rest]
      BY SlotsAreTurns
    <2>3. a = Slot[payload] /\ b = Slot[t1] /\ c = Slot[t2] /\ d = Slot[t3] /\ e = Slot[t4]
      BY <2>1, <2>2
    <2> QED
      BY <2>2, <2>3
  <1> DEFINE cut == SlotsOf(payload)
  <1>10. cut[1] = Slot[payload] /\ cut[2] = Slot[t1] /\ cut[3] = Slot[t2] /\ cut[4] = Slot[t3]
    BY <1>9
  <1>11. cut[1].rest = t1 /\ cut[2].rest = t2 /\ cut[3].rest = t3 /\ cut[4].rest = t4
    BY <1>5, <1>6, <1>7, <1>8, <1>10
  <1> QED
    BY <1>4, <1>5, <1>6, <1>7, <1>8, <1>9, <1>11

\* What an aggregate was made of is what the StoreAPI sends and a table shows.
LEMMA WrittenIsRead ==
    ASSUME IsSegment(segment)
    PROVE  SlotsAreRead
  <1> SUFFICES ASSUME NEW r \in segment.records, r.sound, r.encoding = ENCODING_AGGR, r.slots # <<>>
               PROVE  /\ decode_encoded_record(r)
                            = IF \A i \in 1..5 : IsXor(r.slots[i].content)
                              THEN Encoded([i \in 1..5 |-> Data(r.slots[i].content)]) ELSE Refused
                      /\ decode_record(r, TRUE)
                            = IF r.slots[5].content = <<>> THEN Decoded({})
                              ELSE IF IsXor(r.slots[5].content) THEN decode_xor(Tail(r.slots[5].content)) ELSE Failed
    BY DEF SlotsAreRead, AGGR_COUNTER_SLOT
  <1> DEFINE slots == SlotsOf(r.payload)
  <1>1. IsAggregate(r.slots, r.payload)
    BY DEF IsSegment
  <1>2. /\ DOMAIN slots = 1..5 /\ \A i \in 1..5 : slots[i].ok /\ slots[i].content = r.slots[i].content
        /\ slots[5].rest = <<>>
    <2> HIDE DEF slots
    <2>1. slots = <<[ok |-> TRUE, content |-> r.slots[1].content, rest |-> slots[1].rest],
                    [ok |-> TRUE, content |-> r.slots[2].content, rest |-> slots[2].rest],
                    [ok |-> TRUE, content |-> r.slots[3].content, rest |-> slots[3].rest],
                    [ok |-> TRUE, content |-> r.slots[4].content, rest |-> slots[4].rest],
                    [ok |-> TRUE, content |-> r.slots[5].content, rest |-> <<>>]>>
      BY <1>1, AggregateIsCut DEF slots
    <2>2. DOMAIN slots = 1..5
      BY <2>1
    <2>3. /\ slots[1].ok /\ slots[1].content = r.slots[1].content
          /\ slots[2].ok /\ slots[2].content = r.slots[2].content
          /\ slots[3].ok /\ slots[3].content = r.slots[3].content
          /\ slots[4].ok /\ slots[4].content = r.slots[4].content
          /\ slots[5].ok /\ slots[5].content = r.slots[5].content
          /\ slots[5].rest = <<>>
      BY <2>1
    <2> QED
      BY <2>2, <2>3
  <1>3. decode_encoded_record(r) = decode_aggregate(r.payload)
    BY DEF decode_encoded_record, ENCODING_XOR, ENCODING_HISTOGRAM, ENCODING_FLOAT_HISTOGRAM, ENCODING_AGGR
  <1>4. decode_record(r, TRUE) = decode_aggregate_counter(r.payload)
    BY DEF decode_record, ENCODING_XOR, ENCODING_AGGR
  <1> HIDE DEF slots
  <1>5. decode_aggregate(r.payload)
          = IF (\A i \in DOMAIN slots : slots[i].ok /\ IsXor(slots[i].content)) /\ slots[5].rest = <<>>
            THEN Encoded([i \in DOMAIN slots |-> Data(slots[i].content)]) ELSE Refused
    BY DEF decode_aggregate, slots, AGGR_COUNTER_SLOT
  <1>6. (\A i \in DOMAIN slots : slots[i].ok /\ IsXor(slots[i].content)) <=> \A i \in 1..5 : IsXor(r.slots[i].content)
    BY <1>2
  <1>7. [i \in DOMAIN slots |-> Data(slots[i].content)] = [i \in 1..5 |-> Data(r.slots[i].content)]
    BY <1>2
  <1>8. decode_aggregate_counter(r.payload)
          = IF slots[5].content = <<>> THEN Decoded({})
            ELSE IF slots[5].content[1] = ENCODING_XOR THEN decode_xor(Tail(slots[5].content)) ELSE Failed
    BY <1>2 DEF decode_aggregate_counter, slots, AGGR_COUNTER_SLOT
  <1>9. slots[5].content = r.slots[5].content
    BY <1>2
  <1> QED
    BY <1>2, <1>3, <1>4, <1>5, <1>6, <1>7, <1>8, <1>9 DEF IsXor

\* decode_record against decode_encoded_record, for any bytes.
LEMMA SentIsShown == DecodersAgree
  <1> SUFFICES ASSUME NEW r \in segment.records, decode_encoded_record(r).ok
               PROVE  /\ r.encoding = ENCODING_AGGR =>
                            decode_record(r, TRUE)
                              = IF decode_encoded_record(r).data[5] = <<>> THEN Decoded({})
                                ELSE decode_xor(decode_encoded_record(r).data[5][1])
                      /\ r.encoding = ENCODING_XOR =>
                            \A c \in BOOLEAN : decode_record(r, c) = decode_xor(decode_encoded_record(r).data)
    BY DEF DecodersAgree, AGGR_COUNTER_SLOT
  <1> DEFINE sent == decode_encoded_record(r)
             slots == SlotsOf(r.payload)
             counter == slots[5].content
  <1>1. r.sound
    BY DEF decode_encoded_record, Refused
  <1>0. ENCODING_AGGR # ENCODING_XOR
    BY DEF ENCODING_XOR, ENCODING_AGGR
  <1>2. CASE r.encoding = ENCODING_AGGR
    <2>1. sent = decode_aggregate(r.payload) /\ decode_record(r, TRUE) = decode_aggregate_counter(r.payload)
      BY <1>1, <1>2 DEF decode_encoded_record, decode_record,
                        ENCODING_XOR, ENCODING_HISTOGRAM, ENCODING_FLOAT_HISTOGRAM, ENCODING_AGGR
    <2>2. /\ \A i \in DOMAIN slots : slots[i].ok /\ IsXor(slots[i].content)
          /\ sent.data = [i \in DOMAIN slots |-> Data(slots[i].content)]
      BY <2>1 DEF decode_aggregate, Refused, Encoded
    <2>3. 5 \in DOMAIN slots
      <3>1. \E a, b, c, d, e : slots = <<a, b, c, d, e>>
        BY SlotsAreTurns
      <3> HIDE DEF slots
      <3> QED
        BY <3>1
    <2>4. sent.data[5] = Data(counter) /\ IsXor(counter)
      BY <2>2, <2>3
    <2>5. decode_aggregate_counter(r.payload)
            = IF counter = <<>> THEN Decoded({})
              ELSE IF counter[1] = ENCODING_XOR THEN decode_xor(Tail(counter)) ELSE Failed
      BY <2>2 DEF decode_aggregate_counter, AGGR_COUNTER_SLOT
    <2> HIDE DEF sent, slots, counter
    <2>6. CASE counter = <<>>
      <3>1. sent.data[5] = <<>>
        BY <2>4, <2>6 DEF Data
      <3> QED
        BY <1>0, <1>2, <2>1, <2>5, <2>6, <3>1 DEF sent
    <2>7. CASE counter # <<>>
      <3>1. sent.data[5] = <<Tail(counter)>> /\ counter[1] = ENCODING_XOR
        BY <2>4, <2>7 DEF Data, IsXor
      <3>2. sent.data[5] # <<>> /\ sent.data[5][1] = Tail(counter)
        BY <3>1
      <3>3. decode_record(r, TRUE) = decode_xor(Tail(counter))
        BY <2>1, <2>5, <2>7, <3>1
      <3> QED
        BY <1>0, <1>2, <3>2, <3>3 DEF sent
    <2> QED
      BY <2>6, <2>7
  <1>3. CASE r.encoding = ENCODING_XOR
    <2>1. sent.data = r.payload
      BY <1>0, <1>1, <1>3 DEF decode_encoded_record, Encoded
    <2>2. \A c \in BOOLEAN : decode_record(r, c) = decode_xor(r.payload)
      BY <1>0, <1>1, <1>3 DEF decode_record
    <2> QED
      BY <1>0, <1>3, <2>1, <2>2
  <1> QED
    BY <1>2, <1>3
=============================================================================
