-------------------------- MODULE StoreSeriesProofs --------------------------
(***************************************************************************)
(* Proofs about the StoreAPI, for every catalogue, request, batch size and *)
(* limit, and whatever chunks cannot be read: the service is well typed; a *)
(* reply holds the chunks its client is owed, whole series of them, but    *)
(* for those it warns about and those the limit leaves out; every loss is  *)
(* warned about once; a reply without chunks hides no series; what is sent *)
(* lies within what Info advertises; and label names and values are listed *)
(* in order.  Where a property is about what matchers find, the theorem    *)
(* assumes Findable, that no exact matcher has a value that JSON escapes:  *)
(* exact_label_filters does not find those.                                *)
(*                                                                         *)
(* Sequences are reasoned about by their indices.  Where a definition is   *)
(* recursive (FlattenSeq) or a fact spreads along a sequence, UpTo of      *)
(* SequenceLemmas gives the induction.                                     *)
(***************************************************************************)
EXTENDS StoreSeries, SequenceLemmas

-----------------------------------------------------------------------------
(* The inductive invariant. *)

\* What the code computes from its request, as a function of it.
Matched(bs, r) ==
    {x \in RowsOf(bs) : /\ Overlaps(RowMin(x), RowMax(x), r.min, r.max)
                        /\ \A m \in r.matchers : ~NeverFound(m)
                        /\ MatchesAll(LabelsOf(x), r.matchers)}
\* The row of a chunk name.
RowOf(c) == <<c[1], c[2]>>
\* The chunk names of a set of blocks.
NamesOf(bs) == UNION {{<<x[1], x[2], j>> : j \in DOMAIN ChunksOf(x)} : x \in RowsOf(bs)}
\* What HasRequestedSlot and InWindow say, of a given request.
Carries(c, r) == "raw" \in ChunkAt(c).slots \/ ChunkAt(c).slots \cap Aggregates(r) # {}
Due(x, r) ==
    {c \in ToSet(Listed(x)) :
        Overlaps(ChunkAt(c).min, ChunkAt(c).max, r.min, r.max) /\ Carries(c, r)}
\* Chunk names in the order of their places.
InOrder(cs) == \A i, j \in 1..Len(cs) : i < j => cs[i][3] < cs[j][3]

\* What a series of a reply is.
Sent(bs) == [row : RowsOf(bs), chunks : Seq(NamesOf(bs))]
\* The type invariant, in the form the provers can use.
TypesInv ==
    /\ blocks \subseteq DOMAIN Catalogue
    /\ request \in Requests \cup {None}
    /\ step \in {"idle", "received", "rows", "chunks", "answered"}
    /\ step = "idle" <=> request = None
    /\ rows \in Seq(RowsOf(blocks))
    /\ step = "chunks" =>
          /\ row \in RowsOf(blocks)
          /\ todo \in Seq(ToSet(Listed(row))) /\ chunks \in Seq(ToSet(Listed(row)))
    /\ series \in Seq(Sent(blocks))
    /\ warnings \in Seq(NamesOf(blocks)) /\ unread \subseteq NamesOf(blocks)
    /\ answer.status \in {"none", "ok", "unimplemented", "invalid argument", "internal"}
    /\ answer.status # "none" <=> step = "answered"
    /\ step \in {"idle", "received"} => series = <<>> /\ warnings = <<>> /\ unread = {}

\* A Series request is being served, or was.
Serving ==
    \/ step \in {"rows", "chunks"}
    \/ step = "answered" /\ answer.status = "ok" /\ request.api = "Series"

\* A row that matched and is done with.
Finished(x) == x \in Matched(blocks, request) \ ToSet(rows) /\ (step = "chunks" => x # row)

\* The rows that are left matched, and come once.
RowsInv ==
    /\ request.api = "Series" /\ Accepted(request)
    /\ rows \in Seq(Matched(blocks, request)) /\ Once(rows)

\* Of the row being read, the chunks up to a place are in hand or in unread, and
\* those after it are still to do.
CurrentInv ==
    step = "chunks" =>
        /\ row \in Matched(blocks, request) \ ToSet(rows) /\ Selected(request, row)
        /\ ~LimitReached(request, Len(series))
        /\ chunks \in Seq(Due(row, request)) /\ InOrder(chunks)
        /\ request.skipChunks => todo = <<>> /\ chunks = <<>>
        /\ ~request.skipChunks =>
              \E at \in 0..Len(ChunksOf(row)) :
                 /\ todo = SubSeq(Listed(row), at + 1, Len(ChunksOf(row)))
                 /\ \A i \in 1..Len(chunks) : chunks[i][3] <= at
                 /\ \A c \in Due(row, request) : c[3] <= at => c \in ToSet(chunks) \cup unread
                 /\ \A c \in unread : RowOf(c) = row => c[3] <= at

\* Every series of the reply is one that matched, whole, in order, and within the
\* limit, and no row has two.
SentInv ==
    /\ \A i \in 1..Len(series) :
          /\ Finished(series[i].row) /\ Selected(request, series[i].row)
          /\ series[i].chunks \in Seq(Due(series[i].row, request)) /\ InOrder(series[i].chunks)
          /\ request.skipChunks => series[i].chunks = <<>>
          /\ ~request.skipChunks => Due(series[i].row, request) \subseteq ToSet(series[i].chunks) \cup unread
    /\ \A i, j \in 1..Len(series) : series[i].row = series[j].row => i = j
    /\ request.limit > 0 => Len(series) <= request.limit

\* A row that is done with and was selected is in the reply, unless none of its
\* chunks could be read.
LeftInv ==
    \A x \in Matched(blocks, request) :
        Finished(x) /\ Selected(request, x) =>
            \/ \E i \in 1..Len(series) : series[i].row = x
            \/ ~request.skipChunks /\ Due(x, request) \subseteq unread

\* The warnings name what could not be read, once; where that is not allowed
\* nothing was.
LossInv ==
    /\ \A c \in unread : RowOf(c) \notin ToSet(rows)
    /\ ToSet(warnings) = unread /\ Once(warnings)
    /\ request.skipChunks \/ AbortsOnError(request) => unread = {}

\* The reply is sent when the rows are exhausted, and is what was put together.
SentOff ==
    step = "answered" =>
        /\ answer = Answered("ok", Batches(series, BatchSize), warnings, <<>>)
        /\ Exhausted

\* The invariant of a Series request.
ServingInv == Serving => RowsInv /\ CurrentInv /\ SentInv /\ LeftInv /\ LossInv /\ SentOff

\* What a request for labels finds.
Found(bs, r) ==
    (IF r.api = "LabelNames"
     THEN {n \in LabelName : \E x \in Matched(bs, r) : LabelsOf(x)[n] # Missing}
     ELSE {LabelsOf(x)[r.label] : x \in Matched(bs, r)}) \ {Missing}

\* The answer to a request for labels is what was found, cut at the limit.
ListedInv ==
    step = "answered" /\ answer.status = "ok" /\ request.api # "Series" =>
        /\ Accepted(request) /\ request.limit >= 0
        /\ answer.list = TakeLimit(Found(blocks, request), request)

-----------------------------------------------------------------------------
(* Rows, chunks and sequences of them. *)

\* What the catalogue assumption says of a row.
LEMMA RowFacts ==
    ASSUME NEW bs \in SUBSET DOMAIN Catalogue, NEW x \in RowsOf(bs)
    PROVE  /\ x = <<x[1], x[2]>> /\ x[1] \in bs
           /\ Catalogue[x[1]] \in Block /\ x[2] \in DOMAIN Catalogue[x[1]].series
           /\ Catalogue[x[1]].series[x[2]] \in SeriesEntry
           /\ ChunksOf(x) \in Seq(Chunk) /\ ChunksOf(x) # <<>>
<1>1. PICK b \in bs : x \in {<<b, i>> : i \in DOMAIN Catalogue[b].series}
    BY DEF RowsOf
<1>2. PICK i \in DOMAIN Catalogue[b].series : x = <<b, i>>
    BY <1>1
<1>3. Catalogue \in Seq(Block) /\ b \in DOMAIN Catalogue
    BY CatalogueAssumption
<1>4. Catalogue[b] \in Block
    BY <1>3, LenProperties, ElementOfSeq
<1>5. Catalogue[b].series \in Seq(SeriesEntry)
    BY <1>4 DEF Block
<1>6. Catalogue[b].series[i] \in SeriesEntry
    BY <1>2, <1>5, LenProperties, ElementOfSeq
<1>7. Catalogue[b].series[i].chunks \in Seq(Chunk) /\ Catalogue[b].series[i].chunks # <<>>
    BY <1>2, <1>3, <1>6, CatalogueAssumption DEF SeriesEntry
<1> QED
    BY <1>2, <1>4, <1>6, <1>7 DEF ChunksOf

\* The chunks of a row are named in their order.
LEMMA ListedFacts ==
    ASSUME NEW bs \in SUBSET DOMAIN Catalogue, NEW x \in RowsOf(bs)
    PROVE  /\ Len(ChunksOf(x)) \in Nat \ {0} /\ DOMAIN ChunksOf(x) = 1..Len(ChunksOf(x))
           /\ Listed(x) \in Seq(ToSet(Listed(x))) /\ Len(Listed(x)) = Len(ChunksOf(x))
           /\ \A j \in 1..Len(ChunksOf(x)) : Listed(x)[j] = <<x[1], x[2], j>>
           /\ ToSet(Listed(x)) = {<<x[1], x[2], j>> : j \in 1..Len(ChunksOf(x))}
           /\ ToSet(Listed(x)) \subseteq NamesOf(bs)
<1> DEFINE n == Len(ChunksOf(x))
<1>1. n \in Nat \ {0} /\ DOMAIN ChunksOf(x) = 1..n
    BY RowFacts, LenProperties, EmptySeq
<1>2. Listed(x) = [j \in 1..n |-> <<x[1], x[2], j>>]
    BY <1>1 DEF Listed
<1>3. ToSet(Listed(x)) = {<<x[1], x[2], j>> : j \in 1..n}
    BY <1>2 DEF ToSet
<1> HIDE DEF n
<1>4. Listed(x) \in [1..n -> ToSet(Listed(x))]
    BY <1>2, <1>3
<1>5. Listed(x) \in Seq(ToSet(Listed(x))) /\ Len(Listed(x)) = n
    BY <1>1, <1>2, <1>4, SeqDef
<1>6. ToSet(Listed(x)) \subseteq NamesOf(bs)
    BY <1>1, <1>3 DEF NamesOf, n
<1> QED
    BY <1>1, <1>2, <1>3, <1>5, <1>6 DEF n

\* A chunk name tells its row.
LEMMA NameFacts ==
    ASSUME NEW bs \in SUBSET DOMAIN Catalogue, NEW c \in NamesOf(bs)
    PROVE  RowOf(c) \in RowsOf(bs) /\ c \in ToSet(Listed(RowOf(c)))
<1>1. PICK x \in RowsOf(bs) : c \in {<<x[1], x[2], j>> : j \in DOMAIN ChunksOf(x)}
    BY DEF NamesOf
<1>2. PICK j \in DOMAIN ChunksOf(x) : c = <<x[1], x[2], j>>
    BY <1>1
<1>3. RowOf(c) = x
    BY <1>2, RowFacts DEF RowOf
<1> QED
    BY <1>2, <1>3, ListedFacts

\* The blocks of a catalogue are finitely many, and so are their rows.
LEMMA RowsFinite ==
    ASSUME NEW bs \in SUBSET DOMAIN Catalogue
    PROVE  IsFiniteSet(bs) /\ IsFiniteSet(RowsOf(bs))
<1>1. Catalogue \in Seq(Block) /\ DOMAIN Catalogue = 1..Len(Catalogue) /\ Len(Catalogue) \in Nat
    BY CatalogueAssumption, LenProperties
<1>2. IsFiniteSet(bs)
    <2>1. IsFiniteSet(1..Len(Catalogue)) /\ bs \subseteq 1..Len(Catalogue)
        BY <1>1, FS_Interval
    <2> QED
        BY <2>1, FS_Subset
<1> DEFINE rowsOf(b) == {<<b, i>> : i \in DOMAIN Catalogue[b].series}
           all == {rowsOf(b) : b \in bs}
           f == [b \in bs |-> rowsOf(b)]
<1>3. ASSUME NEW b \in bs PROVE IsFiniteSet(rowsOf(b))
    <2>1. Catalogue[b] \in Block
        BY <1>1, LenProperties, ElementOfSeq
    <2>2. Catalogue[b].series \in Seq(SeriesEntry)
        BY <2>1 DEF Block
    <2> DEFINE n == Len(Catalogue[b].series)
    <2>3. n \in Nat /\ DOMAIN Catalogue[b].series = 1..n
        BY <2>2, LenProperties
    <2>4. [i \in 1..n |-> <<b, i>>] \in Surjection(1..n, rowsOf(b))
        BY <2>3 DEF Surjection
    <2> QED
        BY <2>3, <2>4, FS_Interval, FS_Surjection
<1>4. f \in Surjection(bs, all)
    BY DEF Surjection
<1> HIDE DEF f
<1>5. IsFiniteSet(all)
    BY <1>2, <1>4, FS_Surjection
<1>6. \A T \in all : IsFiniteSet(T)
    BY <1>3
<1>7. RowsOf(bs) = UNION all
    BY DEF RowsOf
<1> QED
    BY <1>2, <1>5, <1>6, <1>7, FS_UNION

\* The operators of the proofs are those of the code.
LEMMA SameOperators ==
    /\ MatchingRows(request) = Matched(blocks, request)
    /\ AllChunks = NamesOf(blocks)
    /\ \A c : HasRequestedSlot(c) <=> Carries(c, request)
    /\ \A c : InWindow(c) <=> Overlaps(ChunkAt(c).min, ChunkAt(c).max, request.min, request.max)
BY DEF MatchingRows, Matched, AllChunks, NamesOf, HasRequestedSlot, Carries, InWindow

\* A set as a sequence: every element, once.
LEMMA InSequence ==
    ASSUME NEW S, IsFiniteSet(S), NEW order \in SetToSeqs(S)
    PROVE  /\ order \in Seq(S) /\ Once(order) /\ ToSet(order) = S
           /\ Len(order) = Cardinality(S) /\ DOMAIN order = 1..Cardinality(S)
<1> DEFINE n == Cardinality(S)
<1>1. n \in Nat
    BY FS_CardinalityType
<1>2. order \in [1..n -> S] /\ \A i, j \in 1..n : i # j => order[i] # order[j]
    BY DEF SetToSeqs
<1> HIDE DEF n
<1>3. order \in Seq(S) /\ Len(order) = n /\ DOMAIN order = 1..n
    BY <1>1, <1>2, SeqDef
<1>4. Once(order)
    BY <1>2, <1>3 DEF Once
<1>5. order \in Injection(1..n, S)
    BY <1>2 DEF Injection, IsInjective
<1>6. Cardinality(1..n) = Cardinality(S)
    BY <1>1, FS_Interval DEF n
<1>7. order \in Surjection(1..n, S)
    BY <1>1, <1>5, <1>6, FS_Injection
<1>8. ToSet(order) = S
    BY <1>2, <1>3, <1>7 DEF Surjection, ToSet
<1> QED
    BY <1>3, <1>4, <1>8 DEF n

\* A scan delivers every row that matches, once.
LEMMA ScanOrder ==
    ASSUME NEW bs \in SUBSET DOMAIN Catalogue, NEW S \in SUBSET RowsOf(bs), NEW order \in SetToSeqs(S)
    PROVE  order \in Seq(S) /\ Once(order) /\ ToSet(order) = S
<1>1. IsFiniteSet(S)
    BY RowsFinite, FS_Subset
<1> QED
    BY <1>1, InSequence

-----------------------------------------------------------------------------
(* Types. *)

\* A reader that has served nothing.
LEMMA InitTypes == Init => TypesInv
<1> SUFFICES ASSUME Init PROVE TypesInv
    OBVIOUS
<1>1. rows \in Seq(RowsOf(blocks)) /\ series \in Seq(Sent(blocks)) /\ warnings \in Seq(NamesOf(blocks))
    BY EmptySeq DEF Init
<1> QED
    BY <1>1, NoRequestAssumption DEF Init, TypesInv, NoAnswer, Refused, Answered

\* Every step keeps the types.
LEMMA NextTypes == TypesInv /\ [Next]_vars => TypesInv'
<1> SUFFICES ASSUME TypesInv, [Next]_vars PROVE TypesInv'
    OBVIOUS
<1>1. blocks \in SUBSET DOMAIN Catalogue
    BY DEF TypesInv
<1>2. ASSUME NEW r \in Requests, Arrive(r) PROVE TypesInv'
    BY <1>2, NoRequestAssumption DEF TypesInv, Arrive, loopVars
<1>3. CASE Reject \/ TableFails \/ LabelNames \/ LabelValues
    <2>1. /\ step = "received" /\ step' = "answered"
          /\ answer'.status \in {"unimplemented", "invalid argument", "internal", "ok"}
          /\ UNCHANGED <<blocks, request, loopVars>>
        <3>1. CASE Reject
            BY <3>1 DEF Reject, Reply, Refused, Answered
        <3>2. CASE TableFails
            BY <3>2 DEF TableFails, Reply, Refused, Answered
        <3>3. CASE LabelNames
            BY <3>3 DEF LabelNames, AnswerLabels, Reply, Refused, Answered
        <3>4. CASE LabelValues
            BY <3>4 DEF LabelValues, AnswerLabels, Reply, Refused, Answered
        <3> QED
            BY <1>3, <3>1, <3>2, <3>3, <3>4
    <2> QED
        BY <2>1 DEF TypesInv, loopVars
<1>4. CASE Leave
    <2>1. rows' \in Seq(RowsOf(blocks)) /\ series' \in Seq(Sent(blocks)) /\ warnings' \in Seq(NamesOf(blocks))
        BY <1>4, EmptySeq DEF Leave
    <2> QED
        BY <1>4, <2>1, NoRequestAssumption DEF TypesInv, Leave, NoAnswer, Refused, Answered
<1>5. CASE Scan
    <2>1. MatchingRows(request) \subseteq RowsOf(blocks)
        BY DEF MatchingRows
    <2>2. rows' \in Seq(RowsOf(blocks))
        BY <1>1, <1>5, <2>1, ScanOrder, SeqMonotonic DEF Scan, ScanOrders
    <2> QED
        BY <1>5, <2>2 DEF TypesInv, Scan
<1>6. CASE SkipRow
    <2>1. rows' \in Seq(RowsOf(blocks))
        BY <1>6, DropOne DEF TypesInv, SkipRow, Exhausted
    <2> QED
        BY <1>6, <2>1 DEF TypesInv, SkipRow
<1>7. CASE TakeRow
    <2>1. rows' \in Seq(RowsOf(blocks)) /\ row' \in RowsOf(blocks)
        BY <1>7, DropOne DEF TypesInv, TakeRow, Exhausted
    <2>2. todo' \in Seq(ToSet(Listed(row'))) /\ chunks' \in Seq(ToSet(Listed(row')))
        BY <1>1, <1>7, <2>1, ListedFacts, EmptySeq DEF TakeRow
    <2> QED
        BY <1>7, <2>1, <2>2 DEF TypesInv, TakeRow
<1>8. CASE PassChunk
    <2>1. todo' \in Seq(ToSet(Listed(row)))
        BY <1>8, DropOne DEF TypesInv, PassChunk
    <2> QED
        BY <1>8, <2>1 DEF TypesInv, PassChunk
<1>9. CASE ReadChunk
    <2>1. todo' \in Seq(ToSet(Listed(row))) /\ Head(todo) \in ToSet(Listed(row))
        BY <1>9, DropOne DEF TypesInv, ReadChunk
    <2>2. chunks' \in Seq(ToSet(Listed(row)))
        BY <1>9, <2>1, AppendProperties DEF TypesInv, ReadChunk
    <2> QED
        BY <1>9, <2>1, <2>2 DEF TypesInv, ReadChunk
<1>10. CASE ReadFails
    <2>1. Tail(todo) \in Seq(ToSet(Listed(row))) /\ Head(todo) \in ToSet(Listed(row)) /\ row \in RowsOf(blocks)
        BY <1>10, DropOne DEF TypesInv, ReadFails
    <2>2. Head(todo) \in NamesOf(blocks)
        BY <1>1, <2>1, ListedFacts
    <2>3. Append(warnings, Head(todo)) \in Seq(NamesOf(blocks))
        BY <2>2, AppendProperties DEF TypesInv
    <2>4. /\ unread' \subseteq NamesOf(blocks)
          /\ UNCHANGED <<blocks, request, rows, row, chunks, series>>
          /\ \/ step' = "answered" /\ answer'.status = "internal" /\ UNCHANGED <<todo, warnings>>
             \/ todo' = Tail(todo) /\ warnings' = Append(warnings, Head(todo)) /\ UNCHANGED <<step, answer>>
        <3>1. /\ unread \subseteq NamesOf(blocks) /\ unread' = unread \cup {Head(todo)}
              /\ UNCHANGED <<blocks, request, rows, row, chunks, series>>
            BY <1>10 DEF TypesInv, ReadFails
        <3>2. \/ Reply(Refused("internal")) /\ UNCHANGED <<todo, warnings>>
              \/ todo' = Tail(todo) /\ warnings' = Append(warnings, Head(todo)) /\ UNCHANGED <<step, answer>>
            BY <1>10 DEF ReadFails
        <3>3. Reply(Refused("internal")) => step' = "answered" /\ answer'.status = "internal"
            BY DEF Reply, Refused, Answered
        <3> QED
            BY <2>2, <3>1, <3>2, <3>3
    <2>5. CASE step' = "answered" /\ answer'.status = "internal" /\ UNCHANGED <<todo, warnings>>
        BY <1>10, <2>4, <2>5 DEF TypesInv, ReadFails
    <2>6. CASE todo' = Tail(todo) /\ warnings' = Append(warnings, Head(todo)) /\ UNCHANGED <<step, answer>>
        BY <1>10, <2>1, <2>3, <2>4, <2>6 DEF TypesInv, ReadFails
    <2> QED
        BY <2>4, <2>5, <2>6
<1>11. CASE EndRow
    <2>1. row \in RowsOf(blocks) /\ chunks \in Seq(NamesOf(blocks))
        BY <1>1, <1>11, ListedFacts, SeqMonotonic DEF TypesInv, EndRow
    <2>2. [row |-> row, chunks |-> chunks] \in Sent(blocks)
        BY <2>1 DEF Sent
    <2>3. series' \in Seq(Sent(blocks))
        BY <1>11, <2>2, AppendProperties DEF TypesInv, EndRow
    <2> QED
        BY <1>11, <2>3 DEF TypesInv, EndRow
<1>12. CASE Send
    BY <1>12 DEF TypesInv, Send, Reply, Answered, loopVars
<1>13. CASE UNCHANGED vars
    BY <1>13 DEF TypesInv, vars, loopVars
<1> QED
    BY <1>2, <1>3, <1>4, <1>5, <1>6, <1>7, <1>8, <1>9, <1>10, <1>11, <1>12, <1>13 DEF Next

\* The types hold in every behaviour.
THEOREM TypesInvariance == Spec => []TypesInv
BY InitTypes, NextTypes, PTL DEF Spec

\* The service is well typed, for every catalogue, request and failure.
THEOREM StoreSeriesTypeCorrect == Spec => []TypeOK
<1>1. TypesInv => TypeOK
    <2> SUFFICES ASSUME TypesInv PROVE TypeOK
        OBVIOUS
    <2>1. blocks \in SUBSET DOMAIN Catalogue /\ AllChunks = NamesOf(blocks)
        BY SameOperators DEF TypesInv
    <2>2. ToSet(rows) \subseteq RowsOf(blocks) /\ ToSet(warnings) \cup unread \subseteq AllChunks
        BY <2>1, Elements DEF TypesInv
    <2>3. ASSUME NEW x \in RowsOf(blocks), NEW c \in ToSet(Listed(x))
          PROVE  c \in AllChunks /\ <<c[1], c[2]>> = x
        <3>1. x = <<x[1], x[2]>>
            BY <2>1, RowFacts
        <3>2. PICK j \in 1..Len(ChunksOf(x)) : c = <<x[1], x[2], j>>
            BY <2>1, ListedFacts
        <3> QED
            BY <2>1, <3>1, <3>2, ListedFacts
    <2>4. step = "chunks" =>
            /\ row \in RowsOf(blocks)
            /\ ToSet(todo) \cup ToSet(chunks) \subseteq ToSet(Listed(row))
        BY Elements DEF TypesInv
    <2>5. step = "chunks" =>
            /\ row \in RowsOf(blocks)
            /\ ToSet(todo) \cup ToSet(chunks) \subseteq {c \in AllChunks : <<c[1], c[2]>> = row}
        BY <2>3, <2>4
    <2>6. \A i \in DOMAIN series : series[i].row \in RowsOf(blocks)
        <3> TAKE i \in DOMAIN series
        <3>0. series \in Seq(Sent(blocks))
            BY DEF TypesInv
        <3>1. series[i] \in Sent(blocks)
            BY <3>0, LenProperties, ElementOfSeq
        <3> QED
            BY <3>1 DEF Sent
    <2> QED
        BY <2>1, <2>2, <2>5, <2>6 DEF TypesInv, TypeOK
<1> QED
    BY <1>1, TypesInvariance, PTL

-----------------------------------------------------------------------------
(* A Series request that is being served. *)

\* The rows that match are rows of the table.
LEMMA MatchedRows ==
    ASSUME TypesInv
    PROVE  /\ blocks \in SUBSET DOMAIN Catalogue
           /\ Matched(blocks, request) \subseteq RowsOf(blocks)
BY DEF TypesInv, Matched

\* The scan starts the reply: all rows are left.
LEMMA ScanServes ==
    ASSUME TypesInv, Scan
    PROVE  ServingInv'
<1> DEFINE M == Matched(blocks, request)
<1>1. /\ step' = "rows" /\ UNCHANGED <<blocks, request, series, warnings, unread>>
      /\ request.api = "Series" /\ Accepted(request) /\ rows' \in SetToSeqs(M)
      /\ series = <<>> /\ warnings = <<>> /\ unread = {}
    BY SameOperators DEF Scan, ScanOrders, TypesInv
<1>2. rows' \in Seq(M) /\ Once(rows') /\ ToSet(rows') = M
    BY <1>1, MatchedRows, ScanOrder
<1>3. Len(series) = 0 /\ ToSet(warnings) = {} /\ Once(warnings)
    BY <1>1, EmptySeq DEF ToSet, Once
<1>4. M' = M
    BY <1>1
<1> HIDE DEF M
<1>5. RowsInv'
    BY <1>1, <1>2, <1>4 DEF RowsInv, M
<1>6. CurrentInv' /\ SentOff' /\ SentInv'
    <2>1. CurrentInv' /\ SentOff'
        BY <1>1 DEF CurrentInv, SentOff
    <2>2. SentInv'
        <3>1. series' = <<>> /\ Len(series') = 0
            BY <1>1, <1>3
        <3>2. \A i \in 1..Len(series') : FALSE
            BY <3>1
        <3>3. request' \in Requests
            BY <1>1 DEF TypesInv, Scan
        <3>4. request'.limit > 0 => Len(series') <= request'.limit
            BY <3>1, <3>3, RequestsAssumption
        <3> QED
            BY <3>2, <3>4 DEF SentInv
    <2> QED
        BY <2>1, <2>2
<1>7. LeftInv'
    BY <1>1, <1>2, <1>4 DEF LeftInv, Finished, M
<1>8. LossInv'
    BY <1>1, <1>3 DEF LossInv
<1> QED
    BY <1>5, <1>6, <1>7, <1>8 DEF ServingInv

\* A row of another resolution is done with.
LEMMA SkipServes ==
    ASSUME TypesInv, ServingInv, SkipRow
    PROVE  ServingInv'
<1> DEFINE M == Matched(blocks, request)
<1>1. /\ step = "rows" /\ rows # <<>> /\ ~Selected(request, Head(rows)) /\ rows' = Tail(rows)
      /\ UNCHANGED <<blocks, request, step, row, todo, chunks, series, warnings, answer, unread>>
    BY DEF SkipRow, Exhausted
<1>2. RowsInv /\ SentInv /\ LeftInv /\ LossInv
    BY <1>1 DEF ServingInv, Serving
<1>3. M' = M
    BY <1>1
<1>4. rows \in Seq(M) /\ Once(rows)
    BY <1>2 DEF RowsInv
<1> HIDE DEF M
<1>5. rows' \in Seq(M) /\ Once(rows') /\ ToSet(rows) = {Head(rows)} \cup ToSet(rows')
    BY <1>1, <1>4, DropOne, OnceDropped
<1>6. /\ \A x : Finished(x) => Finished(x)'
      /\ \A x : Finished(x)' => Finished(x) \/ x = Head(rows)
    BY <1>1, <1>3, <1>5 DEF Finished, M
<1>7. RowsInv'
    BY <1>1, <1>2, <1>3, <1>5 DEF RowsInv, M
<1>8. SentInv' /\ CurrentInv' /\ SentOff'
    BY <1>1, <1>2, <1>6 DEF SentInv, CurrentInv, SentOff
<1>9. LeftInv'
    BY <1>1, <1>2, <1>3, <1>6 DEF LeftInv, M
<1>10. LossInv'
    BY <1>1, <1>2, <1>5 DEF LossInv
<1> QED
    BY <1>7, <1>8, <1>9, <1>10 DEF ServingInv

\* A row is taken up with all of its chunks, and nothing of the row before.
LEMMA TakeServes ==
    ASSUME TypesInv, ServingInv, TakeRow
    PROVE  ServingInv'
<1> DEFINE M == Matched(blocks, request)
           x == Head(rows)
<1>1. /\ step = "rows" /\ rows # <<>> /\ ~LimitReached(request, Len(series)) /\ Selected(request, x)
      /\ rows' = Tail(rows) /\ row' = x /\ chunks' = <<>> /\ step' = "chunks"
      /\ todo' = IF request.skipChunks THEN <<>> ELSE Listed(x)
      /\ UNCHANGED <<blocks, request, series, warnings, answer, unread>>
    BY DEF TakeRow, Exhausted
<1>2. RowsInv /\ SentInv /\ LeftInv /\ LossInv
    BY <1>1 DEF ServingInv, Serving
<1>3. M' = M /\ M \subseteq RowsOf(blocks) /\ blocks \in SUBSET DOMAIN Catalogue
    BY <1>1, MatchedRows
<1>4. rows \in Seq(M) /\ Once(rows)
    BY <1>2 DEF RowsInv
<1> HIDE DEF M
<1>5. /\ rows' \in Seq(M) /\ Once(rows') /\ x \in M
      /\ ToSet(rows) = {x} \cup ToSet(rows') /\ x \notin ToSet(rows')
    BY <1>1, <1>4, DropOne, OnceDropped
<1> HIDE DEF x
<1>6. \A y : Finished(y)' <=> Finished(y)
    BY <1>1, <1>3, <1>5 DEF Finished, M
<1>7. RowsInv'
    BY <1>1, <1>2, <1>3, <1>5 DEF RowsInv, M
<1>8. SentInv' /\ SentOff'
    BY <1>1, <1>2, <1>6 DEF SentInv, SentOff
<1>9. LeftInv'
    BY <1>1, <1>2, <1>3, <1>6 DEF LeftInv, M
<1>10. LossInv'
    BY <1>1, <1>2, <1>5 DEF LossInv
<1>11. CurrentInv'
    <2> DEFINE n == Len(ChunksOf(x))
    <2>1. chunks' \in Seq(Due(x, request)) /\ InOrder(chunks') /\ Len(chunks') = 0
        BY <1>1, EmptySeq DEF InOrder
    <2>2. n \in Nat \ {0} /\ Listed(x) = SubSeq(Listed(x), 0 + 1, n)
        BY <1>3, <1>5, ListedFacts, SubSeqFull
    <2>3. \A c \in Due(x, request) : ~(c[3] <= 0)
        BY <1>3, <1>5, ListedFacts DEF Due
    <2>4. \A c \in unread : RowOf(c) # x
        BY <1>2, <1>5 DEF LossInv
    <2>5. ~request.skipChunks =>
            /\ todo' = SubSeq(Listed(x), 0 + 1, n)
            /\ \A i \in 1..Len(chunks') : chunks'[i][3] <= 0
            /\ \A c \in Due(x, request) : c[3] <= 0 => c \in ToSet(chunks') \cup unread
            /\ \A c \in unread : RowOf(c) = x => c[3] <= 0
        BY <1>1, <2>1, <2>2, <2>3, <2>4
    <2>6. ~request.skipChunks =>
            \E at \in 0..n :
                /\ todo' = SubSeq(Listed(x), at + 1, n)
                /\ \A i \in 1..Len(chunks') : chunks'[i][3] <= at
                /\ \A c \in Due(x, request) : c[3] <= at => c \in ToSet(chunks') \cup unread
                /\ \A c \in unread : RowOf(c) = x => c[3] <= at
        BY <2>2, <2>5
    <2> QED
        BY <1>1, <1>3, <1>5, <2>1, <2>6 DEF CurrentInv, M
<1> QED
    BY <1>7, <1>8, <1>9, <1>10, <1>11 DEF ServingInv

\* The chunk that comes next in the list of the row.
LEMMA NextChunk ==
    ASSUME NEW bs \in SUBSET DOMAIN Catalogue, NEW x \in RowsOf(bs),
           NEW at \in 0..Len(ChunksOf(x)), NEW left, left # <<>>,
           left = SubSeq(Listed(x), at + 1, Len(ChunksOf(x)))
    PROVE  /\ at + 1 \in 1..Len(ChunksOf(x))
           /\ Head(left) = <<x[1], x[2], at + 1>> /\ Head(left) \in ToSet(Listed(x))
           /\ Tail(left) = SubSeq(Listed(x), (at + 1) + 1, Len(ChunksOf(x)))
           /\ RowOf(Head(left)) = x /\ Head(left)[3] = at + 1
           /\ \A c \in ToSet(Listed(x)) :
                 RowOf(c) = x /\ c[3] \in Nat /\ (c[3] <= at + 1 => c[3] <= at \/ c = Head(left))
<1> DEFINE n == Len(ChunksOf(x))
           s == Listed(x)
<1>1. /\ n \in Nat \ {0} /\ s \in Seq(ToSet(s)) /\ Len(s) = n
      /\ \A j \in 1..n : s[j] = <<x[1], x[2], j>>
      /\ ToSet(s) = {<<x[1], x[2], j>> : j \in 1..n}
    BY ListedFacts
<1>2. x = <<x[1], x[2]>>
    BY RowFacts
<1> HIDE DEF s
<1>3. at + 1 \in 1..n
    <2> SUFFICES ASSUME ~(at + 1 <= n) PROVE FALSE
        BY <1>1
    <2>1. left = <<>>
        BY <1>1, SubSeqEmpty DEF s
    <2> QED
        BY <2>1
<1> HIDE DEF n
<1>4. n \in (at + 1)..n /\ at + 1 \in 1..Len(s) /\ n \in (at + 1)..Len(s)
    BY <1>1, <1>3
<1>5. Head(left) = s[at + 1] /\ Tail(left) = SubSeq(s, (at + 1) + 1, n)
    BY <1>1, <1>4, HeadTailOfSubSeq DEF s, n
<1>6. Head(left) = <<x[1], x[2], at + 1>>
    BY <1>1, <1>3, <1>5
<1>7. ASSUME NEW c \in ToSet(s)
      PROVE  RowOf(c) = x /\ c[3] \in Nat /\ (c[3] <= at + 1 => c[3] <= at \/ c = Head(left))
    <2>1. PICK j \in 1..n : c = <<x[1], x[2], j>>
        BY <1>1
    <2> QED
        BY <1>2, <1>6, <2>1 DEF RowOf
<1>8. Head(left) \in ToSet(s) /\ RowOf(Head(left)) = x /\ Head(left)[3] = at + 1
    <2>1. Head(left) \in ToSet(s)
        BY <1>1, <1>3, <1>6
    <2>2. RowOf(<<x[1], x[2], at + 1>>) = <<x[1], x[2]>>
        BY DEF RowOf
    <2>3. RowOf(Head(left)) = <<x[1], x[2]>>
        BY <1>6, <2>2
    <2>4. Head(left)[3] = at + 1
        BY <1>6
    <2> QED
        BY <1>2, <2>1, <2>3, <2>4
<1> QED
    BY <1>3, <1>5, <1>6, <1>7, <1>8 DEF s, n

\* Handling one chunk of a row, whatever becomes of it: what is due of the row up
\* to the chunk is in the reply or among the losses.
LEMMA ChunkServes ==
    ASSUME TypesInv, ServingInv, step = "chunks", todo # <<>>,
           todo' = Tail(todo), UNCHANGED <<blocks, request, step, rows, row, series, answer>>,
           \/ UNCHANGED <<chunks, warnings, unread>> /\ Head(todo) \notin Due(row, request)
           \/ /\ chunks' = Append(chunks, Head(todo)) /\ Head(todo) \in Due(row, request)
              /\ UNCHANGED <<warnings, unread>>
           \/ /\ unread' = unread \cup {Head(todo)} /\ warnings' = Append(warnings, Head(todo))
              /\ ~AbortsOnError(request) /\ UNCHANGED chunks
    PROVE  ServingInv'
<1> DEFINE M == Matched(blocks, request)
           n == Len(ChunksOf(row))
           D == Due(row, request)
           h == Head(todo)
<1>1. RowsInv /\ CurrentInv /\ SentInv /\ LeftInv /\ LossInv
    BY DEF ServingInv, Serving
<1>2. M' = M /\ M \subseteq RowsOf(blocks) /\ blocks \in SUBSET DOMAIN Catalogue
    BY MatchedRows
<1>3. /\ row \in M /\ row \notin ToSet(rows) /\ Selected(request, row)
      /\ ~LimitReached(request, Len(series))
      /\ chunks \in Seq(D) /\ InOrder(chunks) /\ ~request.skipChunks
    BY <1>1 DEF CurrentInv
<1>4. PICK at \in 0..n :
        /\ todo = SubSeq(Listed(row), at + 1, n)
        /\ \A i \in 1..Len(chunks) : chunks[i][3] <= at
        /\ \A c \in D : c[3] <= at => c \in ToSet(chunks) \cup unread
        /\ \A c \in unread : RowOf(c) = row => c[3] <= at
    BY <1>1, <1>3 DEF CurrentInv
<1>5. /\ at + 1 \in 1..n /\ h \in ToSet(Listed(row)) /\ RowOf(h) = row /\ h[3] = at + 1
      /\ Tail(todo) = SubSeq(Listed(row), (at + 1) + 1, n)
      /\ \A c \in ToSet(Listed(row)) :
            RowOf(c) = row /\ c[3] \in Nat /\ (c[3] <= at + 1 => c[3] <= at \/ c = h)
      /\ at \in Nat /\ n \in Nat
    <2>1. /\ blocks \in SUBSET DOMAIN Catalogue /\ row \in RowsOf(blocks) /\ at \in 0..Len(ChunksOf(row))
          /\ todo = SubSeq(Listed(row), at + 1, Len(ChunksOf(row))) /\ todo # <<>>
        BY <1>2, <1>3, <1>4
    <2>2. n \in Nat
        BY <2>1, ListedFacts
    <2>3. at \in Nat
        BY <2>1, <2>2
    <2>4. /\ at + 1 \in 1..Len(ChunksOf(row))
          /\ Head(todo) \in ToSet(Listed(row))
          /\ Tail(todo) = SubSeq(Listed(row), (at + 1) + 1, Len(ChunksOf(row)))
          /\ RowOf(Head(todo)) = row /\ Head(todo)[3] = at + 1
          /\ \A c \in ToSet(Listed(row)) :
                RowOf(c) = row /\ c[3] \in Nat /\ (c[3] <= at + 1 => c[3] <= at \/ c = Head(todo))
        BY ONLY <2>1, NextChunk
    <2> QED
        BY <2>2, <2>3, <2>4
<1>6. D \subseteq ToSet(Listed(row))
    BY DEF Due
<1>7. warnings \in Seq(NamesOf(blocks)) /\ h \in NamesOf(blocks) /\ unread \subseteq NamesOf(blocks)
    BY <1>2, <1>3, <1>5, ListedFacts DEF TypesInv
<1> HIDE DEF M, n, D, h
<1>8. /\ chunks' \in Seq(D) /\ InOrder(chunks') /\ ToSet(chunks) \subseteq ToSet(chunks')
      /\ \A i \in 1..Len(chunks') : chunks'[i][3] <= at + 1
    <2>1. CASE chunks' = chunks
        <3>1. \A i \in 1..Len(chunks) : chunks[i] \in D
            BY <1>3, ElementOfSeq
        <3>2. \A i \in 1..Len(chunks) : chunks[i][3] <= at + 1
            BY <1>4, <1>5, <1>6, <3>1
        <3> QED
            BY <1>3, <2>1, <3>2
    <2>2. CASE chunks' = Append(chunks, h) /\ h \in D
        <3>1. /\ Append(chunks, h) \in Seq(D) /\ Len(Append(chunks, h)) = Len(chunks) + 1 /\ Len(chunks) \in Nat
              /\ \A i \in 1..Len(chunks) : Append(chunks, h)[i] = chunks[i] /\ chunks[i] \in D
              /\ Append(chunks, h)[Len(chunks) + 1] = h
            BY <1>3, <2>2, AppendProperties, LenProperties, ElementOfSeq
        <3>2. \A i \in 1..Len(chunks) : chunks[i][3] \in Nat /\ chunks[i][3] <= at /\ chunks[i][3] < h[3]
            BY <1>4, <1>5, <1>6, <3>1
        <3>3. InOrder(chunks')
            BY <1>3, <2>2, <3>1, <3>2 DEF InOrder
        <3>4. \A i \in 1..Len(chunks') : chunks'[i][3] <= at + 1
            BY <1>5, <2>2, <3>1, <3>2
        <3>5. ToSet(Append(chunks, h)) = ToSet(chunks) \cup {h}
            BY <1>3, <2>2, AddOne
        <3> QED
            BY <2>2, <3>1, <3>3, <3>4, <3>5
    <2> QED
        BY <2>1, <2>2 DEF D, h
<1>9. \A c \in D : c[3] <= at + 1 => c \in ToSet(chunks') \cup unread'
    <2>1. h \in D => h \in ToSet(chunks') \cup unread'
        <3>1. h \in D /\ chunks' = Append(chunks, h) => h \in ToSet(chunks')
            BY <1>3, AddOne
        <3> QED
            BY <3>1 DEF D, h
    <2>2. unread \subseteq unread'
        OBVIOUS
    <2> QED
        BY <1>4, <1>5, <1>6, <1>8, <2>1, <2>2
<1>10. h \notin unread
    BY <1>4, <1>5
<1>11. /\ \A c \in unread' : RowOf(c) = row => c[3] <= at + 1
       /\ \A c \in unread' : RowOf(c) \notin ToSet(rows)
    <2>1. unread' \subseteq unread \cup {h}
        BY DEF h
    <2>2. \A c \in unread : RowOf(c) \notin ToSet(rows)
        BY <1>1 DEF LossInv
    <2>3. \A c \in unread : RowOf(c) = row => c[3] <= at + 1
        <3> TAKE c \in unread
        <3>1. c \in ToSet(Listed(RowOf(c)))
            BY <1>2, <1>7, NameFacts
        <3> QED
            BY <1>4, <1>5, <3>1
    <2> QED
        BY <1>3, <1>5, <2>1, <2>2, <2>3
<1>12. CurrentInv'
    <2>1. at + 1 \in 0..n /\ todo' = SubSeq(Listed(row), (at + 1) + 1, n)
        BY <1>5
    <2>2. \E to \in 0..n :
            /\ todo' = SubSeq(Listed(row), to + 1, n)
            /\ \A i \in 1..Len(chunks') : chunks'[i][3] <= to
            /\ \A c \in D : c[3] <= to => c \in ToSet(chunks') \cup unread'
            /\ \A c \in unread' : RowOf(c) = row => c[3] <= to
        BY <1>8, <1>9, <1>11, <2>1
    <2> QED
        BY <1>2, <1>3, <1>8, <2>2 DEF CurrentInv, M, n, D
<1>13. LossInv'
    <2>1. ToSet(warnings) = unread /\ Once(warnings) /\ (request.skipChunks \/ AbortsOnError(request) => unread = {})
        BY <1>1 DEF LossInv
    <2>2. ToSet(warnings') = unread' /\ Once(warnings')
        <3>1. CASE UNCHANGED <<warnings, unread>>
            BY <2>1, <3>1
        <3>2. CASE unread' = unread \cup {h} /\ warnings' = Append(warnings, h)
            BY <1>7, <1>10, <2>1, <3>2, AddOne, OnceAdded
        <3> QED
            BY <3>1, <3>2 DEF h
    <2>3. request.skipChunks \/ AbortsOnError(request) => unread' = {}
        BY <1>3, <2>1
    <2> QED
        BY <1>11, <2>2, <2>3 DEF LossInv
<1>14. \A y : Finished(y)' <=> Finished(y)
    BY <1>2 DEF Finished, M
<1>15. unread \subseteq unread'
    OBVIOUS
<1>16. RowsInv' /\ LeftInv' /\ SentOff'
    BY <1>1, <1>2, <1>14, <1>15 DEF RowsInv, LeftInv, SentOff, M
<1>17. SentInv'
    BY <1>1, <1>14, <1>15 DEF SentInv
<1> QED
    BY <1>12, <1>13, <1>16, <1>17 DEF ServingInv

\* The steps that handle a chunk do so.
LEMMA ReadServes ==
    ASSUME TypesInv, ServingInv, PassChunk \/ ReadChunk \/ ReadFails
    PROVE  ServingInv'
<1>1. step = "chunks" /\ todo # <<>> /\ UNCHANGED <<blocks, request, rows, row, series>>
    BY DEF PassChunk, ReadChunk, ReadFails
<1>2. Head(todo) \in ToSet(Listed(row))
    BY <1>1, DropOne DEF TypesInv
<1>3. /\ Head(todo) \in Due(row, request) <=> InWindow(Head(todo)) /\ Carries(Head(todo), request)
      /\ HasRequestedSlot(Head(todo)) <=> Carries(Head(todo), request)
    BY <1>2, SameOperators DEF Due
<1>4. CASE PassChunk
    <2>1. /\ todo' = Tail(todo) /\ UNCHANGED <<step, chunks, warnings, unread, answer>>
          /\ Head(todo) \notin Due(row, request)
        BY <1>3, <1>4 DEF PassChunk
    <2> QED
        BY <1>1, <2>1, ChunkServes
<1>5. CASE ReadChunk
    <2>1. todo' = Tail(todo) /\ UNCHANGED <<step, warnings, unread, answer>> /\ InWindow(Head(todo))
        BY <1>5 DEF ReadChunk
    <2>2. IF Carries(Head(todo), request) THEN chunks' = Append(chunks, Head(todo)) ELSE chunks' = chunks
        BY <1>3, <1>5 DEF ReadChunk
    <2>3. \/ chunks' = Append(chunks, Head(todo)) /\ Head(todo) \in Due(row, request)
          \/ chunks' = chunks /\ Head(todo) \notin Due(row, request)
        BY <1>3, <2>1, <2>2
    <2> QED
        BY <1>1, <2>1, <2>3, ChunkServes
<1>6. CASE ReadFails
    <2>1. CASE Reply(Refused("internal"))
        <3>1. ~Serving'
            BY <2>1 DEF Serving, Reply, Refused, Answered
        <3> QED
            BY <3>1 DEF ServingInv
    <2>2. CASE /\ ~AbortsOnError(request)
               /\ todo' = Tail(todo)
               /\ warnings' = Append(warnings, Head(todo))
               /\ UNCHANGED <<step, answer>>
        <3>1. unread' = unread \cup {Head(todo)} /\ UNCHANGED chunks
            BY <1>6 DEF ReadFails
        <3> QED
            BY <1>1, <2>2, <3>1, ChunkServes
    <2> QED
        BY <1>6, <2>1, <2>2 DEF ReadFails
<1> QED
    BY <1>4, <1>5, <1>6

\* Nothing that is due of a row whose chunks are all handled is missing.
LEMMA RowHandled ==
    ASSUME TypesInv, CurrentInv, step = "chunks", todo = <<>>, ~request.skipChunks
    PROVE  Due(row, request) \subseteq ToSet(chunks) \cup unread
<1> DEFINE n == Len(ChunksOf(row))
<1>1. PICK at \in 0..n :
        /\ todo = SubSeq(Listed(row), at + 1, n)
        /\ \A c \in Due(row, request) : c[3] <= at => c \in ToSet(chunks) \cup unread
    BY DEF CurrentInv
<1>2. row \in RowsOf(blocks) /\ blocks \in SUBSET DOMAIN Catalogue
    BY DEF TypesInv
<1>3. /\ n \in Nat \ {0} /\ Listed(row) \in Seq(ToSet(Listed(row))) /\ Len(Listed(row)) = n
      /\ ToSet(Listed(row)) = {<<row[1], row[2], j>> : j \in 1..n}
    BY <1>2, ListedFacts
<1>6. at \in Nat /\ at <= n
    BY <1>3
<1> HIDE DEF n
<1>4. at = n
    <2> SUFFICES ASSUME at < n PROVE FALSE
        BY <1>3, <1>6
    <2>1. \A i \in (at + 1)..n : Listed(row)[i] \in ToSet(Listed(row))
        BY <1>3, <1>6, ElementOfSeq
    <2>2. Len(SubSeq(Listed(row), at + 1, n)) = n - at
        BY <1>3, <1>6, <2>1, SubSeqProperties
    <2>3. Len(<<>>) = 0
        BY EmptySeq
    <2>4. n - at = 0
        BY <1>1, <2>2, <2>3
    <2> QED
        BY <1>3, <1>6, <2>4
<1>5. \A c \in Due(row, request) : c[3] <= n
    BY <1>3 DEF Due
<1> QED
    BY <1>1, <1>4, <1>5

\* A row is done: it is in the reply, or none of its chunks could be read.
LEMMA EndServes ==
    ASSUME TypesInv, ServingInv, EndRow
    PROVE  ServingInv'
<1> DEFINE M == Matched(blocks, request)
           new == [row |-> row, chunks |-> chunks]
<1>1. /\ step = "chunks" /\ todo = <<>> /\ step' = "rows"
      /\ UNCHANGED <<blocks, request, rows, row, todo, chunks, warnings, answer, unread>>
      /\ IF request.skipChunks \/ chunks # <<>> THEN series' = Append(series, new) ELSE series' = series
    BY DEF EndRow
<1>2. RowsInv /\ CurrentInv /\ SentInv /\ LeftInv /\ LossInv
    BY <1>1 DEF ServingInv, Serving
<1>3. M' = M
    BY <1>1
<1>4. /\ row \in M /\ row \notin ToSet(rows) /\ Selected(request, row)
      /\ ~LimitReached(request, Len(series))
      /\ chunks \in Seq(Due(row, request)) /\ InOrder(chunks)
      /\ request.skipChunks => chunks = <<>>
    BY <1>1, <1>2 DEF CurrentInv
<1>5. ~request.skipChunks => Due(row, request) \subseteq ToSet(chunks) \cup unread
    BY <1>1, <1>2, RowHandled
<1>6. series \in Seq(Sent(blocks)) /\ new \in Sent(blocks)
    <2>1. row \in RowsOf(blocks) /\ chunks \in Seq(NamesOf(blocks))
        BY <1>1, ListedFacts, SeqMonotonic DEF TypesInv
    <2> QED
        BY <2>1 DEF TypesInv, Sent
<1> HIDE DEF M
<1>7. \A x : Finished(x)' <=> Finished(x) \/ x = row
    BY <1>1, <1>3, <1>4 DEF Finished, M
<1>8. ~Finished(row)
    BY <1>1 DEF Finished
<1>9. RowsInv' /\ CurrentInv' /\ LossInv' /\ SentOff'
    BY <1>1, <1>2 DEF RowsInv, CurrentInv, LossInv, SentOff
<1>10. CASE ~(request.skipChunks \/ chunks # <<>>)
    <2>1. series' = series /\ Due(row, request) \subseteq unread
        <3>1. ToSet(chunks) = {}
            BY <1>10, EmptySeq DEF ToSet
        <3> QED
            BY <1>1, <1>5, <1>10, <3>1
    <2>2. SentInv'
        BY <1>1, <1>2, <1>7, <2>1 DEF SentInv
    <2>3. LeftInv'
        BY <1>1, <1>2, <1>3, <1>7, <1>10, <2>1 DEF LeftInv, M
    <2> QED
        BY <1>9, <2>2, <2>3 DEF ServingInv
<1>11. CASE request.skipChunks \/ chunks # <<>>
    <2>1. /\ Len(series') = Len(series) + 1 /\ Len(series) \in Nat
          /\ \A i \in 1..Len(series) : series'[i] = series[i]
          /\ series'[Len(series) + 1] = new
        BY <1>1, <1>6, <1>11, AppendProperties, LenProperties
    <2>0. new.row = row /\ new.chunks = chunks
        OBVIOUS
    <2> HIDE DEF new
    <2>2. \A i \in 1..Len(series) : series[i].row # row
        BY <1>2, <1>8 DEF SentInv
    <2>3. ASSUME NEW i \in 1..Len(series')
          PROVE  /\ series'[i].row \in M \ ToSet(rows) /\ Selected(request, series'[i].row)
                 /\ series'[i].chunks \in Seq(Due(series'[i].row, request)) /\ InOrder(series'[i].chunks)
                 /\ request.skipChunks => series'[i].chunks = <<>>
                 /\ ~request.skipChunks => Due(series'[i].row, request) \subseteq ToSet(series'[i].chunks) \cup unread
        <3>1. CASE i = Len(series) + 1
            BY <1>4, <1>5, <2>0, <2>1, <3>1
        <3>2. CASE i \in 1..Len(series)
            <4>1. /\ Finished(series[i].row) /\ Selected(request, series[i].row)
                  /\ series[i].chunks \in Seq(Due(series[i].row, request)) /\ InOrder(series[i].chunks)
                  /\ request.skipChunks => series[i].chunks = <<>>
                  /\ ~request.skipChunks => Due(series[i].row, request) \subseteq ToSet(series[i].chunks) \cup unread
                BY <1>2, <3>2 DEF SentInv
            <4>2. series'[i] = series[i]
                BY <2>1, <3>2
            <4>3. series[i].row \in M \ ToSet(rows)
                BY <4>1 DEF Finished, M
            <4> QED
                BY <4>1, <4>2, <4>3
        <3> QED
            BY <2>1, <3>1, <3>2
    <2>4. \A i, j \in 1..Len(series') : series'[i].row = series'[j].row => i = j
        <3>1. \A i, j \in 1..Len(series) : series[i].row = series[j].row => i = j
            BY <1>2 DEF SentInv
        <3> QED
            BY <2>0, <2>1, <2>2, <3>1
    <2>5. request.limit > 0 => Len(series') <= request.limit
        <3>1. request \in Requests
            BY <1>1 DEF TypesInv
        <3> QED
            BY <1>4, <2>1, <3>1, RequestsAssumption DEF LimitReached
    <2>6. SentInv'
        <3>1. \A i \in 1..Len(series') :
                /\ Finished(series[i].row)' /\ Selected(request, series[i].row)'
                /\ series'[i].chunks \in Seq(Due(series'[i].row, request)) /\ InOrder(series'[i].chunks)
                /\ request.skipChunks => series'[i].chunks = <<>>
                /\ ~request.skipChunks => Due(series'[i].row, request) \subseteq ToSet(series'[i].chunks) \cup unread
            BY <1>1, <1>3, <2>3 DEF Finished, M
        <3> QED
            BY <1>1, <2>4, <2>5, <3>1 DEF SentInv
    <2>7. LeftInv'
        <3> SUFFICES ASSUME NEW x \in M, Finished(x)', Selected(request, x)
                     PROVE  \/ \E i \in 1..Len(series') : series'[i].row = x
                            \/ ~request.skipChunks /\ Due(x, request) \subseteq unread
            BY <1>1, <1>3 DEF LeftInv, M
        <3>1. CASE x = row
            <4>1. Len(series) + 1 \in 1..Len(series')
                BY <2>1
            <4> QED
                BY <2>0, <2>1, <3>1, <4>1
        <3>2. CASE Finished(x)
            BY <1>2, <2>1, <3>2 DEF LeftInv, M
        <3> QED
            BY <1>7, <3>1, <3>2
    <2> QED
        BY <1>9, <2>6, <2>7 DEF ServingInv
<1> QED
    BY <1>10, <1>11

\* The reply is sent off.
LEMMA SendServes ==
    ASSUME TypesInv, ServingInv, Send
    PROVE  ServingInv'
<1>1. /\ step = "rows" /\ Exhausted /\ step' = "answered"
      /\ answer' = Answered("ok", Batches(series, BatchSize), warnings, <<>>)
      /\ UNCHANGED <<blocks, request, rows, row, todo, chunks, series, warnings, unread>>
    BY DEF Send, Reply, loopVars
<1>2. RowsInv /\ SentInv /\ LeftInv /\ LossInv
    BY <1>1 DEF ServingInv, Serving
<1>3. \A x : Finished(x)' <=> Finished(x)
    BY <1>1 DEF Finished
<1>4. RowsInv' /\ CurrentInv' /\ LossInv'
    BY <1>1, <1>2 DEF RowsInv, CurrentInv, LossInv
<1>5. SentInv'
    BY <1>1, <1>2, <1>3 DEF SentInv
<1>6. LeftInv'
    BY <1>1, <1>2, <1>3 DEF LeftInv
<1>7. SentOff'
    BY <1>1 DEF SentOff, Exhausted, BatchSize
<1> QED
    BY <1>4, <1>5, <1>6, <1>7 DEF ServingInv

\* Every step keeps the reply in order.
LEMMA NextServing == TypesInv /\ ServingInv /\ [Next]_vars => ServingInv'
<1> SUFFICES ASSUME TypesInv, ServingInv, [Next]_vars PROVE ServingInv'
    OBVIOUS
<1>1. CASE (\E r \in Requests : Arrive(r)) \/ Leave
    <2>1. ~Serving'
        BY <1>1 DEF Arrive, Leave, Serving
    <2> QED
        BY <2>1 DEF ServingInv
<1>2. CASE Reject \/ TableFails
    <2>1. ~Serving'
        <3>1. step' = "answered" /\ answer'.status # "ok"
            <4>1. CASE Reject
                BY <4>1 DEF Reject, Reply, Refused, Answered
            <4>2. CASE TableFails
                BY <4>2 DEF TableFails, Reply, Refused, Answered
            <4> QED
                BY <1>2, <4>1, <4>2
        <3> QED
            BY <3>1 DEF Serving
    <2> QED
        BY <2>1 DEF ServingInv
<1>3. CASE LabelNames \/ LabelValues
    <2>1. ~Serving'
        BY <1>3 DEF LabelNames, LabelValues, AnswerLabels, Reply, Serving
    <2> QED
        BY <2>1 DEF ServingInv
<1>4. CASE UNCHANGED vars
    <2>1. UNCHANGED <<blocks, request, step, rows, row, todo, chunks, series, warnings, unread, answer>>
        BY <1>4 DEF vars, loopVars
    <2>2. \A x : Finished(x)' <=> Finished(x)
        BY <2>1 DEF Finished
    <2>3. Serving' <=> Serving
        BY <2>1 DEF Serving
    <2>4. (RowsInv /\ CurrentInv /\ SentInv /\ LeftInv /\ LossInv /\ SentOff)
            => RowsInv' /\ CurrentInv' /\ LossInv'
        BY <2>1 DEF RowsInv, CurrentInv, LossInv
    <2>5. SentInv /\ LeftInv => SentInv' /\ LeftInv'
        BY <2>1, <2>2 DEF SentInv, LeftInv
    <2>6. SentOff => SentOff'
        BY <2>1 DEF SentOff, Exhausted, BatchSize
    <2> QED
        BY <2>3, <2>4, <2>5, <2>6 DEF ServingInv
<1> QED
    BY <1>1, <1>2, <1>3, <1>4, ScanServes, SkipServes, TakeServes, ReadServes, EndServes, SendServes
    DEF Next

\* A Series request is served in order, in every behaviour.
THEOREM ServingInvariance == Spec => [](TypesInv /\ ServingInv)
<1>1. Init => ServingInv
    BY DEF Init, ServingInv, Serving
<1> QED
    BY <1>1, InitTypes, NextTypes, NextServing, PTL DEF Spec

-----------------------------------------------------------------------------
(* Sequences of sequences. *)

-----------------------------------------------------------------------------
(* The messages of a reply, joined, are its series. *)

\* The least of two numbers.
LEMMA LeastOfTwo ==
    ASSUME NEW a \in Int, NEW b \in Int
    PROVE  Min({a, b}) = IF a <= b THEN a ELSE b
<1>1. Min({a, b}) = CHOOSE x \in {a, b} : \A y \in {a, b} : x <= y
    BY Zenon DEF Min
<1>2. \E x \in {a, b} : \A y \in {a, b} : x <= y
    OBVIOUS
<1>3. Min({a, b}) \in {a, b} /\ \A y \in {a, b} : Min({a, b}) <= y
    BY <1>1, <1>2, Zenon
<1> QED
    BY <1>3

\* L elements fill n messages of a size, the last one perhaps in part.
LEMMA Ceiling ==
    ASSUME NEW L \in Nat \ {0}, NEW size \in Nat \ {0}
    PROVE  LET n == (L + size - 1) \div size
           IN  n \in Nat \ {0} /\ (n - 1) * size < L /\ L <= n * size
<1> DEFINE n == (L + size - 1) \div size
<1>1. L + size - 1 \in Nat
    OBVIOUS
<1>2. n \in Int /\ n >= 0
    BY <1>1
<1>3. size * n <= L + size - 1
    BY <1>1
<1>4. L + size - 1 < size * n + size
    BY <1>1
<1> HIDE DEF n
<1>5. L <= size * n /\ n # 0
    <2>1. L <= size * n
        BY <1>2, <1>4
    <2>2. n = 0 => size * n = 0
        OBVIOUS
    <2> QED
        BY <2>1, <2>2
<1>6. n * size = size * n /\ (n - 1) * size = size * n - size
    BY <1>2
<1> QED
    BY <1>2, <1>3, <1>5, <1>6 DEF n

\* send_series_messages: cutting a reply into batches loses, adds and moves nothing.
LEMMA BatchesJoin ==
    ASSUME NEW S, NEW s \in Seq(S), NEW size \in Nat \ {0}
    PROVE  FlattenSeq(Batches(s, size)) = s
<1> DEFINE L == Len(s)
           n == (L + size - 1) \div size
           B == Batches(s, size)
           end(k) == Min({k * size, L})
<1>1. L \in Nat
    OBVIOUS
<1>2. B = [k \in 1..n |-> SubSeq(s, (k - 1) * size + 1, end(k))]
    BY DEF Batches
<1>3. CASE L = 0
    <2>1. n = 0
        <3>1. (size - 1) \in Nat /\ size - 1 < size
            OBVIOUS
        <3>2. size * ((size - 1) \div size) <= size - 1 /\ (size - 1) \div size >= 0 /\ (size - 1) \div size \in Int
            BY <3>1
        <3>3. (size - 1) \div size < 1
            <4> DEFINE q == (size - 1) \div size
            <4>1. q \in Int /\ size * q <= size - 1
                BY <3>2
            <4> HIDE DEF q
            <4>2. q >= 1 => size * q >= size
                BY <4>1
            <4> QED
                BY <4>1, <4>2 DEF q
        <3> QED
            BY <1>3, <3>2, <3>3
    <2>2. B = <<>>
        BY <1>2, <2>1
    <2>3. s = <<>>
        BY <1>3, EmptySeq
    <2> QED
        BY <2>2, <2>3, Zenon DEF FlattenSeq
<1>4. CASE L # 0
    <2>1. n \in Nat \ {0} /\ (n - 1) * size < L /\ L <= n * size
        BY <1>1, <1>4, Ceiling
    <2> HIDE DEF n, B, L
    <2>2. \A k \in 1..n : /\ (k - 1) * size \in Nat /\ (k - 1) * size < L /\ k * size = (k - 1) * size + size
                          /\ end(k) \in ((k - 1) * size + 1)..L
                          /\ end(k) = IF k * size <= L THEN k * size ELSE L
        <3> TAKE k \in 1..n
        <3>1. k * size = (k - 1) * size + size
            BY <2>1
        <3>2. (k - 1) * size \in Nat /\ k * size \in Nat
            BY <2>1
        <3>3. (k - 1) * size <= (n - 1) * size
            BY <2>1
        <3>4. (n - 1) * size \in Nat
            BY <2>1
        <3>5. end(k) = IF k * size <= L THEN k * size ELSE L
            BY <1>1, <3>2, LeastOfTwo
        <3> HIDE DEF end
        <3> QED
            BY <1>1, <2>1, <3>1, <3>2, <3>3, <3>4, <3>5
    <2>3. \A k \in 1..(n - 1) : end(k) = k * size
        <3> TAKE k \in 1..(n - 1)
        <3>1. k \in 1..n /\ k + 1 \in 1..n /\ (k + 1) - 1 = k
            BY <2>1
        <3>2. k * size < L /\ k * size \in Nat
            BY <2>2, <3>1
        <3> QED
            BY <1>1, <2>2, <3>1, <3>2
    <2>4. n \in 1..n /\ end(n) = L
        BY <1>1, <2>1, <2>2
    <2>5. \A k \in 1..n : B[k] = SubSeq(s, (k - 1) * size + 1, end(k))
        BY <1>2
    <2> HIDE DEF end
    <2>6. B \in Seq(Seq(S)) /\ Len(B) = n /\ B # <<>>
        <3>1. ASSUME NEW k \in 1..n PROVE SubSeq(s, (k - 1) * size + 1, end(k)) \in Seq(S)
            <4>1. (k - 1) * size + 1 \in Int /\ end(k) \in Int
                BY <1>1, <2>2
            <4>2. \A i \in ((k - 1) * size + 1)..end(k) : s[i] \in S
                BY <1>1, <2>2, ElementOfSeq DEF L
            <4> QED
                BY <4>1, <4>2, SubSeqProperties
        <3>2. n \in Nat /\ n # 0
            BY <2>1
        <3>3. B \in [1..n -> Seq(S)]
            BY <1>2, <3>1
        <3>4. B \in Seq(Seq(S)) /\ Len(B) = n
            BY <3>2, <3>3
        <3> QED
            BY <3>2, <3>4
    <2>7. PICK f \in [1..n -> Seq(S)] :
              /\ f[1] = B[1]
              /\ \A i \in 1..(n - 1) : f[i + 1] = f[i] \o B[i + 1]
              /\ FlattenSeq(B) = f[n]
        BY <2>6, FlattenSteps
    <2> DEFINE good == {k \in 1..n : f[k] = SubSeq(s, 1, end(k))}
    <2>8. 1 \in good
        <3>1. 1 \in 1..n /\ (1 - 1) * size + 1 = 1
            BY <2>1
        <3> QED
            BY <2>5, <2>7, <3>1
    <2>9. ASSUME NEW k \in 1..(n - 1), k \in good PROVE k + 1 \in good
        <3>1. k \in 1..n /\ k + 1 \in 1..n /\ (k + 1) - 1 = k
            BY <2>1
        <3>2. f[k] = SubSeq(s, 1, k * size)
            BY <2>3, <2>9
        <3>3. B[k + 1] = SubSeq(s, k * size + 1, end(k + 1))
            BY <2>5, <3>1
        <3>4. k * size \in 0..L /\ end(k + 1) \in (k * size)..L
            BY <1>1, <2>2, <3>1
        <3>5. SubSeq(s, 1, k * size) \o SubSeq(s, k * size + 1, end(k + 1)) = SubSeq(s, 1, end(k + 1))
            <4>1. 1 \in 1..(Len(s) + 1) /\ k * size \in (1 - 1)..Len(s) /\ end(k + 1) \in (k * size)..Len(s)
                BY <1>1, <3>4 DEF L
            <4> QED
                BY ONLY <4>1, s \in Seq(S), ConcatAdjacentSubSeq
        <3>6. f[k + 1] = f[k] \o B[k + 1]
            BY <2>7
        <3> QED
            BY <3>1, <3>2, <3>3, <3>5, <3>6
    <2>10. 1..n \subseteq good
        <3>1. n \in Nat
            BY <2>1
        <3> HIDE DEF good
        <3> QED
            BY <2>8, <2>9, <3>1, UpTo
    <2>11. f[n] = SubSeq(s, 1, L)
        BY <2>4, <2>10
    <2> QED
        BY <2>7, <2>11, SubSeqFull DEF B, L
<1> QED
    BY <1>3, <1>4

-----------------------------------------------------------------------------
(* What a client is owed. *)

\* The chunks of a row follow each other in time, within its block.
LEMMA ChunkTimes ==
    ASSUME NEW bs \in SUBSET DOMAIN Catalogue, NEW x \in RowsOf(bs)
    PROVE  LET cs == ChunksOf(x)
               n == Len(cs)
           IN  /\ n \in Nat \ {0}
               /\ \A j \in 1..n :
                     /\ cs[j] \in Chunk /\ cs[j].min \in Int /\ cs[j].max \in Int
                     /\ cs[j].min <= cs[j].max
                     /\ Catalogue[x[1]].min <= cs[j].min /\ cs[j].max < Catalogue[x[1]].max
               /\ \A i, j \in 1..n : i < j => cs[i].max < cs[j].min
<1> DEFINE cs == ChunksOf(x)
           n == Len(cs)
<1>1. n \in Nat \ {0} /\ DOMAIN cs = 1..n
    BY ListedFacts
<1>2. x[1] \in DOMAIN Catalogue /\ x[2] \in DOMAIN Catalogue[x[1]].series
    BY RowFacts
<1>3. cs = Catalogue[x[1]].series[x[2]].chunks
    BY DEF ChunksOf
<1>4. \A j \in DOMAIN cs :
         /\ cs[j] \in Chunk /\ cs[j].min <= cs[j].max
         /\ Catalogue[x[1]].min <= cs[j].min /\ cs[j].max < Catalogue[x[1]].max
         /\ j > 1 => cs[j - 1].max < cs[j].min
    BY <1>2, <1>3, CatalogueAssumption
<1> HIDE DEF cs, n
<1>5. \A j \in 1..n :
         /\ cs[j] \in Chunk /\ cs[j].min \in Int /\ cs[j].max \in Int /\ cs[j].min <= cs[j].max
         /\ Catalogue[x[1]].min <= cs[j].min /\ cs[j].max < Catalogue[x[1]].max
    BY <1>1, <1>4 DEF Chunk
<1>6. ASSUME NEW i \in 1..n PROVE \A j \in 1..n : i < j => cs[i].max < cs[j].min
    <2> DEFINE good == {j \in 1..n : i < j => cs[i].max < cs[j].min}
    <2>1. 1 \in good
        BY <1>1
    <2>2. ASSUME NEW j \in 1..(n - 1), j \in good PROVE j + 1 \in good
        <3>1. j \in 1..n /\ j + 1 \in 1..n /\ j + 1 > 1 /\ (j + 1) - 1 = j
            BY <1>1
        <3>2. cs[j].max < cs[j + 1].min
            BY <1>1, <1>4, <3>1
        <3>3. /\ cs[i].max \in Int /\ cs[j].min \in Int /\ cs[j].max \in Int /\ cs[j].min <= cs[j].max
              /\ cs[j + 1].min \in Int
            BY <1>5, <3>1
        <3>4. CASE i < j
            <4>1. cs[i].max < cs[j].min
                BY <2>2, <3>4
            <4> QED
                BY <3>1, <3>2, <3>3, <4>1
        <3>5. CASE ~(i < j)
            <4>1. i < j + 1 => i = j
                BY <3>5
            <4> QED
                BY <3>1, <3>2, <4>1
        <3> QED
            BY <3>4, <3>5
    <2>3. 1..n \subseteq good
        <3>1. n \in Nat
            BY <1>1
        <3> HIDE DEF good
        <3> QED
            BY <2>1, <2>2, <3>1, UpTo
    <2> QED
        BY <2>3
<1> QED
    BY <1>1, <1>5, <1>6 DEF cs, n

\* A chunk of the window makes its row one of the window.
LEMMA RowOfWindow ==
    ASSUME NEW bs \in SUBSET DOMAIN Catalogue, NEW x \in RowsOf(bs), NEW j \in 1..Len(ChunksOf(x)),
           NEW start \in Int, NEW end \in Int,
           Overlaps(ChunksOf(x)[j].min, ChunksOf(x)[j].max, start, end)
    PROVE  Overlaps(RowMin(x), RowMax(x), start, end)
<1> DEFINE cs == ChunksOf(x)
           n == Len(cs)
<1>1. n \in Nat \ {0}
    BY ChunkTimes
<1>2. RowMin(x) = cs[1].min /\ RowMax(x) = cs[n].max
    BY <1>1 DEF RowMin, RowMax, Last
<1>3. \A i \in 1..n : cs[i].min \in Int /\ cs[i].max \in Int /\ cs[i].min <= cs[i].max
    BY ChunkTimes
<1>4. \A i, k \in 1..n : i < k => cs[i].max < cs[k].min
    BY ChunkTimes
<1> HIDE DEF n, cs
<1>5. 1 \in 1..n /\ n \in 1..n /\ j \in 1..n
    BY <1>1 DEF n, cs
<1>6. cs[1].min <= cs[j].min
    <2>1. CASE j = 1
        BY <1>3, <1>5, <2>1
    <2>2. CASE j # 1
        <3>1. cs[1].max < cs[j].min
            BY <1>4, <1>5, <2>2
        <3> QED
            BY <1>3, <1>5, <3>1
    <2> QED
        BY <2>1, <2>2
<1>7. cs[j].max <= cs[n].max
    <2>1. CASE j = n
        BY <1>3, <1>5, <2>1
    <2>2. CASE j # n
        <3>1. j < n
            BY <1>1, <1>5, <2>2
        <3>2. cs[j].max < cs[n].min
            BY <1>4, <1>5, <3>1
        <3> QED
            BY <1>3, <1>5, <3>2
    <2> QED
        BY <2>1, <2>2
<1>8. cs[j].min <= end /\ cs[j].max >= start
    BY DEF Overlaps, cs
<1>9. /\ cs[1].min \in Int /\ cs[j].min \in Int /\ cs[j].max \in Int /\ cs[n].max \in Int
    BY <1>3, <1>5
<1>10. cs[1].min <= end /\ cs[n].max >= start
    BY ONLY <1>6, <1>7, <1>8, <1>9, start \in Int, end \in Int
<1> QED
    BY <1>2, <1>10 DEF Overlaps

\* An exact matcher's value is one the code's LIKE pattern finds.
Findable == \A r \in Requests : \A m \in r.matchers : ~NeverFound(m)

\* A chunk has an instant of the window exactly if it overlaps it.
LEMMA AskedFacts ==
    ASSUME NEW bs \in SUBSET DOMAIN Catalogue, NEW c \in NamesOf(bs), NEW r \in Requests
    PROVE  Asked(c, r) <=> Overlaps(ChunkAt(c).min, ChunkAt(c).max, r.min, r.max)
<1>1. /\ RowOf(c) \in RowsOf(bs) /\ c \in ToSet(Listed(RowOf(c)))
    BY NameFacts
<1>2. PICK j \in 1..Len(ChunksOf(RowOf(c))) : c = <<RowOf(c)[1], RowOf(c)[2], j>>
    BY <1>1, ListedFacts
<1>3. ChunkAt(c) = ChunksOf(RowOf(c))[j]
    BY <1>2 DEF ChunkAt, RowOf
<1>4. /\ ChunkAt(c).min \in Int /\ ChunkAt(c).max \in Int /\ ChunkAt(c).min <= ChunkAt(c).max
    BY <1>1, <1>3, ChunkTimes
<1>5. r.min \in Int /\ r.max \in Int /\ r.min <= r.max
    BY RequestsAssumption
<1> DEFINE lo == ChunkAt(c).min
           hi == ChunkAt(c).max
<1> HIDE DEF lo, hi
<1>6. (\E t \in r.min..r.max : t \in lo..hi) <=> lo <= r.max /\ hi >= r.min
    <2>1. lo \in Int /\ hi \in Int /\ lo <= hi
        BY <1>4 DEF lo, hi
    <2>2. ASSUME lo <= r.max, hi >= r.min PROVE \E t \in r.min..r.max : t \in lo..hi
        <3>1. CASE lo >= r.min
            <4>1. lo \in r.min..r.max /\ lo \in lo..hi
                BY <1>5, <2>1, <2>2, <3>1
            <4> QED
                BY <4>1
        <3>2. CASE ~(lo >= r.min)
            <4>1. r.min \in r.min..r.max /\ r.min \in lo..hi
                BY <1>5, <2>1, <2>2, <3>2
            <4> QED
                BY <4>1
        <3> QED
            BY <3>1, <3>2
    <2>3. ASSUME NEW t \in r.min..r.max, t \in lo..hi PROVE lo <= r.max /\ hi >= r.min
        BY <1>5, <2>1, <2>3
    <2> QED
        BY <2>2, <2>3
<1> QED
    BY <1>6 DEF Asked, Overlaps, lo, hi

\* The chunks that are owed are the due ones of the rows that match.
LEMMA OwedFacts ==
    ASSUME Findable, TypesInv, request \in Requests
    PROVE  /\ \A c \in Owed : /\ RowOf(c) \in Matched(blocks, request) /\ Selected(request, RowOf(c))
                              /\ c \in Due(RowOf(c), request)
           /\ \A x \in Matched(blocks, request) :
                 Selected(request, x) => \A c \in Due(x, request) : c \in Owed /\ RowOf(c) = x
<1>1. blocks \in SUBSET DOMAIN Catalogue /\ AllChunks = NamesOf(blocks)
    BY MatchedRows, SameOperators
<1>2. request.min \in Int /\ request.max \in Int
    BY RequestsAssumption
<1>3. ASSUME NEW labels
      PROVE  MatchesAll(labels, request.matchers) <=>
                \A m \in request.matchers :
                    IF m.type \in {"Eq", "Re"} THEN labels[m.name] \in m.values ELSE labels[m.name] \notin m.values
    BY DEF MatchesAll, Matches
<1>4. \A c \in NamesOf(blocks) :
         c \in Owed <=>
            /\ Overlaps(ChunkAt(c).min, ChunkAt(c).max, request.min, request.max)
            /\ MatchesAll(LabelsOf(RowOf(c)), request.matchers)
            /\ Selected(request, RowOf(c)) /\ Carries(c, request)
    BY <1>1, <1>3, AskedFacts, SameOperators DEF Owed, RowOf
<1>5. ASSUME NEW c \in Owed
      PROVE  /\ RowOf(c) \in Matched(blocks, request) /\ Selected(request, RowOf(c))
             /\ c \in Due(RowOf(c), request)
    <2>1. c \in NamesOf(blocks)
        BY <1>1, <1>5 DEF Owed
    <2> DEFINE x == RowOf(c)
    <2>2. x \in RowsOf(blocks) /\ c \in ToSet(Listed(x))
        BY <1>1, <2>1, NameFacts
    <2>3. PICK j \in 1..Len(ChunksOf(x)) : c = <<x[1], x[2], j>>
        BY <1>1, <2>2, ListedFacts
    <2>4. ChunkAt(c) = ChunksOf(x)[j]
        BY <2>3 DEF ChunkAt, RowOf
    <2>5. Overlaps(RowMin(x), RowMax(x), request.min, request.max)
        BY <1>1, <1>2, <1>4, <1>5, <2>1, <2>2, <2>4, RowOfWindow
    <2>6. x \in Matched(blocks, request)
        BY <1>4, <1>5, <2>1, <2>2, <2>5 DEF Matched, Findable
    <2>7. c \in Due(x, request)
        BY <1>4, <1>5, <2>1, <2>2 DEF Due
    <2> QED
        BY <1>4, <1>5, <2>1, <2>6, <2>7
<1>6. ASSUME NEW x \in Matched(blocks, request), Selected(request, x), NEW c \in Due(x, request)
      PROVE  c \in Owed /\ RowOf(c) = x
    <2>1. x \in RowsOf(blocks) /\ MatchesAll(LabelsOf(x), request.matchers)
        BY DEF Matched
    <2>2. c \in ToSet(Listed(x)) /\ c \in NamesOf(blocks)
        BY <1>1, <2>1, ListedFacts DEF Due
    <2>3. RowOf(c) = x
        <3>1. PICK j \in 1..Len(ChunksOf(x)) : c = <<x[1], x[2], j>>
            BY <1>1, <2>1, <2>2, ListedFacts
        <3>2. RowOf(c) = <<x[1], x[2]>>
            BY <3>1 DEF RowOf
        <3> QED
            BY <1>1, <2>1, <3>2, RowFacts
    <2> QED
        BY <1>4, <1>6, <2>1, <2>2, <2>3 DEF Due
<1> QED
    BY <1>5, <1>6

-----------------------------------------------------------------------------
(* What a reply holds. *)

\* The reply to a Series request is its series, joined.
LEMMA Replied ==
    ASSUME TypesInv, ServingInv, AnsweredSeries
    PROVE  /\ request \in Requests /\ step = "answered"
           /\ RowsInv /\ SentInv /\ LeftInv /\ LossInv /\ Exhausted
           /\ series \in Seq(Sent(blocks)) /\ Received = series /\ answer.warnings = warnings
           /\ DOMAIN Received = 1..Len(series) /\ Len(series) \in Nat
<1>1. step = "answered" /\ request \in Requests
    BY DEF TypesInv, AnsweredSeries
<1>2. Serving
    BY <1>1 DEF Serving, AnsweredSeries
<1>3. RowsInv /\ SentInv /\ LeftInv /\ LossInv /\ SentOff
    BY <1>2 DEF ServingInv
<1>4. answer = Answered("ok", Batches(series, BatchSize), warnings, <<>>) /\ Exhausted
    BY <1>1, <1>3 DEF SentOff
<1>5. answer.messages = Batches(series, BatchSize) /\ answer.warnings = warnings
    BY <1>4 DEF Answered
<1>6. BatchSize \in Nat \ {0}
    <2>1. request.batch \in Int
        BY <1>1, RequestsAssumption
    <2> QED
        BY <2>1 DEF BatchSize
<1>7. series \in Seq(Sent(blocks))
    BY DEF TypesInv
<1>8. Received = series
    BY <1>5, <1>6, <1>7, BatchesJoin DEF Received
<1>9. DOMAIN series = 1..Len(series) /\ Len(series) \in Nat
    BY <1>7, LenProperties
<1> QED
    BY <1>1, <1>3, <1>4, <1>5, <1>7, <1>8, <1>9

\* The chunks of the reply are those of its series.
LEMMA RepliedChunks ==
    ASSUME TypesInv, ServingInv, AnsweredSeries
    PROVE  /\ [i \in DOMAIN Received |-> Received[i].chunks] \in Seq(Seq(NamesOf(blocks)))
           /\ Len([i \in DOMAIN Received |-> Received[i].chunks]) = Len(series)
           /\ \A i \in 1..Len(series) : /\ [k \in DOMAIN Received |-> Received[k].chunks][i] = series[i].chunks
                                        /\ series[i].row \in RowsOf(blocks) /\ series[i].chunks \in Seq(NamesOf(blocks))
           /\ ReceivedChunks \in Seq(NamesOf(blocks))
           /\ ToSet(ReceivedChunks) = UNION {ToSet(series[i].chunks) : i \in 1..Len(series)}
           /\ /\ \A i \in 1..Len(series) : Once(series[i].chunks)
              /\ \A i, j \in 1..Len(series) : i # j => ToSet(series[i].chunks) \cap ToSet(series[j].chunks) = {}
              => Once(ReceivedChunks)
           /\ (\A i \in 1..Len(series) : series[i].chunks = <<>>) => ReceivedChunks = <<>>
<1> DEFINE n == Len(series)
           lists == [i \in DOMAIN Received |-> Received[i].chunks]
<1>1. n \in Nat /\ Received = series /\ DOMAIN Received = 1..n /\ series \in Seq(Sent(blocks))
    BY Replied
<1>2. \A i \in 1..n : series[i] \in Sent(blocks)
    BY <1>1, ElementOfSeq
<1>3. \A i \in 1..n : series[i].row \in RowsOf(blocks) /\ series[i].chunks \in Seq(NamesOf(blocks))
    BY <1>2 DEF Sent
<1>4. ReceivedChunks = FlattenSeq(lists)
    BY DEF ReceivedChunks
<1>5. lists = [i \in 1..n |-> series[i].chunks]
    BY <1>1
<1> HIDE DEF n, lists
<1>6. lists \in [1..n -> Seq(NamesOf(blocks))]
    BY <1>3, <1>5
<1>7. lists \in Seq(Seq(NamesOf(blocks))) /\ Len(lists) = n
    BY <1>1, <1>6
<1>8. \A i \in 1..n : lists[i] = series[i].chunks
    BY <1>5
<1>9. /\ FlattenSeq(lists) \in Seq(NamesOf(blocks))
      /\ ToSet(FlattenSeq(lists)) = UNION {ToSet(lists[i]) : i \in 1..n}
      /\ /\ \A i \in 1..n : Once(lists[i])
         /\ \A i, j \in 1..n : i # j => ToSet(lists[i]) \cap ToSet(lists[j]) = {}
         => Once(FlattenSeq(lists))
      /\ (\A i \in 1..n : lists[i] = <<>>) => FlattenSeq(lists) = <<>>
    BY <1>7, Flattened
<1>10. ToSet(FlattenSeq(lists)) = UNION {ToSet(series[i].chunks) : i \in 1..n}
    BY <1>8, <1>9
<1>11. /\ \A i \in 1..n : Once(series[i].chunks)
       /\ \A i, j \in 1..n : i # j => ToSet(series[i].chunks) \cap ToSet(series[j].chunks) = {}
       => Once(FlattenSeq(lists))
    BY <1>8, <1>9
<1>12. (\A i \in 1..n : series[i].chunks = <<>>) => FlattenSeq(lists) = <<>>
    BY <1>8, <1>9
<1> QED
    BY <1>3, <1>4, <1>7, <1>8, <1>9, <1>10, <1>11, <1>12 DEF n, lists

\* The chunks of a series of the reply are owed, and none is in another series.
LEMMA RepliedOwed ==
    ASSUME Findable, TypesInv, ServingInv, AnsweredSeries, NEW i \in 1..Len(series)
    PROVE  /\ ToSet(series[i].chunks) \subseteq Owed
           /\ \A c \in ToSet(series[i].chunks) : RowOf(c) = series[i].row
           /\ Once(series[i].chunks)
<1>1. /\ request \in Requests /\ SentInv
    BY Replied
<1>2. /\ series[i].row \in Matched(blocks, request) /\ Selected(request, series[i].row)
      /\ series[i].chunks \in Seq(Due(series[i].row, request)) /\ InOrder(series[i].chunks)
    BY <1>1 DEF SentInv, Finished
<1>3. ToSet(series[i].chunks) \subseteq Due(series[i].row, request)
    BY <1>2, Elements
<1>4. \A c \in Due(series[i].row, request) : c \in Owed /\ RowOf(c) = series[i].row
    BY <1>1, <1>2, OwedFacts
<1> DEFINE cs == series[i].chunks
<1>5. Len(cs) \in Nat /\ \A j, k \in 1..Len(cs) : j < k => cs[j][3] < cs[k][3]
    BY <1>2, LenProperties DEF InOrder
<1>6. blocks \in SUBSET DOMAIN Catalogue /\ series[i].row \in RowsOf(blocks)
    BY <1>2, MatchedRows
<1>7. \A j \in 1..Len(cs) : cs[j][3] \in Nat
    <2> TAKE j \in 1..Len(cs)
    <2>1. cs[j] \in Due(series[i].row, request)
        BY <1>2, ElementOfSeq
    <2>2. cs[j] \in ToSet(Listed(series[i].row))
        BY <2>1 DEF Due
    <2> DEFINE x == series[i].row
    <2> HIDE DEF x, cs
    <2>3. PICK at \in 1..Len(ChunksOf(x)) : cs[j] = <<x[1], x[2], at>>
        <3>1. x \in RowsOf(blocks) /\ cs[j] \in ToSet(Listed(x))
            BY <1>6, <2>2 DEF x, cs
        <3>2. ToSet(Listed(x)) = {<<x[1], x[2], at>> : at \in 1..Len(ChunksOf(x))}
            BY ONLY <1>6, <3>1, ListedFacts
        <3> QED
            BY ONLY <3>1, <3>2
    <2>4. Len(ChunksOf(x)) \in Nat
        BY <1>6, ListedFacts DEF x
    <2> QED
        BY <2>3, <2>4
<1> HIDE DEF cs
<1>8. Once(cs)
    <2> SUFFICES ASSUME NEW j \in 1..Len(cs), NEW k \in 1..Len(cs), j < k, cs[j] = cs[k] PROVE FALSE
        BY <1>5 DEF Once
    <2> QED
        BY <1>5, <1>7
<1> QED
    BY <1>3, <1>4, <1>8 DEF cs

\* README, StoreAPI (ReplyIsComplete): a reply holds the chunks its client is
\* owed and no other, each once, but for those it warns about and those of the
\* series that the limit leaves out.
LEMMA ReplyComplete == Findable /\ TypesInv /\ ServingInv => ReplyIsComplete
<1> SUFFICES ASSUME Findable, TypesInv, ServingInv, AnsweredSeries, ~request.skipChunks
             PROVE  /\ ToSet(ReceivedChunks) \subseteq Owed
                    /\ Len(ReceivedChunks) = Cardinality(ToSet(ReceivedChunks))
                    /\ LimitReached(request, Len(Received))
                       \/ Owed \subseteq ToSet(ReceivedChunks) \cup ToSet(answer.warnings)
    BY DEF ReplyIsComplete
<1> DEFINE n == Len(series)
<1>1. /\ request \in Requests /\ step = "answered" /\ SentInv /\ LeftInv /\ LossInv /\ Exhausted
      /\ Received = series /\ answer.warnings = warnings
    BY Replied
<1>2. /\ ReceivedChunks \in Seq(NamesOf(blocks))
      /\ ToSet(ReceivedChunks) = UNION {ToSet(series[i].chunks) : i \in 1..n}
      /\ /\ \A i \in 1..n : Once(series[i].chunks)
         /\ \A i, j \in 1..n : i # j => ToSet(series[i].chunks) \cap ToSet(series[j].chunks) = {}
         => Once(ReceivedChunks)
    BY RepliedChunks
<1>3. \A i \in 1..n : /\ ToSet(series[i].chunks) \subseteq Owed /\ Once(series[i].chunks)
                      /\ \A c \in ToSet(series[i].chunks) : RowOf(c) = series[i].row
    BY RepliedOwed
<1>4. ToSet(ReceivedChunks) \subseteq Owed
    BY <1>2, <1>3
<1>5. \A i, j \in 1..n : series[i].row = series[j].row => i = j
    BY <1>1 DEF SentInv
<1> HIDE DEF n
<1>6. \A i, j \in 1..n : i # j => ToSet(series[i].chunks) \cap ToSet(series[j].chunks) = {}
    BY <1>3, <1>5
<1>7. Len(ReceivedChunks) = Cardinality(ToSet(ReceivedChunks))
    <2>1. Once(ReceivedChunks)
        BY <1>2, <1>3, <1>6
    <2> QED
        BY <1>2, <2>1, OnceCounted
<1>8. ASSUME ~LimitReached(request, Len(series))
      PROVE  Owed \subseteq ToSet(ReceivedChunks) \cup ToSet(warnings)
    <2> SUFFICES ASSUME NEW c \in Owed PROVE c \in ToSet(ReceivedChunks) \cup unread
        BY <1>1 DEF LossInv
    <2>1. rows = <<>> /\ ToSet(rows) = {}
        BY <1>1, <1>8 DEF Exhausted, ToSet
    <2> DEFINE x == RowOf(c)
    <2>2. x \in Matched(blocks, request) /\ Selected(request, x) /\ c \in Due(x, request)
        BY <1>1, OwedFacts
    <2> HIDE DEF x
    <2>3. Finished(x)
        BY <1>1, <2>1, <2>2 DEF Finished
    <2>4. CASE Due(x, request) \subseteq unread
        BY <2>2, <2>4
    <2>5. CASE \E i \in 1..n : series[i].row = x
        <3>1. PICK i \in 1..n : series[i].row = x
            BY <2>5
        <3>2. Due(x, request) \subseteq ToSet(series[i].chunks) \cup unread
            BY <1>1, <3>1 DEF SentInv, n
        <3> QED
            BY <1>2, <2>2, <3>2
    <2> QED
        BY <1>1, <2>2, <2>3, <2>4, <2>5 DEF LeftInv, n
<1> QED
    BY <1>1, <1>4, <1>7, <1>8

\* series (PartsAreWhole): a row of the reply has all its chunks, in order.
LEMMA PartsWhole == Findable /\ TypesInv /\ ServingInv => PartsAreWhole
<1> SUFFICES ASSUME Findable, TypesInv, ServingInv, AnsweredSeries, ~request.skipChunks,
                    NEW i \in DOMAIN Received
             PROVE  LET x == Received[i].row
                        sent == Received[i].chunks
                    IN  /\ \A c \in Owed : <<c[1], c[2]>> = x => c \in ToSet(sent) \cup ToSet(answer.warnings)
                        /\ \A j, k \in DOMAIN sent : j < k => ChunkAt(sent[j]).max < ChunkAt(sent[k]).min
    BY DEF PartsAreWhole
<1> DEFINE x == series[i].row
           sent == series[i].chunks
<1>1. /\ request \in Requests /\ SentInv /\ LossInv
      /\ Received = series /\ answer.warnings = warnings /\ i \in 1..Len(series)
    BY Replied
<1>2. /\ x \in Matched(blocks, request) /\ sent \in Seq(Due(x, request)) /\ InOrder(sent)
      /\ Due(x, request) \subseteq ToSet(sent) \cup unread
    BY <1>1 DEF SentInv, Finished
<1>3. \A c \in Owed : <<c[1], c[2]>> = x => c \in ToSet(sent) \cup ToSet(warnings)
    BY <1>1, <1>2, OwedFacts DEF RowOf, LossInv
<1>4. blocks \in SUBSET DOMAIN Catalogue /\ x \in RowsOf(blocks)
    BY <1>2, MatchedRows
<1> HIDE DEF x, sent
<1>5. DOMAIN sent = 1..Len(sent) /\ \A j \in DOMAIN sent : sent[j] \in Due(x, request)
    BY <1>2, LenProperties, ElementOfSeq
<1>6. \A j \in DOMAIN sent : sent[j][3] \in 1..Len(ChunksOf(x)) /\ ChunkAt(sent[j]) = ChunksOf(x)[sent[j][3]]
    <2> TAKE j \in DOMAIN sent
    <2>1. sent[j] \in ToSet(Listed(x))
        BY <1>5 DEF Due
    <2>2. PICK at \in 1..Len(ChunksOf(x)) : sent[j] = <<x[1], x[2], at>>
        BY <1>4, <2>1, ListedFacts
    <2>3. x = <<x[1], x[2]>>
        BY <1>4, RowFacts
    <2> QED
        BY <2>2, <2>3 DEF ChunkAt
<1>7. \A j, k \in DOMAIN sent : j < k => ChunkAt(sent[j]).max < ChunkAt(sent[k]).min
    <2> SUFFICES ASSUME NEW j \in DOMAIN sent, NEW k \in DOMAIN sent, j < k
                 PROVE  ChunkAt(sent[j]).max < ChunkAt(sent[k]).min
        OBVIOUS
    <2>1. sent[j][3] < sent[k][3]
        BY <1>2, <1>5 DEF InOrder
    <2>2. \A a, b \in 1..Len(ChunksOf(x)) : a < b => ChunksOf(x)[a].max < ChunksOf(x)[b].min
        BY <1>4, ChunkTimes
    <2> QED
        BY <1>6, <2>1, <2>2
<1> QED
    BY <1>1, <1>3, <1>7 DEF x, sent

\* series (LossIsReported): what could not be read is warned about, once, and
\* a client that forbids partial responses gets no reply with a hole.
LEMMA LossReported == TypesInv /\ ServingInv => LossIsReported
<1> SUFFICES ASSUME TypesInv, ServingInv, AnsweredSeries
             PROVE  /\ ToSet(answer.warnings) = unread /\ Len(answer.warnings) = Cardinality(unread)
                    /\ request.disabled \/ request.strategy = "abort" => unread = {}
    BY DEF LossIsReported
<1>1. LossInv /\ answer.warnings = warnings
    BY Replied
<1>2. warnings \in Seq(NamesOf(blocks))
    BY DEF TypesInv
<1>3. ToSet(warnings) = unread /\ Once(warnings)
    BY <1>1 DEF LossInv
<1>4. Len(warnings) = Cardinality(unread)
    BY <1>2, <1>3, OnceCounted
<1> QED
    BY <1>1, <1>3, <1>4 DEF LossInv, AbortsOnError

\* rpc.proto (SkippedChunksSkipNoSeries): a reply without chunks names every
\* row a reply with chunks could, each once, and keeps the limit.
LEMMA SkippedChunks == Findable /\ TypesInv /\ ServingInv => SkippedChunksSkipNoSeries
<1> SUFFICES ASSUME Findable, TypesInv, ServingInv, AnsweredSeries
             PROVE  /\ request.limit > 0 => Len(Received) <= request.limit
                    /\ Len(Received) = Cardinality(ReceivedRows)
                    /\ request.skipChunks =>
                          /\ ReceivedChunks = <<>> /\ unread = {}
                          /\ LimitReached(request, Len(Received))
                             \/ {<<c[1], c[2]>> : c \in Owed} \subseteq ReceivedRows
    BY DEF SkippedChunksSkipNoSeries
<1> DEFINE n == Len(series)
           named == [i \in 1..n |-> series[i].row]
<1>1. /\ request \in Requests /\ step = "answered" /\ SentInv /\ LeftInv /\ LossInv /\ Exhausted
      /\ Received = series /\ DOMAIN Received = 1..n /\ n \in Nat
    BY Replied
<1>2. \A i \in 1..n : series[i].row \in RowsOf(blocks)
    BY RepliedChunks
<1>3. \A i, j \in 1..n : series[i].row = series[j].row => i = j
    BY <1>1 DEF SentInv
<1>4. ReceivedRows = {series[i].row : i \in 1..n}
    BY <1>1 DEF ReceivedRows
<1>5. request.limit > 0 => n <= request.limit
    BY <1>1 DEF SentInv
<1>6. n = Cardinality(ReceivedRows)
    <2> HIDE DEF n
    <2>1. named \in [1..n -> RowsOf(blocks)]
        BY <1>2
    <2>2. named \in Seq(RowsOf(blocks)) /\ Len(named) = n
        BY <1>1, <2>1
    <2>3. Once(named)
        BY <1>3, <2>2 DEF Once
    <2>4. ToSet(named) = ReceivedRows
        BY <1>4 DEF ToSet
    <2> HIDE DEF named
    <2> QED
        BY <2>2, <2>3, <2>4, OnceCounted
<1>7. ASSUME request.skipChunks
      PROVE  /\ ReceivedChunks = <<>> /\ unread = {}
             /\ LimitReached(request, n) \/ {<<c[1], c[2]>> : c \in Owed} \subseteq ReceivedRows
    <2>1. unread = {}
        BY <1>1, <1>7 DEF LossInv
    <2>2. \A i \in 1..n : series[i].chunks = <<>>
        BY <1>1, <1>7 DEF SentInv
    <2>3. ReceivedChunks = <<>>
        BY <2>2, RepliedChunks
    <2>4. ASSUME ~LimitReached(request, n), NEW c \in Owed PROVE <<c[1], c[2]>> \in ReceivedRows
        <3>1. rows = <<>> /\ ToSet(rows) = {}
            BY <1>1, <2>4 DEF Exhausted, ToSet
        <3> DEFINE x == RowOf(c)
        <3>2. x \in Matched(blocks, request) /\ Selected(request, x)
            BY <1>1, OwedFacts
        <3> HIDE DEF x
        <3>3. Finished(x)
            BY <1>1, <3>1, <3>2 DEF Finished
        <3>4. \E i \in 1..n : series[i].row = x
            BY <1>1, <1>7, <3>2, <3>3 DEF LeftInv
        <3> QED
            BY <1>4, <3>4 DEF x, RowOf
    <2> QED
        BY <2>1, <2>3, <2>4
<1> QED
    BY <1>1, <1>5, <1>6, <1>7

\* README, StoreAPI (ReplyIsComplete): a reply holds what its client is owed and
\* nothing else, each chunk once, but for what it warns about and what the
\* limit leaves out.
THEOREM RepliesAreComplete ==
    ASSUME Findable
    PROVE  Spec => []ReplyIsComplete
BY ReplyComplete, ServingInvariance, PTL

\* series (PartsAreWhole): no limit, batch boundary or failed read cuts what one
\* block holds of a series, and its chunks follow each other in time.
THEOREM SentPartsAreWhole ==
    ASSUME Findable
    PROVE  Spec => []PartsAreWhole
BY PartsWhole, ServingInvariance, PTL

\* rpc.proto (SkippedChunksSkipNoSeries): a reply without chunks names every
\* row that one with chunks could, each once, and keeps the limit.
THEOREM SkippedChunksHideNothing ==
    ASSUME Findable
    PROVE  Spec => []SkippedChunksSkipNoSeries
BY SkippedChunks, ServingInvariance, PTL

\* series (LossIsReported): every chunk that could not be read is warned about,
\* once, and a client that forbids partial responses gets no reply with a hole.
THEOREM LossesAreReported == Spec => []LossIsReported
BY LossReported, ServingInvariance, PTL

-----------------------------------------------------------------------------
(* Sorted sets of numbers. *)

\* A finite set of numbers can be put in order.
LEMMA CanBeSorted ==
    ASSUME NEW S \in SUBSET Int, IsFiniteSet(S)
    PROVE  \E s \in SetToSeqs(S) : \A i, j \in DOMAIN s : i < j => s[i] < s[j]
<1> DEFINE n == Cardinality(S)
           upTo(x) == {y \in S : y <= x}
           rank == [x \in S |-> Cardinality(upTo(x))]
<1>1. n \in Nat /\ Cardinality(1..n) = n /\ IsFiniteSet(1..n)
    BY FS_CardinalityType, FS_Interval
<1>2. ASSUME NEW x \in S PROVE rank[x] \in 1..n
    <2>1. IsFiniteSet(upTo(x)) /\ Cardinality(upTo(x)) <= n
        BY FS_Subset
    <2>2. x \in upTo(x)
        OBVIOUS
    <2>3. Cardinality(upTo(x)) \in Nat /\ Cardinality(upTo(x)) # 0
        BY <2>1, <2>2, FS_CardinalityType, FS_EmptySet
    <2> QED
        BY <1>1, <2>1, <2>3
<1>3. ASSUME NEW x \in S, NEW y \in S, x < y PROVE rank[x] < rank[y]
    <2>1. IsFiniteSet(upTo(y))
        BY FS_Subset
    <2>2. upTo(x) \in SUBSET upTo(y)
        <3>1. \A z \in S : z \in Int /\ x \in Int /\ y \in Int
            OBVIOUS
        <3>2. \A z \in S : z <= x => z <= y
            BY <1>3, <3>1
        <3> QED
            BY <3>2
    <2>3. y \in upTo(y) /\ y \notin upTo(x)
        BY <1>3
    <2>4. upTo(x) # upTo(y)
        BY <2>3
    <2>5. Cardinality(upTo(x)) <= Cardinality(upTo(y)) /\ Cardinality(upTo(x)) # Cardinality(upTo(y))
        <3> HIDE DEF upTo
        <3> QED
            BY <2>1, <2>2, <2>4, FS_Subset
    <2>6. rank[x] \in 1..n /\ rank[y] \in 1..n /\ rank[x] <= rank[y] /\ rank[x] # rank[y]
        BY <1>2, <2>5
    <2> HIDE DEF rank, upTo
    <2> QED
        BY <1>1, <2>6
<1>4. rank \in [S -> 1..n]
    BY <1>2
<1> HIDE DEF n, rank
<1>5. rank \in Injection(S, 1..n)
    <2>1. ASSUME NEW x \in S, NEW y \in S, rank[x] = rank[y] PROVE x = y
        <3>1. ~(x < y)
            BY <1>1, <1>2, <1>3, <2>1
        <3>2. ~(y < x)
            BY <1>1, <1>2, <1>3, <2>1
        <3> QED
            BY <3>1, <3>2
    <2> QED
        BY <1>4, <2>1 DEF Injection, IsInjective
<1>6. rank \in Surjection(S, 1..n)
    BY <1>1, <1>5, FS_Injection DEF n
<1> DEFINE s == [k \in 1..n |-> CHOOSE x \in S : rank[x] = k]
<1>7. \A k \in 1..n : s[k] \in S /\ rank[s[k]] = k
    <2> TAKE k \in 1..n
    <2>1. \E x \in S : rank[x] = k
        BY <1>6 DEF Surjection
    <2> QED
        BY <2>1
<1> HIDE DEF s
<1>8. s \in SetToSeqs(S)
    <2>1. s \in [1..n -> S]
        BY <1>7 DEF s
    <2>2. \A i, j \in 1..n : i # j => s[i] # s[j]
        BY <1>7
    <2> QED
        BY <2>1, <2>2 DEF SetToSeqs, n
<1>9. ASSUME NEW i \in 1..n, NEW j \in 1..n, i < j PROVE s[i] < s[j]
    <2>1. s[i] \in S /\ s[j] \in S /\ rank[s[i]] = i /\ rank[s[j]] = j
        BY <1>7
    <2>2. s[i] # s[j] /\ ~(s[j] < s[i])
        <3>1. i \in Int /\ j \in Int /\ ~(j < i) /\ i # j
            BY <1>1, <1>9
        <3> QED
            BY <1>3, <2>1, <3>1
    <2>3. s[i] \in Int /\ s[j] \in Int
        BY <2>1
    <2> QED
        BY ONLY <2>2, <2>3
<1>10. DOMAIN s = 1..n
    BY DEF s
<1> QED
    BY <1>8, <1>9, <1>10

\* What a BTreeSet yields.
LEMMA AscendingFacts ==
    ASSUME NEW S \in SUBSET Int, IsFiniteSet(S)
    PROVE  /\ Ascending(S) \in Seq(S) /\ ToSet(Ascending(S)) = S
           /\ Len(Ascending(S)) = Cardinality(S) /\ Cardinality(S) \in Nat
           /\ \A i, j \in 1..Len(Ascending(S)) : i < j => Ascending(S)[i] < Ascending(S)[j]
<1>1. /\ Ascending(S) \in SetToSeqs(S)
      /\ \A i, j \in DOMAIN Ascending(S) : i < j => Ascending(S)[i] < Ascending(S)[j]
    BY CanBeSorted, Zenon DEF Ascending
<1> HIDE DEF Ascending
<1> QED
    BY <1>1, InSequence, FS_CardinalityType

\* The least and the greatest of a finite set of numbers.
LEMMA Extremes ==
    ASSUME NEW S \in SUBSET Int, IsFiniteSet(S), S # {}
    PROVE  /\ Min(S) \in S /\ \A y \in S : Min(S) <= y
           /\ Max(S) \in S /\ \A y \in S : Max(S) >= y
<1> DEFINE s == Ascending(S)
           n == Len(s)
<1>1. /\ n \in Nat /\ S = {s[i] : i \in 1..n}
      /\ \A i, j \in 1..n : i < j => s[i] < s[j]
    BY AscendingFacts, Elements
<1> HIDE DEF s, n
<1>2. 1 \in 1..n /\ n \in 1..n
    BY <1>1
<1>3. \A i \in 1..n : s[i] \in Int
    BY <1>1
<1>4. s[1] \in S /\ \A y \in S : s[1] <= y
    <2> SUFFICES ASSUME NEW i \in 1..n PROVE s[1] <= s[i]
        BY <1>1, <1>2
    <2>1. i = 1 \/ s[1] < s[i]
        BY <1>1, <1>2
    <2> QED
        BY <1>2, <1>3, <2>1
<1>5. s[n] \in S /\ \A y \in S : s[n] >= y
    <2> SUFFICES ASSUME NEW i \in 1..n PROVE s[n] >= s[i]
        BY <1>1, <1>2
    <2>1. i = n \/ s[i] < s[n]
        BY <1>1, <1>2
    <2> QED
        BY <1>2, <1>3, <2>1
<1>6. Min(S) \in S /\ \A y \in S : Min(S) <= y
    BY <1>4, Zenon DEF Min
<1>7. Max(S) \in S /\ \A y \in S : Max(S) >= y
    BY <1>5, Zenon DEF Max
<1> QED
    BY <1>6, <1>7

-----------------------------------------------------------------------------
(* Info. *)

\* info_response (InfoCoversReply): a chunk that is sent lies within an entry of
\* the advertised label sets, whose labels its series carries.
LEMMA InfoCovers == TypesInv /\ ServingInv => InfoCoversReply
<1> SUFFICES ASSUME TypesInv, ServingInv, AnsweredSeries, NEW i \in DOMAIN ReceivedChunks
             PROVE  LET c == ReceivedChunks[i]
                        labels == LabelsOf(<<c[1], c[2]>>)
                    IN  \E info \in TsdbInfos :
                            /\ \A n \in LabelName : info.labels[n] \in {Missing, labels[n]}
                            /\ info.min <= ChunkAt(c).min /\ ChunkAt(c).max < info.max
    BY DEF InfoCoversReply
<1> DEFINE c == ReceivedChunks[i]
           x == RowOf(c)
           b == x[1]
           mins == {Catalogue[d].min : d \in SameLabels(b)}
           maxs == {Catalogue[d].max : d \in SameLabels(b)}
           info == [labels |-> Catalogue[b].external, min |-> Min(mins), max |-> Max(maxs)]
<1>1. blocks \in SUBSET DOMAIN Catalogue
    BY MatchedRows
<1>2. c \in NamesOf(blocks)
    BY RepliedChunks, LenProperties, ElementOfSeq
<1> HIDE DEF c
<1>3. x \in RowsOf(blocks) /\ c \in ToSet(Listed(x))
    BY <1>1, <1>2, NameFacts
<1> HIDE DEF x
<1>4. PICK j \in 1..Len(ChunksOf(x)) : c = <<x[1], x[2], j>>
    BY <1>1, <1>3, ListedFacts
<1>5. /\ ChunkAt(c) = ChunksOf(x)[j] /\ <<c[1], c[2]>> = x
      /\ b \in blocks /\ b \in DOMAIN Catalogue /\ x[2] \in DOMAIN Catalogue[b].series
    <2>1. x = <<x[1], x[2]>> /\ b \in blocks /\ x[2] \in DOMAIN Catalogue[b].series
        BY <1>1, <1>3, RowFacts
    <2>2. ChunkAt(c) = ChunksOf(<<x[1], x[2]>>)[j]
        BY <1>4 DEF ChunkAt
    <2> QED
        BY <1>1, <1>4, <2>1, <2>2
<1>6. /\ ChunkAt(c).min \in Int /\ ChunkAt(c).max \in Int
      /\ Catalogue[b].min <= ChunkAt(c).min /\ ChunkAt(c).max < Catalogue[b].max
    BY <1>1, <1>3, <1>5, ChunkTimes
<1>7. \A d \in blocks : Catalogue[d].min \in Int /\ Catalogue[d].max \in Int
    <2> TAKE d \in blocks
    <2>1. Catalogue[d] \in Block
        BY <1>1, CatalogueAssumption, ElementOfSeq, LenProperties
    <2> QED
        BY <2>1 DEF Block
<1>8. SameLabels(b) \in SUBSET blocks /\ b \in SameLabels(b) /\ IsFiniteSet(SameLabels(b))
    <2>1. SameLabels(b) \in SUBSET blocks /\ b \in SameLabels(b)
        BY <1>5 DEF SameLabels
    <2> QED
        BY <1>1, <2>1, RowsFinite, FS_Subset
<1>9. mins \in SUBSET Int /\ maxs \in SUBSET Int /\ Catalogue[b].min \in mins /\ Catalogue[b].max \in maxs
    BY <1>7, <1>8
<1>10. IsFiniteSet(mins) /\ IsFiniteSet(maxs)
    <2> DEFINE f == [d \in SameLabels(b) |-> Catalogue[d].min]
               g == [d \in SameLabels(b) |-> Catalogue[d].max]
    <2>1. mins = {f[d] : d \in SameLabels(b)} /\ maxs = {g[d] : d \in SameLabels(b)}
        OBVIOUS
    <2>2. /\ DOMAIN f = SameLabels(b) /\ f = [d \in SameLabels(b) |-> f[d]]
          /\ DOMAIN g = SameLabels(b) /\ g = [d \in SameLabels(b) |-> g[d]]
        OBVIOUS
    <2> HIDE DEF f, g, mins, maxs, b
    <2>3. IsFiniteSet({f[d] : d \in SameLabels(b)})
        BY ONLY <1>8, <2>2, FiniteImage
    <2>4. IsFiniteSet({g[d] : d \in SameLabels(b)})
        BY ONLY <1>8, <2>2, FiniteImage
    <2> QED
        BY <2>1, <2>3, <2>4
<1>11. /\ Min(mins) \in Int /\ Min(mins) <= Catalogue[b].min
       /\ Max(maxs) \in Int /\ Catalogue[b].max <= Max(maxs)
    <2> HIDE DEF mins, maxs, b
    <2>1. Min(mins) \in mins /\ Min(mins) <= Catalogue[b].min
        BY <1>9, <1>10, Extremes
    <2>2. Max(maxs) \in maxs /\ Max(maxs) >= Catalogue[b].max
        BY <1>9, <1>10, Extremes
    <2> QED
        BY <1>9, <2>1, <2>2
<1>12. info \in TsdbInfos
    BY <1>5 DEF TsdbInfos
<1>13. info.labels = Catalogue[b].external /\ info.min = Min(mins) /\ info.max = Max(maxs)
    OBVIOUS
<1> HIDE DEF mins, maxs, info
<1>14. info.min <= ChunkAt(c).min /\ ChunkAt(c).max < info.max
    <2>1. Catalogue[b].min \in Int /\ Catalogue[b].max \in Int
        BY <1>5, <1>7
    <2> HIDE DEF b
    <2> QED
        BY <1>6, <1>11, <1>13, <2>1
<1>15. \A n \in LabelName : info.labels[n] \in {Missing, LabelsOf(x)[n]}
    <2> TAKE n \in LabelName
    <2>1. Missing \in {Catalogue[b].series[x[2]].labels[n], Catalogue[b].external[n]}
        BY <1>5, CatalogueAssumption
    <2>2. LabelsOf(x)[n] = IF Catalogue[b].series[x[2]].labels[n] # Missing
                           THEN Catalogue[b].series[x[2]].labels[n] ELSE Catalogue[b].external[n]
        BY DEF LabelsOf
    <2> QED
        BY <1>13, <2>1, <2>2
<1> QED
    BY <1>5, <1>12, <1>14, <1>15 DEF c

\* info_response (InfoCoversReply): every chunk that is sent lies within an
\* advertised entry whose labels its series carries.
THEOREM InfoCoversEveryReply == Spec => []InfoCoversReply
BY InfoCovers, ServingInvariance, PTL

-----------------------------------------------------------------------------
(* Label names and values. *)

\* What a request for labels finds is a finite set of numbers.
LEMMA FoundFacts ==
    ASSUME TypesInv, request \in Requests, Accepted(request), request.api # "Series"
    PROVE  Found(blocks, request) \in SUBSET Nat /\ IsFiniteSet(Found(blocks, request))
<1> DEFINE M == Matched(blocks, request)
<1>1. blocks \in SUBSET DOMAIN Catalogue /\ M \in SUBSET RowsOf(blocks)
    BY MatchedRows
<1>2. IsFiniteSet(M)
    BY <1>1, RowsFinite, FS_Subset
<1>3. request.api \in {"LabelNames", "LabelValues"} /\ request.label \in LabelName \cup {Missing}
    BY RequestsAssumption DEF Apis
<1>4. CASE request.api = "LabelNames"
    <2>1. Found(blocks, request) \in SUBSET LabelName
        BY <1>4 DEF Found
    <2>2. LabelName \in SUBSET Nat /\ IsFiniteSet(LabelName)
        BY CatalogueAssumption, FS_Interval DEF LabelName
    <2> QED
        BY <2>1, <2>2, FS_Subset
<1>5. CASE request.api = "LabelValues"
    <2>1. request.label \in LabelName
        BY <1>3, <1>5 DEF Accepted, NoLabel
    <2> DEFINE f == [x \in M |-> LabelsOf(x)[request.label]]
    <2>2. \A x \in M : f[x] \in Nat
        <3> TAKE x \in M
        <3>1. Catalogue[x[1]] \in Block /\ Catalogue[x[1]].series[x[2]] \in SeriesEntry
            BY <1>1, RowFacts
        <3>2. Catalogue[x[1]].external \in LabelSet /\ Catalogue[x[1]].series[x[2]].labels \in LabelSet
            BY <3>1 DEF Block, SeriesEntry
        <3> QED
            BY <2>1, <3>2 DEF LabelsOf, LabelSet
    <2>3. Found(blocks, request) = {f[x] : x \in M} \ {Missing}
        BY <1>5 DEF Found
    <2>4. DOMAIN f = M /\ f = [x \in M |-> f[x]]
        OBVIOUS
    <2> HIDE DEF M, f
    <2>5. IsFiniteSet({f[x] : x \in M})
        BY ONLY <1>2, <2>4, FiniteImage
    <2> QED
        BY <2>2, <2>3, <2>5, FS_Subset
<1> QED
    BY <1>3, <1>4, <1>5

\* Every answer to a request for labels is what was found, in order, cut.
LEMMA NextListed == TypesInv /\ ServingInv /\ ListedInv /\ [Next]_vars => ListedInv'
<1> SUFFICES ASSUME TypesInv, ServingInv, ListedInv, [Next]_vars,
                    step' = "answered", answer'.status = "ok", request'.api # "Series"
             PROVE  /\ Accepted(request') /\ request'.limit >= 0
                    /\ answer'.list = TakeLimit(Found(blocks', request'), request')
    BY DEF ListedInv
<1>1. MatchingRows(request) = Matched(blocks, request)
    BY SameOperators
<1>2. ASSUME NEW found, step = "received", AnswerLabels(found), found \ {Missing} = Found(blocks, request)
      PROVE  /\ Accepted(request') /\ request'.limit >= 0
             /\ answer'.list = TakeLimit(Found(blocks', request'), request')
    <2>1. request' = request /\ blocks' = blocks /\ Accepted(request)
        BY <1>2 DEF AnswerLabels
    <2>2. request \in Requests
        BY <1>2 DEF TypesInv
    <2>3. answer' = IF request.limit < 0 THEN Refused("invalid argument")
                    ELSE Answered("ok", <<>>, <<>>, TakeLimit(found \ {Missing}, request))
        BY <1>2 DEF AnswerLabels, Reply
    <2>4. ~(request.limit < 0)
        BY <2>3 DEF Refused, Answered
    <2>5. request.limit \in Int
        BY <2>2, RequestsAssumption
    <2>6. answer'.list = TakeLimit(found \ {Missing}, request)
        BY <2>3, <2>4 DEF Answered
    <2> QED
        BY <1>2, <2>1, <2>4, <2>5, <2>6
<1>3. CASE LabelNames
    BY <1>1, <1>2, <1>3 DEF LabelNames, Found
<1>4. CASE LabelValues
    BY <1>1, <1>2, <1>4 DEF LabelValues, Found
<1>5. CASE UNCHANGED vars
    BY <1>5 DEF vars, loopVars, ListedInv
<1>6. CASE Reject
    <2>1. answer' = Refused(IF request.unsupported /\ ~NoLabel(request) THEN "unimplemented"
                                                                        ELSE "invalid argument")
        BY <1>6 DEF Reject, Reply
    <2>2. answer'.status \in {"unimplemented", "invalid argument"}
        BY <2>1 DEF Refused, Answered
    <2> QED
        BY <2>2
<1>7. CASE TableFails
    <2>1. answer' = Refused("internal")
        BY <1>7 DEF TableFails, Reply
    <2>2. answer'.status = "internal"
        BY <2>1 DEF Refused, Answered
    <2> QED
        BY <2>2
<1>8. CASE ReadFails
    <2>1. request' = request /\ step = "chunks"
        BY <1>8 DEF ReadFails
    <2>2. CASE answer' = Refused("internal")
        <3>1. answer'.status = "internal"
            BY <2>2 DEF Refused, Answered
        <3> QED
            BY <3>1
    <2>3. CASE step' = step
        BY <2>1, <2>3
    <2> QED
        BY <1>8, <2>2, <2>3 DEF ReadFails, Reply
<1>9. CASE Send
    <2>1. request' = request /\ step = "rows"
        BY <1>9 DEF Send
    <2>2. request.api = "Series"
        BY <2>1 DEF ServingInv, Serving, RowsInv
    <2> QED
        BY <2>1, <2>2
<1>10. CASE Leave \/ (\E r \in Requests : Arrive(r)) \/ Scan \/ SkipRow \/ TakeRow \/ PassChunk \/ ReadChunk \/ EndRow
    BY <1>10 DEF Leave, Arrive, Scan, SkipRow, TakeRow, PassChunk, ReadChunk, EndRow
<1> QED
    BY <1>3, <1>4, <1>5, <1>6, <1>7, <1>8, <1>9, <1>10 DEF Next

\* What is listed of a set: the first elements, in order, all of them unless
\* the limit is reached.
LEMMA Listing ==
    ASSUME NEW S \in SUBSET Nat, IsFiniteSet(S), NEW r, r.limit \in Nat
    PROVE  LET list == TakeLimit(S, r)
           IN  /\ DOMAIN list = 1..Len(list)
               /\ \A i, j \in DOMAIN list : i < j => list[i] < list[j]
               /\ \A d \in S \ ToSet(list) : LimitReached(r, Len(list)) /\ \A i \in DOMAIN list : list[i] < d
<1> DEFINE all == Ascending(S)
           n == Cardinality(S)
           m == IF LimitReached(r, n) THEN r.limit ELSE n
           list == TakeLimit(S, r)
<1>1. /\ all \in Seq(S) /\ Len(all) = n /\ n \in Nat /\ S = {all[i] : i \in 1..n}
      /\ \A i, j \in 1..n : i < j => all[i] < all[j]
    BY AscendingFacts, Elements
<1>2. list = SubSeq(all, 1, m)
    BY DEF TakeLimit
<1>3. m \in 0..n /\ (m # n => m = r.limit /\ LimitReached(r, m))
    BY <1>1 DEF LimitReached
<1> HIDE DEF list, all, n, m
<1>4. /\ list \in Seq(S) /\ Len(list) = m /\ DOMAIN list = 1..m
      /\ \A i \in 1..m : list[i] = all[i] /\ i \in 1..n
    <2>1. m \in Int /\ \A i \in 1..m : all[i] \in S /\ i \in 1..n
        BY <1>1, <1>3, ElementOfSeq
    <2>2. /\ list \in Seq(S) /\ Len(list) = (IF 1 <= m THEN m - 1 + 1 ELSE 0)
          /\ \A i \in 1..(m - 1 + 1) : list[i] = all[1 + i - 1]
        BY <1>2, <2>1, SubSeqProperties
    <2>3. Len(list) = m
        BY <1>1, <1>3, <2>2
    <2>4. DOMAIN list = 1..m
        BY <2>2, <2>3, LenProperties
    <2>5. \A i \in 1..m : i \in 1..(m - 1 + 1) /\ 1 + i - 1 = i
        BY <2>1
    <2> QED
        BY <2>1, <2>2, <2>3, <2>4, <2>5
<1>5. \A i, j \in DOMAIN list : i < j => list[i] < list[j]
    BY <1>1, <1>4
<1>6. ASSUME NEW d \in S, d \notin ToSet(list)
      PROVE  LimitReached(r, Len(list)) /\ \A i \in DOMAIN list : list[i] < d
    <2>1. PICK k \in 1..n : d = all[k]
        BY <1>1
    <2>2. ~(k \in 1..m)
        <3>1. ToSet(list) = {list[i] : i \in 1..m}
            BY <1>4 DEF ToSet
        <3> QED
            BY <1>4, <1>6, <2>1, <3>1
    <2>3. k > m /\ m # n
        BY <1>1, <1>3, <2>2
    <2>4. \A i \in DOMAIN list : list[i] < d
        <3> TAKE i \in DOMAIN list
        <3>1. i \in 1..n /\ i < k /\ list[i] = all[i]
            BY <1>1, <1>3, <1>4, <2>3
        <3> QED
            BY <1>1, <2>1, <3>1
    <2> QED
        BY <1>3, <1>4, <2>3, <2>4
<1> QED
    BY <1>4, <1>5, <1>6 DEF list

\* label_names, label_values (LabelsAreListed): every label of a series with a
\* chunk in the window is listed, in order; under a limit the first ones are.
LEMMA LabelsListed == Findable /\ TypesInv /\ ListedInv => LabelsAreListed
<1> DEFINE kept == {d \in AllChunks : Asked(d, request)
                                         /\ MatchesAll(LabelsOf(<<d[1], d[2]>>), request.matchers)}
           carried == {LabelsOf(<<c[1], c[2]>>) : c \in kept}
           due == IF request.api = "LabelNames"
                  THEN {n \in LabelName : \E labels \in carried : labels[n] # Missing}
                  ELSE {labels[request.label] : labels \in carried} \ {Missing}
           list == answer.list
<1> SUFFICES ASSUME Findable, TypesInv, ListedInv, answer.status = "ok", request.api # "Series"
             PROVE  /\ \A i, j \in DOMAIN list : i < j => list[i] < list[j]
                    /\ \A d \in due \ ToSet(list) :
                          LimitReached(request, Len(list)) /\ \A i \in DOMAIN list : list[i] < d
    BY DEF LabelsAreListed
<1>1. step = "answered" /\ request \in Requests
    BY DEF TypesInv
<1>2. /\ Accepted(request) /\ request.limit >= 0
      /\ list = TakeLimit(Found(blocks, request), request)
    BY <1>1 DEF ListedInv
<1>3. request.limit \in Nat
    BY <1>1, <1>2, RequestsAssumption
<1>4. Found(blocks, request) \in SUBSET Nat /\ IsFiniteSet(Found(blocks, request))
    BY <1>1, <1>2, FoundFacts
<1>5. /\ blocks \in SUBSET DOMAIN Catalogue /\ AllChunks = NamesOf(blocks)
      /\ request.min \in Int /\ request.max \in Int
    BY <1>1, MatchedRows, SameOperators, RequestsAssumption
<1>6. ASSUME NEW c \in kept PROVE RowOf(c) \in Matched(blocks, request)
    <2> DEFINE x == RowOf(c)
    <2>1. c \in NamesOf(blocks) /\ x \in RowsOf(blocks) /\ c \in ToSet(Listed(x))
        BY <1>5, NameFacts
    <2>2. PICK j \in 1..Len(ChunksOf(x)) : c = <<x[1], x[2], j>>
        BY <1>5, <2>1, ListedFacts
    <2>3. ChunkAt(c) = ChunksOf(x)[j]
        BY <2>2 DEF ChunkAt, RowOf
    <2>4. Overlaps(ChunkAt(c).min, ChunkAt(c).max, request.min, request.max)
        BY <1>1, <1>5, <2>1, AskedFacts
    <2>5. Overlaps(RowMin(x), RowMax(x), request.min, request.max)
        BY <1>5, <2>1, <2>3, <2>4, RowOfWindow
    <2>6. MatchesAll(LabelsOf(x), request.matchers)
        BY DEF RowOf
    <2> QED
        BY <1>1, <2>1, <2>5, <2>6 DEF Matched, Findable
<1>7. \A labels \in carried : \E x \in Matched(blocks, request) : labels = LabelsOf(x)
    BY <1>6 DEF RowOf
<1> HIDE DEF carried, list
<1>8. due \subseteq Found(blocks, request)
    <2>1. CASE request.api = "LabelNames"
        <3>1. Missing \notin LabelName
            BY CatalogueAssumption DEF Missing, LabelName
        <3> QED
            BY <1>7, <2>1, <3>1 DEF Found
    <2>2. CASE request.api # "LabelNames"
        BY <1>7, <2>2 DEF Found
    <2> QED
        BY <2>1, <2>2
<1> HIDE DEF due
<1> QED
    BY <1>2, <1>3, <1>4, <1>8, Listing

\* label_names, label_values (LabelsAreListed): every label of a series with a
\* chunk in the window is listed, in order; under a limit the first ones are.
THEOREM LabelsListedInOrder ==
    ASSUME Findable
    PROVE  Spec => []LabelsAreListed
<1>1. Init => ListedInv
    BY DEF Init, ListedInv
<1> QED
    BY <1>1, NextListed, LabelsListed, ServingInvariance, PTL DEF Spec
=============================================================================
