----------------------------- MODULE IndexWalk -----------------------------
(***************************************************************************)
(* The TSDB index parser (tsdb_index.rs, parse_each): check the header,    *)
(* then walk the series section from one aligned offset to the next and    *)
(* hand every series to the caller.                                        *)
(*                                                                         *)
(* A file is the offsets of its sections and a set of series entries; every*)
(* other byte of the series section is a zero, as the padding of Prometheus*)
(* is.  An entry is its place, the sizes of its length field and its body, *)
(* and the integers of the body: references into the symbol table for its  *)
(* labels, and for each chunk a distance from the end of the previous one, *)
(* a duration, and a distance from the previous reference.  A distance in  *)
(* time is unsigned, one of references may be backwards; of the first      *)
(* chunk they are its start, which may lie before the epoch, and its       *)
(* reference.  The header checks (magic, checksums of the TOC and of the   *)
(* symbol table) are one flag, and so is the checksum of an entry.         *)
(***************************************************************************)
EXTENDS Integers, Sequences, FiniteSets

CONSTANTS
    TimeMax,    \* the greatest timestamp, i64::MAX
    ReferenceMax\* the greatest chunk reference, u64::MAX

ASSUME WidthAssumption == TimeMax \in Nat /\ ReferenceMax \in Nat

VARIABLES
    index,      \* the file that is being parsed
    offset,     \* where the walk is
    parsed,     \* the series handed to the caller so far
    walk        \* "idle", "walking", "done" or "failed"

walkVars == <<index, offset, parsed, walk>>

SERIES_ALIGNMENT == 16
CHECKSUM_SIZE == 4

\* Faulty: an offset that is aligned already is moved on.
AlignBeyond(o) == (o \div SERIES_ALIGNMENT + 1) * SERIES_ALIGNMENT
align_series(o) == ((o + (SERIES_ALIGNMENT - 1)) \div SERIES_ALIGNMENT) * SERIES_ALIGNMENT

(* The file. *)

BodyStart(e) == e.at + e.head
ChecksumEnd(e) == BodyStart(e) + e.size + CHECKSUM_SIZE
Covers(e, o) == e.at <= o /\ o < ChecksumEnd(e)
IsZero(o) == ~\E e \in index.entries : Covers(e, o)

\* Toc::parse and parse_symbols succeed.
TablesSound(f) == f.sound
ChunkMetas == [delta : Int, duration : Nat, step : Int]
IsIndex(f) ==
    /\ f.start \in Nat /\ f.end \in Nat
    /\ \A e \in f.entries :
          /\ e.at \in Nat /\ e.head \in Nat \ {0} /\ e.size \in Nat
          /\ e.chunks \in Seq(ChunkMetas)
          /\ \A i \in DOMAIN e.chunks : IF i = 1 THEN e.chunks[i].step \in Nat ELSE e.chunks[i].delta \in Nat
HeaderOk(f) == TablesSound(f) /\ f.version \in 1..2 /\ f.start <= f.end /\ f.end <= f.toc

(* An entry. *)

\* Symbols are counted from zero.
symbol(f, reference) == f.symbols[reference + 1]
IsSymbol(f, reference) == reference + 1 \in DOMAIN f.symbols

LabelNames(f, e) == {symbol(f, e.labels[i][1]) : i \in DOMAIN e.labels}
LabelsParse(f, e) ==
    /\ \A i \in DOMAIN e.labels : IsSymbol(f, e.labels[i][1]) /\ IsSymbol(f, e.labels[i][2])
    /\ \A i, j \in DOMAIN e.labels :
          symbol(f, e.labels[i][1]) = symbol(f, e.labels[j][1]) => i = j
Labels(f, e) ==
    [name \in LabelNames(f, e) |->
        symbol(f, (CHOOSE l \in {e.labels[i] : i \in DOMAIN e.labels} : symbol(f, l[1]) = name)[2])]

\* Faulty: times wrap around instead of ending the parser.
Wrapped(t) == ((t + TimeMax + 1) % (2 * (TimeMax + 1))) - TimeMax - 1
ChunksWrapping(e) ==
    LET at[i \in 1..Len(e.chunks)] ==
            LET c == e.chunks[i]
                mint == Wrapped(IF i = 1 THEN c.delta ELSE at[i - 1].maxt + c.delta)
            IN  [mint |-> mint, maxt |-> Wrapped(mint + c.duration),
                 reference |-> IF i = 1 THEN c.step ELSE at[i - 1].reference + c.step]
    IN  [i \in 1..Len(e.chunks) |-> at[i]]

Chunks(e) ==
    LET at[i \in 1..Len(e.chunks)] ==
            LET c == e.chunks[i]
                mint == IF i = 1 THEN c.delta ELSE at[i - 1].maxt + c.delta
            IN  [mint |-> mint, maxt |-> mint + c.duration,
                 reference |-> IF i = 1 THEN c.step ELSE at[i - 1].reference + c.step]
    IN  [i \in 1..Len(e.chunks) |-> at[i]]

\* Faulty: references may repeat.
ChunksParseLoosely(e) ==
    \A i \in DOMAIN e.chunks :
        /\ e.chunks[i].delta <= TimeMax /\ e.chunks[i].duration <= TimeMax
        /\ Chunks(e)[i].mint <= TimeMax /\ Chunks(e)[i].maxt <= TimeMax
        /\ Chunks(e)[i].reference \in 0..ReferenceMax
        /\ i > 1 => Chunks(e)[i - 1].maxt <= Chunks(e)[i].mint

ChunksParse(e) ==
    \A i \in DOMAIN e.chunks :
        /\ e.chunks[i].delta <= TimeMax /\ e.chunks[i].duration <= TimeMax
        /\ Chunks(e)[i].mint <= TimeMax /\ Chunks(e)[i].maxt <= TimeMax
        /\ Chunks(e)[i].reference \in 0..ReferenceMax
        /\ i > 1 => /\ Chunks(e)[i - 1].maxt <= Chunks(e)[i].mint
                    /\ Chunks(e)[i - 1].reference < Chunks(e)[i].reference

verify_crc(e) == e.sound

\* `rest': bytes of the body after the last chunk.
SeriesParses(f, e) == verify_crc(e) /\ LabelsParse(f, e) /\ ChunksParse(e) /\ e.rest = 0

SeriesOf(f, e) ==
    [reference |-> e.at \div SERIES_ALIGNMENT, labels |-> Labels(f, e), chunks |-> Chunks(e)]

-----------------------------------------------------------------------------
WalkInit == index = <<>> /\ offset = 0 /\ parsed = <<>> /\ walk = "idle"

OpenIndex(f) ==
    /\ walk = "idle"
    /\ index' = f
    /\ offset' = f.start
    /\ parsed' = <<>>
    /\ walk' = IF HeaderOk(f) THEN "walking" ELSE "failed"

SkipPadding ==
    /\ walk = "walking" /\ offset < index.end /\ IsZero(offset)
    /\ offset' = align_series(offset)
    /\ UNCHANGED <<index, parsed, walk>>

\* Faulty: the walk goes on behind the body, not behind its checksum.
ParseSeriesShort ==
    /\ walk = "walking" /\ offset < index.end
    /\ \E e \in index.entries :
          /\ e.at = offset /\ ChecksumEnd(e) <= index.end /\ SeriesParses(index, e)
          /\ parsed' = Append(parsed, SeriesOf(index, e))
          /\ offset' = align_series(ChecksumEnd(e) - CHECKSUM_SIZE)
    /\ UNCHANGED <<index, walk>>

ParseSeries ==
    /\ walk = "walking" /\ offset < index.end
    /\ \E e \in index.entries :
          /\ e.at = offset /\ ChecksumEnd(e) <= index.end /\ SeriesParses(index, e)
          /\ parsed' = Append(parsed, SeriesOf(index, e))
          /\ offset' = align_series(ChecksumEnd(e))
    /\ UNCHANGED <<index, walk>>

\* What is at the offset is no entry, or one that is cut off or does not parse.
RefuseSeries ==
    /\ walk = "walking" /\ offset < index.end /\ ~IsZero(offset)
    /\ ~\E e \in index.entries :
          e.at = offset /\ ChecksumEnd(e) <= index.end /\ SeriesParses(index, e)
    /\ walk' = "failed"
    /\ UNCHANGED <<index, offset, parsed>>

\* Faulty: the walk is over only if it meets the end exactly.
EndOfSeriesExactly ==
    /\ walk = "walking" /\ offset = index.end
    /\ walk' = "done"
    /\ UNCHANGED <<index, offset, parsed>>

EndOfSeries ==
    /\ walk = "walking" /\ offset >= index.end
    /\ walk' = "done"
    /\ UNCHANGED <<index, offset, parsed>>

\* The series have been taken by the caller.
WalkDone ==
    /\ walk = "done"
    /\ index' = <<>> /\ offset' = 0 /\ parsed' = <<>> /\ walk' = "idle"

WalkStep == SkipPadding \/ ParseSeries \/ RefuseSeries \/ EndOfSeries

-----------------------------------------------------------------------------
(* Properties. *)

\* What Prometheus writes: each entry begins at the first multiple of 16 that
\* the one before it leaves free, labels name symbols, once each, and the chunks
\* of a series come in order.
WellFormed(f) ==
    /\ HeaderOk(f)
    /\ \A e \in f.entries :
          /\ e.at % SERIES_ALIGNMENT = 0 /\ f.start <= e.at /\ ChecksumEnd(e) <= f.end
          /\ SeriesParses(f, e)
          /\ \E o \in {f.start} \cup {ChecksumEnd(d) : d \in f.entries} :
                o <= e.at /\ e.at < o + SERIES_ALIGNMENT
          /\ \A d \in f.entries : d # e => ChecksumEnd(d) <= e.at \/ ChecksumEnd(e) <= d.at

\* parse_each, "deliver each series as it is decoded": the walk over a well
\* formed index does not fail, has delivered every entry that lies behind it,
\* in the order of the file, each under its own reference, and nothing else.
NoSeriesLost ==
    walk # "idle" /\ WellFormed(index) =>
        /\ walk # "failed"
        /\ walk = "done" => \A e \in index.entries : e.at < offset
        /\ {e.at : e \in {d \in index.entries : d.at < offset}}
                = {parsed[i].reference * SERIES_ALIGNMENT : i \in DOMAIN parsed}
        /\ \A i, j \in DOMAIN parsed : i < j => parsed[i].reference < parsed[j].reference
        /\ \A i \in DOMAIN parsed : \E e \in index.entries : parsed[i] = SeriesOf(index, e)

\* append_series_row takes the bounds of a series from its first and its last
\* chunk: whatever integers the file holds, no chunk of a series that was
\* delivered lies outside of them, and chunks follow each other in the segment.
BoundsCoverChunks ==
    \A i \in DOMAIN parsed :
        LET chunks == parsed[i].chunks IN
        \A j \in DOMAIN chunks :
            /\ chunks[1].mint <= chunks[j].mint /\ chunks[j].maxt <= chunks[Len(chunks)].maxt
            /\ \A k \in DOMAIN chunks : j < k => chunks[j].reference < chunks[k].reference
=============================================================================
