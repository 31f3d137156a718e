----------------------------- MODULE ChunkRead -----------------------------
(***************************************************************************)
(* Reading one chunk record: RangeCache::read_range cuts a byte range into *)
(* pages and puts it together again (storage/mod.rs), read_record asks for *)
(* the length field first and then for the record, and the decoders check  *)
(* it and take it apart (chunk_reader.rs).                                 *)
(*                                                                         *)
(* A byte of the segment is named by its offset, so a range that was read  *)
(* is a sequence of offsets.  A record is its place, the size of its       *)
(* length field, its encoding, whether its checksum is right (`sound') and *)
(* the bytes of its payload.  `slots' is no part of the file: it says what *)
(* the compactor wrote into the payload of an aggregate, and is empty for  *)
(* an XOR chunk and for a payload that nobody wrote.                       *)
(***************************************************************************)
EXTENDS Integers, Sequences, FiniteSets
Sets == INSTANCE FiniteSetsExt
Seqs == INSTANCE SequencesExt

\* read_xor_chunk_data, of a library: the samples of each sequence of bytes that
\* is an XOR chunk, pairs of timestamp and value.
CONSTANT XorSamples

ASSUME XorAssumption == \A d \in DOMAIN XorSamples : \A s \in XorSamples[d] : s[1] \in Int

VARIABLES
    pageSize,   \* chunk_cache.page_size, or 0 without a cache
    segment,    \* the segment file that is being read
    want,       \* the offset of the record that is wanted
    range,      \* the byte range that is being read: its start, its end
    page,       \* the offset of its next page
    output,     \* the bytes of it that are read
    reading     \* "idle", "prefix", "record", "read" or "failed"

readVars == <<pageSize, segment, want, range, page, output, reading>>

ENCODING_XOR == 1
ENCODING_HISTOGRAM == 2
ENCODING_FLOAT_HISTOGRAM == 3
ENCODING_AGGR == 255
CRC_SIZE == 4
MAX_UVARINT_SIZE == 5
AGGR_COUNTER_SLOT == 5   \* counted from one

Interval(from, to) == [i \in 1..(to - from) |-> from + i - 1]
PageOf(o) == (o \div pageSize) * pageSize
RecordEnd(r) == r.at + r.head + 1 + Len(r.payload) + CRC_SIZE

(* Decoding. *)

Bytes == Seq(0..255)

\* Seven bits a byte, the lowest first.
Septets == [field \in Bytes |-> Seqs!FoldRight(LAMBDA byte, value : (byte % 128) + 128 * value, field, 0)]

FieldOf(bytes, size) == [ok |-> TRUE, value |-> Septets[SubSeq(bytes, 1, size)], size |-> size]
read_uvarint(bytes) ==
    LET ends == {i \in 1..MAX_UVARINT_SIZE : i <= Len(bytes) /\ bytes[i] < 128}
    IN  IF ends = {} THEN [ok |-> FALSE, value |-> 0, size |-> 0] ELSE FieldOf(bytes, Sets!Min(ends))

Truncated == [ok |-> FALSE, content |-> <<>>, rest |-> <<>>]
Cut == [remaining \in Bytes |-> [size \in Nat |->
    IF size > Len(remaining) THEN Truncated
    ELSE [ok |-> TRUE, content |-> SubSeq(remaining, 1, size),
          rest |-> SubSeq(remaining, size + 1, Len(remaining))]]]

CutBy(bytes, length, size) ==
    IF ~length.ok THEN Truncated ELSE Cut[SubSeq(bytes, length.size + 1, Len(bytes))][size]

\* Faulty: every slot has an encoding.
SlotSizeAlways(length) == length.value + 1

\* What a length field counts, and the encoding, which it does not count; a slot
\* of length zero has none.
SlotSize(length) == IF length.value = 0 THEN 0 ELSE length.value + 1

\* A turn of the loop of either decoder takes a slot off what remains.
Slot == [bytes \in Bytes |-> LET length == read_uvarint(bytes) IN CutBy(bytes, length, SlotSize(length))]
Turn(slots) == Append(slots, Slot[slots[Len(slots)].rest])

\* The five turns: count, sum, min, max and counter.
SlotsOf(payload) == Turn(Turn(Turn(Turn(<<Slot[payload]>>))))

Failed == [ok |-> FALSE, samples |-> {}]
Decoded(samples) == [ok |-> TRUE, samples |-> samples]

decode_xor(data) == IF data \in DOMAIN XorSamples THEN Decoded(XorSamples[data]) ELSE Failed

\* Faulty: any slot of length zero ends the walk without samples.
CounterOfFullAggregate(payload) ==
    LET slots == SlotsOf(payload)
        counter == slots[AGGR_COUNTER_SLOT].content
    IN  IF \E i \in DOMAIN slots : ~slots[i].ok THEN Failed
        ELSE IF \E i \in DOMAIN slots : slots[i].content = <<>> THEN Decoded({})
        ELSE IF counter[1] = ENCODING_XOR THEN decode_xor(Tail(counter)) ELSE Failed

\* The samples of the fifth slot, whatever the others are and whatever follows.
decode_aggregate_counter(payload) ==
    LET slots == SlotsOf(payload)
        counter == slots[AGGR_COUNTER_SLOT].content
    IN  IF \E i \in DOMAIN slots : ~slots[i].ok THEN Failed
        ELSE IF counter = <<>> THEN Decoded({})
        ELSE IF counter[1] = ENCODING_XOR THEN decode_xor(Tail(counter)) ELSE Failed

\* decode_record: the samples a metric table shows.
decode_record(r, counter_metric) ==
    CASE ~r.sound -> Failed
      [] r.sound /\ r.encoding = ENCODING_XOR -> decode_xor(r.payload)
      [] r.sound /\ r.encoding = ENCODING_AGGR /\ counter_metric -> decode_aggregate_counter(r.payload)
      [] OTHER -> Failed

Refused == [ok |-> FALSE, data |-> <<>>]
Encoded(data) == [ok |-> TRUE, data |-> data]

\* A slot as an Option<Vec<u8>>, no data or one.
Data(content) == IF content = <<>> THEN <<>> ELSE <<Tail(content)>>
IsXor(content) == content = <<>> \/ content[1] = ENCODING_XOR

decode_aggregate(payload) ==
    LET slots == SlotsOf(payload) IN
    IF /\ \A i \in DOMAIN slots : slots[i].ok /\ IsXor(slots[i].content)
       /\ slots[AGGR_COUNTER_SLOT].rest = <<>>
    THEN Encoded([i \in DOMAIN slots |-> Data(slots[i].content)]) ELSE Refused

\* decode_encoded_record: what the StoreAPI sends.
decode_encoded_record(r) ==
    CASE ~r.sound -> Refused
      [] r.sound /\ r.encoding \in {ENCODING_XOR, ENCODING_HISTOGRAM, ENCODING_FLOAT_HISTOGRAM} -> Encoded(r.payload)
      [] r.sound /\ r.encoding = ENCODING_AGGR -> decode_aggregate(r.payload)
      [] OTHER -> Refused

(* What is assumed of a segment. *)

\* A slot as the compactor writes it: a field that says the length of the data,
\* and the data behind its encoding, or nothing.
IsSlot(s) ==
    /\ s.content \in Bytes /\ Len(s.content) # 1
    /\ s.head \in Bytes
    /\ read_uvarint(s.head) =
          [ok |-> TRUE, value |-> IF s.content = <<>> THEN 0 ELSE Len(s.content) - 1, size |-> Len(s.head)]
Written(s) == s.head \o s.content
IsAggregate(slots, payload) ==
    /\ DOMAIN slots = 1..5 /\ \A i \in 1..5 : IsSlot(slots[i])
    /\ payload = Written(slots[1]) \o (Written(slots[2]) \o (Written(slots[3])
                    \o (Written(slots[4]) \o Written(slots[5]))))

\* Its records begin at different offsets, with a length field that read_uvarint
\* can take, and lie in the file unless they are damaged.
IsSegment(f) ==
    /\ f.length \in Nat
    /\ \A r \in f.records :
          /\ r.at \in Nat /\ r.head \in 1..MAX_UVARINT_SIZE /\ r.payload \in Bytes
          /\ r.slots # <<>> => IsAggregate(r.slots, r.payload)
          /\ r.sound => RecordEnd(r) <= f.length
          /\ \A q \in f.records : q.at = r.at => q = r

-----------------------------------------------------------------------------
ReadInit(size) ==
    /\ pageSize = size
    /\ segment = <<>> /\ want = 0 /\ range = <<0, 0>> /\ page = 0 /\ output = <<>>
    /\ reading = "idle"

AskFor(from, to) ==
    /\ range' = <<from, to>>
    /\ page' = IF pageSize = 0 THEN from ELSE PageOf(from)
    /\ output' = <<>>

\* read_record: first the longest length field there can be, and the encoding.
ReadRecord(s, o) ==
    /\ reading = "idle"
    /\ segment' = s
    /\ want' = o
    /\ AskFor(o, o + MAX_UVARINT_SIZE + 1)
    /\ reading' = "prefix"
    /\ UNCHANGED pageSize

InRange == reading \in {"prefix", "record"}
MorePages == IF pageSize = 0 THEN output = <<>> ELSE page <= PageOf(range[2] - 1)

\* The part of the range that lies in a page of the given length.
FromPage(length) ==
    LET start == Sets!Max({range[1] - page, 0})
        end   == Sets!Min({range[2], page + pageSize}) - page
    IN  IF start > length \/ end > length THEN <<>> ELSE Interval(page + start, page + end)

PageLength == Sets!Min({page + pageSize, segment.length}) - page

ReadFailed ==
    /\ reading' = "failed"
    /\ UNCHANGED <<pageSize, segment, want, range, page, output>>

\* Faulty: a page is always taken from its start.
ReadPageFromStart ==
    /\ InRange /\ pageSize > 0 /\ MorePages
    /\ IF PageLength <= 0 THEN ReadFailed
       ELSE /\ output' = output \o Interval(page, Sets!Min({range[2], page + pageSize}))
            /\ page' = page + pageSize
            /\ UNCHANGED <<pageSize, segment, want, range, reading>>

\* One turn of the loop of RangeCache::read_range.
ReadPage ==
    /\ InRange /\ pageSize > 0 /\ MorePages
    /\ IF PageLength <= 0 \/ FromPage(PageLength) = <<>> THEN ReadFailed
       ELSE /\ output' = output \o FromPage(PageLength)
            /\ page' = page + pageSize
            /\ UNCHANGED <<pageSize, segment, want, range, reading>>

\* Without a cache the object store is asked for the whole range.
ReadDirect ==
    /\ InRange /\ pageSize = 0 /\ MorePages
    /\ IF range[2] > segment.length THEN ReadFailed
       ELSE /\ output' = Interval(range[1], range[2])
            /\ UNCHANGED <<pageSize, segment, want, range, page, reading>>

\* read_uvarint of the prefix says how long the record is.
ParsePrefix ==
    /\ reading = "prefix" /\ ~MorePages
    /\ \/ \E r \in segment.records :
             /\ r.head <= Len(output) /\ SubSeq(output, 1, r.head) = Interval(r.at, r.at + r.head)
             /\ AskFor(want, want + r.head + 1 + Len(r.payload) + CRC_SIZE)
             /\ reading' = "record"
             /\ UNCHANGED <<pageSize, segment, want>>
       \/ /\ ~\E r \in segment.records :
                /\ r.head <= Len(output) /\ SubSeq(output, 1, r.head) = Interval(r.at, r.at + r.head)
          /\ ReadFailed

\* validated_payload: the record that was read is as long as it says.
CheckRecord ==
    /\ reading = "record" /\ ~MorePages
    /\ IF \E r \in segment.records : output = Interval(r.at, RecordEnd(r)) /\ r.sound
       THEN reading' = "read" /\ UNCHANGED <<pageSize, segment, want, range, page, output>>
       ELSE ReadFailed

\* What is read is handed to the caller.
ReadDone ==
    /\ segment' = <<>> /\ want' = 0 /\ range' = <<0, 0>> /\ page' = 0 /\ output' = <<>>
    /\ reading' = "idle"
    /\ UNCHANGED pageSize

ReadStep == ReadPage \/ ReadDirect \/ ParsePrefix \/ CheckRecord

-----------------------------------------------------------------------------
(* Properties. *)

\* decode_aggregate and decode_aggregate_counter: wherever slots of length zero
\* lie, an aggregate that the compactor wrote is sent slot by slot as it was
\* written, unless one is no XOR chunk, and shown as its counter, whatever the
\* other slots are.
SlotsAreRead ==
    reading = "read" =>
        \A r \in segment.records :
            r.sound /\ r.encoding = ENCODING_AGGR /\ r.slots # <<>> =>
                LET counter == r.slots[AGGR_COUNTER_SLOT].content
                IN  /\ decode_encoded_record(r)
                          = IF \A i \in 1..5 : IsXor(r.slots[i].content)
                            THEN Encoded([i \in 1..5 |-> Data(r.slots[i].content)]) ELSE Refused
                    /\ decode_record(r, TRUE)
                          = IF counter = <<>> THEN Decoded({})
                            ELSE IF IsXor(counter) THEN decode_xor(Tail(counter)) ELSE Failed

\* decode_record against decode_encoded_record: whatever bytes a payload has, of
\* a chunk that the StoreAPI sends, a metric table shows the samples that the
\* client finds: in the counter of an aggregate, or in the XOR chunk.
DecodersAgree ==
    reading = "read" =>
        \A r \in segment.records :
            LET sent == decode_encoded_record(r)
                counter == sent.data[AGGR_COUNTER_SLOT]
            IN  sent.ok =>
                    /\ r.encoding = ENCODING_AGGR =>
                          decode_record(r, TRUE) = IF counter = <<>> THEN Decoded({}) ELSE decode_xor(counter[1])
                    /\ r.encoding = ENCODING_XOR => \A c \in BOOLEAN : decode_record(r, c) = decode_xor(sent.data)

\* RangeReader, "the common byte-range interface": whatever the page size and
\* wherever the record lies, at a page bound or at the end of the segment, a
\* sound record is read in full, byte for byte, and no other comes in its place.
RecordIsExact ==
    reading \in {"read", "failed"} =>
        \A r \in segment.records :
            r.at = want => IF r.sound THEN reading = "read" /\ output = Interval(want, RecordEnd(r))
                                      ELSE reading = "failed"
=============================================================================
