----------------------------- MODULE HipoReader -----------------------------
(***************************************************************************)
(* Opening a HIPO file: how the reader turns the cells it finds on disk    *)
(* into an index of records, by the trailer, by a sequential scan, or by   *)
(* the salvage scan that trusts nothing but the records themselves.        *)
(***************************************************************************)
EXTENDS HipoFile, FiniteSets, SequencesExt

(* A RecordSpan of the index, less the running event count.                *)
RecordSpan == [file_offset: Nat, record_length: Nat, event_count: Nat]

Span(p, len, count) == [file_offset |-> p, record_length |-> len, event_count |-> count]

(* The outcome of building an index: an error, or spans in file order.     *)
Failed       == [ok |-> FALSE, spans |-> << >>]
Index(spans) == [ok |-> TRUE, spans |-> spans]

(* The 56 bytes at p parse as a record header.                             *)
ParsesAt(d, p) ==
  /\ p + RecordHeaderSize <= Len(d)
  /\ d[p + 1].at = 0
  /\ IsRecord(d[p + 1].of)

(* read_record_into followed by Record::load: the record at p, complete.   *)
ReadableAt(d, p) == ParsesAt(d, p) /\ Holds(d, p, d[p + 1].of)

(* Mutant of FitsAt: the header fits in the file, the record need not.     *)
HeaderFitsAt(d, p) == ParsesAt(d, p)

FitsAt(d, p) == ParsesAt(d, p) /\ p + Length(d[p + 1].of) <= Len(d)

(* find_first_record: the first offset not before from that parses as a    *)
(* record whose length fits in the file; -1 when there is none.            *)
FindFirstRecord(d, from) ==
  LET fits == {p \in from..Len(d) - 1 : FitsAt(d, p)}
  IN  IF fits = {} THEN -1 ELSE Min(fits)

(* build_index_by_scanning stands at an offset having indexed some spans;  *)
(* at -1, or with no room for a header, it has come to its end.            *)
Walk(p, index) == [at |-> p, index |-> index]

Walks == [at: Int, index: [ok: BOOLEAN, spans: Seq(RecordSpan)]]

Ended(d, walk) == walk.at = -1 \/ walk.at + RecordHeaderSize > Len(d)

(* Empty records and the trailer, where its position is known, are passed  *)
(* over.                                                                   *)
Indexed(d, trailer_pos, walk) ==
  LET r == d[walk.at + 1].of
  IN  IF EventCount(r) > 0 /\ walk.at # trailer_pos
        THEN Index(Append(walk.index.spans, Span(walk.at, Length(r), EventCount(r))))
        ELSE walk.index

(* One turn of its loop.  On the normal path a header that does not parse  *)
(* is an error and a record running past the end of the file is indexed;   *)
(* salvage resynchronises past the one and stops at the other.  The code   *)
(* then asks that four bytes per event fit index_array_length, which every *)
(* record of the writer meets with equality, in each of its layouts: there *)
(* is no branch for a record that does not.                                *)
Turn(d, trailer_pos, salvage, walk) ==
  CASE Ended(d, walk) -> walk
    [] ~Ended(d, walk) /\ ~ParsesAt(d, walk.at) ->
         IF salvage THEN Walk(FindFirstRecord(d, walk.at + 1), walk.index) ELSE Walk(-1, Failed)
    [] ~Ended(d, walk) /\ ParsesAt(d, walk.at) ->
         IF salvage /\ ~FitsAt(d, walk.at) THEN Walk(-1, walk.index)
         ELSE Walk(walk.at + Length(d[walk.at + 1].of), Indexed(d, trailer_pos, walk))

(* Every turn that does not end the walk passes a cell: it has ended after *)
(* as many turns as there are cells.                                       *)
ScanIndex(d, first, trailer_pos, salvage) ==
  LET turn[walk \in Walks] == Turn(d, trailer_pos, salvage, walk)
      after[n \in 0..Len(d)] ==
        IF n = 0 THEN Walk(first, Index(<< >>)) ELSE turn[after[n - 1]]
  IN  after[Len(d)].index

(* The elements of s at the places in I, in their order.                   *)
Only(s, I) == FlattenSeq([i \in DOMAIN s |-> IF i \in I THEN <<s[i]>> ELSE << >>])

(* build_index_from_trailer: the rows of the trailer at trailer_pos, less  *)
(* those before the data and the trailer's own; a record out of the file's *)
(* bounds, or no readable trailer, is an error.                            *)
TrailerIndex(d, first, trailer_pos) ==
  LET r    == d[trailer_pos + 1].of
      rows == Only(r.rows, {i \in DOMAIN r.rows : /\ r.rows[i].position >= first
                                                  /\ r.rows[i].position # trailer_pos})
  IN  IF \/ ~ReadableAt(d, trailer_pos)
         \/ r.kind # "trailer"
         \/ \E i \in DOMAIN rows : rows[i].position + rows[i].record_length > Len(d)
      THEN Failed
      ELSE Index([i \in DOMAIN rows |->
                    Span(rows[i].position, rows[i].record_length, rows[i].event_count)])

HeaderParses(d) == Len(d) >= FileHeaderSize /\ d[1].of.kind = "front"

(* The trailer_position of the file header; cells that are not one read as *)
(* some offset past the end.                                               *)
HeaderTrailerPos(d) ==
  IF d[FH_TRAILER_POS + 1].of.kind = "trailer_pos" THEN d[FH_TRAILER_POS + 1].of.word ELSE Len(d)

(* from_source: by the trailer when the header names one, by a scan when   *)
(* it does not or when the trailer cannot be decoded.                      *)
Open(d) ==
  LET tp      == HeaderTrailerPos(d)
      trailer == TrailerIndex(d, FirstData, tp)
  IN  IF ~HeaderParses(d) THEN Failed
      ELSE IF tp # 0 /\ trailer.ok THEN trailer
      ELSE ScanIndex(d, FirstData, tp, FALSE)

(* parse_dictionary yields schemas from the record at p.                   *)
HasDictionaryAt(d, p) == ReadableAt(d, p) /\ d[p + 1].of.kind = "dict" /\ HasSchemas

HoldsFileIndex(d, p) == ReadableAt(d, p) /\ d[p + 1].of.kind = "trailer"

(* salvage_from_source: find a record, take it as the dictionary if it     *)
(* yields schemas, scan from there, drop a trailer found at the end.       *)
Salvage(d) ==
  LET trimmed[spans \in Seq(RecordSpan)] ==
        IF spans # << >> /\ HoldsFileIndex(d, Last(spans).file_offset)
          THEN Index(Front(spans)) ELSE Index(spans)
      from[first \in Int] ==
        IF first = -1 THEN Failed
        ELSE trimmed[ScanIndex(d,
                       IF HasDictionaryAt(d, first) THEN first + Length(d[first + 1].of) ELSE first,
                       0, TRUE).spans]
  IN  from[FindFirstRecord(d, IF HeaderParses(d) THEN FileHeaderSize ELSE 0)]
-----------------------------------------------------------------------------
(* Stands for an event the reader hands out that nobody appended, and for  *)
(* one it counts but cannot read.                                          *)
Phantom    == "phantom"
Unreadable == "unreadable"

EventsAt(d, span) ==
  IF ~ReadableAt(d, span.file_offset)
    THEN [i \in 1..span.event_count |-> Unreadable]
  ELSE LET r == d[span.file_offset + 1].of
       IN  IF r.kind = "data" THEN r.evs ELSE [i \in 1..EventCount(r) |-> Phantom]

(* The events of an index, in the order events() yields them.              *)
EventsOf(d, index) ==
  LET read[spans \in Seq(RecordSpan)] ==
        FlattenSeq([i \in DOMAIN spans |-> EventsAt(d, spans[i])])
  IN  read[index.spans]

(* Those among them that somebody appended: what can be read, and is data. *)
DataAt(d, span) ==
  IF ReadableAt(d, span.file_offset) /\ d[span.file_offset + 1].of.kind = "data"
    THEN d[span.file_offset + 1].of.evs ELSE << >>

DataOf(d, index) ==
  LET read[spans \in Seq(RecordSpan)] ==
        FlattenSeq([i \in DOMAIN spans |-> DataAt(d, spans[i])])
  IN  read[index.spans]
=============================================================================
