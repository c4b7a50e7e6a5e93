----------------------------- MODULE BankReads -----------------------------
(***************************************************************************)
(* One bank of one event, read from a record of any layout: the way a scan *)
(* reads it and the way an event does; and the event as one run of bytes,  *)
(* and as the walk over its structures.  rec is the record as stored; the  *)
(* events of one that is not split are given beside it.                    *)
(***************************************************************************)
EXTENDS SplitRecord

(* One bank of one event: its rows, and of each column wanted the bytes.   *)
(* p says which: the id of the bank, the columns its schema has, and those *)
(* wanted, in the order wanted.                                            *)
WidthOf(p, c) == p.schema[c].size * p.schema[c].length
WidthsOf(p)   == [c \in DOMAIN p.schema |-> WidthOf(p, c)]
RowBytes(p)   == SumOf(WidthsOf(p))

NoRows(p) == [rows |-> 0, cols |-> [c \in DOMAIN p.cols |-> << >>]]
Broken    == [rows |-> 1, cols |-> << >>]   \* an error: the call fails

(* Bank::new and col_bytes: bytes that are no whole number of rows are an  *)
(* error.                                                                  *)
Contiguous(p, data) ==
  LET rows == Len(data) \div RowBytes(p)
  IN  IF Len(data) % RowBytes(p) # 0 THEN Broken
      ELSE [rows |-> rows,
            cols |-> [c \in DOMAIN p.cols |->
                        Slice(data, rows * SumBefore(WidthsOf(p), p.cols[c]), rows * WidthOf(p, p.cols[c]))]]

StreamBytes(rec, b, c) ==
  LET streams == rec.split.banks[b].streams
  IN  IF c \in DOMAIN streams THEN Inflate(streams[c], rec.layout) ELSE Failed

(* The part of a bank's one stream that is event e's.                      *)
WholeBank(rec, b, e, p) ==
  LET bank == rec.split.banks[b]
      from == SumBefore(bank.sizes, e)
      stream == StreamBytes(rec, b, 1)
  IN  CASE stream = Failed -> Broken
        [] Fits(stream, from, bank.sizes[e]) ->
             Contiguous(p, Slice(stream, from, bank.sizes[e]))
        [] OTHER -> NoRows(p)

BlobBank(events, e, p) ==
  LET found == Found(events[e].structures, p.id)
  IN  IF found = << >> THEN NoRows(p) ELSE Contiguous(p, found[1].data)

(* Bank::new_per_column and col_bytes: a column that cannot be read is     *)
(* empty.                                                                  *)
ColumnarBank(rec, b, e, p) ==
  LET sizes == rec.split.banks[b].sizes
      rows == sizes[e] \div RowBytes(p)
      From(c) == (SumBefore(sizes, e) \div RowBytes(p)) * WidthOf(p, c)
      Length(c) == rows * WidthOf(p, c)
      Column(c) == IF Length(c) > 0 /\ Fits(StreamBytes(rec, b, c), From(c), Length(c))
                   THEN Slice(StreamBytes(rec, b, c), From(c), Length(c)) ELSE << >>
  IN  [rows |-> rows, cols |-> [c \in DOMAIN p.cols |-> Column(p.cols[c])]]

(* process_record_columns and process_record_entries, per event and bank.  *)
(* A bank of a per-column record is read as columns, whatever its streams. *)
ScanBank(rec, events, e, p) ==
  LET at == BankIndex(rec.split, p.id)
      b == CHOOSE k \in at : TRUE
  IN  CASE rec.layout = "blob" -> BlobBank(events, e, p)
        [] rec.layout # "blob" /\ at = {} -> NoRows(p)
        [] rec.layout = "by_bank" /\ at # {} ->
             IF e \in rec.split.banks[b].present THEN WholeBank(rec, b, e, p) ELSE NoRows(p)
        [] OTHER -> ColumnarBank(rec, b, e, p)

(* OwnedEvent::bank, EventCtx::bank: an opaque bank is read as one.        *)
EventBank(rec, events, e, p) ==
  LET at == BankIndex(rec.split, p.id)
      b == CHOOSE k \in at : TRUE
  IN  IF /\ rec.layout = "per_column" /\ at # {} /\ IsOpaque(rec.split.banks[b])
         /\ e \in rec.split.banks[b].present
      THEN WholeBank(rec, b, e, p)
      ELSE ScanBank(rec, events, e, p)

(* OwnedEvent::bytes of any layout.                                        *)
EventBytes(rec, events, e) ==
  LET got == [s \in UNION {{b} \X DOMAIN rec.split.banks[b].streams :
                           b \in DOMAIN rec.split.banks} |-> StreamBytes(rec, s[1], s[2])]
  IN  IF rec.layout = "blob" THEN events[e] ELSE SynthesizeEvent(rec.split, e, got)

(* OwnedEvent::structures.  By bank, the walk takes each structure from    *)
(* its stream and ends at the first that cannot be read.                   *)
Structures(rec, events, e) ==
  LET all == EventBytes(rec, events, e).structures
      Lost(k) ==
        LET b == CHOOSE i \in BankIndex(rec.split, all[k].id) : TRUE
        IN  all[k].data # << >> /\ ~Fits(StreamBytes(rec, b, 1), SumBefore(rec.split.banks[b].sizes, e),
                                        Len(all[k].data))
      lost == {k \in DOMAIN all : Lost(k)}
  IN  IF rec.layout # "by_bank" \/ lost = {} THEN all ELSE SubSeq(all, 1, Min(lost) - 1)
=============================================================================
