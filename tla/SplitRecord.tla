---------------------------- MODULE SplitRecord ----------------------------
(***************************************************************************)
(* The record of a split layout: the events taken apart into one stream    *)
(* of bytes per bank (by-bank) or per column of a bank (per-column), and a *)
(* directory that says how to put each event back together.  How a record  *)
(* is built from events, what its parse checks, and how an event and a     *)
(* column are assembled from streams that have been inflated.              *)
(*                                                                         *)
(* A bank is a number (its group and item, in their order), a byte is a    *)
(* cell that says which event, structure and position it comes from, and   *)
(* compression is left out: a stream on the disk is what it inflates to,   *)
(* and whether storage has damaged it.                                     *)
(***************************************************************************)
EXTENDS Naturals, SequencesExt

CONSTANT Dict  \* the columns of each bank that has a schema: [bank -> Seq([size, length])]

ASSUME SplitRecordAssumption ==
  /\ DOMAIN Dict \subseteq Nat
  /\ \A id \in DOMAIN Dict : Dict[id] \in Seq([size: Nat \ {0}, length: Nat \ {0}])

(* A byte: a cell that says what event, structure and place it is from.    *)
Cell == (Nat \ {0}) \X (Nat \ {0}) \X (Nat \ {0})
Zero == <<0, 0, 0>>     \* a byte zero-filled
Garbage == <<0, 0, 1>>  \* a byte a damaged stream decodes to

(* No bytes: a stream that cannot be inflated, a bank that is not there.   *)
Failed == << <<0, 0, 2>> >>
NoBank == << <<0, 0, 3>> >>

(* The running totals of numbers: SumBefore(s, i) adds up those before the *)
(* ith.                                                                    *)
Totals(s) ==
  LET f[i \in 1..Len(s) + 1] == IF i = 1 THEN 0 ELSE f[i - 1] + s[i - 1]
  IN  f

SumBefore(s, i) == Totals(s)[i]
SumOf(s) == SumBefore(s, Len(s) + 1)

(* The members of a set of numbers, in their order.                        *)
Ascending(S) ==
  CHOOSE s \in [1..Cardinality(S) -> S] : \A i, j \in DOMAIN s : i < j => s[i] < s[j]

(* s[from..from + n] of the code, which counts from 0.                      *)
Slice(s, from, n) == SubSeq(s, from + 1, from + n)
Fits(s, from, n) == s # Failed /\ from + n <= Len(s)
Zeros(n) == [p \in 1..n |-> Zero]

(***************************************************************************)
(* The schema of a bank: column c of a bank of some rows is the run of     *)
(* rows * Width bytes that starts rows * RowOffset bytes in.               *)
(***************************************************************************)
Width(id, c) == Dict[id][c].size * Dict[id][c].length
Widths(id) == [c \in DOMAIN Dict[id] |-> Width(id, c)]
RowOffset(id, c) == SumBefore(Widths(id), c)
RowSize(id) == SumOf(Widths(id))

(***************************************************************************)
(* Building: the walk over the events.                                     *)
(***************************************************************************)
BanksOf(structures) == {structures[k].id : k \in DOMAIN structures}

(* The structures of a bank in an event, in their order.                   *)
Found(structures, id) ==
  LET at == Ascending({k \in DOMAIN structures : structures[k].id = id})
  IN  [i \in DOMAIN at |-> structures[at[i]]]

(* One bank over all the events: the bytes of every structure found are    *)
(* appended; the size of an event's is the one found last.                 *)
WalkBank(events, id) ==
  LET found == [e \in DOMAIN events |-> Found(events[e].structures, id)]
      present == {e \in DOMAIN events : found[e] # << >>}
  IN [id |-> id,
      header_size |-> Max(UNION {{found[e][k].header_size : k \in DOMAIN found[e]} : e \in present}),
      present |-> present,
      sizes |-> [e \in DOMAIN events |-> IF e \in present THEN Len(Last(found[e]).data) ELSE 0],
      bytes |-> FlattenSeq([e \in DOMAIN events |->
                  FlattenSeq([k \in DOMAIN found[e] |-> found[e][k].data])])]

(* The descriptors, sorted by bank.                                        *)
Descriptors(events) ==
  Ascending(UNION {BanksOf(events[e].structures) : e \in DOMAIN events})

(* Whether the per-column layout splits a bank, or keeps it opaque.        *)
Columnar(bank) ==
  /\ bank.id \in DOMAIN Dict
  /\ RowSize(bank.id) > 0
  /\ bank.header_size = 0
  /\ \A e \in bank.present : bank.sizes[e] % RowSize(bank.id) = 0

ColumnStream(bank, c) ==
  LET Block(e) == Slice(bank.bytes, SumBefore(bank.sizes, e), bank.sizes[e])
      Rows(e) == bank.sizes[e] \div RowSize(bank.id)
  IN FlattenSeq([e \in DOMAIN bank.sizes |->
       Slice(Block(e), Rows(e) * RowOffset(bank.id, c), Rows(e) * Width(bank.id, c))])

(* Byte-stream-split and its inverse, for elements of w bytes; a partial   *)
(* element at the end stays as it is.                                      *)
ByteSplit(s, w) ==
  LET n == Len(s) \div w IN
  [p \in DOMAIN s |-> IF p <= n * w THEN s[((p - 1) % n) * w + (p - 1) \div n + 1] ELSE s[p]]

ByteUnsplit(s, w) ==
  LET n == Len(s) \div w IN
  [p \in DOMAIN s |-> IF p <= n * w THEN s[((p - 1) % w) * n + (p - 1) \div w + 1] ELSE s[p]]

(* What is stored of a stream.  With encodings on, one of elements wider   *)
(* than a byte is split when that compresses better (smaller), and every   *)
(* stream has a checksum of its stored bytes; a checksum of 0 counts as    *)
(* none.                                                                   *)
StoredStream(bytes, width, encodings, smaller, checksum) ==
  LET split == encodings /\ smaller /\ width > 1 /\ bytes # << >> IN
  [stored |-> IF split THEN ByteSplit(bytes, width) ELSE bytes,
   size |-> Len(bytes), width |-> width, split |-> split,
   checksum |-> IF encodings /\ bytes # << >> THEN checksum ELSE 0,
   damage |-> "none"]

ElementSize(id, c) == IF Dict[id][c].length = 1 THEN Dict[id][c].size ELSE 1

PerColumnBank(bank, encodings, smaller, checksum) ==
  [id |-> bank.id, header_size |-> bank.header_size, present |-> bank.present,
   sizes |-> bank.sizes,
   num_cols |-> IF Columnar(bank) THEN Len(Dict[bank.id]) ELSE 0,
   streams |->
     IF Columnar(bank)
     THEN [c \in DOMAIN Dict[bank.id] |->
             StoredStream(ColumnStream(bank, c), ElementSize(bank.id, c),
                          encodings, smaller, checksum)]
     ELSE <<StoredStream(bank.bytes, 1, encodings, smaller, checksum)>>]

ByBankBank(bank) ==
  [id |-> bank.id, header_size |-> bank.header_size, present |-> bank.present,
   sizes |-> bank.sizes, num_cols |-> 0,
   streams |-> <<StoredStream(bank.bytes, 1, FALSE, FALSE, 0)>>]

BuildRecord(events, layout, encodings, smaller, checksum) ==
  LET ids == Descriptors(events) IN
  [event_tags |-> [e \in DOMAIN events |-> events[e].tag],
   banks |-> [b \in DOMAIN ids |->
                IF layout = "per_column"
                THEN PerColumnBank(WalkBank(events, ids[b]), encodings, smaller, checksum)
                ELSE ByBankBank(WalkBank(events, ids[b]))]]

(***************************************************************************)
(* Parsing: what the directory is checked for.                             *)
(***************************************************************************)
StreamSizes(bank) == [c \in DOMAIN bank.streams |-> bank.streams[c].size]

ByBankParses(record) ==
  /\ \A b \in 2..Len(record.banks) : record.banks[b - 1].id < record.banks[b].id
  /\ \A b \in DOMAIN record.banks :
       SumOf(record.banks[b].sizes) = record.banks[b].streams[1].size

PerColumnParses(record) ==
  /\ \A b \in 2..Len(record.banks) : record.banks[b - 1].id < record.banks[b].id
  /\ \A b \in DOMAIN record.banks :
       SumOf(record.banks[b].sizes) = SumOf(StreamSizes(record.banks[b]))

Parses(record, layout) ==
  IF layout = "per_column" THEN PerColumnParses(record) ELSE ByBankParses(record)

(***************************************************************************)
(* Inflating one stream: what the bytes are, or Failed.  Damage makes a    *)
(* stream undecodable, or decode to bytes of the right number that are not *)
(* the ones written; a checksum is compared first.                         *)
(***************************************************************************)
InflateBank(stream) ==
  IF stream.damage = "none" \/ stream.size = 0 THEN stream.stored
  ELSE IF stream.damage = "undecodable" THEN Failed
  ELSE [p \in 1..stream.size |-> Garbage]

(* Mutant of InflateColumn: only streams that were split are checked.      *)
InflateColumnCheckSplit(stream) ==
  LET out == InflateBank(stream) IN
  IF stream.size > 0 /\ stream.split /\ stream.checksum # 0 /\ stream.damage # "none" THEN Failed
  ELSE IF out = Failed THEN Failed
  ELSE IF stream.split THEN ByteUnsplit(out, stream.width) ELSE out

InflateColumn(stream) ==
  LET out == InflateBank(stream) IN
  IF stream.size > 0 /\ stream.checksum # 0 /\ stream.damage # "none" THEN Failed
  ELSE IF out = Failed THEN Failed
  ELSE IF stream.split THEN ByteUnsplit(out, stream.width) ELSE out

Inflate(stream, layout) ==
  IF layout = "per_column" THEN InflateColumn(stream) ELSE InflateBank(stream)

(***************************************************************************)
(* Reading.  got is the bytes of each stream a read has asked for, or      *)
(* Failed; a stream is a bank of the directory and a column of it.         *)
(***************************************************************************)
StreamsOf(record) == UNION {{b} \X DOMAIN record.banks[b].streams : b \in DOMAIN record.banks}
BankIndex(record, id) == {b \in DOMAIN record.banks : record.banks[b].id = id}
IsOpaque(bank) == bank.num_cols = 0
RowsIn(bank, e) == bank.sizes[e] \div RowSize(bank.id)

(* Mutant of RowsBefore: the rows up to and including the event's.         *)
RowsUpTo(bank, e) == SumBefore(bank.sizes, e + 1) \div RowSize(bank.id)

RowsBefore(bank, e) == SumBefore(bank.sizes, e) \div RowSize(bank.id)

(* Mutant of EventStreams: banks the event lacks are not passed over.      *)
AllStreams(record, e) ==
  FlattenSeq([b \in DOMAIN record.banks |->
    [c \in DOMAIN record.banks[b].streams |-> <<b, c>>]])

(* The streams the assembly of event e asks for, in order.                 *)
EventStreams(record, e) ==
  FlattenSeq([b \in DOMAIN record.banks |->
    LET bank == record.banks[b] IN
    IF e \notin bank.present \/ bank.sizes[e] = 0 THEN << >>
    ELSE [c \in DOMAIN bank.streams |-> <<b, c>>]])

(* Mutant of OpaqueData: nothing for what cannot be read.                  *)
OpaqueDataOrNothing(bank, b, e, got) ==
  LET from == SumBefore(bank.sizes, e) IN
  IF Fits(got[<<b, 1>>], from, bank.sizes[e]) THEN Slice(got[<<b, 1>>], from, bank.sizes[e])
  ELSE << >>

(* The data of bank b in event e: zeros for what cannot be read.           *)
OpaqueData(bank, b, e, got) ==
  LET stream == got[<<b, 1>>]
      from == SumBefore(bank.sizes, e)
  IN IF Fits(stream, from, bank.sizes[e]) THEN Slice(stream, from, bank.sizes[e])
     ELSE Zeros(bank.sizes[e])

ColumnarData(bank, b, e, got) ==
  LET Length(c) == RowsIn(bank, e) * Width(bank.id, c)
      From(c) == RowsBefore(bank, e) * Width(bank.id, c)
  IN FlattenSeq([c \in DOMAIN bank.streams |->
       IF Fits(got[<<b, c>>], From(c), Length(c)) THEN Slice(got[<<b, c>>], From(c), Length(c))
       ELSE Zeros(Length(c))])

EventData(bank, b, e, got) ==
  CASE bank.sizes[e] = 0 -> << >>
    [] bank.sizes[e] > 0 /\ IsOpaque(bank) -> OpaqueData(bank, b, e, got)
    [] OTHER -> ColumnarData(bank, b, e, got)

(* OwnedEvent::bytes: the event put back together, in the order of the     *)
(* directory.                                                              *)
SynthesizeEvent(record, e, got) ==
  LET here == Ascending({b \in DOMAIN record.banks : e \in record.banks[b].present})
  IN [tag |-> record.event_tags[e],
      structures |-> [k \in DOMAIN here |->
        [id |-> record.banks[here[k]].id, header_size |-> record.banks[here[k]].header_size,
         data |-> EventData(record.banks[here[k]], here[k], e, got)]]]

(* The stream a read of column c of bank id in event e asks for.           *)
ColumnStreams(record, e, id, c) ==
  LET OfBank(b) == IF IsOpaque(record.banks[b]) THEN <<<<b, 1>>>>
                   ELSE IF RowsIn(record.banks[b], e) = 0 THEN << >> ELSE <<<<b, c>>>>
      at == {b \in BankIndex(record, id) : e \in record.banks[b].present}
  IN IF at = {} THEN << >> ELSE OfBank(CHOOSE b \in at : TRUE)

(* Column c of a bank held in one run of bytes.                             *)
ContiguousColumn(id, data, c) ==
  LET rows == Len(data) \div RowSize(id) IN
  IF Len(data) % RowSize(id) # 0 THEN NoBank
  ELSE Slice(data, rows * RowOffset(id, c), rows * Width(id, c))

(* OwnedEvent::bank and then Bank::col_bytes: NoBank when there is no      *)
(* bank, or its one stream cannot be read; no bytes when the stream of a   *)
(* column cannot.                                                          *)
ReadColumn(record, e, id, c, got) ==
  LET at == {b \in BankIndex(record, id) : e \in record.banks[b].present}
      b == CHOOSE k \in at : TRUE
      bank == record.banks[b]
      from == SumBefore(bank.sizes, e)
      first == RowsBefore(bank, e) * Width(id, c)
      length == RowsIn(bank, e) * Width(id, c)
  IN IF at = {} THEN NoBank
     ELSE IF IsOpaque(bank)
     THEN IF Fits(got[<<b, 1>>], from, bank.sizes[e])
          THEN ContiguousColumn(id, Slice(got[<<b, 1>>], from, bank.sizes[e]), c)
          ELSE NoBank
     ELSE IF length = 0 THEN << >>
     ELSE IF Fits(got[<<b, c>>], first, length) THEN Slice(got[<<b, c>>], first, length)
     ELSE << >>
=============================================================================
