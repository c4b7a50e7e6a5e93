------------------------------ MODULE HipoFile ------------------------------
(***************************************************************************)
(* The layout of a HIPO file as the writer produces it and the reader      *)
(* finds it: a file header, a dictionary record, data records and a        *)
(* trailer record holding the index.                                       *)
(*                                                                         *)
(* A file is a sequence of cells and an offset counts cells from 0, so the *)
(* cell at offset p is disk[p + 1].  A cell names the content it is part   *)
(* of and its place in that content: overwriting, truncation and records   *)
(* that are only partly on disk are visible, the bytes inside are not.     *)
(***************************************************************************)
EXTENDS Integers, Sequences

CONSTANTS
  Event,        \* the events a caller may append
  EventLen,     \* EventLen[e]: the cells event e occupies
  DictLen,      \* the cells of the dictionary record behind its header
  DictEvents,   \* the events in the dictionary record: schemas, registry, config
  HasSchemas,   \* whether one of them is a schema
  Word          \* the values of a record's user word (its tag)

ASSUME FileAssumption ==
  /\ EventLen \in [Event -> Nat \ {0}]
  /\ DictLen \in Nat
  /\ DictEvents \in Nat
  /\ HasSchemas \in BOOLEAN
  /\ HasSchemas => DictEvents > 0
  /\ Word \subseteq Nat
  /\ 0 \in Word

(* The file header is two cells: the front (magic, lengths, bit_info) and  *)
(* the trailer_position behind it.  The writer patches each on its own.    *)
FileHeaderSize   == 2
FH_BIT_INFO      == 0
FH_TRAILER_POS   == 1
RecordHeaderSize == 1

(* One row of the index: the writer's IndexEntry, and a row of the         *)
(* file::index bank in the trailer.                                        *)
IndexEntry == [position: Nat, record_length: Nat, event_count: Nat, user_word: Nat]

(* What a cell can be part of.  payload is the number of cells behind the  *)
(* first; word is the user word of a data record, the value of             *)
(* trailer_position and the index flag of bit_info.                        *)
Content == [kind: {"front", "trailer_pos", "dict", "data", "trailer"},
            evs: Seq(Event), rows: Seq(IndexEntry), payload: Nat, word: Nat]

HeaderFront(flag) == [kind |-> "front", evs |-> << >>, rows |-> << >>, payload |-> 0, word |-> flag]
TrailerPos(p) ==
  [kind |-> "trailer_pos", evs |-> << >>, rows |-> << >>, payload |-> 0, word |-> p]

DictRecord ==
  [kind |-> "dict", evs |-> << >>, rows |-> << >>, payload |-> DictLen, word |-> 0]

(* A record of the uncompressed layout: an index word per event, then the  *)
(* event bytes.                                                            *)
DataRecord(evs, bytes, word) ==
  [kind |-> "data", evs |-> evs, rows |-> << >>, payload |-> Len(evs) + bytes, word |-> word]

(* Mutant of TrailerRecord: built before the last record is flushed.       *)
TrailerOneShort(rows) ==
  [kind |-> "trailer", evs |-> << >>, rows |-> SubSeq(rows, 1, Len(rows) - 1),
   payload |-> 2 + Len(rows), word |-> 0]

(* The trailer: a one-event record whose event carries the file::index     *)
(* bank; one index word, the event header, a cell per row.                 *)
TrailerRecord(rows) ==
  [kind |-> "trailer", evs |-> << >>, rows |-> rows, payload |-> 2 + Len(rows), word |-> 0]

IsRecord(c) == c.kind \in {"dict", "data", "trailer"}

(* The event_count field of a record header.                               *)
EventCount(r) ==
  IF r.kind = "data" THEN Len(r.evs) ELSE IF r.kind = "dict" THEN DictEvents ELSE 1

Length(c) == RecordHeaderSize + c.payload

Cell == [of: Content, at: Nat]

Cells(c) == [i \in 1..Length(c) |-> [of |-> c, at |-> i - 1]]

FileHeader == Cells(HeaderFront(0)) \o Cells(TrailerPos(0))

FirstData == FileHeaderSize + RecordHeaderSize + DictLen

(* Content c lies whole in the cells d at offset p.                        *)
Holds(d, p, c) ==
  /\ p + Length(c) <= Len(d)
  /\ \A i \in 1..Length(c) : d[p + i] = [of |-> c, at |-> i - 1]

(* The cells of f with the first k cells of new written at offset p.       *)
Overwrite(d, p, new, k) ==
  [i \in 1..(IF p + k > Len(d) THEN p + k ELSE Len(d)) |->
     IF i \in p + 1..p + k THEN new[i - p] ELSE d[i]]
=============================================================================
