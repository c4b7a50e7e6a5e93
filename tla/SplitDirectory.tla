--------------------------- MODULE SplitDirectory ---------------------------
(***************************************************************************)
(* The directory of a split record as bytes: the tables the writer lays    *)
(* down one after the other, the lengths the reader checks before it looks *)
(* into them, and every element it then reads.  Whether the tables end     *)
(* with the banks' header sizes is told by the length alone.               *)
(*                                                                         *)
(* A directory d has a layout, whether the streams carry encodings (the    *)
(* version says so), and its banks, events and streams.                    *)
(***************************************************************************)
EXTENDS Naturals

CONSTANTS
  MaxUsize,        \* usize::MAX
  DecompressSlack  \* how far decompress lets its output fall short

ASSUME SplitDirectoryAssumption == MaxUsize \in Nat /\ DecompressSlack \in Nat

Directory ==
  [layout: {"by_bank", "per_column"}, encoded: BOOLEAN,
   num_banks: Nat, event_count: Nat, num_streams: Nat]

Banks(d)   == 0..d.num_banks - 1
Events(d)  == 0..d.event_count - 1
Streams(d) == 0..d.num_streams - 1

BytesPerRow(d) == (d.num_banks + 7) \div 8

(* directory_body_len and directory_fixed_len.                             *)
BodyLen(d) ==
  12 * d.num_banks + 4 * d.event_count + d.event_count * BytesPerRow(d)
    + 4 * (d.num_banks * d.event_count)
FixedLen(d) ==
  6 * d.num_banks + 4 * d.event_count + d.event_count * BytesPerRow(d)
    + 4 * (d.num_banks * d.event_count)

BaseLen(d) == IF d.layout = "by_bank" THEN BodyLen(d) ELSE FixedLen(d)

StreamTableLen(d) == IF d.layout = "by_bank" THEN 0 ELSE 8 * d.num_streams

(* What the writer lays down: always with the header sizes.                *)
WrittenLen(d) ==
  BaseLen(d) + StreamTableLen(d) + d.num_banks + (IF d.encoded THEN 5 * d.num_streams ELSE 0)

(***************************************************************************)
(* Where the tables begin.                                                 *)
(***************************************************************************)
TagsAt(d)        == IF d.layout = "by_bank" THEN 12 * d.num_banks ELSE 6 * d.num_banks
PresenceAt(d)    == TagsAt(d) + 4 * d.event_count
SizesAt(d)       == PresenceAt(d) + d.event_count * BytesPerRow(d)
StreamSizesAt(d) == SizesAt(d) + 4 * (d.num_banks * d.event_count)
HeaderSizesAt(d) == StreamSizesAt(d) + StreamTableLen(d)
EncodingsAt(d)   == HeaderSizesAt(d) + d.num_banks
ChecksumsAt(d)   == EncodingsAt(d) + d.num_streams

(* parse_section: the length declared fits the counts, and does not        *)
(* overflow.                                                               *)
AdmitsLength(d, declared) ==
  /\ BaseLen(d) <= MaxUsize
  /\ IF d.layout = "by_bank" THEN declared \in {BaseLen(d), BaseLen(d) + d.num_banks}
     ELSE declared >= BaseLen(d)

(* decompress lets a stream come out longer than declared, and shorter by  *)
(* the slack; the directory is cut to the length declared.                 *)
Underflows(declared, produced) == produced + DecompressSlack < declared
InflatedLen(declared, produced) == IF produced < declared THEN produced ELSE declared

(* Mutant of HoldsTables: the table of streams is not asked for.           *)
HoldsFixedPart(d, n) == n >= BaseLen(d)

(* from_directory: what is there holds the tables it has to.               *)
HoldsTables(d, n) ==
  /\ n >= BaseLen(d)
  /\ d.layout = "per_column" =>
       /\ n >= HeaderSizesAt(d)
       /\ d.encoded => n >= EncodingsAt(d) + 5 * d.num_streams

HasHeaderSizes(d, n) == n >= HeaderSizesAt(d) + d.num_banks

(***************************************************************************)
(* Every element from_directory reads out of n bytes: where, and how wide. *)
(***************************************************************************)
Element(at, width) == [at |-> at, width |-> width]

BankElements(d) ==
  {Element(4 * b, 4) : b \in Banks(d)}
  \cup IF d.layout = "by_bank"
       THEN {Element(4 * d.num_banks + 4 * b, 4) : b \in Banks(d)}
            \cup {Element(8 * d.num_banks + 4 * b, 4) : b \in Banks(d)}
       ELSE {Element(4 * d.num_banks + 2 * b, 2) : b \in Banks(d)}

EventElements(d) == {Element(TagsAt(d) + 4 * e, 4) : e \in Events(d)}

(* The byte that says whether event e has bank b, and the bank's size in   *)
(* it; several banks share a byte.                                         *)
PresenceElements(d) ==
  {Element(PresenceAt(d) + (be[2] * BytesPerRow(d) + be[1] \div 8), 1) : be \in Banks(d) \X Events(d)}
SizeElements(d) ==
  {Element(SizesAt(d) + 4 * (be[1] * d.event_count + be[2]), 4) : be \in Banks(d) \X Events(d)}

StreamElements(d) ==
  IF d.layout = "by_bank" THEN {} ELSE {Element(StreamSizesAt(d) + 8 * s, 8) : s \in Streams(d)}

TailElements(d, n) ==
  (IF HasHeaderSizes(d, n) THEN {Element(HeaderSizesAt(d) + b, 1) : b \in Banks(d)} ELSE {})
  \cup IF d.layout = "per_column" /\ d.encoded
       THEN {Element(EncodingsAt(d) + s, 1) : s \in Streams(d)}
            \cup {Element(ChecksumsAt(d) + 4 * s, 4) : s \in Streams(d)}
       ELSE {}

Elements(d, n) ==
  BankElements(d) \cup EventElements(d) \cup PresenceElements(d) \cup SizeElements(d)
    \cup StreamElements(d) \cup TailElements(d, n)

(* What is read lies in the directory, and no two elements overlap.        *)
StaysInside(d, n) == \A r \in Elements(d, n) : r.at + r.width <= n
LiesApart(d, n) ==
  \A r, s \in Elements(d, n) : r # s => r.at + r.width <= s.at \/ s.at + s.width <= r.at
=============================================================================
