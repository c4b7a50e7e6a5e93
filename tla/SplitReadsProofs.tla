------------------------- MODULE SplitReadsProofs ---------------------------
(***************************************************************************)
(* Proofs about split records.  As they are built: that byte-stream-split  *)
(* loses nothing, that a directory is read inside its bounds, and what a   *)
(* record holds of the events: its banks and their order, each bank's      *)
(* bytes, the run of each event in them, and the columns they are split    *)
(* in.  And about the threads that read one, for any number of them and    *)
(* any order of their steps, whatever storage has damaged: what they       *)
(* borrow stays valid, what they inflate was asked for, and what they      *)
(* answer is what was written or, of a damaged stream, what is left of it. *)
(***************************************************************************)
EXTENDS SplitReads, ListProofs


-----------------------------------------------------------------------------
(***************************************************************************)
(* Places in a table of m rows of n: a number and its quotient and         *)
(* remainder.                                                              *)
(***************************************************************************)
LEMMA DivideBack ==
  ASSUME NEW a \in Nat, NEW b \in Nat, NEW n \in Nat, b < n
  PROVE  (a * n + b) % n = b /\ (a * n + b) \div n = a
  OBVIOUS

LEMMA QuotientAndRemainder ==
  ASSUME NEW q \in Nat, NEW w \in Nat, w > 0
  PROVE  /\ q \div w \in Nat /\ q % w \in 0..w - 1
         /\ q = (q \div w) * w + (q % w)
  OBVIOUS

LEMMA PlaceInTable ==
  ASSUME NEW a \in Nat, NEW b \in Nat, NEW m \in Nat, NEW n \in Nat, a < m, b < n
  PROVE  a * n + b \in 0..(m * n - 1)
<1>1. (a + 1) * n <= m * n
  OBVIOUS
<1>2. (a + 1) * n = a * n + n
  OBVIOUS
<1>3. a * n \in Nat /\ m * n \in Nat
  OBVIOUS
<1> QED BY <1>1, <1>2, <1>3

LEMMA RowOfPlace ==
  ASSUME NEW q \in Nat, NEW m \in Nat, NEW w \in Nat, w > 0, q < m * w
  PROVE  q \div w \in 0..m - 1
<1>1. q \div w \in Nat /\ (q \div w) * w <= q
  BY QuotientAndRemainder
<1>2. SUFFICES ASSUME q \div w >= m PROVE FALSE
  BY <1>1
<1>3. (q \div w) * w >= m * w
  BY <1>1, <1>2
<1>4. m * w \in Nat /\ (q \div w) * w \in Nat
  BY <1>1
<1> QED BY <1>1, <1>3, <1>4

(* The place of a byte of the table when it is turned on its side, and     *)
(* back.                                                                   *)
LEMMA TurnedAndBack ==
  ASSUME NEW q \in Nat, NEW n \in Nat, NEW w \in Nat, w > 0, q < n * w
  PROVE  LET r == (q % w) * n + (q \div w) IN
         /\ r \in 0..(n * w - 1)
         /\ (r % n) * w + (r \div n) = q
<1> DEFINE i == q \div w
           k == q % w
<1>1. i \in Nat /\ i < n
  BY RowOfPlace
<1>2. k \in Nat /\ k < w /\ q = i * w + k
  BY QuotientAndRemainder
<1>3. k * n + i \in 0..(w * n - 1)
  BY <1>1, <1>2, PlaceInTable
<1>4. (k * n + i) % n = i /\ (k * n + i) \div n = k
  BY <1>1, <1>2, DivideBack
<1>5. w * n = n * w
  OBVIOUS
<1> QED BY <1>2, <1>3, <1>4, <1>5

(* The other way round: what ByteSplit takes from is within the stream.    *)
LEMMA TurnedPlace ==
  ASSUME NEW q \in Nat, NEW n \in Nat, NEW w \in Nat, w > 0, q < n * w
  PROVE  (q % n) * w + (q \div n) \in 0..(n * w - 1)
<1>1. n > 0
  OBVIOUS
<1>2. q % n \in Nat /\ q % n < n
  BY <1>1, QuotientAndRemainder
<1>3. w * n = n * w
  OBVIOUS
<1>4. q \div n \in Nat /\ q \div n < w
  BY <1>1, <1>3, RowOfPlace
<1> QED BY <1>2, <1>4, PlaceInTable

LEMMA WholeElements ==
  ASSUME NEW l \in Nat, NEW w \in Nat, w > 0
  PROVE  l \div w \in Nat /\ (l \div w) * w \in 0..l
<1>1. l \div w \in Nat /\ l % w \in Nat /\ l = (l \div w) * w + (l % w)
  BY QuotientAndRemainder
<1>2. (l \div w) * w \in Nat
  BY <1>1
<1> QED BY <1>1, <1>2

(* A stream split is as long as it was, and of the same bytes.             *)
LEMMA ByteSplitIs ==
  ASSUME NEW S, NEW s \in Seq(S), NEW w \in Nat \ {0}
  PROVE  ByteSplit(s, w) \in Seq(S) /\ Len(ByteSplit(s, w)) = Len(s)
<1> DEFINE l == Len(s)
           n == l \div w
           b == ByteSplit(s, w)
           From(p) == ((p - 1) % n) * w + (p - 1) \div n + 1
<1>1. /\ l \in Nat /\ DOMAIN s = 1..l /\ w \in Nat /\ w > 0
      /\ n \in Nat /\ n * w \in 0..l
  BY WholeElements
<1>2. ASSUME NEW p \in 1..l, p <= n * w
      PROVE  From(p) \in 1..n * w
  <2>1. p - 1 \in Nat /\ p - 1 < n * w
    BY <1>1, <1>2
  <2>2. ((p - 1) % n) * w + ((p - 1) \div n) \in 0..(n * w - 1)
    BY <1>1, <2>1, TurnedPlace
  <2> QED BY <1>1, <2>2
<1>3. b = [p \in 1..l |-> IF p <= n * w THEN s[From(p)] ELSE s[p]]
  BY <1>1 DEF ByteSplit
<1>4. b \in [1..l -> S]
  <2>1. ASSUME NEW p \in 1..l
        PROVE  (IF p <= n * w THEN s[From(p)] ELSE s[p]) \in S
    <3> HIDE DEF From, n, l
    <3>1. CASE p <= n * w
      <4>1. From(p) \in 1..l
        BY <1>1, <1>2, <3>1
      <4> QED BY <3>1, <4>1 DEF l
    <3>2. CASE ~(p <= n * w)
      BY <3>2 DEF l
    <3> QED BY <3>1, <3>2
  <2> HIDE DEF From, n, l, b
  <2> QED BY <1>3, <2>1
<1> HIDE DEF b, l
<1>5. b \in Seq(S) /\ Len(b) = l
  BY <1>1, <1>4, FunctionIsSeq
<1> QED BY <1>5 DEF b, l

(* byte_unsplit undoes byte_split, for every stream and every width of     *)
(* element, whole elements at its end or not.                              *)
THEOREM ByteSplitLosesNothing ==
  ASSUME NEW S, NEW s \in Seq(S), NEW w \in Nat \ {0}
  PROVE  ByteUnsplit(ByteSplit(s, w), w) = s
<1> DEFINE l == Len(s)
           n == l \div w
           b == ByteSplit(s, w)
           From(p) == ((p - 1) % n) * w + (p - 1) \div n + 1
           To(p) == ((p - 1) % w) * n + (p - 1) \div w + 1
<1>1. /\ l \in Nat /\ DOMAIN s = 1..l /\ w \in Nat /\ w > 0
      /\ n \in Nat /\ n * w \in 0..l
  BY WholeElements
<1>2. b = [p \in 1..l |-> IF p <= n * w THEN s[From(p)] ELSE s[p]]
  BY <1>1 DEF ByteSplit
<1>3. b \in Seq(S) /\ Len(b) = l /\ DOMAIN b = 1..l
  <2>1. b \in Seq(S) /\ Len(b) = l
    BY ByteSplitIs
  <2> HIDE DEF b, l
  <2> QED BY <2>1
<1>4. ByteUnsplit(b, w) = [p \in 1..l |-> IF p <= n * w THEN b[To(p)] ELSE b[p]]
  <2> HIDE DEF b
  <2> QED BY <1>1, <1>3 DEF ByteUnsplit
<1>5. ASSUME NEW p \in 1..l
      PROVE  (IF p <= n * w THEN b[To(p)] ELSE b[p]) = s[p]
  <2>1. CASE p <= n * w
    <3>1. p - 1 \in Nat /\ p - 1 < n * w
      BY <1>1, <2>1
    <3>2. /\ ((p - 1) % w) * n + ((p - 1) \div w) \in 0..(n * w - 1)
          /\ LET r == ((p - 1) % w) * n + ((p - 1) \div w) IN (r % n) * w + (r \div n) = p - 1
      BY <1>1, <3>1, TurnedAndBack
    <3> DEFINE r == ((p - 1) % w) * n + ((p - 1) \div w)
               m == n * w
    <3>3. m \in 0..l /\ r \in 0..(m - 1) /\ To(p) = r + 1
      BY <1>1, <3>2
    <3>4. To(p) \in 1..l /\ To(p) <= n * w /\ To(p) - 1 = r
      <4>1. To(p) \in 1..l /\ To(p) <= m /\ To(p) - 1 = r
        <5> HIDE DEF To, m, r, l
        <5> QED BY <1>1, <3>3
      <4> QED BY <4>1
    <3>5. From(To(p)) = p
      <4>1. From(To(p)) = (r % n) * w + (r \div n) + 1
        BY <3>4
      <4>2. (r % n) * w + (r \div n) = p - 1
        BY <3>2
      <4> QED BY <4>1, <4>2
    <3> HIDE DEF From, To, n, l, b
    <3>6. b[To(p)] = s[From(To(p))]
      BY <1>2, <3>4
    <3> QED BY <2>1, <3>5, <3>6
  <2>2. CASE ~(p <= n * w)
    <3> HIDE DEF From, To, n, l, b
    <3> QED BY <1>2, <2>2
  <2> QED BY <2>1, <2>2
<1>6. s = [p \in 1..l |-> s[p]]
  BY <1>1
<1> HIDE DEF To, From, n, l, b
<1>7. ByteUnsplit(b, w) = s
  BY <1>4, <1>5, <1>6
<1> QED BY <1>7 DEF b

-----------------------------------------------------------------------------
(***************************************************************************)
(* The directory.  Whatever counts a split record declares, one that       *)
(* passes the reader's checks is read inside its bounds; and what the      *)
(* writer lays down passes them, with all its tables found where they      *)
(* were put.                                                               *)
(***************************************************************************)
(* Row-major: element <<i, j>> of n rows of m lies before n * m.           *)
LEMMA RowMajor ==
  ASSUME NEW n \in Nat, NEW m \in Nat, NEW i \in 0..n - 1, NEW j \in 0..m - 1
  PROVE  i * m + j \in Nat /\ i * m + j + 1 <= n * m
<1>1. i \in Nat /\ i + 1 <= n /\ j \in Nat /\ j + 1 <= m
  OBVIOUS
<1>2. PICK k \in Nat : n = i + 1 + k
  <2>1. n - (i + 1) \in Nat /\ n = i + 1 + (n - (i + 1))
    BY <1>1
  <2> QED BY <2>1
<1>3. n * m = i * m + m + k * m
  BY <1>1, <1>2
<1>4. k * m \in Nat /\ i * m \in Nat
  BY <1>1, <1>2
<1> QED BY <1>1, <1>3, <1>4

(* A bank's presence bit lies in its event's row of bytes.                 *)
LEMMA BitInRow ==
  ASSUME NEW nb \in Nat, NEW b \in 0..nb - 1
  PROVE  b \div 8 \in 0..((nb + 7) \div 8) - 1
OBVIOUS

(* Lengths and offsets are numbers, and the table of sizes ends where the  *)
(* length the reader computes on its own says.                             *)
LEMMA Offsets ==
  ASSUME NEW d \in Directory
  PROVE  /\ BytesPerRow(d) \in Nat
         /\ d.event_count * BytesPerRow(d) \in Nat
         /\ d.num_banks * d.event_count \in Nat
         /\ BaseLen(d) \in Nat /\ StreamTableLen(d) \in Nat
         /\ StreamSizesAt(d) = BaseLen(d)
         /\ HeaderSizesAt(d) = BaseLen(d) + StreamTableLen(d)
<1>1. d.num_banks \in Nat /\ d.event_count \in Nat /\ d.num_streams \in Nat
  BY DEF Directory
<1>2. BytesPerRow(d) \in Nat
  BY <1>1 DEF BytesPerRow
<1>3. d.event_count * BytesPerRow(d) \in Nat /\ d.num_banks * d.event_count \in Nat
  BY <1>1, <1>2
<1> DEFINE rows == d.event_count * BytesPerRow(d)
           cells == d.num_banks * d.event_count
<1>4. CASE d.layout = "by_bank"
  <2>1. BaseLen(d) = 12 * d.num_banks + 4 * d.event_count + rows + 4 * cells
    BY <1>4 DEF BaseLen, BodyLen
  <2>2. StreamSizesAt(d) = 12 * d.num_banks + 4 * d.event_count + rows + 4 * cells
    BY <1>4 DEF StreamSizesAt, SizesAt, PresenceAt, TagsAt
  <2>3. StreamTableLen(d) = 0
    BY <1>4 DEF StreamTableLen
  <2> HIDE DEF rows, cells
  <2> QED BY <1>1, <1>2, <1>3, <2>1, <2>2, <2>3 DEF HeaderSizesAt, rows, cells
<1>5. CASE d.layout # "by_bank"
  <2>1. BaseLen(d) = 6 * d.num_banks + 4 * d.event_count + rows + 4 * cells
    BY <1>5 DEF BaseLen, FixedLen
  <2>2. StreamSizesAt(d) = 6 * d.num_banks + 4 * d.event_count + rows + 4 * cells
    BY <1>5 DEF StreamSizesAt, SizesAt, PresenceAt, TagsAt
  <2>3. StreamTableLen(d) = 8 * d.num_streams
    BY <1>5 DEF StreamTableLen
  <2> HIDE DEF rows, cells
  <2> QED BY <1>1, <1>2, <1>3, <2>1, <2>2, <2>3 DEF HeaderSizesAt, rows, cells
<1> QED BY <1>4, <1>5

(* Whatever lengths the tables are given, what from_directory reads out of *)
(* a directory it has accepted lies inside it: no read of a bank, an       *)
(* event, a presence byte, a size, a stream or the tables after them can   *)
(* run past the end (from_directory, by_bank.rs and per_column.rs).        *)
THEOREM ReadsStayInside ==
  ASSUME NEW d \in Directory, NEW n \in Nat, HoldsTables(d, n)
  PROVE  StaysInside(d, n)
<1> DEFINE B == d.num_banks
           E == d.event_count
           S == d.num_streams
           W == BytesPerRow(d)
           rows == d.event_count * BytesPerRow(d)
           cells == d.num_banks * d.event_count
           per == IF d.layout = "by_bank" THEN 12 ELSE 6
<1>1. B \in Nat /\ E \in Nat /\ S \in Nat /\ W \in Nat /\ rows \in Nat /\ cells \in Nat
  BY Offsets DEF Directory
<1>2. /\ StreamSizesAt(d) = BaseLen(d) /\ BaseLen(d) \in Nat /\ StreamTableLen(d) \in Nat
      /\ HeaderSizesAt(d) = BaseLen(d) + StreamTableLen(d)
  BY Offsets
<1>3. /\ TagsAt(d) = IF d.layout = "by_bank" THEN 12 * B ELSE 6 * B
      /\ PresenceAt(d) = TagsAt(d) + 4 * E
      /\ SizesAt(d) = PresenceAt(d) + rows
      /\ BaseLen(d) = SizesAt(d) + 4 * cells
  BY <1>2 DEF TagsAt, PresenceAt, SizesAt, StreamSizesAt
<1>4. BaseLen(d) <= n
  BY <1>1, <1>2 DEF HoldsTables
<1> HIDE DEF rows, cells, W
<1>5. TagsAt(d) \in Nat /\ PresenceAt(d) \in Nat /\ SizesAt(d) \in Nat
  BY <1>1, <1>3
<1>6. TagsAt(d) <= n /\ PresenceAt(d) <= n /\ SizesAt(d) <= n
  BY <1>1, <1>3, <1>4, <1>5
<1>7. ASSUME NEW r \in BankElements(d)
      PROVE  r.at + r.width <= n
  <2>1. CASE d.layout = "by_bank"
    <3>1. 12 * B <= n
      BY <2>1, <1>3, <1>6
    <3>2. PICK b \in 0..B - 1 : \/ r = Element(4 * b, 4)
                                \/ r = Element(4 * B + 4 * b, 4)
                                \/ r = Element(8 * B + 4 * b, 4)
      BY <1>7, <2>1 DEF BankElements, Banks
    <3> QED BY <1>1, <3>1, <3>2 DEF Element
  <2>2. CASE d.layout # "by_bank"
    <3>1. 6 * B <= n
      BY <2>2, <1>3, <1>6
    <3>2. PICK b \in 0..B - 1 : r = Element(4 * b, 4) \/ r = Element(4 * B + 2 * b, 2)
      BY <1>7, <2>2 DEF BankElements, Banks
    <3> QED BY <1>1, <3>1, <3>2 DEF Element
  <2> QED BY <2>1, <2>2
<1>8. ASSUME NEW r \in EventElements(d)
      PROVE  r.at + r.width <= n
  <2>1. PICK e \in 0..E - 1 : r = Element(TagsAt(d) + 4 * e, 4)
    BY <1>8 DEF EventElements, Events
  <2> QED BY <1>1, <1>3, <1>5, <1>6, <2>1 DEF Element
<1>9. ASSUME NEW r \in PresenceElements(d)
      PROVE  r.at + r.width <= n
  <2>1. PICK b \in 0..B - 1, e \in 0..E - 1 :
          r = Element(PresenceAt(d) + (e * BytesPerRow(d) + b \div 8), 1)
    BY <1>9 DEF PresenceElements, Banks, Events
  <2>2. b \div 8 \in 0..BytesPerRow(d) - 1
    BY <1>1, BitInRow DEF BytesPerRow
  <2>3. e * BytesPerRow(d) + b \div 8 \in Nat /\ e * BytesPerRow(d) + b \div 8 + 1 <= rows
    BY <1>1, <2>2, RowMajor DEF rows, W
  <2> DEFINE byte == e * BytesPerRow(d) + b \div 8
  <2> HIDE DEF byte
  <2>4. r = Element(PresenceAt(d) + byte, 1) /\ byte \in Nat /\ byte + 1 <= rows
    BY <2>1, <2>3 DEF byte
  <2> QED BY <1>1, <1>3, <1>5, <1>6, <2>4 DEF Element
<1>10. ASSUME NEW r \in SizeElements(d)
       PROVE  r.at + r.width <= n
  <2>1. PICK b \in 0..B - 1, e \in 0..E - 1 :
          r = Element(SizesAt(d) + 4 * (b * d.event_count + e), 4)
    BY <1>10 DEF SizeElements, Banks, Events
  <2>2. b * d.event_count + e \in Nat /\ b * d.event_count + e + 1 <= cells
    BY <1>1, RowMajor DEF cells
  <2> DEFINE cell == b * d.event_count + e
  <2> HIDE DEF cell
  <2>3. r = Element(SizesAt(d) + 4 * cell, 4) /\ cell \in Nat /\ cell + 1 <= cells
    BY <2>1, <2>2 DEF cell
  <2> QED BY <1>1, <1>3, <1>4, <1>5, <2>3 DEF Element
<1>11. ASSUME NEW r \in StreamElements(d)
       PROVE  r.at + r.width <= n
  <2>1. d.layout # "by_bank"
    BY <1>11 DEF StreamElements
  <2>2. PICK s \in 0..S - 1 : r = Element(StreamSizesAt(d) + 8 * s, 8)
    BY <1>11, <2>1 DEF StreamElements, Streams
  <2>3. n >= BaseLen(d) + 8 * S
    BY <1>2, <2>1 DEF HoldsTables, StreamTableLen, Directory
  <2> QED BY <1>1, <1>2, <2>2, <2>3 DEF Element
<1>12. ASSUME NEW r \in TailElements(d, n)
       PROVE  r.at + r.width <= n
  <2> DEFINE H == HeaderSizesAt(d)
  <2>1. H \in Nat
    BY <1>2
  <2>2. ASSUME HasHeaderSizes(d, n), r \in {Element(HeaderSizesAt(d) + b, 1) : b \in Banks(d)}
        PROVE  r.at + r.width <= n
    <3>1. PICK b \in 0..B - 1 : r = Element(H + b, 1)
      BY <2>2 DEF Banks
    <3> QED BY <1>1, <2>1, <2>2, <3>1 DEF Element, HasHeaderSizes
  <2>3. ASSUME d.layout = "per_column", d.encoded,
               r \in {Element(EncodingsAt(d) + s, 1) : s \in Streams(d)}
                      \cup {Element(ChecksumsAt(d) + 4 * s, 4) : s \in Streams(d)}
        PROVE  r.at + r.width <= n
    <3>1. n >= H + B + 5 * S
      BY <2>3 DEF HoldsTables, EncodingsAt
    <3>2. PICK s \in 0..S - 1 : r = Element(H + B + s, 1) \/ r = Element(H + B + S + 4 * s, 4)
      BY <2>3 DEF Streams, EncodingsAt, ChecksumsAt
    <3> QED BY <1>1, <2>1, <3>1, <3>2 DEF Element
  <2> QED BY <1>12, <2>2, <2>3 DEF TailElements
<1> QED BY <1>7, <1>8, <1>9, <1>10, <1>11, <1>12 DEF StaysInside, Elements

(* What the writer lays down passes: parse_section takes the length, all   *)
(* the tables are there and the header sizes are found again at the end,   *)
(* unless the directory is longer than the machine can count.              *)
THEOREM WrittenIsAccepted ==
  ASSUME NEW d \in Directory, BaseLen(d) <= MaxUsize, d.encoded => d.layout = "per_column"
  PROVE  /\ AdmitsLength(d, WrittenLen(d))
         /\ HoldsTables(d, WrittenLen(d))
         /\ HasHeaderSizes(d, WrittenLen(d))
<1>1. d.num_banks \in Nat /\ d.num_streams \in Nat /\ d.encoded \in BOOLEAN
  BY DEF Directory
<1>2. /\ BaseLen(d) \in Nat /\ StreamTableLen(d) \in Nat
      /\ HeaderSizesAt(d) = BaseLen(d) + StreamTableLen(d)
  BY Offsets
<1>3. CASE d.layout = "by_bank"
  <2>1. WrittenLen(d) = BaseLen(d) + d.num_banks /\ StreamTableLen(d) = 0
    BY <1>1, <1>2, <1>3 DEF WrittenLen, StreamTableLen
  <2> QED BY <1>1, <1>2, <1>3, <2>1 DEF AdmitsLength, HoldsTables, HasHeaderSizes
<1>4. CASE d.layout # "by_bank"
  <2>1. WrittenLen(d) >= HeaderSizesAt(d) + d.num_banks
    BY <1>1, <1>2 DEF WrittenLen
  <2>2. d.encoded => WrittenLen(d) >= EncodingsAt(d) + 5 * d.num_streams
    BY <1>1, <1>2 DEF WrittenLen, EncodingsAt
  <2>3. WrittenLen(d) \in Nat
    BY <1>1, <1>2 DEF WrittenLen
  <2> QED BY <1>1, <1>2, <1>4, <2>1, <2>2, <2>3 DEF AdmitsLength, HoldsTables, HasHeaderSizes
<1> QED BY <1>3, <1>4

(* A table: what is read of it lies from lo to hi, and no two of its       *)
(* elements overlap.                                                       *)
Table(T, lo, hi) ==
  /\ lo \in Nat /\ hi \in Nat /\ lo <= hi
  /\ \A r \in T : /\ r.at \in Nat /\ r.width \in Nat
                  /\ lo <= r.at /\ r.at + r.width <= hi
  /\ \A r, s \in T : r # s => r.at + r.width <= s.at \/ s.at + s.width <= r.at

LEMMA TableOf ==
  ASSUME NEW at \in Nat, NEW k \in Nat, NEW n \in Nat, NEW T,
         T \subseteq {Element(at + k * j, k) : j \in 0..n - 1}
  PROVE  Table(T, at, at + k * n)
<1>1. ASSUME NEW i \in Nat, NEW j \in Nat, i < j
      PROVE  k * i \in Nat /\ k * j \in Nat /\ k * i + k <= k * j
  <2>1. PICK m \in Nat : j = i + 1 + m
    <3>1. j - (i + 1) \in Nat /\ j = i + 1 + (j - (i + 1))
      BY <1>1
    <3> QED BY <3>1
  <2>2. k * j = k * i + k + k * m /\ k * m \in Nat /\ k * i \in Nat
    BY <2>1
  <2> QED BY <2>2
<1>2. k * n \in Nat
  OBVIOUS
<1>3. ASSUME NEW r \in T
      PROVE  \E j \in 0..n - 1 : r.at = at + k * j /\ r.width = k /\ r = Element(at + k * j, k)
  <2>1. PICK j \in 0..n - 1 : r = Element(at + k * j, k)
    OBVIOUS
  <2>2. \A x, y : Element(x, y).at = x /\ Element(x, y).width = y
    BY DEF Element
  <2> QED BY <2>1, <2>2
<1>4. ASSUME NEW r \in T
      PROVE  r.at \in Nat /\ r.width \in Nat /\ at <= r.at /\ r.at + r.width <= at + k * n
  <2>1. PICK j \in 0..n - 1 : r.at = at + k * j /\ r.width = k
    BY <1>3
  <2>2. j \in Nat /\ j < n
    OBVIOUS
  <2>3. k * j \in Nat /\ k * j + k <= k * n
    BY <1>1, <2>2
  <2> QED BY <1>2, <2>1, <2>3
<1>5. ASSUME NEW r \in T, NEW s \in T, r # s
      PROVE  r.at + r.width <= s.at \/ s.at + s.width <= r.at
  <2>1. PICK i \in 0..n - 1 : r.at = at + k * i /\ r.width = k /\ r = Element(at + k * i, k)
    BY <1>3
  <2>2. PICK j \in 0..n - 1 : s.at = at + k * j /\ s.width = k /\ s = Element(at + k * j, k)
    BY <1>3
  <2>3. i # j /\ i \in Nat /\ j \in Nat
    BY <1>5, <2>1, <2>2
  <2>4. CASE i < j
    BY <1>1, <2>1, <2>2, <2>3, <2>4
  <2>5. CASE j < i
    BY <1>1, <2>1, <2>2, <2>3, <2>5
  <2> QED BY <2>3, <2>4, <2>5
<1> QED BY <1>2, <1>4, <1>5 DEF Table

LEMMA TablesJoin ==
  ASSUME NEW A, NEW B, NEW lo, NEW mid, NEW hi, Table(A, lo, mid), Table(B, mid, hi)
  PROVE  Table(A \cup B, lo, hi)
<1>1. /\ lo \in Nat /\ mid \in Nat /\ hi \in Nat /\ lo <= mid /\ mid <= hi
      /\ \A r \in A : /\ r.at \in Nat /\ r.width \in Nat /\ lo <= r.at /\ r.at + r.width <= mid
      /\ \A r \in B : /\ r.at \in Nat /\ r.width \in Nat /\ mid <= r.at /\ r.at + r.width <= hi
  BY DEF Table
<1>2. ASSUME NEW r \in A \cup B
      PROVE  r.at \in Nat /\ r.width \in Nat /\ lo <= r.at /\ r.at + r.width <= hi
  <2>1. CASE r \in A
    BY <1>1, <2>1
  <2>2. CASE r \in B
    BY <1>1, <2>2
  <2> QED BY <2>1, <2>2
<1>3. ASSUME NEW r \in A, NEW s \in B
      PROVE  r.at + r.width <= s.at
  BY <1>1
<1>4. ASSUME NEW r \in A \cup B, NEW s \in A \cup B, r # s
      PROVE  r.at + r.width <= s.at \/ s.at + s.width <= r.at
  <2>1. CASE r \in A /\ s \in A
    BY <1>4, <2>1 DEF Table
  <2>2. CASE r \in B /\ s \in B
    BY <1>4, <2>2 DEF Table
  <2> QED BY <1>3, <2>1, <2>2
<1> QED BY <1>1, <1>2, <1>4 DEF Table

(* The tables lie one after the other, so that no two elements the reader  *)
(* looks up share a byte: no table reads what another one says.            *)
THEOREM ReadsLieApart ==
  ASSUME NEW d \in Directory, NEW n
  PROVE  LiesApart(d, n)
<1> DEFINE B == d.num_banks
           E == d.event_count
           S == d.num_streams
           W == BytesPerRow(d)
           rows == d.event_count * BytesPerRow(d)
           cells == d.num_banks * d.event_count
<1>1. /\ B \in Nat /\ E \in Nat /\ S \in Nat /\ W \in Nat /\ rows \in Nat /\ cells \in Nat
      /\ d.layout \in {"by_bank", "per_column"}
  BY Offsets DEF Directory
<1>2. /\ TagsAt(d) = (IF d.layout = "by_bank" THEN 12 * B ELSE 6 * B)
      /\ PresenceAt(d) = TagsAt(d) + 4 * E /\ SizesAt(d) = PresenceAt(d) + 1 * rows
      /\ StreamSizesAt(d) = SizesAt(d) + 4 * cells
      /\ HeaderSizesAt(d) = StreamSizesAt(d) + StreamTableLen(d)
      /\ StreamTableLen(d) = (IF d.layout = "by_bank" THEN 0 ELSE 8 * S)
      /\ EncodingsAt(d) = HeaderSizesAt(d) + 1 * B /\ ChecksumsAt(d) = EncodingsAt(d) + 1 * S
  <2> HIDE DEF rows, cells
  <2>1. 1 * rows = rows /\ 1 * B = B /\ 1 * S = S
    BY <1>1
  <2> QED BY <2>1 DEF TagsAt, PresenceAt, SizesAt, StreamSizesAt, HeaderSizesAt, StreamTableLen,
                      EncodingsAt, ChecksumsAt, rows, cells
<1> HIDE DEF rows, cells
<1>3. /\ TagsAt(d) \in Nat /\ PresenceAt(d) \in Nat /\ SizesAt(d) \in Nat
      /\ StreamSizesAt(d) \in Nat /\ HeaderSizesAt(d) \in Nat /\ EncodingsAt(d) \in Nat
      /\ ChecksumsAt(d) \in Nat /\ StreamTableLen(d) \in Nat
  <2>1. TagsAt(d) \in Nat /\ StreamTableLen(d) \in Nat
    BY <1>1, <1>2
  <2>2. PresenceAt(d) \in Nat /\ SizesAt(d) \in Nat /\ StreamSizesAt(d) \in Nat
    <3> HIDE DEF E
    <3> QED BY <1>1, <1>2, <2>1
  <2>3. HeaderSizesAt(d) \in Nat
    BY <1>2, <2>1, <2>2
  <2> HIDE DEF B, S
  <2> QED BY <1>1, <1>2, <2>1, <2>2, <2>3
<1>4. Table(BankElements(d), 0, TagsAt(d))
  <2> DEFINE T(at, k) == {Element(at + k * b, k) : b \in 0..B - 1}
  <2>1. \A k \in {2, 4} : \A at \in Nat : Table(T(at, k), at, at + k * B)
    BY <1>1, TableOf
  <2>2. /\ \A b \in 0..B - 1 : 0 + 4 * b = 4 * b
        /\ T(0, 4) = {Element(0 + 4 * b, 4) : b \in 0..B - 1}
    OBVIOUS
  <2>3. T(0, 4) = {Element(4 * b, 4) : b \in Banks(d)}
    BY <2>2 DEF Banks
  <2> HIDE DEF T
  <2>4. Table(T(0, 4), 0, 4 * B)
    <3>1. Table(T(0, 4), 0, 0 + 4 * B)
      BY <2>1
    <3>2. 0 + 4 * B = 4 * B
      BY <1>1
    <3> QED BY <3>1, <3>2
  <2>5. CASE d.layout = "by_bank"
    <3>1. Table(T(4 * B, 4), 4 * B, 8 * B)
      <4>1. 4 * B \in Nat /\ 4 * B + 4 * B = 8 * B
        BY <1>1
      <4>2. Table(T(4 * B, 4), 4 * B, 4 * B + 4 * B)
        BY <2>1, <4>1
      <4> QED BY <4>1, <4>2
    <3>2. Table(T(8 * B, 4), 8 * B, 12 * B)
      <4>1. 8 * B \in Nat /\ 8 * B + 4 * B = 12 * B
        BY <1>1
      <4>2. Table(T(8 * B, 4), 8 * B, 8 * B + 4 * B)
        BY <2>1, <4>1
      <4> QED BY <4>1, <4>2
    <3>3. Table(T(4 * B, 4) \cup T(8 * B, 4), 4 * B, 12 * B)
      BY <3>1, <3>2, TablesJoin
    <3>4. Table(T(0, 4) \cup (T(4 * B, 4) \cup T(8 * B, 4)), 0, 12 * B)
      BY <2>4, <3>3, TablesJoin
    <3>5. BankElements(d) = T(0, 4) \cup (T(4 * B, 4) \cup T(8 * B, 4))
      <4>1. /\ T(4 * B, 4) = {Element(4 * B + 4 * b, 4) : b \in Banks(d)}
            /\ T(8 * B, 4) = {Element(8 * B + 4 * b, 4) : b \in Banks(d)}
        BY DEF T, Banks
      <4> QED BY <2>3, <2>5, <4>1 DEF BankElements
    <3> QED BY <1>2, <2>5, <3>4, <3>5
  <2>6. CASE d.layout # "by_bank"
    <3>1. Table(T(4 * B, 2), 4 * B, 6 * B)
      <4>1. 4 * B \in Nat /\ 4 * B + 2 * B = 6 * B
        BY <1>1
      <4>2. Table(T(4 * B, 2), 4 * B, 4 * B + 2 * B)
        BY <2>1, <4>1
      <4> QED BY <4>1, <4>2
    <3>2. Table(T(0, 4) \cup T(4 * B, 2), 0, 6 * B)
      BY <2>4, <3>1, TablesJoin
    <3>3. BankElements(d) = T(0, 4) \cup T(4 * B, 2)
      <4>1. T(4 * B, 2) = {Element(4 * B + 2 * b, 2) : b \in Banks(d)}
        BY DEF T, Banks
      <4> QED BY <2>3, <2>6, <4>1 DEF BankElements
    <3> QED BY <1>2, <2>6, <3>2, <3>3
  <2> QED BY <2>5, <2>6
<1>5. Table(EventElements(d), TagsAt(d), PresenceAt(d))
  <2>1. EventElements(d) = {Element(TagsAt(d) + 4 * e, 4) : e \in 0..E - 1}
    BY DEF EventElements, Events
  <2> QED BY <1>1, <1>2, <1>3, <2>1, TableOf
<1>6. Table(PresenceElements(d), PresenceAt(d), SizesAt(d))
  <2>1. ASSUME NEW be \in Banks(d) \X Events(d)
        PROVE  be[2] * W + be[1] \div 8 \in 0..rows - 1
    <3>1. be[1] \in 0..B - 1 /\ be[2] \in 0..E - 1
      BY DEF Banks, Events
    <3>2. be[1] \div 8 \in 0..W - 1
      BY <1>1, <3>1, BitInRow DEF BytesPerRow
    <3>3. be[2] * W + be[1] \div 8 \in Nat /\ be[2] * W + be[1] \div 8 + 1 <= E * W
      BY <1>1, <3>1, <3>2, RowMajor
    <3> QED BY <1>1, <3>3 DEF rows
  <2>2. \A j \in 0..rows - 1 : PresenceAt(d) + 1 * j = PresenceAt(d) + j
    BY <1>1, <1>3
  <2>3. PresenceElements(d) \subseteq {Element(PresenceAt(d) + 1 * j, 1) : j \in 0..rows - 1}
    <3> SUFFICES ASSUME NEW be \in Banks(d) \X Events(d)
                 PROVE  Element(PresenceAt(d) + (be[2] * W + be[1] \div 8), 1)
                          \in {Element(PresenceAt(d) + 1 * j, 1) : j \in 0..rows - 1}
      BY DEF PresenceElements
    <3> DEFINE j == be[2] * W + be[1] \div 8
    <3>1. j \in 0..rows - 1
      BY <2>1
    <3> HIDE DEF j
    <3>2. Element(PresenceAt(d) + j, 1) = Element(PresenceAt(d) + 1 * j, 1)
      BY <2>2, <3>1
    <3>3. Element(PresenceAt(d) + j, 1) \in {Element(PresenceAt(d) + 1 * i, 1) : i \in 0..rows - 1}
      BY <3>1, <3>2
    <3> QED BY <3>3 DEF j
  <2> QED BY <1>1, <1>2, <1>3, <2>3, TableOf
<1>7. Table(SizeElements(d), SizesAt(d), StreamSizesAt(d))
  <2>1. ASSUME NEW be \in Banks(d) \X Events(d)
        PROVE  be[1] * E + be[2] \in 0..cells - 1
    <3>1. be[1] \in 0..B - 1 /\ be[2] \in 0..E - 1
      BY DEF Banks, Events
    <3>2. be[1] * E + be[2] \in Nat /\ be[1] * E + be[2] + 1 <= B * E
      BY <1>1, <3>1, RowMajor
    <3> QED BY <1>1, <3>2 DEF cells
  <2>2. SizeElements(d) \subseteq {Element(SizesAt(d) + 4 * j, 4) : j \in 0..cells - 1}
    <3> SUFFICES ASSUME NEW be \in Banks(d) \X Events(d)
                 PROVE  Element(SizesAt(d) + 4 * (be[1] * E + be[2]), 4)
                          \in {Element(SizesAt(d) + 4 * j, 4) : j \in 0..cells - 1}
      BY DEF SizeElements
    <3> QED BY <2>1
  <2> QED BY <1>1, <1>2, <1>3, <2>2, TableOf
<1>8. Table(StreamElements(d), StreamSizesAt(d), HeaderSizesAt(d))
  <2>1. StreamElements(d) \subseteq {Element(StreamSizesAt(d) + 8 * s, 8) : s \in 0..S - 1}
    BY DEF StreamElements, Streams
  <2>2. CASE d.layout = "by_bank"
    <3>1. StreamElements(d) = {} /\ HeaderSizesAt(d) = StreamSizesAt(d)
      BY <1>2, <1>3, <2>2 DEF StreamElements
    <3> QED BY <1>3, <3>1 DEF Table
  <2>3. CASE d.layout # "by_bank"
    BY <1>1, <1>2, <1>3, <2>1, <2>3, TableOf
  <2> QED BY <2>2, <2>3
<1>9. Table(TailElements(d, n), HeaderSizesAt(d), ChecksumsAt(d) + 4 * S)
  <2> DEFINE H == IF HasHeaderSizes(d, n) THEN {Element(HeaderSizesAt(d) + b, 1) : b \in Banks(d)} ELSE {}
             coded == d.layout = "per_column" /\ d.encoded
             C == IF coded THEN {Element(EncodingsAt(d) + s, 1) : s \in Streams(d)} ELSE {}
             K == IF coded THEN {Element(ChecksumsAt(d) + 4 * s, 4) : s \in Streams(d)} ELSE {}
  <2>1. ASSUME NEW at \in Nat, NEW m \in Nat
        PROVE  {Element(at + j, 1) : j \in 0..m - 1} \subseteq {Element(at + 1 * j, 1) : j \in 0..m - 1}
    <3>1. \A j \in 0..m - 1 : at + j = at + 1 * j
      OBVIOUS
    <3> QED BY <3>1
  <2>2. H \subseteq {Element(HeaderSizesAt(d) + 1 * b, 1) : b \in 0..B - 1}
    BY <1>1, <1>3, <2>1 DEF Banks
  <2>3. Table(H, HeaderSizesAt(d), EncodingsAt(d))
    <3> HIDE DEF H
    <3> QED BY <1>1, <1>2, <1>3, <2>2, TableOf
  <2>4. C \subseteq {Element(EncodingsAt(d) + 1 * s, 1) : s \in 0..S - 1}
    BY <1>1, <1>3, <2>1 DEF Streams
  <2>5. Table(C, EncodingsAt(d), ChecksumsAt(d))
    <3> HIDE DEF C
    <3> QED BY <1>1, <1>2, <1>3, <2>4, TableOf
  <2>6. K \subseteq {Element(ChecksumsAt(d) + 4 * s, 4) : s \in 0..S - 1}
    BY DEF Streams
  <2>7. Table(K, ChecksumsAt(d), ChecksumsAt(d) + 4 * S)
    <3> HIDE DEF K
    <3> QED BY <1>1, <1>3, <2>6, TableOf
  <2>8. TailElements(d, n) = H \cup (C \cup K)
    BY DEF TailElements
  <2> HIDE DEF H, C, K
  <2>9. Table(C \cup K, EncodingsAt(d), ChecksumsAt(d) + 4 * S)
    BY <2>5, <2>7, TablesJoin
  <2>10. Table(H \cup (C \cup K), HeaderSizesAt(d), ChecksumsAt(d) + 4 * S)
    BY <2>3, <2>9, TablesJoin
  <2> QED BY <2>8, <2>10
<1>10. Table(BankElements(d) \cup EventElements(d), 0, PresenceAt(d))
  BY <1>4, <1>5, TablesJoin
<1>11. Table(BankElements(d) \cup EventElements(d) \cup PresenceElements(d), 0, SizesAt(d))
  BY <1>6, <1>10, TablesJoin
<1>12. Table(BankElements(d) \cup EventElements(d) \cup PresenceElements(d) \cup SizeElements(d),
             0, StreamSizesAt(d))
  BY <1>7, <1>11, TablesJoin
<1>13. Table(BankElements(d) \cup EventElements(d) \cup PresenceElements(d) \cup SizeElements(d)
               \cup StreamElements(d), 0, HeaderSizesAt(d))
  BY <1>8, <1>12, TablesJoin
<1>14. Table(Elements(d, n), 0, ChecksumsAt(d) + 4 * S)
  BY <1>9, <1>13, TablesJoin DEF Elements
<1> QED BY <1>14 DEF Table, LiesApart

-----------------------------------------------------------------------------
(***************************************************************************)
(* Numbers in order, and running totals.                                   *)
(***************************************************************************)
(* Ascending lists each number of the set once.                            *)
LEMMA AscendingIs ==
  ASSUME NEW S \in SUBSET Nat, IsFiniteSet(S)
  PROVE  /\ Cardinality(S) \in Nat
         /\ Ascending(S) \in [1..Cardinality(S) -> S]
         /\ DOMAIN Ascending(S) = 1..Cardinality(S)
         /\ Len(Ascending(S)) = Cardinality(S)
         /\ \A i, j \in 1..Cardinality(S) : i < j => Ascending(S)[i] < Ascending(S)[j]
         /\ \A r \in S : \E i \in 1..Cardinality(S) : Ascending(S)[i] = r
<1>1. Orders(Ascending(S), S)
  <2>1. \E t \in [1..Cardinality(S) -> S] : \A i, j \in DOMAIN t : i < j => t[i] < t[j]
    BY OrderExists DEF Orders
  <2> QED BY <2>1 DEF Ascending, Orders
<1> QED BY <1>1, OrderIs

(* Two listings of one set in order are the same.                          *)
LEMMA AscendingAlone ==
  ASSUME NEW S \in SUBSET Nat, IsFiniteSet(S), Cardinality(S) = 1, NEW k \in S
  PROVE  Ascending(S) = [i \in 1..1 |-> k]
<1>1. Ascending(S) \in [1..1 -> S]
  BY AscendingIs
<1>2. S = {k}
  <2>1. PICK x : S = {x}
    BY FS_Singleton
  <2> QED BY <2>1
<1> QED BY <1>1, <1>2

(* Totals is the running total of ListProofs.                              *)
LEMMA TotalsAre ==
  ASSUME NEW n \in Nat, NEW s \in [1..n -> Nat]
  PROVE  /\ Len(s) = n
         /\ IsTotal(Totals(s), s, n)
<1>1. Len(s) = n
  OBVIOUS
<1> DEFINE F(f) == f = [i \in 1..n + 1 |-> IF i = 1 THEN 0 ELSE f[i - 1] + s[i - 1]]
<1>2. \E f : F(f)
  BY TotalExists DEF IsTotal
<1>3. Totals(s) = CHOOSE f : F(f)
  BY <1>1 DEF Totals
<1>4. F(Totals(s))
  <2> HIDE DEF F
  <2> QED BY <1>2, <1>3
<1> QED BY <1>1, <1>4 DEF IsTotal

-----------------------------------------------------------------------------
(***************************************************************************)
(* What a record is built of.                                              *)
(***************************************************************************)
AStructure == [id: Nat, header_size: Nat, data: Seq(Cell)]

AnEvent == [tag: Nat, structures: Seq(AStructure)]

(* The places a bank has among the structures of an event.                 *)
PlacesOf(structures, id) == {k \in DOMAIN structures : structures[k].id = id}

LEMMA PlacesAreNumbers ==
  ASSUME NEW st \in Seq(AStructure), NEW id
  PROVE  /\ DOMAIN st = 1..Len(st) /\ Len(st) \in Nat
         /\ PlacesOf(st, id) \in SUBSET Nat /\ PlacesOf(st, id) \subseteq 1..Len(st)
         /\ IsFiniteSet(PlacesOf(st, id))
<1>1. DOMAIN st = 1..Len(st) /\ Len(st) \in Nat
  OBVIOUS
<1>2. IsFiniteSet(1..Len(st))
  BY <1>1, FS_Interval
<1>3. PlacesOf(st, id) \in SUBSET (1..Len(st))
  BY <1>1 DEF PlacesOf
<1> QED BY <1>1, <1>2, <1>3, FS_Subset

(* What Found finds: structures of the bank, some unless there are none.   *)
LEMMA FoundIs ==
  ASSUME NEW st \in Seq(AStructure), NEW id
  PROVE  /\ Found(st, id) \in Seq(AStructure)
         /\ Len(Found(st, id)) \in Nat /\ DOMAIN Found(st, id) = 1..Len(Found(st, id))
         /\ Found(st, id) # << >> <=> id \in BanksOf(st)
         /\ \A i \in 1..Len(Found(st, id)) :
              \E k \in DOMAIN st : Found(st, id)[i] = st[k] /\ st[k].id = id
<1> DEFINE P == PlacesOf(st, id)
           n == Cardinality(P)
           at == Ascending(P)
<1>1. n \in Nat /\ at \in [1..n -> P] /\ DOMAIN at = 1..n /\ Len(at) = n
      /\ \A r \in P : \E i \in 1..n : at[i] = r
  BY PlacesAreNumbers, AscendingIs
<1>2. \A k \in P : k \in DOMAIN st /\ st[k].id = id /\ st[k] \in AStructure
  BY DEF PlacesOf
<1>3. Found(st, id) = [i \in 1..n |-> st[at[i]]]
  BY <1>1 DEF Found, PlacesOf
<1>4. id \in BanksOf(st) <=> P # {}
  BY DEF PlacesOf, BanksOf
<1> HIDE DEF P, at, n
<1>5. \A i \in 1..n : at[i] \in P
  BY <1>1
<1>6. Found(st, id) \in [1..n -> AStructure]
  BY <1>2, <1>3, <1>5
<1>7. Found(st, id) \in Seq(AStructure) /\ Len(Found(st, id)) = n
  BY <1>1, <1>6, FunctionIsSeq
<1>8. P # {} <=> n # 0
  BY <1>1, <1>5
<1>9. Found(st, id) # << >> <=> n # 0
  BY <1>1, <1>7
<1>10. \A i \in 1..n : Found(st, id)[i] = st[at[i]]
  BY <1>3
<1> QED BY <1>1, <1>2, <1>4, <1>5, <1>7, <1>8, <1>9, <1>10

(* Every structure of a bank is found.                                     *)
LEMMA FoundAll ==
  ASSUME NEW st \in Seq(AStructure), NEW id, NEW k \in DOMAIN st, st[k].id = id
  PROVE  \E i \in 1..Len(Found(st, id)) : Found(st, id)[i] = st[k]
<1> DEFINE P == PlacesOf(st, id)
           n == Cardinality(P)
           at == Ascending(P)
<1>1. n \in Nat /\ DOMAIN at = 1..n /\ \A r \in P : \E i \in 1..n : at[i] = r
  BY PlacesAreNumbers, AscendingIs
<1>2. k \in P
  BY DEF PlacesOf
<1>3. Found(st, id) = [i \in 1..n |-> st[at[i]]]
  BY <1>1 DEF Found, PlacesOf
<1> HIDE DEF P, at, n
<1>4. Len(Found(st, id)) = n
  BY <1>1, <1>3
<1>5. PICK i \in 1..n : at[i] = k
  BY <1>1, <1>2
<1>6. Found(st, id)[i] = st[k]
  BY <1>3, <1>5
<1> QED BY <1>4, <1>6

(* The events of a record.                                                 *)
LEMMA EventsShape ==
  ASSUME NEW evs \in Seq(AnEvent)
  PROVE  /\ Len(evs) \in Nat /\ DOMAIN evs = 1..Len(evs)
         /\ \A e \in 1..Len(evs) : evs[e].structures \in Seq(AStructure)
<1>1. Len(evs) \in Nat /\ DOMAIN evs = 1..Len(evs) /\ \A e \in 1..Len(evs) : evs[e] \in AnEvent
  OBVIOUS
<1>2. \A x \in AnEvent : x.structures \in Seq(AStructure)
  BY DEF AnEvent
<1> QED BY <1>1, <1>2

(* The banks of the events: finitely many.                                 *)
AllBanks(evs) == UNION {BanksOf(evs[e].structures) : e \in DOMAIN evs}

LEMMA BanksFinite ==
  ASSUME NEW st \in Seq(AStructure)
  PROVE  IsFiniteSet(BanksOf(st)) /\ BanksOf(st) \in SUBSET Nat
<1> DEFINE f == [k \in 1..Len(st) |-> st[k].id]
<1>1. Len(st) \in Nat /\ DOMAIN st = 1..Len(st) /\ \A k \in 1..Len(st) : st[k] \in AStructure
  OBVIOUS
<1>2. f \in Surjection(1..Len(st), BanksOf(st))
  BY <1>1 DEF Surjection, BanksOf
<1>3. IsFiniteSet(1..Len(st))
  BY <1>1, FS_Interval
<1>4. IsFiniteSet(BanksOf(st))
  BY <1>2, <1>3, FS_Surjection
<1> QED BY <1>1, <1>4 DEF BanksOf, AStructure

LEMMA AllBanksFinite ==
  ASSUME NEW evs \in Seq(AnEvent)
  PROVE  IsFiniteSet(AllBanks(evs)) /\ AllBanks(evs) \in SUBSET Nat
<1> DEFINE n == Len(evs)
           F == {BanksOf(evs[e].structures) : e \in DOMAIN evs}
           f == [e \in 1..n |-> BanksOf(evs[e].structures)]
<1>1. n \in Nat /\ DOMAIN evs = 1..n
  BY EventsShape
<1>2. \A e \in 1..n : evs[e].structures \in Seq(AStructure)
  BY EventsShape
<1>3. \A T \in F : IsFiniteSet(T) /\ T \in SUBSET Nat
  BY <1>1, <1>2, BanksFinite
<1>4. f \in Surjection(1..n, F)
  BY <1>1 DEF Surjection
<1>5. IsFiniteSet(1..n)
  BY <1>1, FS_Interval
<1>6. IsFiniteSet(F)
  BY <1>4, <1>5, FS_Surjection
<1> HIDE DEF F
<1>7. IsFiniteSet(UNION F)
  BY <1>3, <1>6, FS_UNION
<1> QED BY <1>3, <1>7 DEF AllBanks, F

LEMMA DescriptorsAre ==
  ASSUME NEW evs \in Seq(AnEvent)
  PROVE  LET ids == Descriptors(evs) IN
         /\ Len(ids) \in Nat /\ DOMAIN ids = 1..Len(ids)
         /\ \A b \in 1..Len(ids) : ids[b] \in Nat /\ ids[b] \in AllBanks(evs)
         /\ \A a, b \in 1..Len(ids) : a < b => ids[a] < ids[b]
         /\ \A id \in AllBanks(evs) : \E b \in 1..Len(ids) : ids[b] = id
<1>1. Descriptors(evs) = Ascending(AllBanks(evs))
  BY DEF Descriptors, AllBanks
<1>2. AllBanks(evs) \in SUBSET Nat /\ IsFiniteSet(AllBanks(evs))
  BY AllBanksFinite
<1> QED BY <1>1, <1>2, AscendingIs

(* The walk of a bank over the events: the type of what it gathers.        *)
LEMMA WalkBankIs ==
  ASSUME NEW evs \in Seq(AnEvent), NEW id
  PROVE  LET w == WalkBank(evs, id) IN
         /\ Len(evs) \in Nat /\ DOMAIN evs = 1..Len(evs)
         /\ w.id = id
         /\ w.present = {e \in 1..Len(evs) : id \in BanksOf(evs[e].structures)}
         /\ w.sizes \in [1..Len(evs) -> Nat]
         /\ w.bytes \in Seq(Cell)
<1> DEFINE n == Len(evs)
           found == [e \in 1..n |-> Found(evs[e].structures, id)]
           data == [e \in 1..n |-> FlattenSeq([k \in DOMAIN found[e] |-> found[e][k].data])]
<1>1. n \in Nat /\ DOMAIN evs = 1..n
  BY EventsShape
<1>2. \A e \in 1..n : evs[e].structures \in Seq(AStructure)
  BY EventsShape
<1>3. \A e \in 1..n : /\ found[e] \in Seq(AStructure)
                      /\ Len(found[e]) \in Nat /\ DOMAIN found[e] = 1..Len(found[e])
                      /\ found[e] # << >> <=> id \in BanksOf(evs[e].structures)
  BY <1>2, FoundIs
<1>4. /\ WalkBank(evs, id).id = id
      /\ WalkBank(evs, id).present = {e \in 1..n : found[e] # << >>}
      /\ WalkBank(evs, id).sizes = [e \in 1..n |-> IF found[e] # << >> THEN Len(Last(found[e]).data) ELSE 0]
      /\ WalkBank(evs, id).bytes = FlattenSeq(data)
  BY <1>1 DEF WalkBank
<1> HIDE DEF found
<1>5. ASSUME NEW e \in 1..n, found[e] # << >>
      PROVE  Last(found[e]) \in AStructure
  BY <1>3, <1>5 DEF Last
<1>6. \A e \in 1..n : found[e] # << >> => Len(Last(found[e]).data) \in Nat
  BY <1>5 DEF AStructure
<1>7. ASSUME NEW e \in 1..n
      PROVE  data[e] \in Seq(Cell)
  <2> DEFINE m == Len(found[e])
             d == [k \in 1..m |-> found[e][k].data]
             c == [i \in 1..m |-> Len(d[i])]
  <2>1. m \in Nat /\ d \in [1..m -> Seq(Cell)] /\ DOMAIN found[e] = 1..m
    <3>1. m \in Nat /\ DOMAIN found[e] = 1..m /\ \A k \in 1..m : found[e][k] \in AStructure
      BY <1>3
    <3>2. \A x \in AStructure : x.data \in Seq(Cell)
      BY DEF AStructure
    <3> HIDE DEF m
    <3> QED BY <3>1, <3>2
  <2>2. c \in [1..m -> Nat]
    BY <2>1
  <2> HIDE DEF m
  <2>3. PICK f : IsTotal(f, c, m)
    <3> HIDE DEF c
    <3> QED BY <2>1, <2>2, TotalExists
  <2>4. Places(FlattenSeq(d), d, f, m, Cell)
    <3> HIDE DEF d
    <3> QED BY <2>1, <2>3, Flattened
  <2>5. data[e] = FlattenSeq(d)
    BY <2>1
  <2> QED BY <2>4, <2>5 DEF Places
<1>8. FlattenSeq(data) \in Seq(Cell)
  <2> DEFINE c == [i \in 1..n |-> Len(data[i])]
  <2>1. data \in [1..n -> Seq(Cell)]
    BY <1>7
  <2> HIDE DEF data
  <2>2. c \in [1..n -> Nat]
    BY <2>1
  <2>3. PICK f : IsTotal(f, c, n)
    <3> HIDE DEF c
    <3> QED BY <1>1, <2>2, TotalExists
  <2>4. Places(FlattenSeq(data), data, f, n, Cell)
    BY <1>1, <2>1, <2>3, Flattened
  <2> QED BY <2>4 DEF Places
<1> HIDE DEF data
<1> QED BY <1>1, <1>3, <1>4, <1>6, <1>8

(* The header size of a bank is the largest of its structures'.            *)
LEMMA HeaderWritten ==
  ASSUME NEW evs \in Seq(AnEvent), NEW id
  PROVE  WalkBank(evs, id).header_size =
           Max({s.header_size :
                  s \in {t \in UNION {ToSet(evs[e].structures) : e \in DOMAIN evs} : t.id = id}})
<1> DEFINE n == Len(evs)
           found == [e \in DOMAIN evs |-> Found(evs[e].structures, id)]
           present == {e \in DOMAIN evs : found[e] # << >>}
           all == UNION {{found[e][k].header_size : k \in DOMAIN found[e]} : e \in present}
           of == {t \in UNION {ToSet(evs[e].structures) : e \in DOMAIN evs} : t.id = id}
           written == {s.header_size : s \in of}
<1>1. n \in Nat /\ DOMAIN evs = 1..n /\ \A e \in 1..n : evs[e].structures \in Seq(AStructure)
  BY EventsShape
<1>2. WalkBank(evs, id).header_size = Max(all)
  BY DEF WalkBank
<1>3. \A e \in 1..n : found[e] = Found(evs[e].structures, id)
  BY <1>1
<1>4. all = UNION {{found[e][k].header_size : k \in DOMAIN found[e]} : e \in present}
  OBVIOUS
<1>5. present = {e \in 1..n : found[e] # << >>}
  BY <1>1
<1> HIDE DEF found, all, present, n
<1>6. ASSUME NEW x \in all PROVE x \in written
  <2>1. PICK e \in present : x \in {found[e][k].header_size : k \in DOMAIN found[e]}
    BY <1>4
  <2>2. PICK k \in DOMAIN found[e] : x = found[e][k].header_size
    BY <2>1
  <2>3. e \in 1..n /\ evs[e].structures \in Seq(AStructure)
    BY <1>1, <1>5
  <2>4. PICK j \in DOMAIN evs[e].structures :
          found[e][k] = evs[e].structures[j] /\ evs[e].structures[j].id = id
    <3> DEFINE its == Found(evs[e].structures, id)
    <3>1. DOMAIN its = 1..Len(its) /\ found[e] = its
      BY <1>3, <2>3, FoundIs
    <3>2. k \in 1..Len(its)
      BY <3>1
    <3> QED BY <2>3, <3>1, <3>2, FoundIs
  <2>5. found[e][k] \in of
    BY <1>1, <2>3, <2>4 DEF ToSet
  <2> QED BY <2>2, <2>5
<1>7. ASSUME NEW x \in written PROVE x \in all
  <2>1. PICK s \in of : x = s.header_size
    OBVIOUS
  <2>2. PICK e \in DOMAIN evs : s \in ToSet(evs[e].structures)
    OBVIOUS
  <2>3. PICK k \in DOMAIN evs[e].structures : s = evs[e].structures[k]
    BY <2>2 DEF ToSet
  <2>4. e \in 1..n /\ evs[e].structures \in Seq(AStructure) /\ evs[e].structures[k].id = id
    BY <1>1, <2>1, <2>3
  <2>5. PICK i \in 1..Len(Found(evs[e].structures, id)) : Found(evs[e].structures, id)[i] = evs[e].structures[k]
    BY <2>4, FoundAll
  <2>6. /\ found[e] = Found(evs[e].structures, id)
        /\ DOMAIN found[e] = 1..Len(found[e]) /\ Len(found[e]) \in Nat
        /\ found[e] # << >> <=> id \in BanksOf(evs[e].structures)
    BY <1>3, <2>4, FoundIs
  <2>7. i \in DOMAIN found[e] /\ found[e][i] = s
    BY <2>3, <2>5, <2>6
  <2>8. e \in present
    <3>1. id \in BanksOf(evs[e].structures)
      BY <2>4 DEF BanksOf
    <3> QED BY <1>5, <2>4, <2>6, <3>1
  <2>9. x = found[e][i].header_size
    BY <2>1, <2>7
  <2> QED BY <1>4, <2>7, <2>8, <2>9
<1>8. all = written
  <2> HIDE DEF written
  <2> QED BY <1>6, <1>7
<1> QED BY <1>2, <1>8

-----------------------------------------------------------------------------
(***************************************************************************)
(* The record, on the disk and in memory.                                  *)
(***************************************************************************)
(* The bytes that stream c of a bank is made from.                         *)
Splits(w, lay) == lay = "per_column" /\ Columnar(w)

BytesAt(w, lay, c) == IF Splits(w, lay) THEN ColumnStream(w, c) ELSE w.bytes

StreamNumbers(w, lay) == IF Splits(w, lay) THEN DOMAIN Dict[w.id] ELSE {1}

StreamIs(stream, bytes, lay) ==
  /\ stream = [stored |-> stream.stored, size |-> stream.size, width |-> stream.width,
               split |-> stream.split, checksum |-> stream.checksum, damage |-> stream.damage]
  /\ stream.width \in Nat \ {0} /\ stream.split \in BOOLEAN
  /\ stream.stored = IF stream.split THEN ByteSplit(bytes, stream.width) ELSE bytes
  /\ stream.size = Len(bytes)
  /\ stream.checksum \in {0, 1}
  /\ stream.split \/ stream.checksum # 0 => lay = "per_column"
  /\ stream.damage \in {"none", "garbled", "undecodable"}

(* A bank of a record is what the walk w over the events gathered of it.   *)
BankIs(bank, w, lay) ==
  /\ bank = [id |-> bank.id, header_size |-> bank.header_size, present |-> bank.present,
             sizes |-> bank.sizes, num_cols |-> bank.num_cols, streams |-> bank.streams]
  /\ bank.id = w.id /\ bank.present = w.present /\ bank.sizes = w.sizes
  /\ bank.num_cols = IF Splits(w, lay) THEN Len(Dict[w.id]) ELSE 0
  /\ bank.streams = [c \in StreamNumbers(w, lay) |-> bank.streams[c]]
  /\ \A c \in StreamNumbers(w, lay) : StreamIs(bank.streams[c], BytesAt(w, lay, c), lay)

RecordIs(rec, evs, lay) ==
  /\ rec = [event_tags |-> rec.event_tags, banks |-> rec.banks]
  /\ rec.event_tags = [e \in DOMAIN evs |-> evs[e].tag]
  /\ rec.banks = [b \in DOMAIN Descriptors(evs) |-> rec.banks[b]]
  /\ \A b \in DOMAIN Descriptors(evs) :
       BankIs(rec.banks[b], WalkBank(evs, Descriptors(evs)[b]), lay)

(* The schema of a bank.                                                   *)
LEMMA SchemaShape ==
  ASSUME NEW id \in DOMAIN Dict
  PROVE  /\ id \in Nat
         /\ Len(Dict[id]) \in Nat /\ DOMAIN Dict[id] = 1..Len(Dict[id])
         /\ \A c \in 1..Len(Dict[id]) :
              /\ Dict[id][c].size \in Nat \ {0} /\ Dict[id][c].length \in Nat \ {0}
              /\ ElementSize(id, c) \in Nat \ {0}
              /\ Width(id, c) \in Nat \ {0}
<1> DEFINE C == [size: Nat \ {0}, length: Nat \ {0}]
<1>1. id \in Nat /\ Dict[id] \in Seq(C)
  BY SplitRecordAssumption
<1>2. /\ Len(Dict[id]) \in Nat /\ DOMAIN Dict[id] = 1..Len(Dict[id])
      /\ \A c \in 1..Len(Dict[id]) : Dict[id][c] \in C
  <2> HIDE DEF C
  <2> QED BY <1>1, SeqIsFunction
<1>3. ASSUME NEW x \in Nat \ {0}, NEW y \in Nat \ {0}
      PROVE  x * y \in Nat \ {0}
  BY <1>3
<1>4. \A c \in 1..Len(Dict[id]) : Dict[id][c].size \in Nat \ {0} /\ Dict[id][c].length \in Nat \ {0}
  BY <1>2
<1> HIDE DEF C
<1> QED BY <1>1, <1>2, <1>3, <1>4 DEF ElementSize, Width

(* BuildRecord builds such a record, and nothing in it is damaged.         *)
LEMMA BuiltIs ==
  ASSUME NEW evs \in Seq(AnEvent), NEW lay \in {"by_bank", "per_column"}, NEW enc \in BOOLEAN,
         NEW smaller \in BOOLEAN, NEW checksum \in {0, 1}, enc => lay = "per_column"
  PROVE  LET rec == BuildRecord(evs, lay, enc, smaller, checksum) IN
         /\ RecordIs(rec, evs, lay)
         /\ \A b \in DOMAIN rec.banks : \A c \in DOMAIN rec.banks[b].streams :
              rec.banks[b].streams[c].damage = "none"
<1> DEFINE rec == BuildRecord(evs, lay, enc, smaller, checksum)
           ids == Descriptors(evs)
<1>1. ASSUME NEW b \in DOMAIN ids
      PROVE  /\ BankIs(rec.banks[b], WalkBank(evs, ids[b]), lay)
             /\ \A c \in DOMAIN rec.banks[b].streams : rec.banks[b].streams[c].damage = "none"
  <2> DEFINE w == WalkBank(evs, ids[b])
             bank == rec.banks[b]
             made(c) == StoredStream(ColumnStream(w, c), ElementSize(w.id, c), enc, smaller, checksum)
             opaque == StoredStream(w.bytes, 1, IF lay = "per_column" THEN enc ELSE FALSE,
                                    IF lay = "per_column" THEN smaller ELSE FALSE,
                                    IF lay = "per_column" THEN checksum ELSE 0)
  <2>1. bank = IF lay = "per_column" THEN PerColumnBank(w, enc, smaller, checksum) ELSE ByBankBank(w)
    BY DEF BuildRecord
  <2>2. CASE Splits(w, lay)
    <3>1. w.id \in DOMAIN Dict
      BY <2>2 DEF Splits, Columnar
    <3>2. ASSUME NEW c \in DOMAIN Dict[w.id]
          PROVE  StreamIs(made(c), ColumnStream(w, c), lay) /\ made(c).damage = "none"
      <4> DEFINE bytes == ColumnStream(w, c)
                 width == ElementSize(w.id, c)
      <4>1. width \in Nat \ {0}
        BY <3>1, SchemaShape
      <4> HIDE DEF bytes, width
      <4>2. /\ StreamIs(StoredStream(bytes, width, enc, smaller, checksum), bytes, lay)
            /\ StoredStream(bytes, width, enc, smaller, checksum).damage = "none"
        BY <4>1 DEF StreamIs, StoredStream
      <4> QED BY <4>2 DEF bytes, width
    <3>3. bank = [id |-> w.id, header_size |-> w.header_size, present |-> w.present,
                  sizes |-> w.sizes, num_cols |-> Len(Dict[w.id]),
                  streams |-> [c \in DOMAIN Dict[w.id] |-> made(c)]]
      BY <2>1, <2>2 DEF Splits, PerColumnBank
    <3> HIDE DEF w, bank, made
    <3> QED BY <2>2, <3>2, <3>3 DEF BankIs, StreamNumbers, BytesAt, bank, w
  <2>3. CASE ~Splits(w, lay)
    <3>1. StreamIs(opaque, w.bytes, lay) /\ opaque.damage = "none"
      <4> DEFINE bytes == w.bytes
      <4>1. lay = "per_column" => opaque = StoredStream(bytes, 1, enc, smaller, checksum)
        OBVIOUS
      <4>2. lay # "per_column" => opaque = StoredStream(bytes, 1, FALSE, FALSE, 0)
        OBVIOUS
      <4> HIDE DEF bytes, opaque
      <4>3. ASSUME NEW width \in Nat \ {0}
            PROVE  /\ StreamIs(StoredStream(bytes, width, enc, smaller, checksum), bytes, lay)
                   /\ StoredStream(bytes, width, enc, smaller, checksum).damage = "none"
        BY <4>3 DEF StreamIs, StoredStream
      <4>4. ASSUME NEW width \in Nat \ {0}
            PROVE  /\ StreamIs(StoredStream(bytes, width, FALSE, FALSE, 0), bytes, lay)
                   /\ StoredStream(bytes, width, FALSE, FALSE, 0).damage = "none"
        BY <4>4 DEF StreamIs, StoredStream
      <4>5. 1 \in Nat \ {0}
        OBVIOUS
      <4>6. /\ StreamIs(StoredStream(bytes, 1, enc, smaller, checksum), bytes, lay)
            /\ StoredStream(bytes, 1, enc, smaller, checksum).damage = "none"
        BY <4>3, <4>5
      <4>7. /\ StreamIs(StoredStream(bytes, 1, FALSE, FALSE, 0), bytes, lay)
            /\ StoredStream(bytes, 1, FALSE, FALSE, 0).damage = "none"
        BY <4>4, <4>5
      <4>8. StreamIs(opaque, bytes, lay) /\ opaque.damage = "none"
        BY <4>1, <4>2, <4>6, <4>7
      <4> QED BY <4>8 DEF bytes
    <3>2. bank = [id |-> w.id, header_size |-> w.header_size, present |-> w.present,
                  sizes |-> w.sizes, num_cols |-> 0, streams |-> <<opaque>>]
      BY <2>1, <2>3 DEF Splits, PerColumnBank, ByBankBank
    <3> HIDE DEF w, bank, opaque
    <3>3. /\ bank.streams = [c \in {1} |-> bank.streams[c]] /\ bank.streams[1] = opaque
          /\ DOMAIN bank.streams = {1}
      BY <3>2
    <3> QED BY <2>3, <3>1, <3>2, <3>3 DEF BankIs, StreamNumbers, BytesAt, bank, w
  <2> QED BY <2>2, <2>3
<1>2. /\ rec.event_tags = [e \in DOMAIN evs |-> evs[e].tag]
      /\ rec.banks = [b \in DOMAIN ids |-> rec.banks[b]]
      /\ rec = [event_tags |-> rec.event_tags, banks |-> rec.banks]
  BY DEF BuildRecord
<1> HIDE DEF rec
<1>3. DOMAIN rec.banks = DOMAIN ids
  BY <1>2
<1> QED BY <1>1, <1>2, <1>3 DEF RecordIs, rec

-----------------------------------------------------------------------------
(***************************************************************************)
(* The streams a read asks for.                                            *)
(***************************************************************************)
LEMMA NoTotal ==
  ASSUME NEW n \in Nat, NEW s \in [1..n -> Nat]
  PROVE  /\ SumOf(s) \in Nat
         /\ \A i \in 1..n + 1 : SumBefore(s, i) \in Nat
         /\ n = 0 => SumOf(s) = 0
<1>1. Len(s) = n /\ IsTotal(Totals(s), s, n)
  BY TotalsAre
<1>2. Totals(s) \in [1..n + 1 -> Nat] /\ Totals(s)[1] = 0
  BY <1>1, TotalSteps
<1> QED BY <1>1, <1>2 DEF SumOf, SumBefore

(* A bank has a stream per column or one for all of it, never none.        *)
LEMMA StreamsAre ==
  ASSUME NEW w, NEW lay, NEW bank, BankIs(bank, w, lay)
  PROVE  /\ \E m \in Nat : DOMAIN bank.streams = 1..m /\ 1 <= m
         /\ DOMAIN bank.streams = StreamNumbers(w, lay)
         /\ IsOpaque(bank) <=> ~Splits(w, lay)
         /\ IsOpaque(bank) => DOMAIN bank.streams = {1}
         /\ ~IsOpaque(bank) => w.id \in DOMAIN Dict /\ DOMAIN bank.streams = DOMAIN Dict[w.id]
<1>1. DOMAIN bank.streams = StreamNumbers(w, lay)
  BY DEF BankIs
<1>2. CASE Splits(w, lay)
  <2>1. w.id \in DOMAIN Dict /\ RowSize(w.id) > 0
    BY <1>2 DEF Splits, Columnar
  <2>2. Len(Dict[w.id]) \in Nat /\ DOMAIN Dict[w.id] = 1..Len(Dict[w.id])
        /\ \A c \in 1..Len(Dict[w.id]) : Width(w.id, c) \in Nat
    BY <2>1, SchemaShape
  <2>3. Widths(w.id) \in [1..Len(Dict[w.id]) -> Nat]
    BY <2>2 DEF Widths
  <2>4. Len(Dict[w.id]) # 0
    <3>1. SUFFICES ASSUME Len(Dict[w.id]) = 0 PROVE FALSE
      OBVIOUS
    <3>2. SumOf(Widths(w.id)) = 0
      BY <2>2, <2>3, <3>1, NoTotal
    <3> QED BY <2>1, <3>2 DEF RowSize
  <2>5. bank.num_cols = Len(Dict[w.id])
    BY <1>2 DEF BankIs
  <2>6. DOMAIN bank.streams = 1..Len(Dict[w.id]) /\ 1 <= Len(Dict[w.id])
    BY <1>1, <1>2, <2>2, <2>4 DEF StreamNumbers
  <2>7. ~IsOpaque(bank)
    BY <2>4, <2>5 DEF IsOpaque
  <2> QED BY <1>1, <1>2, <2>1, <2>2, <2>6, <2>7
<1>3. CASE ~Splits(w, lay)
  <2>1. DOMAIN bank.streams = {1} /\ {1} = 1..1 /\ bank.num_cols = 0
    BY <1>1, <1>3 DEF StreamNumbers, BankIs
  <2> QED BY <1>1, <1>3, <2>1 DEF IsOpaque
<1> QED BY <1>2, <1>3

AskedOf(rec, r) ==
  IF r.kind = "bytes" THEN EventStreams(rec, r.event)
  ELSE ColumnStreams(rec, r.event, r.id, r.col)

ReadsOf(evs) ==
  [kind: {"bytes"}, event: DOMAIN evs, id: {0}, col: {0}]
  \cup UNION {[kind: {"column"}, event: DOMAIN evs, id: {id}, col: DOMAIN Dict[id]]
              : id \in DOMAIN Dict}

(* What the reader of stream s must have been asked for.                   *)
Needs(rec, evs, r, s) ==
  /\ \E k \in DOMAIN evs[r.event].structures : evs[r.event].structures[k].id = rec.banks[s[1]].id
  /\ r.kind = "column" => /\ r.id = rec.banks[s[1]].id
                          /\ rec.banks[s[1]].num_cols # 0 => r.col = s[2]

(* The banks of a record, and who has them.                                *)
LEMMA BanksAre ==
  ASSUME NEW evs \in Seq(AnEvent), NEW lay, NEW rec, RecordIs(rec, evs, lay)
  PROVE  /\ Len(rec.banks) \in Nat /\ DOMAIN rec.banks = 1..Len(rec.banks)
         /\ DOMAIN rec.banks = DOMAIN Descriptors(evs)
         /\ Len(rec.event_tags) = Len(evs)
         /\ \A b \in DOMAIN rec.banks :
              LET w == WalkBank(evs, Descriptors(evs)[b]) IN
              /\ BankIs(rec.banks[b], w, lay)
              /\ rec.banks[b].id = Descriptors(evs)[b] /\ w.id = Descriptors(evs)[b]
              /\ rec.banks[b].present = {e \in DOMAIN evs : rec.banks[b].id \in BanksOf(evs[e].structures)}
              /\ rec.banks[b].sizes \in [1..Len(evs) -> Nat]
              /\ DOMAIN rec.banks[b].streams = StreamNumbers(w, lay)
<1> DEFINE ids == Descriptors(evs)
<1>1. Len(ids) \in Nat /\ DOMAIN ids = 1..Len(ids)
  BY DescriptorsAre
<1>2. DOMAIN rec.banks = 1..Len(ids) /\ rec.banks = [b \in 1..Len(ids) |-> rec.banks[b]]
  BY <1>1 DEF RecordIs
<1>3. Len(rec.banks) = Len(ids)
  <2> HIDE DEF ids
  <2> QED BY <1>1, <1>2
<1>4. Len(rec.event_tags) = Len(evs)
  <2>1. Len(evs) \in Nat /\ DOMAIN evs = 1..Len(evs)
    BY EventsShape
  <2>2. rec.event_tags = [e \in 1..Len(evs) |-> evs[e].tag]
    BY <2>1 DEF RecordIs
  <2> QED BY <2>1, <2>2
<1>5. ASSUME NEW b \in DOMAIN ids
      PROVE  LET w == WalkBank(evs, ids[b]) IN
             /\ BankIs(rec.banks[b], w, lay)
             /\ rec.banks[b].id = ids[b] /\ w.id = ids[b]
             /\ rec.banks[b].present = {e \in DOMAIN evs : rec.banks[b].id \in BanksOf(evs[e].structures)}
             /\ rec.banks[b].sizes \in [1..Len(evs) -> Nat]
             /\ DOMAIN rec.banks[b].streams = StreamNumbers(w, lay)
  <2> DEFINE w == WalkBank(evs, ids[b])
  <2>1. BankIs(rec.banks[b], w, lay)
    BY DEF RecordIs
  <2>2. /\ DOMAIN evs = 1..Len(evs) /\ w.id = ids[b]
        /\ w.present = {e \in 1..Len(evs) : ids[b] \in BanksOf(evs[e].structures)}
        /\ w.sizes \in [1..Len(evs) -> Nat]
    BY WalkBankIs
  <2> HIDE DEF w, ids
  <2>3. /\ rec.banks[b].id = w.id /\ rec.banks[b].present = w.present
        /\ rec.banks[b].sizes = w.sizes
    BY <2>1 DEF BankIs
  <2>4. DOMAIN rec.banks[b].streams = StreamNumbers(w, lay)
    BY <2>1, StreamsAre
  <2> QED BY <2>1, <2>2, <2>3, <2>4 DEF w
<1> QED BY <1>1, <1>2, <1>3, <1>4, <1>5

(* A read asks for streams there are, and for none it has no need of; an   *)
(* event as a whole, for all its data is in.                               *)
LEMMA EventAsks ==
  ASSUME NEW evs \in Seq(AnEvent), NEW lay, NEW rec, RecordIs(rec, evs, lay),
         NEW e \in DOMAIN evs
  PROVE  /\ EventStreams(rec, e) \in Seq(StreamsOf(rec))
         /\ \A s \in ToSet(EventStreams(rec, e)) :
              s \in StreamsOf(rec) /\ e \in rec.banks[s[1]].present
         /\ \A b \in DOMAIN rec.banks : \A c \in DOMAIN rec.banks[b].streams :
              e \in rec.banks[b].present /\ rec.banks[b].sizes[e] # 0 =>
                <<b, c>> \in ToSet(EventStreams(rec, e))
<1> DEFINE n == Len(rec.banks)
           of(b) == [c \in DOMAIN rec.banks[b].streams |-> <<b, c>>]
           seqs == [b \in 1..n |->
                      IF e \notin rec.banks[b].present \/ rec.banks[b].sizes[e] = 0 THEN << >> ELSE of(b)]
           T == {s \in StreamsOf(rec) : e \in rec.banks[s[1]].present}
           k == [b \in 1..n |-> Len(seqs[b])]
<1>1. n \in Nat /\ DOMAIN rec.banks = 1..n
  BY BanksAre
<1>2. EventStreams(rec, e) = FlattenSeq(seqs)
  BY <1>1 DEF EventStreams
<1>3. ASSUME NEW b \in 1..n
      PROVE  \E m \in Nat : DOMAIN rec.banks[b].streams = 1..m
  BY <1>1, BanksAre, StreamsAre
<1>4. ASSUME NEW b \in 1..n
      PROVE  seqs[b] \in Seq(T)
  <2>1. CASE e \notin rec.banks[b].present \/ rec.banks[b].sizes[e] = 0
    BY <2>1
  <2>2. CASE ~(e \notin rec.banks[b].present \/ rec.banks[b].sizes[e] = 0)
    <3>1. PICK m \in Nat : DOMAIN rec.banks[b].streams = 1..m
      BY <1>3
    <3>2. \A c \in 1..m : <<b, c>> \in T
      <4>1. \A c \in 1..m : <<b, c>> \in StreamsOf(rec)
        BY <1>1, <3>1 DEF StreamsOf
      <4> QED BY <2>2, <4>1
    <3>3. seqs[b] = [c \in 1..m |-> <<b, c>>]
      BY <2>2, <3>1
    <3> HIDE DEF T, seqs
    <3>4. seqs[b] \in [1..m -> T]
      BY <3>2, <3>3
    <3> QED BY <3>1, <3>4, FunctionIsSeq
  <2> QED BY <2>1, <2>2
<1>5. seqs \in [1..n -> Seq(T)] /\ k \in [1..n -> Nat]
  <2>1. seqs = [b \in 1..n |-> seqs[b]]
    OBVIOUS
  <2> HIDE DEF seqs, T, n
  <2>2. seqs \in [1..n -> Seq(T)]
    BY <1>4, <2>1
  <2> QED BY <2>2
<1>6. \A b \in 1..n : k[b] = Len(seqs[b])
  OBVIOUS
<1>7. k = [b \in 1..n |-> Len(seqs[b])]
  OBVIOUS
<1> HIDE DEF seqs, T, k, n
<1>8. PICK f : IsTotal(f, k, n)
  BY <1>1, <1>5, TotalExists
<1>9. Places(FlattenSeq(seqs), seqs, f, n, T)
  BY <1>1, <1>5, <1>7, <1>8, Flattened
<1>10. FlattenSeq(seqs) \in Seq(T) /\ Len(FlattenSeq(seqs)) = f[n + 1]
  BY <1>9 DEF Places
<1>11. ASSUME NEW b \in DOMAIN rec.banks, NEW c \in DOMAIN rec.banks[b].streams,
              e \in rec.banks[b].present, rec.banks[b].sizes[e] # 0
       PROVE  <<b, c>> \in ToSet(FlattenSeq(seqs))
  <2>1. PICK m \in Nat : DOMAIN rec.banks[b].streams = 1..m
    BY <1>1, <1>3
  <2>2. seqs[b] = [x \in 1..m |-> <<b, x>>]
    BY <1>1, <1>11, <2>1 DEF seqs
  <2>3. Len(seqs[b]) = m /\ c \in 1..m /\ seqs[b][c] = <<b, c>>
    BY <2>1, <2>2
  <2>4. b \in 1..n
    BY <1>1
  <2>5. FlattenSeq(seqs)[f[b] + c] = <<b, c>>
    BY <1>9, <2>3, <2>4 DEF Places
  <2>6. f \in [1..n + 1 -> Nat] /\ f[b + 1] = f[b] + k[b]
    BY <1>1, <1>5, <1>8, <2>4, TotalSteps
  <2>7. f[b + 1] <= f[n + 1]
    <3>1. b + 1 \in 1..n + 1 /\ n + 1 \in 1..n + 1 /\ b + 1 <= n + 1
      BY <1>1, <2>4
    <3> QED BY <1>1, <1>5, <1>8, <3>1, TotalMonotone
  <2>8. f[b] + c \in 1..f[n + 1]
    <3>1. f[b] \in Nat /\ f[b + 1] \in Nat /\ f[n + 1] \in Nat /\ k[b] = m
      BY <1>1, <1>6, <2>3, <2>4, <2>6
    <3> QED BY <2>3, <2>6, <2>7, <3>1
  <2>9. f[b] + c \in DOMAIN FlattenSeq(seqs)
    BY <1>10, <2>8
  <2> QED BY <2>5, <2>9 DEF ToSet
<1>12. \A s \in ToSet(FlattenSeq(seqs)) : s \in T
  BY <1>10 DEF ToSet
<1>13. FlattenSeq(seqs) \in Seq(StreamsOf(rec))
  <2>1. \A s \in T : s \in StreamsOf(rec)
    BY DEF T
  <2>2. T \subseteq StreamsOf(rec)
    BY <2>1
  <2> QED BY <1>10, <2>2
<1> QED BY <1>2, <1>11, <1>12, <1>13 DEF T

(* A column is asked for where its bank is, in one stream at most.         *)
LEMMA ColumnAsks ==
  ASSUME NEW evs \in Seq(AnEvent), NEW lay, NEW rec, RecordIs(rec, evs, lay),
         NEW e \in DOMAIN evs, NEW id \in DOMAIN Dict, NEW c \in DOMAIN Dict[id]
  PROVE  LET at == {b \in BankIndex(rec, id) : e \in rec.banks[b].present} IN
         /\ ColumnStreams(rec, e, id, c) \in Seq(StreamsOf(rec))
         /\ at = {} => ColumnStreams(rec, e, id, c) = << >>
         /\ at # {} => \E b \in at :
              /\ at = {b}
              /\ ColumnStreams(rec, e, id, c) =
                   IF IsOpaque(rec.banks[b]) THEN <<<<b, 1>>>>
                   ELSE IF RowsIn(rec.banks[b], e) = 0 THEN << >> ELSE <<<<b, c>>>>
<1> DEFINE at == {b \in BankIndex(rec, id) : e \in rec.banks[b].present}
           of(b) == IF IsOpaque(rec.banks[b]) THEN <<<<b, 1>>>>
                    ELSE IF RowsIn(rec.banks[b], e) = 0 THEN << >> ELSE <<<<b, c>>>>
<1>1. ColumnStreams(rec, e, id, c) = IF at = {} THEN << >> ELSE of(CHOOSE b \in at : TRUE)
  BY DEF ColumnStreams
<1>2. CASE at = {}
  BY <1>1, <1>2
<1>3. CASE at # {}
  <2>1. PICK b \in at : b = CHOOSE x \in at : TRUE
    BY <1>3
  <2>2. ASSUME NEW x \in at PROVE x \in DOMAIN rec.banks /\ rec.banks[x].id = id
    BY <2>2 DEF BankIndex
  <2>3. at = {b}
    <3> DEFINE ids == Descriptors(evs)
    <3>1. /\ Len(ids) \in Nat /\ DOMAIN ids = 1..Len(ids)
          /\ \A x \in 1..Len(ids) : ids[x] \in Nat
          /\ \A x, y \in 1..Len(ids) : x < y => ids[x] < ids[y]
      BY DescriptorsAre
    <3>2. DOMAIN rec.banks = DOMAIN ids /\ \A x \in DOMAIN ids : rec.banks[x].id = ids[x]
      BY BanksAre
    <3> HIDE DEF at, ids
    <3>3. ASSUME NEW x \in at PROVE x = b
      <4>1. x \in 1..Len(ids) /\ b \in 1..Len(ids) /\ ids[x] = ids[b]
        BY <2>2, <3>1, <3>2
      <4>2. ids[x] \in Nat /\ ~(x < b) /\ ~(b < x)
        BY <3>1, <4>1
      <4> QED BY <3>1, <4>1, <4>2
    <3> QED BY <3>3
  <2>4. of(b) \in Seq(StreamsOf(rec))
    <3> DEFINE w == WalkBank(evs, Descriptors(evs)[b])
    <3>1. BankIs(rec.banks[b], w, lay) /\ w.id = id
      BY <2>2, BanksAre
    <3> HIDE DEF w, at
    <3>2. IsOpaque(rec.banks[b]) => 1 \in DOMAIN rec.banks[b].streams
      BY <3>1, StreamsAre
    <3>3. ~IsOpaque(rec.banks[b]) => c \in DOMAIN rec.banks[b].streams
      BY <3>1, StreamsAre
    <3>4. b \in DOMAIN rec.banks
      BY <2>2
    <3>5. IsOpaque(rec.banks[b]) => <<b, 1>> \in StreamsOf(rec)
      BY <3>2, <3>4 DEF StreamsOf
    <3>6. ~IsOpaque(rec.banks[b]) => <<b, c>> \in StreamsOf(rec)
      BY <3>3, <3>4 DEF StreamsOf
    <3> QED BY <3>5, <3>6
  <2> HIDE DEF at, of
  <2>5. ColumnStreams(rec, e, id, c) = of(b)
    BY <1>1, <1>3, <2>1
  <2> QED BY <1>3, <2>3, <2>4, <2>5 DEF at, of
<1> QED BY <1>2, <1>3

LEMMA AskedIs ==
  ASSUME NEW evs \in Seq(AnEvent), NEW lay, NEW rec, RecordIs(rec, evs, lay),
         NEW r \in ReadsOf(evs)
  PROVE  /\ AskedOf(rec, r) \in Seq(StreamsOf(rec))
         /\ \A s \in ToSet(AskedOf(rec, r)) : s \in StreamsOf(rec) /\ Needs(rec, evs, r, s)
<1>1. ASSUME NEW s \in StreamsOf(rec), r.event \in DOMAIN evs, r.event \in rec.banks[s[1]].present,
             r.kind = "column" => /\ r.id = rec.banks[s[1]].id
                                  /\ rec.banks[s[1]].num_cols # 0 => r.col = s[2]
      PROVE  Needs(rec, evs, r, s)
  <2>1. s[1] \in DOMAIN rec.banks
    BY DEF StreamsOf
  <2>2. rec.banks[s[1]].id \in BanksOf(evs[r.event].structures)
    BY <1>1, <2>1, BanksAre
  <2> QED BY <1>1, <2>2 DEF Needs, BanksOf
<1>2. CASE r.kind = "bytes"
  <2>1. r.event \in DOMAIN evs /\ AskedOf(rec, r) = EventStreams(rec, r.event)
    BY <1>2 DEF ReadsOf, AskedOf
  <2>2. /\ EventStreams(rec, r.event) \in Seq(StreamsOf(rec))
        /\ \A s \in ToSet(EventStreams(rec, r.event)) :
              s \in StreamsOf(rec) /\ r.event \in rec.banks[s[1]].present
    BY <2>1, EventAsks
  <2> QED BY <1>1, <1>2, <2>1, <2>2
<1>3. CASE r.kind # "bytes"
  <2>1. /\ r.event \in DOMAIN evs /\ r.id \in DOMAIN Dict /\ r.col \in DOMAIN Dict[r.id]
        /\ AskedOf(rec, r) = ColumnStreams(rec, r.event, r.id, r.col)
    BY <1>3 DEF ReadsOf, AskedOf
  <2> DEFINE at == {b \in BankIndex(rec, r.id) : r.event \in rec.banks[b].present}
             A == AskedOf(rec, r)
  <2>2. /\ A \in Seq(StreamsOf(rec))
        /\ at = {} => A = << >>
        /\ at # {} => \E b \in at :
              A = IF IsOpaque(rec.banks[b]) THEN <<<<b, 1>>>>
                  ELSE IF RowsIn(rec.banks[b], r.event) = 0 THEN << >> ELSE <<<<b, r.col>>>>
    BY <2>1, ColumnAsks
  <2>3. ASSUME NEW s \in ToSet(A)
        PROVE  s \in StreamsOf(rec) /\ Needs(rec, evs, r, s)
    <3>1. s \in StreamsOf(rec)
      BY <2>2 DEF ToSet
    <3>2. PICK b \in at : (s = <<b, 1>> /\ IsOpaque(rec.banks[b])) \/ s = <<b, r.col>>
      <4>1. A # << >>
        BY DEF ToSet
      <4>2. PICK b \in at :
              A = IF IsOpaque(rec.banks[b]) THEN <<<<b, 1>>>>
                  ELSE IF RowsIn(rec.banks[b], r.event) = 0 THEN << >> ELSE <<<<b, r.col>>>>
        BY <2>2, <4>1
      <4> HIDE DEF A, at
      <4>3. (A = <<<<b, 1>>>> /\ IsOpaque(rec.banks[b])) \/ A = <<<<b, r.col>>>>
        BY <4>1, <4>2
      <4> QED BY <4>3 DEF ToSet
    <3>3. s[1] = b /\ rec.banks[b].id = r.id /\ r.event \in rec.banks[b].present
      BY <3>2 DEF BankIndex
    <3>4. rec.banks[s[1]].num_cols # 0 => r.col = s[2]
      BY <3>2, <3>3 DEF IsOpaque
    <3> QED BY <1>1, <2>1, <3>1, <3>3, <3>4
  <2> QED BY <2>2, <2>3
<1> QED BY <1>2, <1>3

-----------------------------------------------------------------------------
(***************************************************************************)
(* What the streams are: pieces of sequences, and where they lie.          *)
(***************************************************************************)
LEMMA SliceIs ==
  ASSUME NEW S, NEW s \in Seq(S), NEW from \in Nat, NEW n \in Nat, from + n <= Len(s)
  PROVE  /\ Slice(s, from, n) \in Seq(S)
         /\ Len(Slice(s, from, n)) = n
         /\ \A j \in 1..n : from + j \in 1..Len(s) /\ Slice(s, from, n)[j] = s[from + j]
<1>1. Len(s) \in Nat
  OBVIOUS
<1>2. \A j \in 1..n : from + j \in 1..Len(s)
  BY <1>1
<1>3. Slice(s, from, n) = [j \in 1..n |-> s[from + j]]
  <2>1. SubSeq(s, from + 1, from + n) = [i \in 1..(from + n - (from + 1) + 1) |-> s[from + 1 + i - 1]]
    OBVIOUS
  <2>2. from + n - (from + 1) + 1 = n
    OBVIOUS
  <2>3. \A i \in 1..n : from + 1 + i - 1 = from + i
    OBVIOUS
  <2> QED BY <2>1, <2>2, <2>3 DEF Slice
<1>4. \A i \in 1..Len(s) : s[i] \in S
  OBVIOUS
<1>5. Slice(s, from, n) \in [1..n -> S]
  BY <1>2, <1>3, <1>4
<1> QED BY <1>2, <1>3, <1>5, FunctionIsSeq

(* Totals of smaller numbers are smaller.                                  *)
LEMMA TotalsLess ==
  ASSUME NEW n \in Nat, NEW c \in [1..n -> Nat], NEW d \in [1..n -> Nat],
         \A i \in 1..n : c[i] <= d[i],
         NEW f, IsTotal(f, c, n), NEW g, IsTotal(g, d, n)
  PROVE  \A i \in 1..n + 1 : f[i] <= g[i]
<1>1. f \in [1..n + 1 -> Nat] /\ f[1] = 0 /\ \A i \in 1..n : f[i + 1] = f[i] + c[i]
  BY TotalSteps
<1>2. g \in [1..n + 1 -> Nat] /\ g[1] = 0 /\ \A i \in 1..n : g[i + 1] = g[i] + d[i]
  BY TotalSteps
<1> DEFINE N == {m \in Nat : m <= n => f[m + 1] <= g[m + 1]}
<1>3. 0 \in N
  BY <1>1, <1>2
<1>4. ASSUME NEW m \in Nat, m \in N PROVE m + 1 \in N
  <2> SUFFICES ASSUME m + 1 <= n PROVE f[(m + 1) + 1] <= g[(m + 1) + 1]
    OBVIOUS
  <2>1. m + 1 \in 1..n /\ m + 1 \in 1..n + 1 /\ f[m + 1] <= g[m + 1]
    BY <1>4
  <2>2. f[m + 1] \in Nat /\ g[m + 1] \in Nat /\ c[m + 1] \in Nat /\ d[m + 1] \in Nat /\ c[m + 1] <= d[m + 1]
    BY <1>1, <1>2, <2>1
  <2>3. f[(m + 1) + 1] = f[m + 1] + c[m + 1] /\ g[(m + 1) + 1] = g[m + 1] + d[m + 1]
    BY <1>1, <1>2, <2>1
  <2> QED BY <2>1, <2>2, <2>3
<1>5. ASSUME NEW i \in 1..n + 1 PROVE f[i] <= g[i]
  <2>1. i - 1 \in Nat /\ i - 1 <= n /\ (i - 1) + 1 = i
    OBVIOUS
  <2> HIDE DEF N
  <2>2. i - 1 \in N
    BY <1>3, <1>4, <2>1, Induction
  <2> QED BY <2>1, <2>2 DEF N
<1> QED BY <1>5

(* Totals of multiples are multiples.                                      *)
Multiples(c, d, k, n) == \A i \in 1..n : c[i] = d[i] * k

LEMMA TotalsScale ==
  ASSUME NEW n \in Nat, NEW k \in Nat, NEW c \in [1..n -> Nat], NEW d \in [1..n -> Nat],
         Multiples(c, d, k, n), NEW f, IsTotal(f, c, n), NEW g, IsTotal(g, d, n)
  PROVE  Multiples(f, g, k, n + 1)
<1>1. f \in [1..n + 1 -> Nat] /\ f[1] = 0 /\ \A i \in 1..n : f[i + 1] = f[i] + c[i]
  BY TotalSteps
<1>2. g \in [1..n + 1 -> Nat] /\ g[1] = 0 /\ \A i \in 1..n : g[i + 1] = g[i] + d[i]
  BY TotalSteps
<1> DEFINE N == {m \in Nat : m <= n => f[m + 1] = g[m + 1] * k}
<1>3. 0 \in N
  BY <1>1, <1>2
<1>4. ASSUME NEW m \in Nat, m \in N PROVE m + 1 \in N
  <2> SUFFICES ASSUME m + 1 <= n PROVE f[(m + 1) + 1] = g[(m + 1) + 1] * k
    OBVIOUS
  <2>1. m + 1 \in 1..n /\ m + 1 \in 1..n + 1 /\ f[m + 1] = g[m + 1] * k
    BY <1>4
  <2>2. g[m + 1] \in Nat /\ d[m + 1] \in Nat /\ c[m + 1] = d[m + 1] * k
    BY <1>2, <2>1 DEF Multiples
  <2>3. f[(m + 1) + 1] = f[m + 1] + c[m + 1] /\ g[(m + 1) + 1] = g[m + 1] + d[m + 1]
    BY <1>1, <1>2, <2>1
  <2>4. \A x, y \in Nat : (x + y) * k = x * k + y * k
    OBVIOUS
  <2>5. f[(m + 1) + 1] = g[m + 1] * k + d[m + 1] * k
    BY <2>1, <2>2, <2>3
  <2>6. (g[m + 1] + d[m + 1]) * k = g[m + 1] * k + d[m + 1] * k
    BY <2>2, <2>4
  <2> QED BY <2>3, <2>5, <2>6
<1>5. ASSUME NEW i \in 1..n + 1 PROVE f[i] = g[i] * k
  <2>1. i - 1 \in Nat /\ i - 1 <= n /\ (i - 1) + 1 = i
    OBVIOUS
  <2> HIDE DEF N
  <2>2. i - 1 \in N
    BY <1>3, <1>4, <2>1, Induction
  <2> QED BY <2>1, <2>2 DEF N
<1> QED BY <1>5 DEF Multiples

(* Running totals of sizes: each ends where the next begins, and before    *)
(* the last.                                                               *)
LEMMA SumsAre ==
  ASSUME NEW n \in Nat, NEW s \in [1..n -> Nat], NEW i \in 1..n
  PROVE  /\ SumBefore(s, i) \in Nat /\ SumBefore(s, i + 1) = SumBefore(s, i) + s[i]
         /\ SumBefore(s, i + 1) <= SumOf(s) /\ SumOf(s) \in Nat
         /\ SumBefore(s, 1) = 0
<1>1. Len(s) = n /\ IsTotal(Totals(s), s, n)
  BY TotalsAre
<1>2. /\ Totals(s) \in [1..n + 1 -> Nat] /\ Totals(s)[1] = 0
      /\ \A j \in 1..n : Totals(s)[j + 1] = Totals(s)[j] + s[j]
  BY <1>1, TotalSteps
<1>3. Totals(s)[i + 1] <= Totals(s)[n + 1]
  <2>1. i + 1 \in 1..n + 1 /\ n + 1 \in 1..n + 1 /\ i + 1 <= n + 1
    OBVIOUS
  <2> QED BY <1>1, <2>1, TotalMonotone
<1>4. i \in 1..n + 1 /\ n + 1 \in 1..n + 1
  OBVIOUS
<1> QED BY <1>1, <1>2, <1>3, <1>4 DEF SumBefore, SumOf

(* The data that event e has of a bank: of all its structures.             *)
DataOf(evs, id, e) ==
  LET found == Found(evs[e].structures, id)
  IN  FlattenSeq([k \in DOMAIN found |-> found[k].data])

LEMMA DataIs ==
  ASSUME NEW evs \in Seq(AnEvent), NEW id, NEW e \in 1..Len(evs)
  PROVE  LET found == Found(evs[e].structures, id) IN
         /\ DataOf(evs, id, e) \in Seq(Cell) /\ Len(DataOf(evs, id, e)) \in Nat
         /\ found # << >> => /\ Last(found) \in AStructure /\ Last(found) = found[Len(found)]
                             /\ Len(Last(found).data) \in Nat
                             /\ Len(Last(found).data) <= Len(DataOf(evs, id, e))
         /\ Len(found) = 1 => DataOf(evs, id, e) = found[1].data
<1> DEFINE found == Found(evs[e].structures, id)
           m == Len(found)
           d == [k \in 1..m |-> found[k].data]
           c == [i \in 1..m |-> Len(d[i])]
<1>1. evs[e].structures \in Seq(AStructure)
  BY EventsShape
<1>2. found \in Seq(AStructure) /\ m \in Nat /\ DOMAIN found = 1..m
  BY <1>1, FoundIs
<1>3. DataOf(evs, id, e) = FlattenSeq(d)
  BY <1>2 DEF DataOf
<1> HIDE DEF found
<1>4. \A k \in 1..m : found[k] \in AStructure
  BY <1>2
<1>5. \A x \in AStructure : x.data \in Seq(Cell)
  BY DEF AStructure
<1> HIDE DEF m
<1>6. d \in [1..m -> Seq(Cell)]
  BY <1>4, <1>5
<1>7. c \in [1..m -> Nat]
  BY <1>6
<1>8. c = [i \in 1..m |-> Len(d[i])] /\ \A i \in 1..m : d[i] = found[i].data
  OBVIOUS
<1> HIDE DEF c, d
<1>9. PICK f : IsTotal(f, c, m)
  BY <1>2, <1>7, TotalExists
<1>10. Places(FlattenSeq(d), d, f, m, Cell)
  BY <1>2, <1>6, <1>8, <1>9, Flattened
<1>11. FlattenSeq(d) \in Seq(Cell) /\ Len(FlattenSeq(d)) = f[m + 1] /\ f[m + 1] \in Nat
  <2>1. f \in [1..m + 1 -> Nat]
    BY <1>2, <1>7, <1>9, TotalSteps
  <2>2. m + 1 \in 1..m + 1
    BY <1>2
  <2> QED BY <1>10, <2>1, <2>2 DEF Places
<1>12. ASSUME found # << >>
       PROVE  /\ Last(found) \in AStructure /\ Last(found) = found[m]
              /\ Len(Last(found).data) \in Nat
              /\ Len(Last(found).data) <= Len(FlattenSeq(d))
  <2>1. m \in 1..m
    <3>1. m # 0
      BY <1>2, <1>12 DEF m
    <3> QED BY <1>2, <3>1
  <2>2. Last(found) = found[m]
    BY DEF Last, m
  <2>3. Len(found[m].data) = c[m] /\ c[m] \in Nat
    BY <1>7, <1>8, <2>1
  <2>4. f[m + 1] = f[m] + c[m] /\ f[m] \in Nat
    <3>1. f \in [1..m + 1 -> Nat] /\ \A i \in 1..m : f[i + 1] = f[i] + c[i]
      BY <1>2, <1>7, <1>9, TotalSteps
    <3>2. m \in 1..m + 1
      BY <2>1
    <3> QED BY <2>1, <3>1, <3>2
  <2>5. c[m] <= f[m + 1]
    BY <2>3, <2>4
  <2> QED BY <1>4, <1>11, <2>1, <2>2, <2>3, <2>5
<1>13. ASSUME m = 1
       PROVE  FlattenSeq(d) = found[1].data
  <2>1. d \in [1..1 -> Seq(Cell)] /\ d[1] = found[1].data
    BY <1>6, <1>8, <1>13
  <2>2. c \in [1..1 -> Nat] /\ c[1] = Len(d[1]) /\ IsTotal(f, c, 1) /\ Places(FlattenSeq(d), d, f, 1, Cell)
    BY <1>7, <1>8, <1>9, <1>10, <1>13
  <2>3. f[1] = 0 /\ f[2] = c[1]
    <3>1. f[1] = 0 /\ \A i \in 1..1 : f[i + 1] = f[i] + c[i]
      BY <2>2, TotalSteps
    <3>2. f[1 + 1] = f[1] + c[1] /\ 1 + 1 = 2
      BY <3>1
    <3> QED BY <2>2, <3>1, <3>2
  <2>4. Len(FlattenSeq(d)) = Len(d[1]) /\ \A j \in 1..Len(d[1]) : FlattenSeq(d)[j] = d[1][j]
    <3>1. /\ Len(FlattenSeq(d)) = f[1 + 1] /\ 1 + 1 = 2
          /\ \A j \in 1..Len(d[1]) : FlattenSeq(d)[f[1] + j] = d[1][j] /\ 0 + j = j
      BY <2>2 DEF Places
    <3> QED BY <2>2, <2>3, <3>1
  <2> DEFINE whole == FlattenSeq(d)
             one == d[1]
  <2>5. whole \in Seq(Cell) /\ one \in Seq(Cell)
    BY <1>11, <2>1
  <2>6. Len(whole) = Len(one) /\ \A j \in 1..Len(one) : whole[j] = one[j]
    BY <2>4
  <2> HIDE DEF whole, one
  <2>7. whole = one
    <3>1. whole = [j \in 1..Len(whole) |-> whole[j]] /\ one = [j \in 1..Len(one) |-> one[j]]
      BY <2>5
    <3> QED BY <2>6, <3>1
  <2> QED BY <2>1, <2>7 DEF whole, one
<1> QED BY <1>3, <1>11, <1>12, <1>13 DEF m, found

(* The bytes of a bank: the data of the events one behind the other; the   *)
(* sizes leave nothing outside them.                                       *)
LEMMA BankBytes ==
  ASSUME NEW evs \in Seq(AnEvent), NEW id
  PROVE  LET w == WalkBank(evs, id)  n == Len(evs) IN
         /\ w.bytes \in Seq(Cell) /\ w.sizes \in [1..n -> Nat] /\ w.id = id
         /\ \A e \in 1..n : /\ w.sizes[e] <= Len(DataOf(evs, id, e))
                            /\ w.sizes[e] # 0 => e \in w.present
                            /\ e \notin w.present => w.sizes[e] = 0
                            /\ Len(Found(evs[e].structures, id)) = 1 => w.sizes[e] = Len(DataOf(evs, id, e))
         /\ SumOf(w.sizes) <= Len(w.bytes)
         /\ \E f : /\ IsTotal(f, [e \in 1..n |-> Len(DataOf(evs, id, e))], n)
                   /\ Places(w.bytes, [e \in 1..n |-> DataOf(evs, id, e)], f, n, Cell)
<1> DEFINE w == WalkBank(evs, id)
           n == Len(evs)
           found == [e \in 1..n |-> Found(evs[e].structures, id)]
           data == [e \in 1..n |-> DataOf(evs, id, e)]
           lens == [e \in 1..n |-> Len(DataOf(evs, id, e))]
<1>1. n \in Nat /\ DOMAIN evs = 1..n /\ w.id = id /\ w.bytes \in Seq(Cell) /\ w.sizes \in [1..n -> Nat]
  BY WalkBankIs
<1>2. /\ w.present = {e \in 1..n : found[e] # << >>}
      /\ w.sizes = [e \in 1..n |-> IF found[e] # << >> THEN Len(Last(found[e]).data) ELSE 0]
      /\ w.bytes = FlattenSeq(data)
  BY <1>1 DEF WalkBank, DataOf
<1>3. \A e \in 1..n :
        /\ data[e] \in Seq(Cell) /\ Len(data[e]) \in Nat /\ data[e] = DataOf(evs, id, e)
        /\ found[e] = Found(evs[e].structures, id)
        /\ found[e] # << >> => /\ Len(Last(found[e]).data) <= Len(data[e])
                               /\ Last(found[e]) = found[e][Len(found[e])]
        /\ Len(found[e]) = 1 => data[e] = found[e][1].data
  BY DataIs
<1>4. data = [e \in 1..n |-> data[e]] /\ lens = [e \in 1..n |-> Len(data[e])]
  OBVIOUS
<1> HIDE DEF w, n, found, data
<1>5. data \in [1..n -> Seq(Cell)] /\ lens \in [1..n -> Nat] /\ \A e \in 1..n : lens[e] = Len(data[e])
  BY <1>3, <1>4
<1> HIDE DEF lens
<1>6. PICK f : IsTotal(f, lens, n)
  BY <1>1, <1>5, TotalExists
<1>7. Places(w.bytes, data, f, n, Cell)
  <2>1. lens = [i \in 1..n |-> Len(data[i])]
    BY <1>4
  <2>2. Places(FlattenSeq(data), data, f, n, Cell)
    BY <1>1, <1>5, <1>6, <2>1, Flattened
  <2> QED BY <1>2, <2>2
<1>8. ASSUME NEW e \in 1..n
      PROVE  /\ w.sizes[e] <= lens[e]
             /\ w.sizes[e] # 0 => e \in w.present
             /\ e \notin w.present => w.sizes[e] = 0
             /\ Len(found[e]) = 1 => w.sizes[e] = lens[e]
  <2>1. w.sizes[e] = IF found[e] # << >> THEN Len(Last(found[e]).data) ELSE 0
    BY <1>2
  <2>2. Len(found[e]) = 1 => found[e] # << >>
    OBVIOUS
  <2>3. lens[e] \in Nat
    BY <1>5
  <2> QED BY <1>2, <1>3, <1>5, <2>1, <2>2, <2>3
<1>9. SumOf(w.sizes) <= Len(w.bytes)
  <2>1. Len(w.sizes) = n /\ IsTotal(Totals(w.sizes), w.sizes, n)
    BY <1>1, TotalsAre
  <2> DEFINE g == Totals(w.sizes)
             s == w.sizes
  <2>2. g[n + 1] <= f[n + 1]
    <3>1. n + 1 \in 1..n + 1 /\ s \in [1..n -> Nat] /\ IsTotal(g, s, n)
          /\ \A e \in 1..n : s[e] <= lens[e]
      BY <1>1, <1>8, <2>1
    <3> HIDE DEF g, s
    <3> QED BY <1>1, <1>5, <1>6, <3>1, TotalsLess
  <2> QED BY <1>7, <2>1, <2>2 DEF SumOf, SumBefore, Places
<1>10. \A e \in 1..n : found[e] = Found(evs[e].structures, id) /\ lens[e] = Len(DataOf(evs, id, e))
  BY <1>3, <1>5
<1> QED BY <1>1, <1>6, <1>7, <1>8, <1>9, <1>10 DEF data, lens, w, n

(* The block of an event in the bytes of a bank.                           *)
BlockOf(w, e) == Slice(w.bytes, SumBefore(w.sizes, e), w.sizes[e])

LEMMA BlockIs ==
  ASSUME NEW evs \in Seq(AnEvent), NEW id, NEW e \in 1..Len(evs)
  PROVE  LET w == WalkBank(evs, id) IN
         /\ w.sizes[e] \in Nat /\ SumBefore(w.sizes, e) \in Nat
         /\ SumBefore(w.sizes, e) + w.sizes[e] <= Len(w.bytes)
         /\ BlockOf(w, e) \in Seq(Cell) /\ Len(BlockOf(w, e)) = w.sizes[e]
         /\ \A j \in 1..w.sizes[e] : BlockOf(w, e)[j] = w.bytes[SumBefore(w.sizes, e) + j]
<1> DEFINE w == WalkBank(evs, id)
           n == Len(evs)
           s == w.sizes
<1>1. n \in Nat /\ s \in [1..n -> Nat] /\ w.bytes \in Seq(Cell) /\ SumOf(s) <= Len(w.bytes)
  BY BankBytes, EventsShape
<1> HIDE DEF s, w
<1>2. /\ SumBefore(s, e) \in Nat /\ SumBefore(s, e + 1) = SumBefore(s, e) + s[e]
      /\ SumBefore(s, e + 1) <= SumOf(s) /\ SumOf(s) \in Nat
  BY <1>1, SumsAre
<1>3. s[e] \in Nat /\ Len(w.bytes) \in Nat
  BY <1>1
<1>4. SumBefore(s, e) + s[e] <= Len(w.bytes)
  BY <1>1, <1>2, <1>3
<1>5. /\ Slice(w.bytes, SumBefore(s, e), s[e]) \in Seq(Cell)
      /\ Len(Slice(w.bytes, SumBefore(s, e), s[e])) = s[e]
      /\ \A j \in 1..s[e] : Slice(w.bytes, SumBefore(s, e), s[e])[j] = w.bytes[SumBefore(s, e) + j]
  <2> DEFINE bytes == w.bytes
             from == SumBefore(s, e)
             m == s[e]
  <2>1. bytes \in Seq(Cell) /\ from \in Nat /\ m \in Nat /\ from + m <= Len(bytes)
    BY <1>1, <1>2, <1>3, <1>4
  <2> HIDE DEF bytes, from, m
  <2>2. /\ Slice(bytes, from, m) \in Seq(Cell) /\ Len(Slice(bytes, from, m)) = m
        /\ \A j \in 1..m : Slice(bytes, from, m)[j] = bytes[from + j]
    BY ONLY <2>1, SliceIs
  <2> QED BY <2>2 DEF bytes, from, m
<1> QED BY <1>2, <1>3, <1>4, <1>5 DEF BlockOf, s, w

(* The schema of a bank that is split: its rows, and the columns in them.  *)
LEMMA RowsAre ==
  ASSUME NEW id \in DOMAIN Dict, NEW c \in DOMAIN Dict[id]
  PROVE  /\ Width(id, c) \in Nat \ {0} /\ RowOffset(id, c) \in Nat /\ RowSize(id) \in Nat
         /\ RowOffset(id, c) + Width(id, c) <= RowSize(id)
         /\ RowSize(id) > 0
<1> DEFINE n == Len(Dict[id])
<1>1. n \in Nat /\ DOMAIN Dict[id] = 1..n /\ \A x \in 1..n : Width(id, x) \in Nat \ {0}
  BY SchemaShape
<1>2. Widths(id) \in [1..n -> Nat] /\ \A x \in 1..n : Widths(id)[x] = Width(id, x)
  BY <1>1 DEF Widths
<1> HIDE DEF n
<1>3. c \in 1..n
  BY <1>1
<1>4. /\ SumBefore(Widths(id), c) \in Nat
      /\ SumBefore(Widths(id), c + 1) = SumBefore(Widths(id), c) + Widths(id)[c]
      /\ SumBefore(Widths(id), c + 1) <= SumOf(Widths(id)) /\ SumOf(Widths(id)) \in Nat
  BY <1>1, <1>2, <1>3, SumsAre
<1> QED BY <1>1, <1>2, <1>3, <1>4 DEF RowOffset, RowSize

(* Column c of a run of rows lies within it.                               *)
LEMMA ColumnInside ==
  ASSUME NEW id \in DOMAIN Dict, NEW c \in DOMAIN Dict[id], NEW size \in Nat
  PROVE  LET rows == size \div RowSize(id) IN
         /\ rows \in Nat /\ rows * RowOffset(id, c) \in Nat /\ rows * Width(id, c) \in Nat
         /\ rows * RowOffset(id, c) + rows * Width(id, c) <= size
<1> DEFINE rows == size \div RowSize(id)
           o == RowOffset(id, c)
           v == Width(id, c)
           r == RowSize(id)
<1>1. v \in Nat /\ o \in Nat /\ r \in Nat /\ o + v <= r /\ r > 0
  BY RowsAre
<1> HIDE DEF o, v, r
<1>2. rows \in Nat /\ rows * r <= size /\ rows * r \in Nat
  <2>1. size \div r \in Nat /\ (size \div r) * r \in 0..size
    BY <1>1, WholeElements
  <2> QED BY <2>1 DEF r
<1> HIDE DEF rows
<1>3. rows * o \in Nat /\ rows * v \in Nat /\ rows * (o + v) = rows * o + rows * v
  BY <1>1, <1>2
<1>4. rows * (o + v) <= rows * r
  <2>1. r - (o + v) \in Nat /\ r = (o + v) + (r - (o + v))
    BY <1>1
  <2> DEFINE x == o + v
             y == r - (o + v)
  <2>2. x \in Nat /\ y \in Nat /\ r = x + y
    BY <1>1, <2>1
  <2> HIDE DEF x, y
  <2>3. rows * r = rows * x + rows * y /\ rows * x \in Nat /\ rows * y \in Nat
    BY <1>2, <2>2
  <2>4. rows * x <= rows * r
    BY <2>3
  <2> QED BY <2>4 DEF x
<1> QED BY <1>2, <1>3, <1>4 DEF rows, o, v, r

(* The stream of a column: of each event the run of its column.            *)
ChunkOf(w, c, e) ==
  LET rows == w.sizes[e] \div RowSize(w.id)
  IN  Slice(BlockOf(w, e), rows * RowOffset(w.id, c), rows * Width(w.id, c))

LEMMA ChunkIs ==
  ASSUME NEW evs \in Seq(AnEvent), NEW id \in DOMAIN Dict, NEW c \in DOMAIN Dict[id],
         NEW e \in 1..Len(evs)
  PROVE  LET w == WalkBank(evs, id)
             rows == w.sizes[e] \div RowSize(id)
         IN /\ ChunkOf(w, c, e) \in Seq(Cell) /\ Len(ChunkOf(w, c, e)) = rows * Width(id, c)
            /\ \A j \in 1..rows * Width(id, c) :
                 /\ rows * RowOffset(id, c) + j \in 1..w.sizes[e]
                 /\ ChunkOf(w, c, e)[j] = BlockOf(w, e)[rows * RowOffset(id, c) + j]
<1> DEFINE w == WalkBank(evs, id)
           rows == w.sizes[e] \div RowSize(id)
<1>1. w.sizes[e] \in Nat /\ BlockOf(w, e) \in Seq(Cell) /\ Len(BlockOf(w, e)) = w.sizes[e] /\ w.id = id
  BY BlockIs, WalkBankIs
<1>2. /\ rows * RowOffset(id, c) \in Nat /\ rows * Width(id, c) \in Nat
      /\ rows * RowOffset(id, c) + rows * Width(id, c) <= w.sizes[e]
  BY <1>1, ColumnInside
<1> DEFINE from == rows * RowOffset(id, c)
           n == rows * Width(id, c)
           block == BlockOf(w, e)
<1>3. from \in Nat /\ n \in Nat /\ block \in Seq(Cell) /\ from + n <= Len(block)
  BY <1>1, <1>2
<1>6. Len(block) = w.sizes[e]
  BY <1>1
<1>4. ChunkOf(w, c, e) = Slice(block, from, n)
  BY <1>1 DEF ChunkOf
<1> HIDE DEF from, n, block, w, rows
<1>5. /\ Slice(block, from, n) \in Seq(Cell) /\ Len(Slice(block, from, n)) = n
      /\ \A j \in 1..n : from + j \in 1..Len(block) /\ Slice(block, from, n)[j] = block[from + j]
  <2>1. ASSUME NEW x \in Seq(Cell), NEW y \in Nat, NEW z \in Nat, y + z <= Len(x)
        PROVE  /\ Slice(x, y, z) \in Seq(Cell) /\ Len(Slice(x, y, z)) = z
               /\ \A j \in 1..z : y + j \in 1..Len(x) /\ Slice(x, y, z)[j] = x[y + j]
    BY ONLY <2>1, SliceIs
  <2> QED BY ONLY <1>3, <2>1
<1> QED BY <1>4, <1>5, <1>6 DEF from, n, block, w, rows

LEMMA ColumnStreamIs ==
  ASSUME NEW evs \in Seq(AnEvent), NEW id \in DOMAIN Dict, NEW c \in DOMAIN Dict[id]
  PROVE  LET w == WalkBank(evs, id)  n == Len(evs)
             lens == [e \in 1..n |-> (w.sizes[e] \div RowSize(id)) * Width(id, c)]
         IN /\ ColumnStream(w, c) \in Seq(Cell)
            /\ lens \in [1..n -> Nat]
            /\ \E f : /\ IsTotal(f, lens, n)
                      /\ Places(ColumnStream(w, c), [e \in 1..n |-> ChunkOf(w, c, e)], f, n, Cell)
<1> DEFINE w == WalkBank(evs, id)
           n == Len(evs)
           lens == [e \in 1..n |-> (w.sizes[e] \div RowSize(id)) * Width(id, c)]
           chunks == [e \in 1..n |-> ChunkOf(w, c, e)]
<1>1. n \in Nat /\ w.sizes \in [1..n -> Nat] /\ w.id = id
  BY WalkBankIs
<1>2. ColumnStream(w, c) = FlattenSeq(chunks)
  BY <1>1 DEF ColumnStream, ChunkOf, BlockOf
<1>3. \A e \in 1..n : chunks[e] \in Seq(Cell) /\ Len(chunks[e]) = lens[e]
  BY ChunkIs
<1>4. chunks = [e \in 1..n |-> chunks[e]] /\ lens = [e \in 1..n |-> lens[e]]
  OBVIOUS
<1> HIDE DEF w, n, lens, chunks
<1>5. chunks \in [1..n -> Seq(Cell)] /\ lens = [e \in 1..n |-> Len(chunks[e])]
  BY <1>3, <1>4
<1>6. lens \in [1..n -> Nat]
  BY <1>5
<1>7. PICK f : IsTotal(f, lens, n)
  BY <1>1, <1>6, TotalExists
<1>8. Places(FlattenSeq(chunks), chunks, f, n, Cell)
  BY <1>1, <1>5, <1>7, Flattened
<1>9. Places(ColumnStream(w, c), chunks, f, n, Cell) /\ ColumnStream(w, c) \in Seq(Cell)
  BY <1>2, <1>8 DEF Places
<1> QED BY <1>6, <1>7, <1>9 DEF w, n, lens, chunks

(* A stream of one byte over and over is the same split or not.            *)
LEMMA UnsplitSame ==
  ASSUME NEW x, NEW l \in Nat, NEW w \in Nat \ {0}
  PROVE  ByteUnsplit([p \in 1..l |-> x], w) = [p \in 1..l |-> x]
<1> DEFINE s == [p \in 1..l |-> x]
           n == l \div w
           To(p) == ((p - 1) % w) * n + (p - 1) \div w + 1
<1>1. Len(s) = l /\ DOMAIN s = 1..l
  OBVIOUS
<1>2. w \in Nat /\ w > 0 /\ n \in Nat /\ n * w \in 0..l
  BY WholeElements
<1>3. ASSUME NEW p \in 1..l, p <= n * w PROVE To(p) \in 1..l
  <2>1. p - 1 \in Nat /\ p - 1 < n * w
    BY <1>2, <1>3
  <2>2. ((p - 1) % w) * n + ((p - 1) \div w) \in 0..(n * w - 1)
    BY <1>2, <2>1, TurnedAndBack
  <2> DEFINE r == ((p - 1) % w) * n + ((p - 1) \div w)
             m == n * w
  <2>3. r \in 0..(m - 1) /\ m \in 0..l /\ To(p) = r + 1
    BY <1>2, <2>2
  <2> HIDE DEF r, m, To
  <2> QED BY <2>3
<1>4. ByteUnsplit(s, w) = [p \in 1..l |-> IF p <= n * w THEN s[To(p)] ELSE s[p]]
  BY <1>1 DEF ByteUnsplit
<1> HIDE DEF n, To
<1>5. \A p \in 1..l : (IF p <= n * w THEN s[To(p)] ELSE s[p]) = x
  BY <1>3
<1> HIDE DEF s
<1>6. ByteUnsplit(s, w) = [p \in 1..l |-> x]
  BY <1>4, <1>5
<1> QED BY <1>6 DEF s

LEMMA CellsAreNot ==
  /\ Zero \notin Cell /\ Garbage \notin Cell /\ Zero # Garbage
  /\ \A s \in Seq(Cell) : s # Failed /\ s # NoBank
<1>1. <<0, 0, 2>> \notin Cell /\ <<0, 0, 3>> \notin Cell
  BY DEF Cell
<1>2. Zero \notin Cell /\ Garbage \notin Cell /\ Zero # Garbage
  BY DEF Cell, Zero, Garbage
<1>3. ASSUME NEW s \in Seq(Cell) PROVE s # Failed /\ s # NoBank
  <2>1. Failed[1] = <<0, 0, 2>> /\ Len(Failed) = 1 /\ NoBank[1] = <<0, 0, 3>> /\ Len(NoBank) = 1
    BY DEF Failed, NoBank
  <2>2. Len(s) = 1 => s[1] \in Cell
    <3>1. \A i \in 1..Len(s) : s[i] \in Cell
      BY SeqIsFunction
    <3> QED BY <3>1
  <2> QED BY <1>1, <2>1, <2>2
<1> QED BY <1>2, <1>3

(* What a stream of the record inflates to: the bytes it was made of, or   *)
(* nothing, or as many bytes of garbage; the last only where storage has   *)
(* damaged it and there is no checksum.                                    *)
LEMMA InflateIs ==
  ASSUME NEW stream, NEW bytes \in Seq(Cell), NEW lay, StreamIs(stream, bytes, lay)
  PROVE  /\ \/ Inflate(stream, lay) \in {bytes, Failed}
            \/ /\ stream.damage # "none" /\ stream.size > 0
               /\ Inflate(stream, lay) = [p \in 1..Len(bytes) |-> Garbage]
         /\ stream.damage = "none" \/ stream.size = 0 => Inflate(stream, lay) = bytes
         /\ stream.size > 0 /\ stream.checksum # 0 => Inflate(stream, lay) \in {bytes, Failed}
<1>1. /\ stream.width \in Nat \ {0} /\ stream.split \in BOOLEAN
      /\ stream.stored = IF stream.split THEN ByteSplit(bytes, stream.width) ELSE bytes
      /\ stream.size = Len(bytes) /\ Len(bytes) \in Nat
      /\ stream.checksum \in {0, 1}
      /\ stream.split \/ stream.checksum # 0 => lay = "per_column"
      /\ stream.damage \in {"none", "garbled", "undecodable"}
  BY DEF StreamIs
<1> DEFINE garbage == [p \in 1..Len(bytes) |-> Garbage]
           raw == InflateBank(stream)
<1>2. /\ stream.stored \in Seq(Cell)
      /\ stream.split => ByteUnsplit(stream.stored, stream.width) = bytes
  BY <1>1, ByteSplitIs, ByteSplitLosesNothing
<1>3. bytes # Failed /\ stream.stored # Failed
  BY <1>2, CellsAreNot
<1>4. /\ stream.damage = "none" \/ stream.size = 0 => raw = stream.stored
      /\ stream.damage # "none" /\ stream.size # 0 => raw = Failed \/ raw = garbage
  <2>1. raw = IF stream.damage = "none" \/ stream.size = 0 THEN stream.stored
              ELSE IF stream.damage = "undecodable" THEN Failed ELSE garbage
    BY <1>1 DEF InflateBank
  <2> HIDE DEF raw, garbage
  <2> QED BY <2>1
<1>5. stream.split => ByteUnsplit(garbage, stream.width) = garbage
  <2>1. ASSUME NEW l \in Nat, NEW w \in Nat \ {0}
        PROVE  ByteUnsplit([p \in 1..l |-> Garbage], w) = [p \in 1..l |-> Garbage]
    BY ONLY <2>1, UnsplitSame
  <2> DEFINE w == stream.width
             l == Len(bytes)
  <2>2. w \in Nat \ {0} /\ l \in Nat
    BY <1>1
  <2> HIDE DEF w, l
  <2>3. ByteUnsplit([p \in 1..l |-> Garbage], w) = [p \in 1..l |-> Garbage]
    BY <2>1, <2>2
  <2> QED BY <2>3 DEF w, l
<1> HIDE DEF garbage, raw
<1>6. CASE lay # "per_column"
  <2>1. Inflate(stream, lay) = raw /\ ~stream.split /\ stream.checksum = 0
    BY <1>1, <1>6 DEF Inflate, raw
  <2> QED BY <1>1, <1>4, <2>1 DEF garbage
<1>7. CASE lay = "per_column"
  <2>1. Inflate(stream, lay) =
          IF stream.size > 0 /\ stream.checksum # 0 /\ stream.damage # "none" THEN Failed
          ELSE IF raw = Failed THEN Failed
          ELSE IF stream.split THEN ByteUnsplit(raw, stream.width) ELSE raw
    BY <1>7 DEF Inflate, InflateColumn, raw
  <2>2. CASE stream.damage = "none" \/ stream.size = 0
    <3>1. raw = stream.stored /\ raw # Failed
      BY <1>3, <1>4, <2>2
    <3>2. Inflate(stream, lay) = bytes
      BY <1>1, <1>2, <2>1, <2>2, <3>1
    <3> QED BY <3>2
  <2>3. CASE ~(stream.damage = "none" \/ stream.size = 0)
    <3>1. raw = Failed \/ raw = garbage
      BY <1>4, <2>3
    <3>2. Inflate(stream, lay) \in {Failed, garbage}
      BY <1>5, <2>1, <3>1
    <3>3. stream.checksum # 0 => Inflate(stream, lay) = Failed
      BY <1>1, <2>1, <2>3
    <3> QED BY <1>1, <2>3, <3>2, <3>3 DEF garbage
  <2> QED BY <2>2, <2>3
<1> QED BY <1>6, <1>7

-----------------------------------------------------------------------------
(***************************************************************************)
(* Putting an event together.                                              *)
(***************************************************************************)
(* The stream of a record, and the bytes it was made of.                   *)
LEMMA BytesAre ==
  ASSUME NEW evs \in Seq(AnEvent), NEW lay, NEW rec, RecordIs(rec, evs, lay),
         NEW b \in DOMAIN rec.banks, NEW c \in DOMAIN rec.banks[b].streams
  PROVE  LET w == WalkBank(evs, rec.banks[b].id) IN
         /\ BytesAt(w, lay, c) \in Seq(Cell)
         /\ StreamIs(rec.banks[b].streams[c], BytesAt(w, lay, c), lay)
<1> DEFINE id == rec.banks[b].id
           w == WalkBank(evs, id)
<1>1. /\ BankIs(rec.banks[b], w, lay) /\ w.id = id
      /\ DOMAIN rec.banks[b].streams = StreamNumbers(w, lay)
  BY BanksAre
<1>2. StreamIs(rec.banks[b].streams[c], BytesAt(w, lay, c), lay)
  <2> HIDE DEF w
  <2> QED BY <1>1 DEF BankIs
<1>3. CASE Splits(w, lay)
  <2>1. id \in DOMAIN Dict /\ c \in DOMAIN Dict[id]
    <3> HIDE DEF w, id
    <3> QED BY <1>1, <1>3 DEF StreamNumbers, Splits, Columnar
  <2>2. ColumnStream(w, c) \in Seq(Cell)
    BY <2>1, ColumnStreamIs
  <2> QED BY <1>2, <1>3, <2>2 DEF BytesAt
<1>4. CASE ~Splits(w, lay)
  <2>1. w.bytes \in Seq(Cell)
    BY WalkBankIs
  <2> QED BY <1>2, <1>4, <2>1 DEF BytesAt
<1> QED BY <1>3, <1>4

(* A bank of the record that is split: whole rows in every event, and as   *)
(* many before an event as there are rows of its size.                     *)
LEMMA WholeRows ==
  ASSUME NEW evs \in Seq(AnEvent), NEW id, Columnar(WalkBank(evs, id)), NEW e \in 1..Len(evs)
  PROVE  LET w == WalkBank(evs, id)  n == Len(evs)
             rows == [d \in 1..n |-> w.sizes[d] \div RowSize(id)]
         IN /\ id \in DOMAIN Dict /\ RowSize(id) \in Nat /\ RowSize(id) > 0
            /\ w.sizes[e] \in Nat /\ rows[e] \in Nat /\ w.sizes[e] = rows[e] * RowSize(id)
            /\ w.sizes[e] % RowSize(id) = 0
            /\ w.sizes[e] \div RowSize(id) \in Nat
            /\ w.sizes[e] = (w.sizes[e] \div RowSize(id)) * RowSize(id)
            /\ SumBefore(w.sizes, e) \div RowSize(id) \in Nat
            /\ \E g : /\ IsTotal(g, rows, n) /\ rows \in [1..n -> Nat] /\ g[e] \in Nat
                      /\ SumBefore(w.sizes, e) \div RowSize(id) = g[e]
<1> DEFINE w == WalkBank(evs, id)
           n == Len(evs)
           s == w.sizes
           k == RowSize(id)
           rows == [d \in 1..n |-> s[d] \div k]
<1>1. n \in Nat /\ s \in [1..n -> Nat] /\ w.id = id
      /\ \A d \in 1..n : d \notin w.present => s[d] = 0
  BY BankBytes, EventsShape
<1>2. id \in DOMAIN Dict /\ k > 0 /\ \A d \in w.present : s[d] % k = 0
  BY <1>1 DEF Columnar
<1>3. k \in Nat
  <2>1. Widths(id) \in [1..Len(Dict[id]) -> Nat] /\ Len(Dict[id]) \in Nat
    BY <1>2, SchemaShape DEF Widths
  <2> QED BY <2>1, NoTotal DEF RowSize
<1> HIDE DEF s, k, n
<1>4. ASSUME NEW d \in 1..n PROVE s[d] % k = 0 /\ s[d] \in Nat /\ rows[d] \in Nat /\ s[d] = rows[d] * k
  <2>1. s[d] \in Nat /\ (d \notin w.present => s[d] = 0)
    BY <1>1
  <2>2. s[d] \div k \in Nat /\ s[d] % k \in 0..k - 1 /\ s[d] = (s[d] \div k) * k + (s[d] % k)
    BY <1>2, <1>3, <2>1, QuotientAndRemainder
  <2>3. s[d] % k = 0
    <3>1. CASE d \in w.present
      BY <1>2, <3>1
    <3>2. CASE d \notin w.present
      <4>1. s[d] = 0
        BY <2>1, <3>2
      <4>2. 0 % k = 0
        <5>1. (0 * k + 0) % k = 0 /\ 0 * k + 0 = 0
          BY <1>2, <1>3, DivideBack
        <5> QED BY <5>1
      <4> QED BY <4>1, <4>2
    <3> QED BY <3>1, <3>2
  <2>4. (s[d] \div k) * k \in Nat
    <3>1. \A x, y \in Nat : x * y \in Nat
      OBVIOUS
    <3> QED BY <1>3, <2>2, <3>1
  <2>5. rows[d] = s[d] \div k
    OBVIOUS
  <2> HIDE DEF rows
  <2> QED BY <2>1, <2>2, <2>3, <2>4, <2>5
<1>5. rows = [d \in 1..n |-> rows[d]]
  OBVIOUS
<1> HIDE DEF rows
<1>6. rows \in [1..n -> Nat]
  BY <1>4, <1>5
<1>7. PICK g : IsTotal(g, rows, n)
  BY <1>1, <1>6, TotalExists
<1>8. e \in 1..n /\ e \in 1..n + 1
  BY <1>1 DEF n
<1>9. g[e] \in Nat
  BY <1>1, <1>6, <1>7, <1>8, TotalSteps
<1>10. SumBefore(s, e) \div k = g[e]
  <2>1. IsTotal(Totals(s), s, n)
    BY <1>1, TotalsAre
  <2> DEFINE f == Totals(s)
  <2> HIDE DEF f
  <2>2. Multiples(s, rows, k, n)
    BY <1>4 DEF Multiples
  <2>3. IsTotal(f, s, n)
    BY <2>1 DEF f
  <2>4. Multiples(f, g, k, n + 1)
    BY <1>1, <1>3, <1>6, <1>7, <2>2, <2>3, TotalsScale
  <2>5. SumBefore(s, e) = g[e] * k
    BY <1>8, <2>4 DEF SumBefore, f, Multiples
  <2>6. (g[e] * k + 0) \div k = g[e] /\ g[e] * k + 0 = g[e] * k
    BY <1>2, <1>3, <1>9, DivideBack
  <2> QED BY <2>5, <2>6
<1>11. s[e] \in Nat /\ rows[e] \in Nat /\ s[e] = rows[e] * k /\ s[e] % k = 0
  BY <1>4, <1>8
<1>12. rows[e] = s[e] \div k
  BY <1>8 DEF rows
<1> QED BY <1>2, <1>3, <1>6, <1>7, <1>9, <1>10, <1>11, <1>12 DEF n, s, w, k, rows

(* The columns of rows bytes, one behind the other: where each begins, and *)
(* that there is nothing between them.                                     *)
LEMMA ColumnsTile ==
  ASSUME NEW id \in DOMAIN Dict, NEW rows \in Nat
  PROVE  LET m == Len(Dict[id])
             lens == [c \in 1..m |-> rows * Width(id, c)]
         IN /\ m \in Nat /\ DOMAIN Dict[id] = 1..m
            /\ lens \in [1..m -> Nat] /\ RowSize(id) \in Nat
            /\ \E f : /\ IsTotal(f, lens, m)
                      /\ f[m + 1] = rows * RowSize(id)
                      /\ \A c \in 1..m : f[c] = rows * RowOffset(id, c)
            /\ \A p \in 1..rows * RowSize(id) : \E c \in 1..m : \E j \in 1..rows * Width(id, c) :
                 p = rows * RowOffset(id, c) + j
<1> DEFINE m == Len(Dict[id])
           lens == [c \in 1..m |-> rows * Width(id, c)]
           v == Widths(id)
<1>1. m \in Nat /\ DOMAIN Dict[id] = 1..m /\ \A x \in 1..m : Width(id, x) \in Nat
  BY SchemaShape
<1>2. v \in [1..m -> Nat] /\ \A x \in 1..m : v[x] = Width(id, x)
  BY <1>1 DEF Widths
<1>3. \A c \in 1..m : lens[c] = rows * Width(id, c)
  OBVIOUS
<1>4. \A x \in 1..m : rows * Width(id, x) \in Nat
  BY <1>1
<1>5. lens \in [1..m -> Nat]
  BY <1>4
<1> HIDE DEF m, lens, v
<1>6. PICK f : IsTotal(f, lens, m)
  BY <1>1, <1>5, TotalExists
<1>7. IsTotal(Totals(v), v, m) /\ Len(v) = m
  BY <1>1, <1>2, TotalsAre
<1> DEFINE g == Totals(v)
<1>8. g \in [1..m + 1 -> Nat]
  BY <1>1, <1>2, <1>7, TotalSteps
<1>9. IsTotal(g, v, m)
  BY <1>7
<1>10. g[m + 1] = RowSize(id) /\ \A c \in 1..m : g[c] = RowOffset(id, c)
  BY <1>7 DEF RowSize, RowOffset, SumOf, SumBefore, v
<1> HIDE DEF g
<1>11. Multiples(lens, v, rows, m)
  <2>1. \A x \in Nat : rows * x = x * rows
    OBVIOUS
  <2> QED BY <1>1, <1>2, <1>3, <2>1 DEF Multiples
<1>12. Multiples(f, g, rows, m + 1)
  BY <1>1, <1>2, <1>5, <1>6, <1>9, <1>11, TotalsScale
<1>13. m + 1 \in 1..m + 1 /\ \A c \in 1..m : c \in 1..m + 1 /\ c + 1 \in 1..m + 1
  BY <1>1
<1>14. f[m + 1] = rows * RowSize(id) /\ RowSize(id) \in Nat
       /\ \A c \in 1..m : f[c] = rows * RowOffset(id, c)
  <2>1. \A x \in Nat : rows * x = x * rows
    OBVIOUS
  <2>2. \A i \in 1..m + 1 : f[i] = rows * g[i]
    BY <1>8, <1>12, <2>1 DEF Multiples
  <2> QED BY <1>8, <1>10, <1>13, <2>2
<1>15. ASSUME NEW p \in 1..rows * RowSize(id)
       PROVE  \E c \in 1..m : \E j \in 1..rows * Width(id, c) : p = rows * RowOffset(id, c) + j
  <2>1. f \in [1..m + 1 -> Nat] /\ f[1] = 0 /\ \A i \in 1..m : f[i + 1] = f[i] + lens[i]
    BY <1>1, <1>5, <1>6, TotalSteps
  <2>2. rows * RowSize(id) \in Nat /\ p \in Nat /\ 1 <= p /\ p <= f[m + 1]
    BY <1>14
  <2> DEFINE x == p - 1
  <2>3. x \in Nat /\ p = x + 1 /\ x < f[m + 1]
    BY <1>13, <2>1, <2>2
  <2> HIDE DEF x
  <2>4. PICK k \in 1..m + 1 : \A i \in 1..m + 1 : f[i] <= x <=> i <= k
    BY <1>1, <1>5, <1>6, <2>3, TotalsUpTo
  <2>5. k # m + 1
    <3>1. ~(f[m + 1] <= x)
      BY <1>13, <2>1, <2>3
    <3> QED BY <1>1, <1>13, <2>4, <3>1
  <2>6. k \in 1..m /\ k + 1 \in 1..m + 1
    BY <1>1, <2>5
  <2>7. f[k] <= x /\ ~(f[k + 1] <= x)
    BY <2>4, <2>6
  <2>8. f[k] \in Nat /\ f[k + 1] \in Nat /\ f[k + 1] = f[k] + lens[k] /\ lens[k] \in Nat
    BY <1>5, <2>1, <2>6
  <2>9. p - f[k] \in 1..lens[k] /\ p = f[k] + (p - f[k])
    BY <2>3, <2>7, <2>8
  <2> QED BY <1>3, <1>14, <2>6, <2>9
<1> QED BY <1>1, <1>5, <1>6, <1>14, <1>15 DEF m, lens

-----------------------------------------------------------------------------
(***************************************************************************)
(* Borrowed streams.  A slot that somebody has borrowed from is set, and   *)
(* a copy to be set is somebody's own: so setting it a second time leaves  *)
(* the slot, and setting it for the first time disturbs nobody.            *)
(***************************************************************************)
Shape ==
  /\ pc \in [Threads -> {"idle", "get", "inflate", "set", "done"}]
  /\ got = [t \in Threads |-> got[t]]
  /\ out = [t \in Threads |-> out[t]]

IdleUntilOpen ==
  phase # "open" => \A t \in Threads : pc[t] = "idle" /\ got[t] = << >>

CopiesAreTheirOwn == \A t \in Threads : pc[t] = "set" => out[t].by = t

KeptIn(boxes, in) ==
  \A s \in DOMAIN boxes \cap DOMAIN in :
    boxes[s].bytes # Failed => boxes[s] = in[s] /\ in[s] # Unset

IInv ==
  /\ Shape
  /\ IdleUntilOpen
  /\ CopiesAreTheirOwn
  /\ \A t \in Threads : KeptIn(got[t], slots)

(* A thread's copy is not an empty slot, since no thread is named none.    *)
LEMMA CopyIsNotUnset ==
  ASSUME NEW t \in Threads, NEW box, box.by = t
  PROVE  box # Unset
BY SplitReadsAssumption DEF Unset

(* Borrowing a box that is set, or the failure to inflate it, keeps what   *)
(* was borrowed as it was.                                                 *)
LEMMA BorrowKeeps ==
  ASSUME NEW t \in Threads, NEW box, NEW in, Shape, Borrow(t, box),
         \A u \in Threads : KeptIn(got[u], in),
         LET h == Head(todo[t]) IN
           h \in DOMAIN in /\ box.bytes # Failed => box = in[h] /\ in[h] # Unset
  PROVE  /\ \A u \in Threads : KeptIn(got'[u], in)
         /\ pc' \in [Threads -> {"idle", "get", "inflate", "set", "done"}]
         /\ pc'[t] = "get" /\ \A u \in Threads \ {t} : pc'[u] = pc[u]
         /\ got' = [u \in Threads |-> got'[u]]
<1> DEFINE h == Head(todo[t])
           more == With(got[t], h, box)
<1>1. got' = [got EXCEPT ![t] = more] /\ pc' = [pc EXCEPT ![t] = "get"]
  BY DEF Borrow
<1>2. /\ DOMAIN more = {h} \cup DOMAIN got[t] /\ more[h] = box
      /\ \A s \in DOMAIN got[t] : s # h => more[s] = got[t][s]
  BY DEF With
<1> HIDE DEF more
<1>3. KeptIn(more, in)
  BY <1>2 DEF KeptIn
<1>4. got'[t] = more /\ \A u \in Threads \ {t} : got'[u] = got[u]
  BY <1>1 DEF Shape
<1>5. got' = [u \in Threads |-> got'[u]]
  BY <1>1 DEF Shape
<1> QED BY <1>1, <1>3, <1>4, <1>5 DEF Shape

LEMMA IInvInit == Init => IInv
BY DEF Init, IInv, Shape, IdleUntilOpen, CopiesAreTheirOwn, KeptIn

LEMMA IInvNext == IInv /\ [Next]_vars => IInv'
<1> SUFFICES ASSUME IInv, [Next]_vars PROVE IInv'
  OBVIOUS
<1>1. /\ Shape /\ IdleUntilOpen /\ CopiesAreTheirOwn
      /\ \A t \in Threads : KeptIn(got[t], slots)
  BY DEF IInv
<1>2. ASSUME NEW smaller \in BOOLEAN, NEW checksum \in {0, 1}, Build(smaller, checksum)
      PROVE  IInv'
  <2>1. phase = "new" /\ slots' = slots /\ pc' = pc /\ got' = got /\ out' = out
    BY <1>2 DEF Build
  <2> QED BY <1>1, <2>1 DEF IInv, Shape, IdleUntilOpen, CopiesAreTheirOwn, KeptIn
<1>3. ASSUME NEW b, NEW c, NEW how, Damage(b, c, how)
      PROVE  IInv'
  <2>1. phase' = phase /\ slots' = slots /\ pc' = pc /\ got' = got /\ out' = out
    BY <1>3 DEF Damage
  <2> QED BY <1>1, <2>1 DEF IInv, Shape, IdleUntilOpen, CopiesAreTheirOwn, KeptIn
<1>13. ASSUME NEW len, DamageLength(len)
       PROVE  IInv'
  <2>1. phase' = phase /\ slots' = slots /\ pc' = pc /\ got' = got /\ out' = out
    BY <1>13 DEF DamageLength
  <2> QED BY <1>1, <2>1 DEF IInv, Shape, IdleUntilOpen, CopiesAreTheirOwn, KeptIn
<1>4. CASE Parse
  <2>1. \A t \in Threads : pc[t] = "idle" /\ got[t] = << >>
    BY <1>1, <1>4 DEF Parse, IdleUntilOpen
  <2>2. pc' = pc /\ got' = got /\ out' = out
    BY <1>4 DEF Parse
  <2>3. \A t \in Threads : KeptIn(got'[t], slots')
    BY <2>1, <2>2 DEF KeptIn
  <2> QED BY <1>1, <2>1, <2>2, <2>3 DEF IInv, Shape, IdleUntilOpen, CopiesAreTheirOwn
<1>5. ASSUME NEW t \in Threads, NEW r, Begin(t, r)
      PROVE  IInv'
  <2>1. /\ phase = "open" /\ phase' = phase /\ slots' = slots /\ got' = got /\ out' = out
        /\ pc' = [pc EXCEPT ![t] = "get"]
    BY <1>5 DEF Begin, stored
  <2> QED BY <1>1, <2>1 DEF IInv, Shape, IdleUntilOpen, CopiesAreTheirOwn
<1>6. ASSUME NEW t \in Threads, Hit(t)
      PROVE  IInv'
  <2>1. /\ pc[t] = "get" /\ slots' = slots /\ out' = out /\ phase' = phase
        /\ Borrow(t, slots[Head(todo[t])]) /\ slots[Head(todo[t])] # Unset
    BY <1>6 DEF Hit, stored
  <2>2. /\ \A u \in Threads : KeptIn(got'[u], slots)
        /\ pc' \in [Threads -> {"idle", "get", "inflate", "set", "done"}]
        /\ pc'[t] = "get" /\ \A u \in Threads \ {t} : pc'[u] = pc[u]
        /\ got' = [u \in Threads |-> got'[u]]
    BY <1>1, <2>1, BorrowKeeps
  <2> QED BY <1>1, <2>1, <2>2 DEF IInv, Shape, IdleUntilOpen, CopiesAreTheirOwn
<1>7. ASSUME NEW t \in Threads, Miss(t)
      PROVE  IInv'
  <2>1. /\ pc[t] = "get" /\ phase' = phase /\ slots' = slots /\ got' = got /\ out' = out
        /\ pc' = [pc EXCEPT ![t] = "inflate"]
    BY <1>7 DEF Miss, stored
  <2> QED BY <1>1, <2>1 DEF IInv, Shape, IdleUntilOpen, CopiesAreTheirOwn
<1>8. ASSUME NEW t \in Threads, InflateStream(t)
      PROVE  IInv'
  <2> DEFINE bytes == Inflate(StreamAt(Head(todo[t])), layout)
  <2>1. pc[t] = "inflate" /\ slots' = slots /\ phase' = phase
    BY <1>8 DEF InflateStream, stored
  <2>2. \/ Borrow(t, [bytes |-> Failed, by |-> t]) /\ out' = out
        \/ /\ out' = [out EXCEPT ![t] = [bytes |-> bytes, by |-> t]]
           /\ pc' = [pc EXCEPT ![t] = "set"] /\ got' = got
    BY <1>8 DEF InflateStream
  <2> HIDE DEF bytes
  <2>3. CASE Borrow(t, [bytes |-> Failed, by |-> t]) /\ out' = out
    <3>1. /\ \A u \in Threads : KeptIn(got'[u], slots)
          /\ pc' \in [Threads -> {"idle", "get", "inflate", "set", "done"}]
          /\ pc'[t] = "get" /\ \A u \in Threads \ {t} : pc'[u] = pc[u]
          /\ got' = [u \in Threads |-> got'[u]]
      BY <1>1, <2>3, BorrowKeeps
    <3> QED BY <1>1, <2>1, <2>3, <3>1 DEF IInv, Shape, IdleUntilOpen, CopiesAreTheirOwn
  <2>4. CASE /\ out' = [out EXCEPT ![t] = [bytes |-> bytes, by |-> t]]
             /\ pc' = [pc EXCEPT ![t] = "set"] /\ got' = got
    BY <1>1, <2>1, <2>4 DEF IInv, Shape, IdleUntilOpen, CopiesAreTheirOwn
  <2> QED BY <2>2, <2>3, <2>4
<1>9. ASSUME NEW t \in Threads, Set(t)
      PROVE  IInv'
  <2> DEFINE h == Head(todo[t])
  <2>1. /\ pc[t] = "set" /\ phase' = phase /\ Borrow(t, slots'[h])
        /\ slots' = SetSlot(h, out[t]) /\ out' = [out EXCEPT ![t] = Unset]
    BY <1>9 DEF Set, stored
  <2>2. out[t] # Unset
    BY <1>1, <2>1, CopyIsNotUnset DEF CopiesAreTheirOwn
  <2> HIDE DEF h
  <2>3. /\ \A u \in Threads : KeptIn(got[u], slots')
        /\ h \in DOMAIN slots' => slots'[h] # Unset
    <3>1. CASE slots[h] # Unset
      BY <1>1, <2>1, <3>1 DEF SetSlot
    <3>2. CASE slots[h] = Unset
      <4>1. slots' = [slots EXCEPT ![h] = out[t]]
        BY <2>1, <3>2 DEF SetSlot
      <4>2. /\ DOMAIN slots' = DOMAIN slots
            /\ h \in DOMAIN slots => slots'[h] = out[t]
            /\ \A s \in DOMAIN slots : s # h => slots'[s] = slots[s]
        BY <4>1
      <4> QED BY <1>1, <2>2, <3>2, <4>2 DEF KeptIn
    <3> QED BY <3>1, <3>2
  <2>4. /\ \A u \in Threads : KeptIn(got'[u], slots')
        /\ pc' \in [Threads -> {"idle", "get", "inflate", "set", "done"}]
        /\ pc'[t] = "get" /\ \A u \in Threads \ {t} : pc'[u] = pc[u]
        /\ got' = [u \in Threads |-> got'[u]]
    BY <1>1, <2>1, <2>3, BorrowKeeps DEF h
  <2> QED BY <1>1, <2>1, <2>4 DEF IInv, Shape, IdleUntilOpen, CopiesAreTheirOwn
<1>10. ASSUME NEW t \in Threads, Answer(t)
       PROVE  IInv'
  <2>1. /\ pc[t] = "get" /\ phase' = phase /\ slots' = slots /\ got' = got /\ out' = out
        /\ pc' = [pc EXCEPT ![t] = "done"]
    BY <1>10 DEF Answer, stored
  <2> QED BY <1>1, <2>1 DEF IInv, Shape, IdleUntilOpen, CopiesAreTheirOwn
<1>11. ASSUME NEW t \in Threads, Drop(t)
       PROVE  IInv'
  <2>1. /\ pc[t] = "done" /\ phase' = phase /\ slots' = slots /\ out' = out
        /\ got' = [got EXCEPT ![t] = << >>] /\ pc' = [pc EXCEPT ![t] = "idle"]
    BY <1>11 DEF Drop, stored
  <2>2. \A u \in Threads : KeptIn(got'[u], slots)
    BY <1>1, <2>1 DEF Shape, KeptIn
  <2> QED BY <1>1, <2>1, <2>2 DEF IInv, Shape, IdleUntilOpen, CopiesAreTheirOwn
<1>12. CASE UNCHANGED vars
  BY <1>1, <1>12 DEF vars, IInv, Shape, IdleUntilOpen, CopiesAreTheirOwn
<1> QED BY <1>2, <1>3, <1>4, <1>5, <1>6, <1>7, <1>8, <1>9, <1>10, <1>11, <1>12, <1>13 DEF Next

(* Whatever threads read a split record, and however their first reads of  *)
(* a stream race, what each has borrowed stays what the slot holds.        *)
THEOREM BorrowsCorrect == Spec => []BorrowsStayValid
<1>1. IInv => BorrowsStayValid
  BY DEF IInv, KeptIn, BorrowsStayValid
<1> QED BY <1>1, IInvInit, IInvNext, PTL DEF Spec

-----------------------------------------------------------------------------
(***************************************************************************)
(* The invariant: the record is what was built of the events, but for the  *)
(* damage; a slot holds what its stream inflates to, and somebody asked    *)
(* for it; a thread has, or has still to ask for, the streams its read     *)
(* needs, and has of each what it inflates to.                             *)
(***************************************************************************)
BytesIn(rec, lay, s) == Inflate(rec.banks[s[1]].streams[s[2]], lay)

AnswerOf(rec, r, bytes) ==
  IF r.kind = "bytes"
  THEN [NoAnswer EXCEPT !.tag = SynthesizeEvent(rec, r.event, bytes).tag,
                        !.structures = SynthesizeEvent(rec, r.event, bytes).structures]
  ELSE [NoAnswer EXCEPT !.bytes = ReadColumn(rec, r.event, r.id, r.col, bytes)]

(* The thread t: its read, where it is in it, and what it has.             *)
ThreadIs(rec, lay, t, r, at, ask, has, copy, ans) ==
  /\ at = "idle" => ask = << >> /\ has = << >>
  /\ at # "idle" => /\ ask \in Seq(ToSet(AskedOf(rec, r)))
                    /\ DOMAIN has \cup ToSet(ask) = ToSet(AskedOf(rec, r))
  /\ at \in {"inflate", "set"} => ask # << >>
  /\ at = "set" => copy.bytes = BytesIn(rec, lay, Head(ask))
  /\ at = "done" => ask = << >> /\ ans = AnswerOf(rec, r, BytesOf(has))
  /\ copy.by \in {t, "none"}
  /\ \A s \in DOMAIN has : has[s].bytes = BytesIn(rec, lay, s)

SlotIs(rec, lay, asked, s, box) ==
  /\ box.by \in Threads \cup {"none"}
  /\ box # Unset => /\ box.bytes = BytesIn(rec, lay, s)
                    /\ \E r \in asked : s \in ToSet(AskedOf(rec, r))

Kept ==
  /\ layout \in Layouts /\ encodings \in BOOLEAN /\ (encodings => layout = "per_column")
  /\ events \in Inputs
  /\ phase \in {"new", "stored", "open", "rejected"} /\ declared \in Nat
  /\ phase # "new" => RecordIs(record, events, layout)
  /\ phase # "open" => DOMAIN slots = {}
  /\ phase = "open" => DOMAIN slots = StreamsOf(record)

Begun ==
  /\ begun \in Seq(Reads) /\ Len(begun) <= MaxReads
  /\ reads \in [Threads -> Reads \cup {NoRead}]
  /\ \A t \in Threads : pc[t] # "idle" => reads[t] \in ToSet(begun)

SInv ==
  /\ Kept /\ Begun
  /\ todo = [t \in Threads |-> todo[t]] /\ answer = [t \in Threads |-> answer[t]]
  /\ \A t \in Threads :
       ThreadIs(record, layout, t, reads[t], pc[t], todo[t], got[t], out[t], answer[t])
  /\ \A s \in DOMAIN slots : SlotIs(record, layout, ToSet(begun), s, slots[s])

LEMMA InputsAre ==
  ASSUME Kept
  PROVE  events \in Seq(AnEvent)
BY SplitReadsAssumption DEF Kept, AnEvent, AStructure

(* The counts of a record make a directory.                                *)
LEMMA CountsAre ==
  ASSUME NEW evs \in Seq(AnEvent), NEW lay, NEW rec, RecordIs(rec, evs, lay)
  PROVE  /\ Len(rec.banks) \in Nat /\ Len(rec.event_tags) \in Nat
         /\ SumOf([b \in DOMAIN rec.banks |-> Len(rec.banks[b].streams)]) \in Nat
<1>1. /\ Len(rec.banks) \in Nat /\ DOMAIN rec.banks = 1..Len(rec.banks)
      /\ Len(rec.event_tags) \in Nat
      /\ \A b \in DOMAIN rec.banks :
           BankIs(rec.banks[b], WalkBank(evs, Descriptors(evs)[b]), lay)
  BY BanksAre, EventsShape
<1>2. ASSUME NEW b \in DOMAIN rec.banks
      PROVE  Len(rec.banks[b].streams) \in Nat
  <2>1. PICK m \in Nat : DOMAIN rec.banks[b].streams = 1..m
    BY <1>1, StreamsAre
  <2> DEFINE st == rec.banks[b].streams
             w == WalkBank(evs, Descriptors(evs)[b])
  <2>2. st = [c \in 1..m |-> st[c]]
    <3>1. BankIs(rec.banks[b], w, lay)
      BY <1>1
    <3> HIDE DEF w
    <3>2. st = [c \in StreamNumbers(w, lay) |-> st[c]]
      BY <3>1 DEF BankIs
    <3> HIDE DEF st
    <3>3. DOMAIN st = StreamNumbers(w, lay)
      BY <3>2
    <3>4. DOMAIN st = 1..m
      BY <2>1 DEF st
    <3> QED BY <3>2, <3>3, <3>4
  <2> HIDE DEF st
  <2>3. Len(st) = m
    BY <2>2
  <2> QED BY <2>3 DEF st
<1> DEFINE l == [b \in DOMAIN rec.banks |-> Len(rec.banks[b].streams)]
<1>3. l \in [1..Len(rec.banks) -> Nat]
  BY <1>1, <1>2
<1> HIDE DEF l
<1>4. SumOf(l) \in Nat
  BY <1>1, <1>3, NoTotal
<1> QED BY <1>1, <1>4 DEF l

LEMMA DirectoryIs ==
  ASSUME NEW evs \in Seq(AnEvent), NEW rec, RecordIs(rec, evs, layout),
         layout \in Layouts, encodings \in BOOLEAN
  PROVE  DirectoryOf(rec) \in Directory /\ WrittenLen(DirectoryOf(rec)) \in Nat
<1>1. DirectoryOf(rec) \in Directory
  BY CountsAre, SplitReadsAssumption DEF DirectoryOf, Directory
<1> HIDE DEF DirectoryOf
<1>2. /\ BaseLen(DirectoryOf(rec)) \in Nat /\ StreamTableLen(DirectoryOf(rec)) \in Nat
  BY <1>1, Offsets
<1>3. DirectoryOf(rec).num_banks \in Nat /\ DirectoryOf(rec).num_streams \in Nat
  BY <1>1 DEF Directory
<1> QED BY <1>1, <1>2, <1>3 DEF WrittenLen

(* Damage to a stream, and a parse without the header sizes, leave a       *)
(* record what it is.                                                      *)
LEMMA DamagedIs ==
  ASSUME NEW evs, NEW lay, NEW rec, RecordIs(rec, evs, lay),
         NEW b \in DOMAIN rec.banks, NEW c \in DOMAIN rec.banks[b].streams,
         NEW how \in {"garbled", "undecodable"}
  PROVE  RecordIs([rec EXCEPT !.banks[b].streams[c].damage = how], evs, lay)
<1> DEFINE new == [rec EXCEPT !.banks[b].streams[c].damage = how]
           ids == Descriptors(evs)
           w(x) == WalkBank(evs, ids[x])
           stream == rec.banks[b].streams[c]
           hurt == [stream EXCEPT !.damage = how]
           bank == [rec.banks[b] EXCEPT !.streams = [rec.banks[b].streams EXCEPT ![c] = hurt]]
<1>1. /\ rec = [event_tags |-> rec.event_tags, banks |-> rec.banks]
      /\ rec.event_tags = [e \in DOMAIN evs |-> evs[e].tag]
      /\ rec.banks = [x \in DOMAIN ids |-> rec.banks[x]]
      /\ \A x \in DOMAIN ids : BankIs(rec.banks[x], w(x), lay)
  BY DEF RecordIs
<1> HIDE DEF w, ids
<1>2. DOMAIN rec.banks = DOMAIN ids
  BY <1>1
<1>3. BankIs(rec.banks[b], w(b), lay)
  BY <1>1, <1>2
<1>4. DOMAIN rec.banks[b].streams = StreamNumbers(w(b), lay)
  BY <1>3 DEF BankIs
<1>5. StreamIs(stream, BytesAt(w(b), lay, c), lay)
  BY <1>3, <1>4 DEF BankIs
<1>6. StreamIs(hurt, BytesAt(w(b), lay, c), lay)
  <2> HIDE DEF stream
  <2> QED BY <1>5 DEF StreamIs
<1>7. BankIs(bank, w(b), lay)
  <2> HIDE DEF hurt
  <2> DEFINE old == rec.banks[b]
  <2>1. BankIs(old, w(b), lay) /\ c \in StreamNumbers(w(b), lay)
    BY <1>3, <1>4
  <2> HIDE DEF old
  <2>2. BankIs([old EXCEPT !.streams = [old.streams EXCEPT ![c] = hurt]], w(b), lay)
    BY <1>6, <2>1 DEF BankIs
  <2> QED BY <2>2 DEF old
<1>8. new = [event_tags |-> rec.event_tags, banks |-> [rec.banks EXCEPT ![b] = bank]]
  BY <1>1
<1> HIDE DEF bank, new
<1>9. \A x \in DOMAIN ids : BankIs(new.banks[x], w(x), lay)
  BY <1>1, <1>2, <1>7, <1>8
<1>10. /\ new.event_tags = [e \in DOMAIN evs |-> evs[e].tag]
       /\ new.banks = [x \in DOMAIN ids |-> new.banks[x]]
       /\ new = [event_tags |-> new.event_tags, banks |-> new.banks]
  BY <1>1, <1>2, <1>8
<1> QED BY <1>9, <1>10 DEF RecordIs, w, ids, new

LEMMA ParsedIs ==
  ASSUME NEW evs, NEW lay, RecordIs(record, evs, lay)
  PROVE  RecordIs(Parsed, evs, lay) /\ StreamsOf(Parsed) = StreamsOf(record)
<1> DEFINE new == [record EXCEPT !.banks = [b \in DOMAIN record.banks |->
                                   [record.banks[b] EXCEPT !.header_size = 0]]]
           ids == Descriptors(evs)
           w(x) == WalkBank(evs, ids[x])
<1>1. /\ record = [event_tags |-> record.event_tags, banks |-> record.banks]
      /\ record.event_tags = [e \in DOMAIN evs |-> evs[e].tag]
      /\ record.banks = [x \in DOMAIN ids |-> record.banks[x]]
      /\ \A x \in DOMAIN ids : BankIs(record.banks[x], w(x), lay)
  BY DEF RecordIs
<1> HIDE DEF w, ids
<1>2. DOMAIN record.banks = DOMAIN ids
  BY <1>1
<1>3. new = [event_tags |-> record.event_tags,
             banks |-> [b \in DOMAIN ids |-> [record.banks[b] EXCEPT !.header_size = 0]]]
  <2> DEFINE banks == [b \in DOMAIN record.banks |-> [record.banks[b] EXCEPT !.header_size = 0]]
  <2>1. banks = [b \in DOMAIN ids |-> [record.banks[b] EXCEPT !.header_size = 0]]
    BY <1>2
  <2> HIDE DEF banks
  <2>2. [record EXCEPT !.banks = banks] = [event_tags |-> record.event_tags, banks |-> banks]
    BY <1>1
  <2> QED BY <2>1, <2>2 DEF banks
<1>4. ASSUME NEW b \in DOMAIN ids
      PROVE  /\ BankIs([record.banks[b] EXCEPT !.header_size = 0], w(b), lay)
             /\ [record.banks[b] EXCEPT !.header_size = 0].streams = record.banks[b].streams
  <2> DEFINE old == record.banks[b]
  <2>1. BankIs(old, w(b), lay)
    BY <1>1
  <2> HIDE DEF old
  <2>2. BankIs([old EXCEPT !.header_size = 0], w(b), lay)
        /\ [old EXCEPT !.header_size = 0].streams = old.streams
    BY <2>1 DEF BankIs
  <2> QED BY <2>2 DEF old
<1> HIDE DEF new
<1>5. RecordIs(new, evs, lay)
  <2>1. \A x \in DOMAIN ids : BankIs(new.banks[x], w(x), lay)
    BY <1>3, <1>4
  <2>2. /\ new.event_tags = [e \in DOMAIN evs |-> evs[e].tag]
        /\ new.banks = [x \in DOMAIN ids |-> new.banks[x]]
        /\ new = [event_tags |-> new.event_tags, banks |-> new.banks]
    BY <1>1, <1>3
  <2> QED BY <2>1, <2>2 DEF RecordIs, w, ids
<1>6. StreamsOf(new) = StreamsOf(record)
  <2>1. DOMAIN new.banks = DOMAIN record.banks
    BY <1>2, <1>3
  <2>2. \A b \in DOMAIN record.banks : DOMAIN new.banks[b].streams = DOMAIN record.banks[b].streams
    BY <1>2, <1>3, <1>4
  <2> QED BY <2>1, <2>2 DEF StreamsOf
<1> QED BY <1>5, <1>6 DEF Parsed, new

LEMMA SInvInit == Init => SInv
<1> SUFFICES ASSUME Init PROVE SInv
  OBVIOUS
<1>1. DOMAIN slots = {}
  BY DEF Init
<1>2. Kept
  BY <1>1 DEF Init, Kept
<1>3. Begun
  BY SplitReadsAssumption DEF Init, Begun
<1>4. ASSUME NEW t \in Threads
      PROVE  ThreadIs(record, layout, t, reads[t], pc[t], todo[t], got[t], out[t], answer[t])
  BY DEF Init, ThreadIs, Unset
<1>5. todo = [t \in Threads |-> todo[t]] /\ answer = [t \in Threads |-> answer[t]]
  BY DEF Init
<1> QED BY <1>1, <1>2, <1>3, <1>4, <1>5 DEF SInv

(* The steps on the record, before any thread reads it.                    *)
LEMMA StoredSteps ==
  ASSUME SInv, IdleUntilOpen, phase # "open",
         Kept', UNCHANGED <<reads, pc, todo, got, out, answer, begun, events>>,
         \A s \in DOMAIN slots' : slots'[s] = Unset
  PROVE  SInv'
<1>1. Begun'
  BY DEF SInv, Begun, Reads
<1>2. ASSUME NEW t \in Threads
      PROVE  ThreadIs(record', layout', t, reads'[t], pc'[t], todo'[t], got'[t], out'[t], answer'[t])
  <2>1. pc[t] = "idle" /\ got[t] = << >>
    BY DEF IdleUntilOpen
  <2>2. todo[t] = << >> /\ out[t].by \in {t, "none"}
    BY <2>1 DEF SInv, ThreadIs
  <2> QED BY <2>1, <2>2 DEF ThreadIs
<1>3. \A s \in DOMAIN slots' : SlotIs(record', layout', ToSet(begun'), s, slots'[s])
  BY DEF SlotIs, Unset
<1>4. todo' = [t \in Threads |-> todo'[t]] /\ answer' = [t \in Threads |-> answer'[t]]
  BY DEF SInv
<1> QED BY <1>1, <1>2, <1>3, <1>4 DEF SInv

LEMMA BuildKeeps ==
  ASSUME SInv, IInv, NEW smaller \in BOOLEAN, NEW checksum \in {0, 1}, Build(smaller, checksum)
  PROVE  SInv'
<1>1. /\ phase = "new" /\ phase' = "stored"
      /\ record' = BuildRecord(events, layout, encodings, smaller, checksum)
      /\ declared' = WrittenLen(DirectoryOf(record'))
      /\ UNCHANGED <<layout, encodings, events, slots, reads, pc, todo, got, out, answer, begun>>
  BY DEF Build
<1>2. /\ Kept /\ layout \in {"by_bank", "per_column"} /\ encodings \in BOOLEAN
      /\ (encodings => layout = "per_column") /\ DOMAIN slots = {}
  BY <1>1, SplitReadsAssumption DEF SInv, Kept
<1>3. RecordIs(record', events, layout)
  BY <1>1, <1>2, InputsAre, BuiltIs
<1>4. declared' \in Nat
  <2> DEFINE rec == record'
  <2> HIDE DEF rec
  <2>1. RecordIs(rec, events, layout)
    BY <1>3 DEF rec
  <2>2. WrittenLen(DirectoryOf(rec)) \in Nat
    BY <1>2, <2>1, InputsAre, DirectoryIs DEF Kept
  <2> QED BY <1>1, <2>2 DEF rec
<1>5. Kept'
  BY <1>1, <1>2, <1>3, <1>4 DEF Kept
<1> QED BY <1>1, <1>2, <1>5, StoredSteps DEF IInv

LEMMA DamageKeeps ==
  ASSUME SInv, IInv, NEW s \in StreamsOf(record), NEW how \in {"garbled", "undecodable"},
         Damage(s[1], s[2], how)
  PROVE  SInv'
<1> DEFINE b == s[1]
           c == s[2]
<1>1. /\ phase = "stored"
      /\ record' = [record EXCEPT !.banks[b].streams[c].damage = how]
      /\ UNCHANGED <<layout, encodings, events, phase, declared, slots, reads, pc, todo, got, out, answer, begun>>
  BY DEF Damage
<1>2. b \in DOMAIN record.banks /\ c \in DOMAIN record.banks[b].streams
  BY DEF StreamsOf
<1>3. Kept /\ RecordIs(record, events, layout) /\ DOMAIN slots = {}
  BY <1>1 DEF SInv, Kept
<1> HIDE DEF b, c
<1>4. RecordIs(record', events, layout)
  BY <1>1, <1>2, <1>3, DamagedIs
<1>5. Kept'
  BY <1>1, <1>3, <1>4 DEF Kept
<1> QED BY <1>1, <1>3, <1>5, StoredSteps DEF IInv

LEMMA DamageLengthKeeps ==
  ASSUME SInv, IInv, NEW len, DamageLength(len)
  PROVE  SInv'
<1>1. /\ phase = "stored" /\ declared' \in Nat
      /\ UNCHANGED <<layout, encodings, events, phase, record, slots, reads, pc, todo, got, out, answer, begun>>
  BY DEF DamageLength
<1>2. Kept /\ DOMAIN slots = {}
  BY <1>1 DEF SInv, Kept
<1>3. Kept'
  BY <1>1, <1>2 DEF Kept
<1> QED BY <1>1, <1>2, <1>3, StoredSteps DEF IInv

LEMMA ParseKeeps ==
  ASSUME SInv, IInv, Parse
  PROVE  SInv'
<1>1. /\ phase = "stored"
      /\ UNCHANGED <<layout, encodings, events, declared, reads, pc, todo, got, out, answer, begun>>
  BY DEF Parse
<1>2. Kept /\ DOMAIN slots = {} /\ RecordIs(record, events, layout)
  BY <1>1 DEF SInv, Kept
<1>3. CASE phase' = "open" /\ record' = Parsed /\ slots' = [s \in StreamsOf(record) |-> Unset]
  <2>1. RecordIs(record', events, layout) /\ StreamsOf(record') = StreamsOf(record)
    BY <1>2, <1>3, ParsedIs DEF StreamsOf
  <2>2. DOMAIN slots' = StreamsOf(record') /\ \A s \in DOMAIN slots' : slots'[s] = Unset
    BY <1>3, <2>1
  <2>3. Kept'
    BY <1>1, <1>2, <1>3, <2>1, <2>2 DEF Kept, StreamsOf
  <2> QED BY <1>1, <2>2, <2>3, StoredSteps DEF IInv
<1>4. CASE phase' = "rejected" /\ record' = record /\ slots' = slots
  <2>1. Kept'
    BY <1>1, <1>2, <1>4 DEF Kept
  <2> QED BY <1>1, <1>2, <1>4, <2>1, StoredSteps DEF IInv
<1> QED BY <1>3, <1>4 DEF Parse

(* A step of one thread leaves the others as they are.                     *)
LEMMA ThreadSteps ==
  ASSUME SInv, NEW t \in Threads, UNCHANGED stored,
         \A u \in Threads \ {t} :
           /\ reads'[u] = reads[u] /\ pc'[u] = pc[u] /\ todo'[u] = todo[u]
           /\ got'[u] = got[u] /\ out'[u] = out[u] /\ answer'[u] = answer[u],
         begun' \in Seq(Reads), Len(begun') <= MaxReads, ToSet(begun) \subseteq ToSet(begun'),
         reads' \in [Threads -> Reads \cup {NoRead}],
         pc'[t] # "idle" => reads'[t] \in ToSet(begun'),
         todo' = [u \in Threads |-> todo'[u]], answer' = [u \in Threads |-> answer'[u]],
         ThreadIs(record, layout, t, reads'[t], pc'[t], todo'[t], got'[t], out'[t], answer'[t]),
         DOMAIN slots' = DOMAIN slots,
         \A s \in DOMAIN slots :
           slots'[s] = slots[s] \/ SlotIs(record, layout, ToSet(begun'), s, slots'[s])
  PROVE  SInv'
<1>1. Kept'
  BY DEF SInv, Kept, stored, StreamsOf
<1>2. Begun'
  <2>1. Reads' = Reads
    BY DEF stored, Reads
  <2>2. \A u \in Threads : pc'[u] # "idle" => reads'[u] \in ToSet(begun')
    BY DEF SInv, Begun
  <2> QED BY <2>1, <2>2 DEF Begun
<1>3. ASSUME NEW u \in Threads
      PROVE  ThreadIs(record', layout', u, reads'[u], pc'[u], todo'[u], got'[u], out'[u], answer'[u])
  <2>1. record' = record /\ layout' = layout
    BY DEF stored
  <2>2. ThreadIs(record, layout, u, reads[u], pc[u], todo[u], got[u], out[u], answer[u])
    BY DEF SInv
  <2>3. CASE u = t
    BY <2>1, <2>3
  <2>4. CASE u # t
    BY <2>1, <2>2, <2>4
  <2> QED BY <2>3, <2>4
<1>4. ASSUME NEW s \in DOMAIN slots
      PROVE  SlotIs(record', layout', ToSet(begun'), s, slots'[s])
  <2>1. record' = record /\ layout' = layout
    BY DEF stored
  <2>2. SlotIs(record, layout, ToSet(begun), s, slots[s])
    BY DEF SInv
  <2>3. SlotIs(record, layout, ToSet(begun'), s, slots[s])
    BY <2>2 DEF SlotIs
  <2> QED BY <2>1, <2>3
<1> QED BY <1>1, <1>2, <1>3, <1>4 DEF SInv

LEMMA HeadAndTail ==
  ASSUME NEW A, NEW q \in Seq(A), q # << >>
  PROVE  /\ Head(q) \in A /\ Tail(q) \in Seq(A)
         /\ ToSet(q) = {Head(q)} \cup ToSet(Tail(q))
<1>1. Head(q) \in A /\ Tail(q) \in Seq(A) /\ Len(q) \in Nat /\ Len(q) > 0
  OBVIOUS
<1>2. Len(Tail(q)) = Len(q) - 1 /\ \A i \in 1..Len(q) - 1 : Tail(q)[i] = q[i + 1]
  OBVIOUS
<1>3. DOMAIN q = 1..Len(q) /\ DOMAIN Tail(q) = 1..Len(q) - 1 /\ Head(q) = q[1]
  OBVIOUS
<1>4. ASSUME NEW i \in 1..Len(q) PROVE q[i] = Head(q) \/ \E j \in DOMAIN Tail(q) : Tail(q)[j] = q[i]
  <2>1. CASE i = 1
    BY <1>3, <2>1
  <2>2. CASE i # 1
    <3>1. i - 1 \in 1..Len(q) - 1 /\ (i - 1) + 1 = i
      BY <1>1, <2>2
    <3> QED BY <1>2, <1>3, <3>1
  <2> QED BY <2>1, <2>2
<1>5. ASSUME NEW j \in DOMAIN Tail(q) PROVE \E i \in DOMAIN q : q[i] = Tail(q)[j]
  <2>1. j + 1 \in 1..Len(q) /\ j \in 1..Len(q) - 1
    BY <1>1, <1>3
  <2> QED BY <1>2, <1>3, <2>1
<1>6. 1 \in DOMAIN q
  BY <1>1, <1>3
<1> QED BY <1>1, <1>3, <1>4, <1>5, <1>6 DEF ToSet

(* Borrowing the next stream: it is had, and asked for no more.            *)
LEMMA BorrowIs ==
  ASSUME NEW rec, NEW lay, NEW t, NEW r, NEW at, NEW ask, NEW has, NEW copy, NEW ans,
         ThreadIs(rec, lay, t, r, at, ask, has, copy, ans), at # "idle", ask # << >>,
         NEW box, box.bytes = BytesIn(rec, lay, Head(ask)),
         NEW left, left.by \in {t, "none"}
  PROVE  ThreadIs(rec, lay, t, r, "get", Tail(ask), With(has, Head(ask), box), left, ans)
<1> DEFINE A == ToSet(AskedOf(rec, r))
           more == With(has, Head(ask), box)
<1>1. ask \in Seq(A) /\ DOMAIN has \cup ToSet(ask) = A
      /\ \A s \in DOMAIN has : has[s].bytes = BytesIn(rec, lay, s)
  BY DEF ThreadIs
<1> HIDE DEF A
<1>2. Tail(ask) \in Seq(A) /\ ToSet(ask) = {Head(ask)} \cup ToSet(Tail(ask))
  BY <1>1, HeadAndTail
<1>3. /\ DOMAIN more = DOMAIN has \cup {Head(ask)}
      /\ \A s \in DOMAIN more : more[s] = IF s = Head(ask) THEN box ELSE has[s]
  BY DEF With
<1> HIDE DEF more
<1>4. \A s \in DOMAIN more : more[s].bytes = BytesIn(rec, lay, s)
  BY <1>1, <1>3
<1>5. DOMAIN more \cup ToSet(Tail(ask)) = A
  BY <1>1, <1>2, <1>3
<1> QED BY <1>2, <1>4, <1>5 DEF ThreadIs, A, more

(* What a thread in a read has asked for has a slot.                       *)
LEMMA AskedHasSlot ==
  ASSUME SInv, IInv, NEW t \in Threads, pc[t] # "idle"
  PROVE  /\ phase = "open" /\ reads[t] \in ToSet(begun) /\ reads[t] \in Reads
         /\ ToSet(AskedOf(record, reads[t])) \subseteq DOMAIN slots
         /\ ToSet(todo[t]) \subseteq ToSet(AskedOf(record, reads[t]))
         /\ DOMAIN got[t] \subseteq ToSet(AskedOf(record, reads[t]))
         /\ todo[t] # << >> => Head(todo[t]) \in ToSet(AskedOf(record, reads[t]))
<1>1. phase = "open"
  BY DEF IInv, IdleUntilOpen
<1>2. RecordIs(record, events, layout) /\ DOMAIN slots = StreamsOf(record) /\ Kept
  BY <1>1 DEF SInv, Kept
<1>3. reads[t] \in ToSet(begun) /\ begun \in Seq(Reads)
  BY DEF SInv, Begun
<1>4. reads[t] \in ReadsOf(events) /\ Reads = ReadsOf(events)
  <2>1. \A r \in ToSet(begun) : r \in Reads
    BY <1>3 DEF ToSet
  <2> QED BY <1>3, <2>1 DEF Reads, ReadsOf
<1>5. \A s \in ToSet(AskedOf(record, reads[t])) : s \in StreamsOf(record)
  BY <1>2, <1>4, InputsAre, AskedIs
<1>6. /\ todo[t] \in Seq(ToSet(AskedOf(record, reads[t])))
      /\ DOMAIN got[t] \cup ToSet(todo[t]) = ToSet(AskedOf(record, reads[t]))
  BY DEF SInv, ThreadIs
<1>7. todo[t] # << >> => Head(todo[t]) \in ToSet(AskedOf(record, reads[t]))
  BY <1>6, HeadAndTail
<1> QED BY <1>1, <1>2, <1>3, <1>4, <1>5, <1>6, <1>7

LEMMA BeginKeeps ==
  ASSUME SInv, IInv, NEW t \in Threads, NEW r \in Reads, Begin(t, r)
  PROVE  SInv'
<1>1. /\ phase = "open" /\ pc[t] = "idle" /\ Len(begun) < MaxReads
      /\ reads' = [reads EXCEPT ![t] = r] /\ todo' = [todo EXCEPT ![t] = Asked(r)]
      /\ pc' = [pc EXCEPT ![t] = "get"] /\ begun' = Append(begun, r)
      /\ UNCHANGED <<stored, slots, got, out, answer>>
  BY DEF Begin
<1>2. /\ begun \in Seq(Reads) /\ reads \in [Threads -> Reads \cup {NoRead}] /\ Shape
      /\ todo = [u \in Threads |-> todo[u]] /\ answer = [u \in Threads |-> answer[u]]
      /\ ThreadIs(record, layout, t, reads[t], pc[t], todo[t], got[t], out[t], answer[t])
  BY DEF SInv, Begun, IInv
<1>3. /\ reads'[t] = r /\ pc'[t] = "get" /\ todo'[t] = Asked(r)
      /\ \A u \in Threads \ {t} : reads'[u] = reads[u] /\ pc'[u] = pc[u] /\ todo'[u] = todo[u]
      /\ reads' \in [Threads -> Reads \cup {NoRead}] /\ todo' = [u \in Threads |-> todo'[u]]
      /\ answer' = [u \in Threads |-> answer'[u]]
  BY <1>1, <1>2 DEF Shape
<1>4. /\ begun' \in Seq(Reads) /\ Len(begun') = Len(begun) + 1 /\ Len(begun) \in Nat
      /\ \A i \in DOMAIN begun : i \in DOMAIN begun' /\ begun'[i] = begun[i]
      /\ Len(begun') \in DOMAIN begun' /\ begun'[Len(begun')] = r
  BY <1>1, <1>2
<1>5. ToSet(begun) \subseteq ToSet(begun') /\ r \in ToSet(begun')
  BY <1>4 DEF ToSet
<1>6. Len(begun') <= MaxReads
  BY <1>1, <1>4, SplitReadsAssumption
<1>7. Asked(r) = AskedOf(record, r)
  BY DEF Asked, AskedOf
<1>8. AskedOf(record, r) \in Seq(ToSet(AskedOf(record, r)))
  <2>1. RecordIs(record, events, layout) /\ events \in Seq(AnEvent) /\ r \in ReadsOf(events)
    BY <1>1, InputsAre DEF SInv, Kept, Reads, ReadsOf
  <2> DEFINE a == AskedOf(record, r)
  <2>2. a \in Seq(StreamsOf(record))
    BY <2>1, AskedIs
  <2> HIDE DEF a
  <2>3. Len(a) \in Nat /\ a = [i \in 1..Len(a) |-> a[i]] /\ \A i \in 1..Len(a) : a[i] \in ToSet(a)
    BY <2>2 DEF ToSet
  <2>4. a \in [1..Len(a) -> ToSet(a)]
    BY <2>3
  <2>5. a \in Seq(ToSet(a))
    BY <2>3, <2>4, FunctionIsSeq
  <2> QED BY <2>5 DEF a
<1>9. got[t] = << >> /\ DOMAIN got[t] = {} /\ out[t].by \in {t, "none"}
  BY <1>1, <1>2 DEF ThreadIs
<1>10. ThreadIs(record, layout, t, r, "get", AskedOf(record, r), got[t], out[t], answer[t])
  BY <1>8, <1>9 DEF ThreadIs
<1>11. ThreadIs(record, layout, t, reads'[t], pc'[t], todo'[t], got'[t], out'[t], answer'[t])
  BY <1>1, <1>3, <1>7, <1>10
<1> QED BY <1>1, <1>3, <1>4, <1>5, <1>6, <1>11, ThreadSteps

(* The steps within a read: what they have in common.                      *)
LEMMA ReadSteps ==
  ASSUME SInv, IInv, NEW t \in Threads, pc[t] # "idle", UNCHANGED <<stored, reads, begun, answer>>,
         \A u \in Threads \ {t} :
           pc'[u] = pc[u] /\ todo'[u] = todo[u] /\ got'[u] = got[u] /\ out'[u] = out[u],
         todo' = [u \in Threads |-> todo'[u]],
         ThreadIs(record, layout, t, reads[t], pc'[t], todo'[t], got'[t], out'[t], answer[t]),
         DOMAIN slots' = DOMAIN slots,
         \A s \in DOMAIN slots :
           slots'[s] = slots[s] \/ SlotIs(record, layout, ToSet(begun), s, slots'[s])
  PROVE  SInv'
<1>1. /\ begun' \in Seq(Reads) /\ Len(begun') <= MaxReads /\ ToSet(begun) \subseteq ToSet(begun')
      /\ reads' \in [Threads -> Reads \cup {NoRead}] /\ reads'[t] \in ToSet(begun')
      /\ answer' = [u \in Threads |-> answer'[u]]
  BY DEF SInv, Begun
<1>2. /\ \A u \in Threads \ {t} :
           /\ reads'[u] = reads[u] /\ pc'[u] = pc[u] /\ todo'[u] = todo[u]
           /\ got'[u] = got[u] /\ out'[u] = out[u] /\ answer'[u] = answer[u]
      /\ ThreadIs(record, layout, t, reads'[t], pc'[t], todo'[t], got'[t], out'[t], answer'[t])
      /\ UNCHANGED stored
      /\ \A s \in DOMAIN slots :
           slots'[s] = slots[s] \/ SlotIs(record, layout, ToSet(begun'), s, slots'[s])
  OBVIOUS
<1> QED BY <1>1, <1>2, ThreadSteps

(* Borrow by a thread in a read, of a box that holds the stream's bytes.   *)
LEMMA BorrowKeepsIs ==
  ASSUME SInv, IInv, NEW t \in Threads, pc[t] # "idle", todo[t] # << >>,
         NEW box, Borrow(t, box), box.bytes = BytesIn(record, layout, Head(todo[t])),
         UNCHANGED <<stored, reads, begun, answer>>, out'[t].by \in {t, "none"},
         \A u \in Threads \ {t} : out'[u] = out[u],
         DOMAIN slots' = DOMAIN slots,
         \A s \in DOMAIN slots :
           slots'[s] = slots[s] \/ SlotIs(record, layout, ToSet(begun), s, slots'[s])
  PROVE  SInv'
<1> DEFINE more == With(got[t], Head(todo[t]), box)
<1>1. /\ got' = [got EXCEPT ![t] = more] /\ todo' = [todo EXCEPT ![t] = Tail(todo[t])]
      /\ pc' = [pc EXCEPT ![t] = "get"]
  BY DEF Borrow
<1>2. /\ ThreadIs(record, layout, t, reads[t], pc[t], todo[t], got[t], out[t], answer[t])
      /\ todo = [u \in Threads |-> todo[u]] /\ Shape
  BY DEF SInv, IInv
<1>3. ThreadIs(record, layout, t, reads[t], "get", Tail(todo[t]), more, out'[t], answer[t])
  BY <1>2, BorrowIs
<1> HIDE DEF more
<1>4. /\ pc'[t] = "get" /\ todo'[t] = Tail(todo[t]) /\ got'[t] = more
      /\ todo' = [u \in Threads |-> todo'[u]]
      /\ \A u \in Threads \ {t} : pc'[u] = pc[u] /\ todo'[u] = todo[u] /\ got'[u] = got[u]
  BY <1>1, <1>2 DEF Shape
<1>5. ThreadIs(record, layout, t, reads[t], pc'[t], todo'[t], got'[t], out'[t], answer[t])
  BY <1>3, <1>4
<1> QED BY <1>4, <1>5, ReadSteps

(* What the slots hold, and whose a thread's copy is.                      *)
LEMMA AsTheyAre ==
  ASSUME SInv, NEW t \in Threads
  PROVE  /\ ThreadIs(record, layout, t, reads[t], pc[t], todo[t], got[t], out[t], answer[t])
         /\ todo = [u \in Threads |-> todo[u]] /\ answer = [u \in Threads |-> answer[u]]
         /\ \A s \in DOMAIN slots : SlotIs(record, layout, ToSet(begun), s, slots[s])
BY DEF SInv

LEMMA HitKeeps ==
  ASSUME SInv, IInv, NEW t \in Threads, Hit(t)
  PROVE  SInv'
<1> DEFINE h == Head(todo[t])
<1>1. /\ pc[t] = "get" /\ todo[t] # << >> /\ slots[h] # Unset /\ Borrow(t, slots[h])
      /\ UNCHANGED <<stored, slots, reads, out, answer, begun>>
  BY DEF Hit
<1>2. h \in DOMAIN slots
  BY <1>1, AskedHasSlot
<1>3. slots[h].bytes = BytesIn(record, layout, h) /\ out[t].by \in {t, "none"}
  BY <1>1, <1>2, AsTheyAre DEF SlotIs, ThreadIs
<1> DEFINE box == slots[h]
<1>4. Borrow(t, box) /\ box.bytes = BytesIn(record, layout, Head(todo[t]))
  BY <1>1, <1>3
<1> HIDE DEF box, h
<1> QED BY <1>1, <1>3, <1>4, BorrowKeepsIs

LEMMA MissKeeps ==
  ASSUME SInv, IInv, NEW t \in Threads, Miss(t)
  PROVE  SInv'
<1>1. /\ pc[t] = "get" /\ todo[t] # << >> /\ pc' = [pc EXCEPT ![t] = "inflate"]
      /\ UNCHANGED <<stored, slots, reads, todo, got, out, answer, begun>>
  BY DEF Miss
<1>2. pc'[t] = "inflate" /\ \A u \in Threads \ {t} : pc'[u] = pc[u]
  BY <1>1 DEF IInv, Shape
<1>3. ThreadIs(record, layout, t, reads[t], "inflate", todo[t], got[t], out[t], answer[t])
  BY <1>1, AsTheyAre DEF ThreadIs
<1>4. todo' = [u \in Threads |-> todo'[u]]
  BY <1>1, AsTheyAre
<1> QED BY <1>1, <1>2, <1>3, <1>4, ReadSteps

LEMMA InflateStreamKeeps ==
  ASSUME SInv, IInv, NEW t \in Threads, InflateStream(t)
  PROVE  SInv'
<1> DEFINE h == Head(todo[t])
           bytes == BytesIn(record, layout, h)
<1>1. /\ pc[t] = "inflate" /\ UNCHANGED <<stored, slots, reads, answer, begun>>
      /\ \/ bytes = Failed /\ Borrow(t, [bytes |-> Failed, by |-> t]) /\ out' = out
         \/ /\ out' = [out EXCEPT ![t] = [bytes |-> bytes, by |-> t]]
            /\ pc' = [pc EXCEPT ![t] = "set"] /\ todo' = todo /\ got' = got
  BY DEF InflateStream, BytesIn, StreamAt
<1>2. /\ ThreadIs(record, layout, t, reads[t], pc[t], todo[t], got[t], out[t], answer[t])
      /\ todo[t] # << >> /\ out[t].by \in {t, "none"} /\ Shape
      /\ todo = [u \in Threads |-> todo[u]]
  BY <1>1, AsTheyAre DEF ThreadIs, IInv
<1> HIDE DEF h, bytes
<1>3. CASE bytes = Failed /\ Borrow(t, [bytes |-> Failed, by |-> t]) /\ out' = out
  <2> DEFINE box == [bytes |-> Failed, by |-> t]
  <2>1. Borrow(t, box) /\ box.bytes = BytesIn(record, layout, Head(todo[t]))
    BY <1>3 DEF bytes, h
  <2> HIDE DEF box
  <2> QED BY <1>1, <1>2, <1>3, <2>1, BorrowKeepsIs
<1>4. CASE /\ out' = [out EXCEPT ![t] = [bytes |-> bytes, by |-> t]]
           /\ pc' = [pc EXCEPT ![t] = "set"] /\ todo' = todo /\ got' = got
  <2>1. /\ pc'[t] = "set" /\ out'[t] = [bytes |-> bytes, by |-> t]
        /\ \A u \in Threads \ {t} : pc'[u] = pc[u] /\ out'[u] = out[u]
    BY <1>2, <1>4 DEF Shape
  <2>2. ThreadIs(record, layout, t, reads[t], "set", todo[t], got[t], out'[t], answer[t])
    BY <1>1, <1>2, <2>1 DEF ThreadIs, bytes, h
  <2> QED BY <1>1, <1>2, <1>4, <2>1, <2>2, ReadSteps
<1> QED BY <1>1, <1>3, <1>4

LEMMA SetKeeps ==
  ASSUME SInv, IInv, NEW t \in Threads, Set(t)
  PROVE  SInv'
<1> DEFINE h == Head(todo[t])
<1>1. /\ pc[t] = "set" /\ slots' = SetSlot(h, out[t]) /\ Borrow(t, slots'[h])
      /\ out' = [out EXCEPT ![t] = Unset]
      /\ UNCHANGED <<stored, reads, answer, begun>>
  BY DEF Set
<1>2. /\ ThreadIs(record, layout, t, reads[t], pc[t], todo[t], got[t], out[t], answer[t])
      /\ todo[t] # << >> /\ out[t].by = t /\ Shape
      /\ out[t].bytes = BytesIn(record, layout, h)
  BY <1>1, AsTheyAre DEF ThreadIs, IInv, CopiesAreTheirOwn
<1>3. h \in DOMAIN slots /\ h \in ToSet(AskedOf(record, reads[t])) /\ reads[t] \in ToSet(begun)
  BY <1>1, <1>2, AskedHasSlot
<1>4. SlotIs(record, layout, ToSet(begun), h, out[t])
  BY <1>2, <1>3 DEF SlotIs
<1> HIDE DEF h
<1>5. /\ DOMAIN slots' = DOMAIN slots
      /\ \A s \in DOMAIN slots : slots'[s] = slots[s] \/ (s = h /\ slots'[s] = out[t])
      /\ slots'[h] = IF slots[h] = Unset THEN out[t] ELSE slots[h]
  BY <1>1, <1>3 DEF SetSlot
<1>6. slots'[h].bytes = BytesIn(record, layout, h)
  <2>1. SlotIs(record, layout, ToSet(begun), h, slots[h])
    BY <1>3, AsTheyAre
  <2> QED BY <1>2, <1>5, <2>1 DEF SlotIs
<1>7. out'[t].by \in {t, "none"} /\ \A u \in Threads \ {t} : out'[u] = out[u]
  BY <1>1, <1>2 DEF Shape, Unset
<1>8. \A s \in DOMAIN slots :
        slots'[s] = slots[s] \/ SlotIs(record, layout, ToSet(begun), s, slots'[s])
  BY <1>4, <1>5
<1> DEFINE box == slots'[h]
<1>9. Borrow(t, box) /\ box.bytes = BytesIn(record, layout, Head(todo[t]))
  BY <1>1, <1>6 DEF h
<1> HIDE DEF box
<1> QED BY <1>1, <1>2, <1>5, <1>7, <1>8, <1>9, BorrowKeepsIs

LEMMA AnswerKeeps ==
  ASSUME SInv, IInv, NEW t \in Threads, Answer(t)
  PROVE  SInv'
<1> DEFINE ans == AnswerOf(record, reads[t], BytesOf(got[t]))
<1>1. /\ pc[t] = "get" /\ todo[t] = << >> /\ pc' = [pc EXCEPT ![t] = "done"]
      /\ answer' = [answer EXCEPT ![t] = ans]
      /\ UNCHANGED <<stored, slots, reads, todo, got, out, begun>>
  BY DEF Answer, AnswerOf
<1>2. /\ ThreadIs(record, layout, t, reads[t], pc[t], todo[t], got[t], out[t], answer[t])
      /\ Shape /\ answer = [u \in Threads |-> answer[u]] /\ todo = [u \in Threads |-> todo[u]]
  BY AsTheyAre DEF IInv
<1>3. ThreadIs(record, layout, t, reads[t], "done", todo[t], got[t], out[t], ans)
  BY <1>1, <1>2 DEF ThreadIs
<1> HIDE DEF ans
<1>4. /\ pc'[t] = "done" /\ answer'[t] = ans
      /\ \A u \in Threads \ {t} : pc'[u] = pc[u] /\ answer'[u] = answer[u]
      /\ answer' = [u \in Threads |-> answer'[u]]
  BY <1>1, <1>2 DEF Shape
<1>5. /\ begun' \in Seq(Reads) /\ Len(begun') <= MaxReads /\ ToSet(begun) \subseteq ToSet(begun')
      /\ reads' \in [Threads -> Reads \cup {NoRead}] /\ reads'[t] \in ToSet(begun')
  BY <1>1 DEF SInv, Begun
<1>6. ThreadIs(record, layout, t, reads'[t], pc'[t], todo'[t], got'[t], out'[t], answer'[t])
  BY <1>1, <1>3, <1>4
<1>7. todo' = [u \in Threads |-> todo'[u]] /\ DOMAIN slots' = DOMAIN slots
      /\ \A s \in DOMAIN slots : slots'[s] = slots[s]
  BY <1>1, <1>2
<1> QED BY <1>1, <1>4, <1>5, <1>6, <1>7, ThreadSteps

LEMMA DropKeeps ==
  ASSUME SInv, IInv, NEW t \in Threads, Drop(t)
  PROVE  SInv'
<1>1. /\ pc[t] = "done" /\ reads' = [reads EXCEPT ![t] = NoRead]
      /\ got' = [got EXCEPT ![t] = << >>] /\ answer' = [answer EXCEPT ![t] = NoAnswer]
      /\ pc' = [pc EXCEPT ![t] = "idle"]
      /\ UNCHANGED <<stored, slots, todo, out, begun>>
  BY DEF Drop
<1>2. /\ ThreadIs(record, layout, t, reads[t], pc[t], todo[t], got[t], out[t], answer[t])
      /\ Shape /\ answer = [u \in Threads |-> answer[u]] /\ todo = [u \in Threads |-> todo[u]]
      /\ begun \in Seq(Reads) /\ Len(begun) <= MaxReads
      /\ reads \in [Threads -> Reads \cup {NoRead}]
  BY AsTheyAre DEF IInv, SInv, Begun
<1>3. /\ pc'[t] = "idle" /\ got'[t] = << >> /\ reads'[t] = NoRead
      /\ \A u \in Threads \ {t} : /\ pc'[u] = pc[u] /\ got'[u] = got[u] /\ reads'[u] = reads[u]
                                  /\ answer'[u] = answer[u]
      /\ answer' = [u \in Threads |-> answer'[u]]
      /\ reads' \in [Threads -> Reads \cup {NoRead}]
  BY <1>1, <1>2 DEF Shape
<1>4. ThreadIs(record, layout, t, NoRead, "idle", todo[t], << >>, out[t], answer'[t])
  BY <1>1, <1>2 DEF ThreadIs
<1>5. ThreadIs(record, layout, t, reads'[t], pc'[t], todo'[t], got'[t], out'[t], answer'[t])
  BY <1>1, <1>3, <1>4
<1>6. /\ todo' = [u \in Threads |-> todo'[u]] /\ DOMAIN slots' = DOMAIN slots
      /\ \A s \in DOMAIN slots : slots'[s] = slots[s]
      /\ begun' \in Seq(Reads) /\ Len(begun') <= MaxReads /\ ToSet(begun) \subseteq ToSet(begun')
      /\ \A u \in Threads \ {t} : todo'[u] = todo[u] /\ out'[u] = out[u]
  BY <1>1, <1>2
<1>7. /\ pc'[t] # "idle" => reads'[t] \in ToSet(begun')
      /\ UNCHANGED stored
      /\ \A s \in DOMAIN slots :
           slots'[s] = slots[s] \/ SlotIs(record, layout, ToSet(begun'), s, slots'[s])
      /\ \A u \in Threads \ {t} :
           /\ reads'[u] = reads[u] /\ pc'[u] = pc[u] /\ todo'[u] = todo[u]
           /\ got'[u] = got[u] /\ out'[u] = out[u] /\ answer'[u] = answer[u]
  BY <1>1, <1>3, <1>6
<1> QED BY <1>3, <1>5, <1>6, <1>7, ThreadSteps

LEMMA SInvNext == IInv /\ SInv /\ [Next]_vars => SInv'
<1> SUFFICES ASSUME IInv, SInv, [Next]_vars PROVE SInv'
  OBVIOUS
<1>1. CASE \E smaller \in BOOLEAN, checksum \in {0, 1} : Build(smaller, checksum)
  BY <1>1, BuildKeeps
<1>2. CASE \E s \in StreamsOf(record), how \in {"garbled", "undecodable"} : Damage(s[1], s[2], how)
  BY <1>2, DamageKeeps
<1>3. CASE \E len : DamageLength(len)
  BY <1>3, DamageLengthKeeps
<1>4. CASE Parse
  BY <1>4, ParseKeeps
<1>5. CASE \E t \in Threads, r \in Reads : Begin(t, r)
  BY <1>5, BeginKeeps
<1>6. ASSUME NEW t \in Threads,
             Hit(t) \/ Miss(t) \/ InflateStream(t) \/ Set(t) \/ Answer(t) \/ Drop(t)
      PROVE  SInv'
  BY <1>6, HitKeeps, MissKeeps, InflateStreamKeeps, SetKeeps, AnswerKeeps, DropKeeps
<1>7. CASE UNCHANGED vars
  <2>1. Kept' /\ Begun'
    BY <1>7 DEF vars, SInv, Kept, Begun, StreamsOf, Reads
  <2> QED BY <1>7, <2>1 DEF vars, SInv
<1> QED BY <1>1, <1>2, <1>3, <1>4, <1>5, <1>6, <1>7 DEF Next

LEMMA SInvAlways == Spec => [](IInv /\ SInv)
<1>1. Init => IInv /\ SInv
  BY IInvInit, SInvInit
<1>2. IInv /\ SInv /\ [Next]_vars => IInv' /\ SInv'
  BY IInvNext, SInvNext
<1> QED BY <1>1, <1>2, PTL DEF Spec

(* Everything a split record and its readers keep has its type, and no     *)
(* read ever asks for a stream there is no slot for.                       *)
THEOREM SplitReadsTypes == Spec => []TypeOK
<1>1. IInv /\ SInv => TypeOK
  <2> SUFFICES ASSUME IInv, SInv PROVE TypeOK
    OBVIOUS
  <2>1. ASSUME NEW t \in Threads
        PROVE  /\ ToSet(todo[t]) \subseteq DOMAIN slots
               /\ DOMAIN got[t] \subseteq DOMAIN slots
               /\ out[t].by \in {t, "none"}
    <3>1. CASE pc[t] = "idle"
      <4>1. todo[t] = << >> /\ got[t] = << >> /\ out[t].by \in {t, "none"}
        BY <3>1, AsTheyAre DEF ThreadIs
      <4>2. ToSet(<< >>) = {} /\ DOMAIN << >> = {}
        BY DEF ToSet
      <4> QED BY <4>1, <4>2
    <3>2. CASE pc[t] # "idle"
      BY <3>2, AsTheyAre, AskedHasSlot DEF ThreadIs
    <3> QED BY <3>1, <3>2
  <2>2. \A s \in DOMAIN slots : slots[s].by \in Threads \cup {"none"}
    BY DEF SInv, SlotIs
  <2> QED BY <2>1, <2>2 DEF TypeOK, SInv, Kept, Begun, IInv, Shape
<1> QED BY <1>1, SInvAlways, PTL

(* Whatever threads read, and however they race for a slot, a stream is    *)
(* inflated only when an event has its bank and somebody read that event,  *)
(* or that column of the bank in it.                                       *)
THEOREM InflatesNoMore == Spec => []InflatesOnlyWhatIsRead
<1>1. IInv /\ SInv => InflatesOnlyWhatIsRead
  <2> SUFFICES ASSUME IInv, SInv, NEW s \in DOMAIN slots, slots[s] # Unset
               PROVE  \E i \in DOMAIN begun : Needs(record, events, begun[i], s)
    BY DEF InflatesOnlyWhatIsRead, Needs
  <2>1. PICK r \in ToSet(begun) : s \in ToSet(AskedOf(record, r))
    BY DEF SInv, SlotIs
  <2>2. PICK i \in DOMAIN begun : begun[i] = r
    BY <2>1 DEF ToSet
  <2>3. r \in ReadsOf(events)
    BY <2>2 DEF SInv, Begun, Reads, ReadsOf
  <2>4. RecordIs(record, events, layout)
    BY DEF SInv, Kept
  <2>5. events \in Seq(AnEvent)
    BY InputsAre DEF SInv
  <2>6. Needs(record, events, r, s)
    BY <2>1, <2>3, <2>4, <2>5, AskedIs
  <2> QED BY <2>2, <2>6
<1> QED BY <1>1, SInvAlways, PTL

(* What is taken of a stream: a piece of it, or zeros.                     *)
Taken(s, from, n) == IF Fits(s, from, n) THEN Slice(s, from, n) ELSE Zeros(n)

LEMMA TakenIs ==
  ASSUME NEW S, Zero \in S, NEW s, s = Failed \/ s \in Seq(S), NEW from \in Nat, NEW n \in Nat
  PROVE  /\ Taken(s, from, n) \in Seq(S) /\ Len(Taken(s, from, n)) = n
         /\ s # Failed /\ from + n <= Len(s) =>
              /\ Taken(s, from, n) = Slice(s, from, n)
              /\ \A j \in 1..n : from + j \in 1..Len(s) /\ Taken(s, from, n)[j] = s[from + j]
         /\ ~(s # Failed /\ from + n <= Len(s)) => Taken(s, from, n) = Zeros(n)
<1>1. CASE s # Failed /\ from + n <= Len(s)
  <2>1. s \in Seq(S) /\ Taken(s, from, n) = Slice(s, from, n)
    BY <1>1 DEF Taken, Fits
  <2>2. /\ Slice(s, from, n) \in Seq(S) /\ Len(Slice(s, from, n)) = n
        /\ \A j \in 1..n : from + j \in 1..Len(s) /\ Slice(s, from, n)[j] = s[from + j]
    <3>1. s \in Seq(S) /\ from + n <= Len(s)
      BY <1>1, <2>1
    <3> QED BY <3>1, SliceIs
  <2> QED BY <1>1, <2>1, <2>2
<1>2. CASE ~(s # Failed /\ from + n <= Len(s))
  <2>1. Taken(s, from, n) = Zeros(n)
    BY <1>2 DEF Taken, Fits
  <2>2. Zeros(n) \in [1..n -> S]
    BY DEF Zeros
  <2>3. Zeros(n) \in Seq(S) /\ Len(Zeros(n)) = n
    BY <2>2, FunctionIsSeq
  <2> QED BY <1>2, <2>1, <2>3
<1> QED BY <1>1, <1>2

LEMMA TakenTyped ==
  ASSUME NEW S, Zero \in S, NEW s, s = Failed \/ s \in Seq(S), NEW from \in Nat, NEW n \in Nat
  PROVE  Taken(s, from, n) \in Seq(S) /\ Len(Taken(s, from, n)) = n
BY TakenIs

(* A bank of a record whose columns were split has whole rows.             *)
LEMMA SplitBankIs ==
  ASSUME NEW evs \in Seq(AnEvent), NEW lay, NEW rec, RecordIs(rec, evs, lay),
         NEW b \in DOMAIN rec.banks, NEW e \in 1..Len(evs)
  PROVE  LET bank == rec.banks[b]  w == WalkBank(evs, bank.id) IN
         /\ bank.sizes = w.sizes /\ bank.present = w.present /\ bank.sizes[e] \in Nat /\ w.id = bank.id
         /\ IsOpaque(bank) => /\ DOMAIN bank.streams = {1} /\ BytesAt(w, lay, 1) = w.bytes
         /\ ~IsOpaque(bank) =>
              /\ Columnar(w) /\ bank.id \in DOMAIN Dict /\ DOMAIN bank.streams = DOMAIN Dict[bank.id]
              /\ \A c \in DOMAIN bank.streams : BytesAt(w, lay, c) = ColumnStream(w, c)
              /\ RowsIn(bank, e) \in Nat /\ bank.sizes[e] = RowsIn(bank, e) * RowSize(bank.id)
              /\ RowsBefore(bank, e) \in Nat /\ bank.sizes[e] % RowSize(bank.id) = 0
<1> DEFINE bank == rec.banks[b]
           id == rec.banks[b].id
           w == WalkBank(evs, id)
<1>1. /\ BankIs(bank, w, lay) /\ w.id = id /\ bank.sizes \in [1..Len(evs) -> Nat]
  BY BanksAre
<1>2. bank.sizes = w.sizes /\ bank.present = w.present /\ bank.sizes[e] \in Nat
  <2> HIDE DEF w, bank
  <2> QED BY <1>1 DEF BankIs
<1>3. CASE IsOpaque(bank)
  <2>1. DOMAIN bank.streams = {1} /\ ~Splits(w, lay)
    <3> HIDE DEF w, bank
    <3> QED BY <1>1, <1>3, StreamsAre
  <2>2. BytesAt(w, lay, 1) = w.bytes
    <3> HIDE DEF w
    <3> QED BY <2>1 DEF BytesAt
  <2> QED BY <1>1, <1>2, <1>3, <2>1, <2>2
<1>4. CASE ~IsOpaque(bank)
  <2>1. Splits(w, lay) /\ id \in DOMAIN Dict /\ DOMAIN bank.streams = DOMAIN Dict[id]
    <3>1. Splits(w, lay) /\ w.id \in DOMAIN Dict /\ DOMAIN bank.streams = DOMAIN Dict[w.id]
      <4> HIDE DEF w, bank
      <4> QED BY <1>1, <1>4, StreamsAre
    <3> QED BY <1>1, <3>1
  <2>2. Columnar(w) /\ \A c : BytesAt(w, lay, c) = ColumnStream(w, c)
    <3> HIDE DEF w
    <3> QED BY <2>1 DEF Splits, BytesAt
  <2>3. /\ w.sizes[e] % RowSize(id) = 0
        /\ w.sizes[e] \div RowSize(id) \in Nat /\ w.sizes[e] = (w.sizes[e] \div RowSize(id)) * RowSize(id)
        /\ SumBefore(w.sizes, e) \div RowSize(id) \in Nat
    BY <2>2, WholeRows
  <2>4. RowsIn(bank, e) = w.sizes[e] \div RowSize(id) /\ RowsBefore(bank, e) = SumBefore(w.sizes, e) \div RowSize(id)
    BY <1>2 DEF RowsIn, RowsBefore
  <2> QED BY <1>1, <1>2, <1>4, <2>1, <2>2, <2>3, <2>4
<1> QED BY <1>3, <1>4

(* The data of a bank in an event, put together: as long as it was, and    *)
(* what is where in it.                                                    *)
StreamsIn(has, rec, b, e, S) ==
  rec.banks[b].sizes[e] # 0 =>
    \A c \in DOMAIN rec.banks[b].streams : has[<<b, c>>] = Failed \/ has[<<b, c>>] \in Seq(S)

PutTogether(rec, b, e, has, S) ==
  LET bank == rec.banks[b]
      id == rec.banks[b].id
      data == EventData(bank, b, e, has)
  IN /\ data \in Seq(S) /\ Len(data) = bank.sizes[e] /\ bank.sizes[e] \in Nat
     /\ bank.sizes[e] # 0 /\ IsOpaque(bank) =>
          data = Taken(has[<<b, 1>>], SumBefore(bank.sizes, e), bank.sizes[e])
     /\ bank.sizes[e] # 0 /\ ~IsOpaque(bank) =>
          \A c \in DOMAIN Dict[id] : \A j \in 1..RowsIn(bank, e) * Width(id, c) :
            data[RowsIn(bank, e) * RowOffset(id, c) + j] =
              Taken(has[<<b, c>>], RowsBefore(bank, e) * Width(id, c), RowsIn(bank, e) * Width(id, c))[j]

LEMMA EventDataIs ==
  ASSUME NEW evs \in Seq(AnEvent), NEW lay, NEW rec, RecordIs(rec, evs, lay),
         NEW b \in DOMAIN rec.banks, NEW e \in 1..Len(evs),
         NEW S, Zero \in S, NEW has, StreamsIn(has, rec, b, e, S)
  PROVE  PutTogether(rec, b, e, has, S)
<1> DEFINE bank == rec.banks[b]
           id == rec.banks[b].id
           w == WalkBank(evs, id)
           data == EventData(bank, b, e, has)
<1>1. bank.sizes = w.sizes /\ bank.sizes[e] \in Nat
  BY SplitBankIs
<1>2. CASE bank.sizes[e] = 0
  <2>1. data = << >>
    BY <1>2 DEF EventData
  <2> QED BY <1>1, <1>2, <2>1 DEF PutTogether
<1>3. CASE bank.sizes[e] # 0 /\ IsOpaque(bank)
  <2>1. data = OpaqueData(bank, b, e, has)
    BY <1>1, <1>3 DEF EventData
  <2>2. data = Taken(has[<<b, 1>>], SumBefore(bank.sizes, e), bank.sizes[e])
    BY <2>1 DEF OpaqueData, Taken
  <2>3. 1 \in DOMAIN bank.streams
    BY <1>3, SplitBankIs
  <2>4. SumBefore(bank.sizes, e) \in Nat
    BY <1>1, BlockIs
  <2> DEFINE s == has[<<b, 1>>]
             from == SumBefore(bank.sizes, e)
             n == bank.sizes[e]
  <2>5. (s = Failed \/ s \in Seq(S)) /\ from \in Nat /\ n \in Nat
    BY <1>1, <1>3, <2>3, <2>4 DEF StreamsIn
  <2>6. data = Taken(s, from, n)
    BY <2>2
  <2> HIDE DEF s, from, n, data
  <2>7. data \in Seq(S) /\ Len(data) = n
    BY <2>5, <2>6, TakenIs
  <2> QED BY <1>1, <1>3, <2>2, <2>7 DEF n, data, PutTogether
<1>4. CASE bank.sizes[e] # 0 /\ ~IsOpaque(bank)
  <2> DEFINE rows == RowsIn(bank, e)
             m == Len(Dict[id])
             lens == [c \in 1..m |-> rows * Width(id, c)]
             piece(c) == Taken(has[<<b, c>>], RowsBefore(bank, e) * Width(id, c), rows * Width(id, c))
             pieces == [c \in 1..m |-> piece(c)]
  <2>1. /\ id \in DOMAIN Dict /\ DOMAIN bank.streams = DOMAIN Dict[id]
        /\ rows \in Nat /\ bank.sizes[e] = rows * RowSize(id)
        /\ RowsBefore(bank, e) \in Nat
    BY <1>4, SplitBankIs
  <2>2. data = ColumnarData(bank, b, e, has)
    BY <1>1, <1>4 DEF EventData
  <2>3. m \in Nat /\ DOMAIN Dict[id] = 1..m /\ \A c \in 1..m : Width(id, c) \in Nat
    BY <2>1, SchemaShape
  <2>4. data = FlattenSeq(pieces)
    BY <2>1, <2>2, <2>3 DEF ColumnarData, Taken
  <2>5. ASSUME NEW c \in 1..m PROVE pieces[c] \in Seq(S) /\ Len(pieces[c]) = lens[c]
    <3> DEFINE s == has[<<b, c>>]
               from == RowsBefore(bank, e) * Width(id, c)
               n == rows * Width(id, c)
    <3>1. c \in DOMAIN bank.streams
      BY <2>1, <2>3
    <3>2. s = Failed \/ s \in Seq(S)
      BY <1>4, <3>1 DEF StreamsIn
    <3>3. from \in Nat /\ n \in Nat
      BY <2>1, <2>3
    <3>4. pieces[c] = Taken(s, from, n) /\ lens[c] = n
      OBVIOUS
    <3> HIDE DEF s, from, n
    <3>5. s = Failed \/ s \in Seq(S)
      BY <3>2
    <3>6. Taken(s, from, n) \in Seq(S) /\ Len(Taken(s, from, n)) = n
      BY <3>3, <3>5, TakenTyped
    <3> HIDE DEF pieces, lens
    <3> QED BY <3>4, <3>6
  <2>6. pieces = [c \in 1..m |-> pieces[c]] /\ lens = [c \in 1..m |-> lens[c]]
    OBVIOUS
  <2>7. /\ lens \in [1..m -> Nat]
        /\ \E f : /\ IsTotal(f, lens, m)
                  /\ f[m + 1] = rows * RowSize(id)
                  /\ \A c \in 1..m : f[c] = rows * RowOffset(id, c)
    BY <2>1, ColumnsTile
  <2>8. \A c \in 1..m : pieces[c] = piece(c) /\ lens[c] = rows * Width(id, c)
    OBVIOUS
  <2> HIDE DEF m, lens, pieces, piece, data
  <2>9. PICK f : /\ IsTotal(f, lens, m)
                 /\ f[m + 1] = rows * RowSize(id)
                 /\ \A c \in 1..m : f[c] = rows * RowOffset(id, c)
    BY <2>7
  <2>10. pieces \in [1..m -> Seq(S)] /\ lens = [c \in 1..m |-> Len(pieces[c])]
    BY <2>5, <2>6
  <2>11. Places(FlattenSeq(pieces), pieces, f, m, S)
    BY <2>3, <2>9, <2>10, Flattened
  <2>12. data \in Seq(S) /\ Len(data) = bank.sizes[e]
    BY <2>1, <2>4, <2>9, <2>11 DEF Places
  <2>13. ASSUME NEW c \in 1..m, NEW j \in 1..rows * Width(id, c)
         PROVE  data[rows * RowOffset(id, c) + j] = piece(c)[j]
    <3>1. j \in 1..Len(pieces[c]) /\ pieces[c] = piece(c)
      BY <2>5, <2>8
    <3> QED BY <2>4, <2>9, <2>11, <3>1 DEF Places
  <2> QED BY <1>1, <1>4, <2>3, <2>12, <2>13 DEF piece, data, PutTogether
<1> QED BY <1>2, <1>3, <1>4

(* A column of a run of rows.                                              *)
LEMMA ContiguousIs ==
  ASSUME NEW S, NEW id \in DOMAIN Dict, NEW c \in DOMAIN Dict[id], NEW data \in Seq(S)
  PROVE  LET rows == Len(data) \div RowSize(id) IN
         /\ ContiguousColumn(id, data, c) = NoBank \/ ContiguousColumn(id, data, c) \in Seq(S)
         /\ Len(data) % RowSize(id) = 0 =>
              /\ ContiguousColumn(id, data, c) \in Seq(S)
              /\ Len(ContiguousColumn(id, data, c)) = rows * Width(id, c)
              /\ \A j \in 1..rows * Width(id, c) :
                   /\ rows * RowOffset(id, c) + j \in 1..Len(data)
                   /\ ContiguousColumn(id, data, c)[j] = data[rows * RowOffset(id, c) + j]
<1> DEFINE rows == Len(data) \div RowSize(id)
           from == rows * RowOffset(id, c)
           n == rows * Width(id, c)
<1>1. /\ Len(data) \in Nat
      /\ from \in Nat /\ n \in Nat /\ from + n <= Len(data)
  BY ColumnInside
<1>2. ContiguousColumn(id, data, c) =
        IF Len(data) % RowSize(id) # 0 THEN NoBank ELSE Slice(data, from, n)
  BY DEF ContiguousColumn
<1> HIDE DEF from, n
<1>3. /\ Slice(data, from, n) \in Seq(S) /\ Len(Slice(data, from, n)) = n
      /\ \A j \in 1..n : from + j \in 1..Len(data) /\ Slice(data, from, n)[j] = data[from + j]
  BY <1>1, SliceIs
<1> QED BY <1>2, <1>3 DEF from, n

(* What a read of a column makes of the one stream it asks for.            *)
LEMMA ReadColumnIs ==
  ASSUME NEW evs \in Seq(AnEvent), NEW lay, NEW rec, RecordIs(rec, evs, lay),
         NEW e \in DOMAIN evs, NEW id \in DOMAIN Dict, NEW c \in DOMAIN Dict[id], NEW has
  PROVE  LET at == {b \in BankIndex(rec, id) : e \in rec.banks[b].present} IN
         /\ at = {} => ReadColumn(rec, e, id, c, has) = NoBank
         /\ \A b \in at :
              LET bank == rec.banks[b]
                  from == SumBefore(bank.sizes, e)
                  first == RowsBefore(bank, e) * Width(id, c)
                  length == RowsIn(bank, e) * Width(id, c)
              IN /\ IsOpaque(bank) => ReadColumn(rec, e, id, c, has) =
                      IF Fits(has[<<b, 1>>], from, bank.sizes[e])
                      THEN ContiguousColumn(id, Slice(has[<<b, 1>>], from, bank.sizes[e]), c)
                      ELSE NoBank
                 /\ ~IsOpaque(bank) => ReadColumn(rec, e, id, c, has) =
                      IF length = 0 THEN << >>
                      ELSE IF Fits(has[<<b, c>>], first, length) THEN Slice(has[<<b, c>>], first, length)
                      ELSE << >>
<1> DEFINE at == {b \in BankIndex(rec, id) : e \in rec.banks[b].present}
<1>1. CASE at = {}
  BY <1>1 DEF ReadColumn
<1>2. ASSUME NEW b \in at
      PROVE  b = CHOOSE k \in at : TRUE
  <2>1. \E x \in at : at = {x}
    BY ColumnAsks
  <2> HIDE DEF at
  <2>2. at = {b}
    BY <2>1
  <2> QED BY <2>2
<1>3. ASSUME NEW b \in at
      PROVE  LET bank == rec.banks[b]
                 from == SumBefore(bank.sizes, e)
                 first == RowsBefore(bank, e) * Width(id, c)
                 length == RowsIn(bank, e) * Width(id, c)
             IN /\ IsOpaque(bank) => ReadColumn(rec, e, id, c, has) =
                     IF Fits(has[<<b, 1>>], from, bank.sizes[e])
                     THEN ContiguousColumn(id, Slice(has[<<b, 1>>], from, bank.sizes[e]), c)
                     ELSE NoBank
                /\ ~IsOpaque(bank) => ReadColumn(rec, e, id, c, has) =
                     IF length = 0 THEN << >>
                     ELSE IF Fits(has[<<b, c>>], first, length) THEN Slice(has[<<b, c>>], first, length)
                     ELSE << >>
  <2>1. b = (CHOOSE k \in at : TRUE) /\ at # {}
    BY <1>2
  <2> DEFINE Of(k) ==
        LET bank == rec.banks[k]
            from == SumBefore(bank.sizes, e)
            first == RowsBefore(bank, e) * Width(id, c)
            length == RowsIn(bank, e) * Width(id, c)
        IN IF IsOpaque(bank)
           THEN IF Fits(has[<<k, 1>>], from, bank.sizes[e])
                THEN ContiguousColumn(id, Slice(has[<<k, 1>>], from, bank.sizes[e]), c)
                ELSE NoBank
           ELSE IF length = 0 THEN << >>
           ELSE IF Fits(has[<<k, c>>], first, length) THEN Slice(has[<<k, c>>], first, length)
           ELSE << >>
  <2>2. ReadColumn(rec, e, id, c, has) = IF at = {} THEN NoBank ELSE Of(CHOOSE k \in at : TRUE)
    BY DEF ReadColumn
  <2> HIDE DEF at, Of
  <2>3. ReadColumn(rec, e, id, c, has) = Of(b)
    BY <2>1, <2>2
  <2> QED BY <2>3 DEF Of
<1> QED BY <1>1, <1>3

(* A read of a column hands out what it has of a stream, or nothing.       *)
LEMMA ColumnTyped ==
  ASSUME NEW evs \in Seq(AnEvent), NEW lay, NEW rec, RecordIs(rec, evs, lay),
         NEW e \in DOMAIN evs, NEW id \in DOMAIN Dict, NEW c \in DOMAIN Dict[id],
         NEW S, NEW has,
         \A s \in ToSet(ColumnStreams(rec, e, id, c)) : has[s] = Failed \/ has[s] \in Seq(S)
  PROVE  ReadColumn(rec, e, id, c, has) = NoBank \/ ReadColumn(rec, e, id, c, has) \in Seq(S)
<1> DEFINE at == {b \in BankIndex(rec, id) : e \in rec.banks[b].present}
           answered == ReadColumn(rec, e, id, c, has)
<1>1. CASE at = {}
  BY <1>1, ReadColumnIs
<1>2. CASE at # {}
  <2>1. PICK b \in at :
          ColumnStreams(rec, e, id, c) =
            IF IsOpaque(rec.banks[b]) THEN <<<<b, 1>>>>
            ELSE IF RowsIn(rec.banks[b], e) = 0 THEN << >> ELSE <<<<b, c>>>>
    BY <1>2, ColumnAsks
  <2>2. b \in DOMAIN rec.banks /\ rec.banks[b].id = id /\ e \in 1..Len(evs)
    BY EventsShape DEF BankIndex
  <2> DEFINE bank == rec.banks[b]
             from == SumBefore(bank.sizes, e)
             size == bank.sizes[e]
             first == RowsBefore(bank, e) * Width(id, c)
             length == RowsIn(bank, e) * Width(id, c)
  <2>3. CASE IsOpaque(bank)
    <3>1. answered = IF Fits(has[<<b, 1>>], from, size)
                     THEN ContiguousColumn(id, Slice(has[<<b, 1>>], from, size), c) ELSE NoBank
      BY <2>3, ReadColumnIs
    <3>2. <<b, 1>> \in ToSet(ColumnStreams(rec, e, id, c))
      BY <2>1, <2>3 DEF ToSet
    <3> DEFINE s == has[<<b, 1>>]
    <3>3. s = Failed \/ s \in Seq(S)
      BY <3>2
    <3>4. from \in Nat /\ size \in Nat
      BY <2>2, SplitBankIs, BlockIs
    <3> HIDE DEF s, from, size, answered
    <3>5. CASE Fits(s, from, size)
      <4>1. s \in Seq(S) /\ from + size <= Len(s)
        BY <3>3, <3>5 DEF Fits
      <4>2. Slice(s, from, size) \in Seq(S)
        BY <3>4, <4>1, SliceIs
      <4> DEFINE data == Slice(s, from, size)
      <4>3. data \in Seq(S) /\ answered = ContiguousColumn(id, data, c)
        BY <3>1, <3>5, <4>2 DEF s
      <4> HIDE DEF data
      <4>4. ContiguousColumn(id, data, c) = NoBank \/ ContiguousColumn(id, data, c) \in Seq(S)
        BY ONLY <4>3, id \in DOMAIN Dict, c \in DOMAIN Dict[id], ContiguousIs
      <4> QED BY <4>3, <4>4 DEF answered
    <3>6. CASE ~Fits(s, from, size)
      BY <3>1, <3>6 DEF s, answered
    <3> QED BY <3>5, <3>6
  <2>4. CASE ~IsOpaque(bank)
    <3>1. answered = IF length = 0 THEN << >>
                     ELSE IF Fits(has[<<b, c>>], first, length) THEN Slice(has[<<b, c>>], first, length)
                     ELSE << >>
      BY <2>4, ReadColumnIs
    <3>2. RowsIn(bank, e) \in Nat /\ RowsBefore(bank, e) \in Nat /\ Width(id, c) \in Nat
      BY <2>2, <2>4, SplitBankIs, RowsAre
    <3>3. first \in Nat /\ length \in Nat
      BY <3>2
    <3> DEFINE s == has[<<b, c>>]
    <3>4. CASE length # 0 /\ Fits(s, first, length)
      <4>1. RowsIn(bank, e) # 0
        BY <3>2, <3>4
      <4>2. <<b, c>> \in ToSet(ColumnStreams(rec, e, id, c))
        BY <2>1, <2>4, <4>1 DEF ToSet
      <4>3. s = Failed \/ s \in Seq(S)
        BY <4>2
      <4>4. answered = Slice(s, first, length)
        BY <3>1, <3>4
      <4> HIDE DEF s, first, length
      <4>5. s \in Seq(S) /\ first + length <= Len(s)
        BY <3>4, <4>3 DEF Fits
      <4>6. Slice(s, first, length) \in Seq(S)
        BY <3>3, <4>5, SliceIs
      <4> QED BY <4>4, <4>6
    <3>5. CASE ~(length # 0 /\ Fits(s, first, length))
      <4>1. answered = << >>
        BY <3>1, <3>5
      <4> QED BY <4>1
    <3> QED BY <3>4, <3>5
  <2> QED BY <2>3, <2>4
<1> QED BY <1>1, <1>2

(* An event put together: its banks in order, and the data of each.        *)
Here(rec, e) == {b \in DOMAIN rec.banks : e \in rec.banks[b].present}

LEMMA HereIs ==
  ASSUME NEW evs \in Seq(AnEvent), NEW lay, NEW rec, RecordIs(rec, evs, lay), NEW e
  PROVE  LET here == Ascending(Here(rec, e)) IN
         /\ Len(here) \in Nat /\ DOMAIN here = 1..Len(here)
         /\ Len(here) = Cardinality(Here(rec, e)) /\ IsFiniteSet(Here(rec, e))
         /\ \A k \in 1..Len(here) : here[k] \in Here(rec, e)
         /\ \A j, k \in 1..Len(here) : j < k => here[j] < here[k]
         /\ \A b \in Here(rec, e) : \E k \in 1..Len(here) : here[k] = b
<1> DEFINE H == Here(rec, e)
<1>1. DOMAIN rec.banks = 1..Len(rec.banks) /\ Len(rec.banks) \in Nat
  BY BanksAre
<1>2. H \in SUBSET (1..Len(rec.banks)) /\ H \in SUBSET Nat
  BY <1>1 DEF Here
<1>3. IsFiniteSet(H)
  <2>1. IsFiniteSet(1..Len(rec.banks))
    BY <1>1, FS_Interval
  <2> QED BY <1>2, <2>1, FS_Subset
<1> HIDE DEF H
<1> QED BY <1>2, <1>3, AscendingIs DEF H

LEMMA EventIs ==
  ASSUME NEW rec, NEW e, NEW has, DOMAIN Ascending(Here(rec, e)) = 1..Len(Ascending(Here(rec, e)))
  PROVE  LET here == Ascending(Here(rec, e))
             event == SynthesizeEvent(rec, e, has) IN
         /\ event.tag = rec.event_tags[e]
         /\ event.structures =
              [k \in 1..Len(here) |->
                 [id |-> rec.banks[here[k]].id, header_size |-> rec.banks[here[k]].header_size,
                  data |-> EventData(rec.banks[here[k]], here[k], e, has)]]
BY DEF SynthesizeEvent, Here

-----------------------------------------------------------------------------
(***************************************************************************)
(* What reads answer.                                                      *)
(***************************************************************************)
LEMMA DoneIs ==
  ASSUME IInv, SInv, NEW t \in Answered
  PROVE  /\ events \in Seq(AnEvent) /\ RecordIs(record, events, layout)
         /\ reads[t] \in ReadsOf(events)
         /\ answer[t] = AnswerOf(record, reads[t], BytesOf(got[t]))
         /\ DOMAIN got[t] = ToSet(AskedOf(record, reads[t]))
         /\ \A s \in DOMAIN got[t] : /\ s \in StreamsOf(record)
                                     /\ BytesOf(got[t])[s] = BytesIn(record, layout, s)
<1>1. t \in Threads /\ pc[t] = "done"
  BY DEF Answered
<1>2. Kept /\ ThreadIs(record, layout, t, reads[t], pc[t], todo[t], got[t], out[t], answer[t])
  BY <1>1 DEF SInv
<1>3. /\ phase = "open" /\ reads[t] \in Reads
  BY <1>1, AskedHasSlot
<1>4. events \in Seq(AnEvent) /\ RecordIs(record, events, layout)
  BY <1>2, <1>3, InputsAre DEF Kept
<1>5. reads[t] \in ReadsOf(events)
  BY <1>3 DEF Reads, ReadsOf
<1>6. /\ answer[t] = AnswerOf(record, reads[t], BytesOf(got[t]))
      /\ todo[t] = << >> /\ DOMAIN got[t] \cup ToSet(todo[t]) = ToSet(AskedOf(record, reads[t]))
      /\ \A s \in DOMAIN got[t] : got[t][s].bytes = BytesIn(record, layout, s)
  BY <1>1, <1>2 DEF ThreadIs
<1>7. DOMAIN got[t] = ToSet(AskedOf(record, reads[t]))
  <2>1. ToSet(<< >>) = {}
    BY DEF ToSet
  <2> QED BY <1>6, <2>1
<1>8. \A s \in DOMAIN got[t] : s \in StreamsOf(record) /\ BytesOf(got[t])[s] = BytesIn(record, layout, s)
  BY <1>4, <1>5, <1>6, <1>7, AskedIs DEF BytesOf
<1> QED BY <1>4, <1>5, <1>6, <1>7, <1>8

(* A stream of the record that storage has not damaged, or whose checksum  *)
(* shows it: what was written, or nothing.                                 *)
LEMMA ChecksumIs ==
  ASSUME NEW evs \in Seq(AnEvent), NEW lay, NEW rec, RecordIs(rec, evs, lay),
         NEW s \in StreamsOf(rec)
  PROVE  LET stream == rec.banks[s[1]].streams[s[2]]
             bytes == BytesAt(WalkBank(evs, rec.banks[s[1]].id), lay, s[2])
         IN /\ bytes \in Seq(Cell)
            /\ stream.damage = "none" => BytesIn(rec, lay, s) = bytes
            /\ (stream.size > 0 => stream.checksum # 0) =>
                 BytesIn(rec, lay, s) = Failed \/ BytesIn(rec, lay, s) = bytes
<1> DEFINE b == s[1]
           c == s[2]
           stream == rec.banks[b].streams[c]
           bytes == BytesAt(WalkBank(evs, rec.banks[b].id), lay, c)
<1>1. b \in DOMAIN rec.banks /\ c \in DOMAIN rec.banks[b].streams
  BY DEF StreamsOf
<1>2. bytes \in Seq(Cell) /\ StreamIs(stream, bytes, lay)
  BY <1>1, BytesAre
<1>3. BytesIn(rec, lay, s) = Inflate(stream, lay)
  BY DEF BytesIn
<1>4. stream.size \in Nat
  <2> HIDE DEF bytes, stream
  <2> QED BY <1>2 DEF StreamIs
<1> HIDE DEF bytes, stream
<1>5. /\ stream.damage = "none" \/ stream.size = 0 => Inflate(stream, lay) = bytes
      /\ stream.size > 0 /\ stream.checksum # 0 => Inflate(stream, lay) \in {bytes, Failed}
  BY <1>2, InflateIs
<1>6. stream.damage = "none" => BytesIn(rec, lay, s) = bytes
  BY <1>3, <1>5
<1>7. ASSUME stream.size > 0 => stream.checksum # 0
      PROVE  BytesIn(rec, lay, s) = Failed \/ BytesIn(rec, lay, s) = bytes
  <2>1. CASE stream.size > 0
    BY <1>3, <1>5, <1>7, <2>1
  <2>2. CASE ~(stream.size > 0)
    BY <1>3, <1>4, <1>5, <2>2
  <2> QED BY <2>1, <2>2
<1> QED BY <1>2, <1>6, <1>7 DEF stream, bytes, b, c

(* What a read has of the streams it asked for is bytes that were written, *)
(* then so is all it answers, but for zeros.                               *)
LEMMA AnswersTyped ==
  ASSUME NEW evs \in Seq(AnEvent), NEW lay, NEW rec, RecordIs(rec, evs, lay),
         NEW r \in ReadsOf(evs), NEW has,
         \A s \in ToSet(AskedOf(rec, r)) : has[s] = Failed \/ has[s] \in Seq(Cell)
  PROVE  LET ans == AnswerOf(rec, r, has) IN
         /\ \A k \in DOMAIN ans.structures : ans.structures[k].data \in Seq(Cell \cup {Zero})
         /\ ans.bytes = NoBank \/ ans.bytes \in Seq(Cell)
<1> DEFINE ans == AnswerOf(rec, r, has)
           S == Cell \cup {Zero}
<1>1. Seq(Cell) \subseteq Seq(S) /\ Zero \in S
  <2>1. Cell \subseteq S
    OBVIOUS
  <2> HIDE DEF S
  <2>2. Seq(Cell) \subseteq Seq(S)
    BY <2>1
  <2> QED BY <2>2 DEF S
<1>2. CASE r.kind = "bytes"
  <2> DEFINE e == r.event
             here == Ascending(Here(rec, e))
             event == SynthesizeEvent(rec, e, has)
  <2>1. e \in DOMAIN evs /\ e \in 1..Len(evs) /\ AskedOf(rec, r) = EventStreams(rec, e)
    BY <1>2, EventsShape DEF ReadsOf, AskedOf
  <2>2. ans.structures = event.structures /\ ans.bytes = << >>
    BY <1>2 DEF AnswerOf, NoAnswer
  <2>3. DOMAIN here = 1..Len(here) /\ \A k \in 1..Len(here) : here[k] \in Here(rec, e)
    BY HereIs
  <2>4. event.structures =
          [k \in 1..Len(here) |->
             [id |-> rec.banks[here[k]].id, header_size |-> rec.banks[here[k]].header_size,
              data |-> EventData(rec.banks[here[k]], here[k], e, has)]]
    BY <2>3, EventIs
  <2> HIDE DEF here, event, ans, e, S
  <2>5. ASSUME NEW k \in 1..Len(here)
        PROVE  event.structures[k].data \in Seq(S)
    <3> DEFINE b == here[k]
    <3>1. b \in DOMAIN rec.banks /\ e \in rec.banks[b].present
      BY <2>3 DEF Here
    <3> HIDE DEF b
    <3>2. rec.banks[b].sizes[e] # 0 =>
            \A c \in DOMAIN rec.banks[b].streams : <<b, c>> \in ToSet(EventStreams(rec, e))
      BY <2>1, <3>1, EventAsks
    <3>3. rec.banks[b].sizes[e] # 0 =>
            \A c \in DOMAIN rec.banks[b].streams : has[<<b, c>>] = Failed \/ has[<<b, c>>] \in Seq(S)
      BY <1>1, <2>1, <3>2
    <3>5. StreamsIn(has, rec, b, e, S)
      BY <3>3 DEF StreamsIn
    <3>4. EventData(rec.banks[b], b, e, has) \in Seq(S)
      BY <1>1, <2>1, <3>1, <3>5, EventDataIs DEF PutTogether
    <3> QED BY <2>4, <3>4 DEF b
  <2>6. << >> \in Seq(Cell)
    OBVIOUS
  <2> QED BY <2>2, <2>4, <2>5, <2>6 DEF ans, S
<1>3. CASE r.kind # "bytes"
  <2>1. /\ r.event \in DOMAIN evs /\ r.id \in DOMAIN Dict /\ r.col \in DOMAIN Dict[r.id]
        /\ AskedOf(rec, r) = ColumnStreams(rec, r.event, r.id, r.col)
    BY <1>3 DEF ReadsOf, AskedOf
  <2>2. ans.structures = << >> /\ ans.bytes = ReadColumn(rec, r.event, r.id, r.col, has)
    BY <1>3 DEF AnswerOf, NoAnswer
  <2>3. ans.bytes = NoBank \/ ans.bytes \in Seq(Cell)
    BY <2>1, <2>2, ColumnTyped
  <2>4. DOMAIN ans.structures = {}
    BY <2>2
  <2> QED BY <2>3, <2>4
<1> QED BY <1>2, <1>3

(* With checksums a read never answers with bytes that storage has made of *)
(* a stream: whatever is damaged, whichever thread inflated it.            *)
THEOREM DamageIsCaught == Spec => []ChecksumCatchesDamage
<1>1. IInv /\ SInv => ChecksumCatchesDamage
  <2> SUFFICES ASSUME IInv, SInv, NEW t \in Answered,
                      \A s \in DOMAIN got[t] : StreamAt(s).size > 0 => StreamAt(s).checksum # 0
               PROVE  /\ \A k \in DOMAIN answer[t].structures : Garbage \notin ToSet(answer[t].structures[k].data)
                      /\ Garbage \notin ToSet(answer[t].bytes)
    BY DEF ChecksumCatchesDamage
  <2> DEFINE has == BytesOf(got[t])
             r == reads[t]
  <2>1. /\ events \in Seq(AnEvent) /\ RecordIs(record, events, layout)
        /\ r \in ReadsOf(events) /\ answer[t] = AnswerOf(record, r, has)
        /\ DOMAIN got[t] = ToSet(AskedOf(record, r))
        /\ \A s \in DOMAIN got[t] : s \in StreamsOf(record) /\ has[s] = BytesIn(record, layout, s)
    BY DoneIs
  <2> HIDE DEF has, r
  <2>2. \A s \in ToSet(AskedOf(record, r)) : has[s] = Failed \/ has[s] \in Seq(Cell)
    BY <2>1, ChecksumIs DEF StreamAt
  <2>3. /\ \A k \in DOMAIN answer[t].structures : answer[t].structures[k].data \in Seq(Cell \cup {Zero})
        /\ answer[t].bytes = NoBank \/ answer[t].bytes \in Seq(Cell)
    BY <2>1, <2>2, AnswersTyped
  <2>4. Garbage \notin Cell \cup {Zero} /\ Garbage \notin Cell
    BY CellsAreNot
  <2>5. ASSUME NEW S, Garbage \notin S, NEW q \in Seq(S)
        PROVE  Garbage \notin ToSet(q)
    BY <2>5 DEF ToSet
  <2>6. Garbage \notin ToSet(NoBank)
    BY DEF ToSet, NoBank, Garbage
  <2>7. \A k \in DOMAIN answer[t].structures : Garbage \notin ToSet(answer[t].structures[k].data)
    BY <2>3, <2>4, <2>5
  <2>8. Garbage \notin ToSet(answer[t].bytes)
    BY <2>3, <2>4, <2>5, <2>6
  <2> QED BY <2>7, <2>8
<1> QED BY <1>1, SInvAlways, PTL

(* A stream as it was written, or not: as many bytes, or none.             *)
Remains(s, bytes) == s \in {bytes, Failed, [p \in 1..Len(bytes) |-> Garbage]}

LEMMA TakenOf ==
  ASSUME NEW bytes \in Seq(Cell), NEW from \in Nat, NEW n \in Nat, from + n <= Len(bytes),
         NEW s, Remains(s, bytes)
  PROVE  /\ s = Failed \/ s \in Seq(Cell \cup {Zero, Garbage})
         /\ Fits(bytes, from, n)
         /\ \A j \in 1..n : /\ from + j \in 1..Len(bytes)
                            /\ Taken(s, from, n)[j] \in {bytes[from + j], Zero, Garbage}
                            /\ s = bytes => Taken(s, from, n)[j] = bytes[from + j]
<1> DEFINE S == Cell \cup {Zero, Garbage}
           garbage == [p \in 1..Len(bytes) |-> Garbage]
<1>1. Zero \in S /\ Garbage \in S /\ Cell \subseteq S /\ Len(bytes) \in Nat
  OBVIOUS
<1> HIDE DEF S
<1>2. bytes \in Seq(S) /\ bytes # Failed
  BY <1>1, CellsAreNot
<1>3. garbage \in Seq(S) /\ Len(garbage) = Len(bytes) /\ \A p \in 1..Len(bytes) : garbage[p] = Garbage
  BY <1>1
<1> HIDE DEF garbage
<1>4. Fits(bytes, from, n) /\ \A j \in 1..n : from + j \in 1..Len(bytes)
  BY <1>1, <1>2 DEF Fits
<1>5. ASSUME NEW x \in Seq(S), from + n <= Len(x), x # Failed
      PROVE  \A j \in 1..n : Taken(x, from, n)[j] = x[from + j]
  <2>1. Taken(x, from, n) = Slice(x, from, n)
    BY <1>5 DEF Taken, Fits
  <2>2. \A j \in 1..n : Slice(x, from, n)[j] = x[from + j]
    BY <1>5, SliceIs
  <2> QED BY <2>1, <2>2
<1>6. Taken(Failed, from, n) = Zeros(n)
  BY DEF Taken, Fits
<1>7. CASE s = bytes
  BY <1>2, <1>4, <1>5, <1>7 DEF S
<1>8. CASE s = Failed
  BY <1>2, <1>4, <1>6, <1>8 DEF Zeros
<1>9. CASE s = garbage /\ s # Failed
  BY <1>2, <1>3, <1>4, <1>5, <1>9 DEF S
<1> QED BY <1>7, <1>8, <1>9 DEF Remains, garbage

(* The bytes of an event's run of a column, in the stream of the column.   *)
LEMMA ColumnPlace ==
  ASSUME NEW evs \in Seq(AnEvent), NEW id, Columnar(WalkBank(evs, id)),
         NEW c \in DOMAIN Dict[id], NEW e \in 1..Len(evs)
  PROVE  LET w == WalkBank(evs, id)
             rows == w.sizes[e] \div RowSize(id)
             from == (SumBefore(w.sizes, e) \div RowSize(id)) * Width(id, c)
             n == rows * Width(id, c)
         IN /\ id \in DOMAIN Dict
            /\ ColumnStream(w, c) \in Seq(Cell)
            /\ from \in Nat /\ n \in Nat /\ from + n <= Len(ColumnStream(w, c))
            /\ \A j \in 1..n : /\ rows * RowOffset(id, c) + j \in 1..w.sizes[e]
                               /\ ColumnStream(w, c)[from + j] = BlockOf(w, e)[rows * RowOffset(id, c) + j]
<1> DEFINE w == WalkBank(evs, id)
           k == RowSize(id)
           v == Width(id, c)
           m == Len(evs)
           rows == [d \in 1..m |-> w.sizes[d] \div k]
           lens == [d \in 1..m |-> (w.sizes[d] \div k) * v]
           chunks == [d \in 1..m |-> ChunkOf(w, c, d)]
           stream == ColumnStream(w, c)
<1>1. id \in DOMAIN Dict /\ m \in Nat
  BY WholeRows, EventsShape
<1>2. v \in Nat
  BY <1>1, RowsAre
<1>3. PICK g : /\ IsTotal(g, rows, m) /\ rows \in [1..m -> Nat] /\ g[e] \in Nat
               /\ SumBefore(w.sizes, e) \div k = g[e]
  BY WholeRows
<1>4. stream \in Seq(Cell) /\ lens \in [1..m -> Nat]
  BY <1>1, ColumnStreamIs
<1>5. PICK f : IsTotal(f, lens, m) /\ Places(stream, chunks, f, m, Cell)
  BY <1>1, ColumnStreamIs
<1>6. /\ Len(chunks[e]) = lens[e] /\ lens[e] = rows[e] * v /\ rows[e] = w.sizes[e] \div k
      /\ \A j \in 1..rows[e] * v :
           /\ rows[e] * RowOffset(id, c) + j \in 1..w.sizes[e]
           /\ chunks[e][j] = BlockOf(w, e)[rows[e] * RowOffset(id, c) + j]
  BY <1>1, ChunkIs
<1>7. Multiples(lens, rows, v, m)
  BY DEF Multiples
<1> HIDE DEF w, k, v, m, rows, lens, chunks, stream
<1>8. e \in 1..m /\ e \in 1..m + 1 /\ e + 1 \in 1..m + 1 /\ m + 1 \in 1..m + 1 /\ e + 1 <= m + 1
  BY <1>1 DEF m
<1>9. f[e] = g[e] * v
  <2>1. Multiples(f, g, v, m + 1)
    BY <1>1, <1>2, <1>3, <1>4, <1>5, <1>7, TotalsScale
  <2> QED BY <1>8, <2>1 DEF Multiples
<1>10. f[e] \in Nat /\ f[e + 1] = f[e] + lens[e] /\ f[e + 1] <= f[m + 1] /\ f[m + 1] \in Nat
       /\ lens[e] \in Nat
  BY <1>1, <1>4, <1>5, <1>8, TotalSteps, TotalMonotone
<1>11. Len(stream) = f[m + 1] /\ \A j \in 1..lens[e] : stream[f[e] + j] = chunks[e][j]
  BY <1>5, <1>6, <1>8 DEF Places
<1> DEFINE from == (SumBefore(w.sizes, e) \div k) * v
           n == (w.sizes[e] \div k) * v
<1>12. from = f[e] /\ n = lens[e]
  BY <1>3, <1>6, <1>9
<1> HIDE DEF from, n
<1>13. from \in Nat /\ n \in Nat /\ from + n <= Len(stream)
  BY <1>10, <1>11, <1>12
<1>14. ASSUME NEW j \in 1..n
       PROVE  /\ (w.sizes[e] \div k) * RowOffset(id, c) + j \in 1..w.sizes[e]
              /\ stream[from + j] = BlockOf(w, e)[(w.sizes[e] \div k) * RowOffset(id, c) + j]
  BY <1>6, <1>11, <1>12, <1>14
<1> QED BY <1>1, <1>4, <1>13, <1>14 DEF w, k, v, stream, from, n

(* The data of a bank in an event, put together of streams that are as     *)
(* they were written or not: as long as it was, and in each place the byte *)
(* that was there, or zero, or garbage.                                    *)
(* The streams that event e needs of bank b remain, or are untouched.      *)
NeededRemain(evs, lay, rec, e, has, b) ==
  rec.banks[b].sizes[e] # 0 =>
    \A c \in DOMAIN rec.banks[b].streams :
      Remains(has[<<b, c>>], BytesAt(WalkBank(evs, rec.banks[b].id), lay, c))

Untouched(evs, lay, rec, e, has, b) ==
  rec.banks[b].sizes[e] # 0 =>
    \A c \in DOMAIN rec.banks[b].streams :
      has[<<b, c>>] = BytesAt(WalkBank(evs, rec.banks[b].id), lay, c)

CellsOf(evs, lay, rec, e, has, b) ==
  LET w == WalkBank(evs, rec.banks[b].id)
      data == EventData(rec.banks[b], b, e, has)
  IN /\ Len(data) = w.sizes[e] /\ w.sizes[e] \in Nat
     /\ data \in Seq(Cell \cup {Zero, Garbage})
     /\ \A p \in 1..w.sizes[e] :
          /\ data[p] \in {BlockOf(w, e)[p], Zero, Garbage}
          /\ Untouched(evs, lay, rec, e, has, b) => data[p] = BlockOf(w, e)[p]

LEMMA EventCells ==
  ASSUME NEW evs \in Seq(AnEvent), NEW lay, NEW rec, RecordIs(rec, evs, lay),
         NEW b \in DOMAIN rec.banks, NEW e \in 1..Len(evs), NEW has,
         NeededRemain(evs, lay, rec, e, has, b)
  PROVE  CellsOf(evs, lay, rec, e, has, b)
<1> DEFINE bank == rec.banks[b]
           id == rec.banks[b].id
           w == WalkBank(evs, id)
           data == EventData(bank, b, e, has)
           S == Cell \cup {Zero, Garbage}
           intact == Untouched(evs, lay, rec, e, has, b)
<1>1. /\ bank.sizes = w.sizes /\ bank.sizes[e] \in Nat /\ w.id = id
      /\ IsOpaque(bank) => DOMAIN bank.streams = {1} /\ BytesAt(w, lay, 1) = w.bytes
      /\ ~IsOpaque(bank) =>
           /\ Columnar(w) /\ id \in DOMAIN Dict /\ DOMAIN bank.streams = DOMAIN Dict[id]
           /\ \A c \in DOMAIN bank.streams : BytesAt(w, lay, c) = ColumnStream(w, c)
           /\ RowsIn(bank, e) \in Nat /\ bank.sizes[e] = RowsIn(bank, e) * RowSize(id)
  BY SplitBankIs
<1>2. Zero \in S
  OBVIOUS
<1>3. StreamsIn(has, rec, b, e, S)
  <2> SUFFICES ASSUME bank.sizes[e] # 0, NEW c \in DOMAIN bank.streams
               PROVE  has[<<b, c>>] = Failed \/ has[<<b, c>>] \in Seq(S)
    BY DEF StreamsIn
  <2> DEFINE s == has[<<b, c>>]
             bytes == BytesAt(w, lay, c)
  <2>1. Remains(s, bytes) /\ bytes \in Seq(Cell)
    BY BytesAre DEF NeededRemain
  <2> HIDE DEF s, bytes
  <2>2. 0 + 0 <= Len(bytes) /\ 0 \in Nat
    BY <2>1
  <2>3. s = Failed \/ s \in Seq(S)
    BY <2>1, <2>2, TakenOf
  <2> QED BY <2>3 DEF s
<1> HIDE DEF S
<1>4. /\ data \in Seq(S) /\ Len(data) = bank.sizes[e]
      /\ bank.sizes[e] # 0 /\ IsOpaque(bank) =>
           data = Taken(has[<<b, 1>>], SumBefore(bank.sizes, e), bank.sizes[e])
      /\ bank.sizes[e] # 0 /\ ~IsOpaque(bank) =>
           \A c \in DOMAIN Dict[id] : \A j \in 1..RowsIn(bank, e) * Width(id, c) :
             data[RowsIn(bank, e) * RowOffset(id, c) + j] =
               Taken(has[<<b, c>>], RowsBefore(bank, e) * Width(id, c), RowsIn(bank, e) * Width(id, c))[j]
  <2>1. PutTogether(rec, b, e, has, S)
    BY <1>2, <1>3, EventDataIs
  <2> QED BY <2>1 DEF PutTogether
<1> HIDE DEF data
<1>5. ASSUME NEW p \in 1..w.sizes[e]
      PROVE  data[p] \in {BlockOf(w, e)[p], Zero, Garbage} /\ (intact => data[p] = BlockOf(w, e)[p])
  <2>1. bank.sizes[e] # 0 /\ p \in 1..bank.sizes[e]
    BY <1>1
  <2>2. CASE IsOpaque(bank)
    <3> DEFINE s == has[<<b, 1>>]
               bytes == w.bytes
               from == SumBefore(w.sizes, e)
               n == w.sizes[e]
    <3>1. Remains(s, bytes) /\ (intact => s = bytes)
      BY <1>1, <2>1, <2>2 DEF NeededRemain, Untouched
    <3>2. /\ bytes \in Seq(Cell) /\ from \in Nat /\ n \in Nat /\ from + n <= Len(bytes)
          /\ BlockOf(w, e)[p] = bytes[from + p]
      BY BlockIs, WalkBankIs
    <3>3. data = Taken(s, from, n) /\ p \in 1..n
      BY <1>1, <1>4, <2>1, <2>2
    <3> HIDE DEF s, bytes, from, n, intact, w
    <3>4. Taken(s, from, n)[p] \in {bytes[from + p], Zero, Garbage} /\ (s = bytes => Taken(s, from, n)[p] = bytes[from + p])
      BY <3>1, <3>2, <3>3, TakenOf
    <3> QED BY <3>1, <3>2, <3>3, <3>4
  <2>3. CASE ~IsOpaque(bank)
    <3> DEFINE rows == RowsIn(bank, e)
    <3>1. /\ Columnar(w) /\ id \in DOMAIN Dict /\ rows \in Nat /\ bank.sizes[e] = rows * RowSize(id)
          /\ rows = w.sizes[e] \div RowSize(id)
          /\ RowsBefore(bank, e) = SumBefore(w.sizes, e) \div RowSize(id)
      BY <1>1, <2>3 DEF RowsIn, RowsBefore
    <3>2. \A q \in 1..rows * RowSize(id) : \E c \in 1..Len(Dict[id]) : \E j \in 1..rows * Width(id, c) :
            q = rows * RowOffset(id, c) + j
      <4> HIDE DEF rows, id
      <4> QED BY <3>1, ColumnsTile
    <3>3. p \in 1..rows * RowSize(id) /\ DOMAIN Dict[id] = 1..Len(Dict[id])
      BY <2>1, <3>1, SchemaShape
    <3>9. PICK c \in DOMAIN Dict[id] : \E j \in 1..rows * Width(id, c) : p = rows * RowOffset(id, c) + j
      <4> HIDE DEF rows, id
      <4> QED BY <3>2, <3>3
    <3>4. PICK j \in 1..rows * Width(id, c) : p = rows * RowOffset(id, c) + j
      BY <3>9
    <3> DEFINE s == has[<<b, c>>]
               bytes == ColumnStream(w, c)
               from == RowsBefore(bank, e) * Width(id, c)
               n == rows * Width(id, c)
    <3>5. Remains(s, bytes) /\ (intact => s = bytes)
      BY <1>1, <2>1, <2>3 DEF NeededRemain, Untouched
    <3>6. /\ bytes \in Seq(Cell) /\ from \in Nat /\ n \in Nat /\ from + n <= Len(bytes)
          /\ bytes[from + j] = BlockOf(w, e)[p]
      <4> DEFINE row == w.sizes[e] \div RowSize(id)
                 at == (SumBefore(w.sizes, e) \div RowSize(id)) * Width(id, c)
      <4>1. /\ bytes \in Seq(Cell)
            /\ at \in Nat /\ row * Width(id, c) \in Nat /\ at + row * Width(id, c) <= Len(bytes)
            /\ \A i \in 1..row * Width(id, c) :
                 bytes[at + i] = BlockOf(w, e)[row * RowOffset(id, c) + i]
        BY <3>1, ColumnPlace
      <4>2. row = rows /\ at = from
        BY <3>1
      <4> HIDE DEF row, at, rows, from, bytes, w
      <4> QED BY <3>4, <4>1, <4>2
    <3>7. data[p] = Taken(s, from, n)[j] /\ j \in 1..n
      BY <1>4, <2>1, <2>3, <3>4
    <3> HIDE DEF s, bytes, from, n, intact, w
    <3>8. Taken(s, from, n)[j] \in {bytes[from + j], Zero, Garbage} /\ (s = bytes => Taken(s, from, n)[j] = bytes[from + j])
      BY <3>5, <3>6, <3>7, TakenOf
    <3> QED BY <3>5, <3>6, <3>7, <3>8
  <2> QED BY <2>2, <2>3
<1> QED BY <1>1, <1>4, <1>5 DEF data, S, CellsOf

-----------------------------------------------------------------------------
(***************************************************************************)
(* Events that have no bank twice, and agree on the header sizes.          *)
(***************************************************************************)
Once(st) == \A j, k \in DOMAIN st : st[j].id = st[k].id => j = k

LEMMA FoundOnce ==
  ASSUME NEW st \in Seq(AStructure), Once(st), NEW id \in BanksOf(st)
  PROVE  /\ Len(Found(st, id)) = 1 /\ Found(st, id)[1] \in AStructure
         /\ \E k \in DOMAIN st : st[k].id = id /\ Found(st, id)[1] = st[k]
<1>1. PICK k \in DOMAIN st : st[k].id = id
  BY DEF BanksOf
<1> DEFINE P == PlacesOf(st, id)
<1>2. P = {k}
  BY <1>1 DEF PlacesOf, Once
<1>3. P \in SUBSET Nat /\ IsFiniteSet(P)
  BY PlacesAreNumbers
<1>4. Found(st, id) = [i \in DOMAIN Ascending(P) |-> st[Ascending(P)[i]]]
  BY DEF Found, PlacesOf
<1> HIDE DEF P
<1>5. Cardinality(P) = 1
  BY <1>2, FS_Singleton
<1>6. Ascending(P) = [i \in 1..1 |-> k]
  BY <1>2, <1>3, <1>5, AscendingAlone
<1>7. Found(st, id) = [i \in 1..1 |-> st[k]]
  BY <1>4, <1>6
<1>8. st[k] \in AStructure
  BY SeqIsFunction
<1> QED BY <1>1, <1>7, <1>8

OnceEach(evs) == \A e \in DOMAIN evs : Once(evs[e].structures)

LEMMA NothingFound ==
  ASSUME NEW evs \in Seq(AnEvent), NEW id, NEW e \in 1..Len(evs),
         id \notin BanksOf(evs[e].structures)
  PROVE  Len(DataOf(evs, id, e)) = 0
<1> DEFINE found == Found(evs[e].structures, id)
           none == [k \in 1..0 |-> found[k].data]
           c == [i \in 1..0 |-> Len(none[i])]
<1>1. Len(found) = 0 /\ DOMAIN found = 1..0
  <2>1. found = << >>
    BY EventsShape, FoundIs
  <2> QED BY <2>1
<1>2. DataOf(evs, id, e) = FlattenSeq(none)
  BY <1>1 DEF DataOf
<1>3. none \in [1..0 -> Seq(Cell)] /\ c = [i \in 1..0 |-> Len(none[i])] /\ c \in [1..0 -> Nat]
  OBVIOUS
<1> HIDE DEF none, c
<1>4. PICK f : IsTotal(f, c, 0)
  BY <1>3, TotalExists
<1>5. Places(FlattenSeq(none), none, f, 0, Cell)
  BY <1>3, <1>4, Flattened
<1>6. f[1] = 0
  BY <1>3, <1>4, TotalSteps
<1> QED BY <1>2, <1>5, <1>6 DEF Places

(* Then the block of an event in the bytes of a bank is its own data.      *)
LEMMA BlockIsData ==
  ASSUME NEW evs \in Seq(AnEvent), OnceEach(evs), NEW id, NEW e \in 1..Len(evs)
  PROVE  LET w == WalkBank(evs, id)  found == Found(evs[e].structures, id) IN
         /\ w.sizes[e] = Len(DataOf(evs, id, e))
         /\ BlockOf(w, e) = DataOf(evs, id, e)
         /\ id \in BanksOf(evs[e].structures) =>
              /\ Len(found) = 1 /\ found[1].data \in Seq(Cell)
              /\ BlockOf(w, e) = found[1].data /\ w.sizes[e] = Len(found[1].data)
<1> DEFINE w == WalkBank(evs, id)
           n == Len(evs)
           data == [d \in 1..n |-> DataOf(evs, id, d)]
           lens == [d \in 1..n |-> Len(DataOf(evs, id, d))]
           Is(d) == w.sizes[d] = Len(DataOf(evs, id, d))
<1>1. n \in Nat /\ DOMAIN evs = 1..n /\ \A d \in 1..n : evs[d].structures \in Seq(AStructure)
  BY EventsShape
<1>2. /\ w.bytes \in Seq(Cell) /\ w.sizes \in [1..n -> Nat]
      /\ \A d \in 1..n : /\ w.sizes[d] <= Len(DataOf(evs, id, d))
                         /\ Len(Found(evs[d].structures, id)) = 1 => Is(d)
  BY BankBytes
<1>3. PICK f : IsTotal(f, lens, n) /\ Places(w.bytes, data, f, n, Cell)
  BY BankBytes
<1>4. \A d \in 1..n : DataOf(evs, id, d) \in Seq(Cell) /\ Len(DataOf(evs, id, d)) \in Nat
  BY DataIs
<1>5. ASSUME NEW d \in 1..n PROVE Is(d)
  <2>1. CASE id \in BanksOf(evs[d].structures)
    <3>1. Len(Found(evs[d].structures, id)) = 1
      BY <1>1, <2>1, FoundOnce DEF OnceEach
    <3> QED BY <1>2, <3>1
  <2>2. CASE id \notin BanksOf(evs[d].structures)
    <3>1. Len(DataOf(evs, id, d)) = 0
      BY <2>2, NothingFound
    <3> HIDE DEF w
    <3>2. w.sizes[d] \in Nat /\ w.sizes[d] <= 0
      BY <1>2, <3>1
    <3> QED BY <3>1, <3>2
  <2> QED BY <2>1, <2>2
<1>6. /\ BlockOf(w, e) \in Seq(Cell) /\ Len(BlockOf(w, e)) = w.sizes[e]
      /\ \A j \in 1..w.sizes[e] : BlockOf(w, e)[j] = w.bytes[SumBefore(w.sizes, e) + j]
  BY BlockIs
<1>7. \A d \in 1..n : data[d] = DataOf(evs, id, d) /\ lens[d] = Len(DataOf(evs, id, d))
  OBVIOUS
<1>8. lens \in [1..n -> Nat]
  BY <1>4
<1>9. e \in 1..n /\ e \in 1..n + 1
  BY <1>1
<1> HIDE DEF w, n, data, lens
<1>10. SumBefore(w.sizes, e) = f[e]
  <2> DEFINE s == w.sizes
             g == Totals(s)
  <2>1. IsTotal(g, s, n) /\ s \in [1..n -> Nat]
    BY <1>1, <1>2, TotalsAre
  <2>2. \A d \in 1..n : s[d] = lens[d]
    BY <1>5, <1>7
  <2> HIDE DEF g, s
  <2>3. \A d \in 1..n : s[d] <= lens[d] /\ lens[d] <= s[d]
    BY <1>8, <2>1, <2>2
  <2>4. g[e] <= f[e] /\ f[e] <= g[e]
    BY <1>1, <1>3, <1>8, <1>9, <2>1, <2>3, TotalsLess
  <2>5. g[e] \in Nat /\ f[e] \in Nat
    BY <1>1, <1>3, <1>8, <1>9, <2>1, TotalSteps
  <2>6. g[e] = f[e]
    BY <2>4, <2>5
  <2> QED BY <2>6 DEF SumBefore, g, s
<1>11. \A j \in 1..Len(data[e]) : w.bytes[f[e] + j] = data[e][j]
  BY <1>3, <1>9 DEF Places
<1>12. BlockOf(w, e) = DataOf(evs, id, e)
  <2> DEFINE block == BlockOf(w, e)
             own == DataOf(evs, id, e)
  <2>1. block \in Seq(Cell) /\ own \in Seq(Cell) /\ Len(block) = Len(own)
    BY <1>4, <1>5, <1>6, <1>9
  <2>2. \A j \in 1..Len(block) : block[j] = own[j]
    BY <1>5, <1>6, <1>7, <1>9, <1>10, <1>11
  <2> HIDE DEF block, own
  <2>3. block = own
    BY <2>1, <2>2, SameSeq
  <2> QED BY <2>3 DEF block, own
<1>13. ASSUME id \in BanksOf(evs[e].structures)
       PROVE  /\ Len(Found(evs[e].structures, id)) = 1
              /\ Found(evs[e].structures, id)[1].data \in Seq(Cell)
              /\ DataOf(evs, id, e) = Found(evs[e].structures, id)[1].data
  <2>1. Len(Found(evs[e].structures, id)) = 1 /\ Found(evs[e].structures, id)[1] \in AStructure
    BY <1>1, <1>9, <1>13, FoundOnce DEF OnceEach
  <2>2. DataOf(evs, id, e) = Found(evs[e].structures, id)[1].data
    BY <2>1, DataIs
  <2> QED BY <2>1, <2>2 DEF AStructure
<1> QED BY <1>5, <1>9, <1>12, <1>13 DEF w

(* The banks an event has, in the order of the directory.                  *)
BanksHere(evs, rec, e) ==
  LET here == Ascending(Here(rec, e))
      ids == Ascending(BanksOf(evs[e].structures))
  IN /\ Len(here) = Len(ids) /\ Len(ids) \in Nat
     /\ DOMAIN here = 1..Len(ids) /\ DOMAIN ids = 1..Len(ids)
     /\ \A k \in 1..Len(ids) :
          /\ ids[k] \in BanksOf(evs[e].structures)
          /\ here[k] \in DOMAIN rec.banks /\ e \in rec.banks[here[k]].present
          /\ rec.banks[here[k]].id = ids[k]

LEMMA BanksOfEvent ==
  ASSUME NEW evs \in Seq(AnEvent), NEW lay, NEW rec, RecordIs(rec, evs, lay), NEW e \in DOMAIN evs
  PROVE  BanksHere(evs, rec, e)
<1> DEFINE here == Ascending(Here(rec, e))
           st == evs[e].structures
           S == BanksOf(st)
           ids == Ascending(S)
           n == Len(here)
           m == Len(ids)
           names == [k \in 1..n |-> rec.banks[here[k]].id]
           all == Descriptors(evs)
<1>1. /\ n \in Nat /\ DOMAIN here = 1..n
      /\ \A k \in 1..n : here[k] \in Here(rec, e)
      /\ \A j, k \in 1..n : j < k => here[j] < here[k]
      /\ \A b \in Here(rec, e) : \E k \in 1..n : here[k] = b
  BY HereIs
<1>2. st \in Seq(AStructure) /\ e \in 1..Len(evs)
  BY EventsShape
<1>3. IsFiniteSet(S) /\ S \in SUBSET Nat
  BY <1>2, BanksFinite
<1>4. Lists(ids, m, S) /\ m \in Nat /\ DOMAIN ids = 1..m
  <2> HIDE DEF S
  <2> QED BY <1>3, AscendingIs DEF Lists
<1>5. /\ DOMAIN rec.banks = DOMAIN all
      /\ \A b \in DOMAIN rec.banks :
           /\ rec.banks[b].id = all[b]
           /\ e \in rec.banks[b].present <=> rec.banks[b].id \in S
  BY BanksAre
<1>6. /\ DOMAIN all = 1..Len(all) /\ Len(all) \in Nat
      /\ \A x \in 1..Len(all) : all[x] \in Nat
      /\ \A x, y \in 1..Len(all) : x < y => all[x] < all[y]
      /\ \A id \in S : \E b \in 1..Len(all) : all[b] = id
  BY DescriptorsAre DEF AllBanks
<1> HIDE DEF here, n, all, S, m, ids
<1>7. \A k \in 1..n : /\ here[k] \in 1..Len(all) /\ here[k] \in DOMAIN rec.banks
                      /\ e \in rec.banks[here[k]].present
                      /\ names[k] = all[here[k]] /\ names[k] \in S
  BY <1>1, <1>5, <1>6 DEF Here
<1>8. Lists(names, n, S)
  <2>1. names \in [1..n -> S]
    BY <1>7
  <2>2. \A i, j \in 1..n : i < j => names[i] < names[j]
    BY <1>1, <1>6, <1>7
  <2>3. ASSUME NEW x \in S PROVE \E i \in 1..n : names[i] = x
    <3>1. PICK b \in 1..Len(all) : all[b] = x
      BY <1>6
    <3>2. b \in Here(rec, e)
      BY <1>5, <1>6, <3>1 DEF Here
    <3>3. PICK k \in 1..n : here[k] = b
      BY <1>1, <3>2
    <3> QED BY <1>7, <3>1, <3>3
  <2> QED BY <2>1, <2>2, <2>3 DEF Lists
<1> HIDE DEF names
<1>9. n = m /\ names = ids
  BY <1>1, <1>3, <1>4, <1>8, ListsSame
<1>10. \A k \in 1..m : ids[k] \in S
  BY <1>4 DEF Lists
<1>11. \A k \in 1..n : rec.banks[here[k]].id = names[k]
  BY DEF names
<1> QED BY <1>1, <1>4, <1>7, <1>9, <1>10, <1>11 DEF n, here, m, ids, S, st, BanksHere

-----------------------------------------------------------------------------
(***************************************************************************)
(* The header sizes, and the damage: a directory of the length it was      *)
(* written has every header size, another has them or none, and one stream *)
(* at most is damaged.                                                     *)
(***************************************************************************)
HeadersOf(rec, evs, whole) ==
  \/ \A b \in DOMAIN rec.banks :
       rec.banks[b].header_size = WalkBank(evs, rec.banks[b].id).header_size
  \/ ~whole /\ \A b \in DOMAIN rec.banks : rec.banks[b].header_size = 0

DamagedIn(rec) == {s \in StreamsOf(rec) : rec.banks[s[1]].streams[s[2]].damage # "none"}

HInv == phase # "new" => HeadersOf(record, events, DirectoryIntact) /\ OneAtMost(DamagedIn(record))

LEMMA StreamCount ==
  ASSUME NEW w, NEW lay, NEW bank, BankIs(bank, w, lay)
  PROVE  Len(bank.streams) \in Nat /\ DOMAIN bank.streams = 1..Len(bank.streams)
<1>1. PICK m \in Nat : DOMAIN bank.streams = 1..m
  BY StreamsAre
<1> DEFINE st == bank.streams
<1>2. st = [c \in 1..m |-> st[c]]
  <2>1. st = [c \in StreamNumbers(w, lay) |-> st[c]]
    BY DEF BankIs
  <2> HIDE DEF st
  <2>2. DOMAIN st = StreamNumbers(w, lay)
    BY <2>1
  <2>3. DOMAIN st = 1..m
    BY <1>1 DEF st
  <2> QED BY <2>1, <2>2, <2>3
<1> HIDE DEF st
<1>3. Len(st) = m
  BY <1>2
<1> QED BY <1>1, <1>3 DEF st

(* Two records with as many events, banks and streams have one directory.  *)
LEMMA SameDirectory ==
  ASSUME NEW evs \in Seq(AnEvent), NEW lay, NEW rec, NEW new,
         RecordIs(rec, evs, lay), RecordIs(new, evs, lay),
         \A b \in DOMAIN rec.banks : DOMAIN new.banks[b].streams = DOMAIN rec.banks[b].streams
  PROVE  DirectoryOf(new) = DirectoryOf(rec)
<1>1. /\ Len(rec.banks) \in Nat /\ DOMAIN rec.banks = 1..Len(rec.banks)
      /\ Len(new.banks) \in Nat /\ DOMAIN new.banks = 1..Len(new.banks)
      /\ DOMAIN rec.banks = DOMAIN new.banks
      /\ Len(rec.event_tags) = Len(new.event_tags)
      /\ \A b \in DOMAIN rec.banks : BankIs(rec.banks[b], WalkBank(evs, Descriptors(evs)[b]), lay)
      /\ \A b \in DOMAIN new.banks : BankIs(new.banks[b], WalkBank(evs, Descriptors(evs)[b]), lay)
  BY BanksAre
<1>2. ASSUME NEW m \in Nat, NEW n \in Nat, 1..m = 1..n
      PROVE  m = n
  <2>1. m \in 1..m \/ m = 0
    OBVIOUS
  <2>2. n \in 1..n \/ n = 0
    OBVIOUS
  <2> QED BY <1>2, <2>1, <2>2
<1>3. Len(rec.banks) = Len(new.banks)
  BY <1>1, <1>2
<1>4. ASSUME NEW b \in DOMAIN rec.banks
      PROVE  Len(new.banks[b].streams) = Len(rec.banks[b].streams)
  <2>1. /\ Len(rec.banks[b].streams) \in Nat
        /\ DOMAIN rec.banks[b].streams = 1..Len(rec.banks[b].streams)
    BY <1>1, StreamCount
  <2>2. /\ Len(new.banks[b].streams) \in Nat
        /\ DOMAIN new.banks[b].streams = 1..Len(new.banks[b].streams)
    BY <1>1, StreamCount
  <2> QED BY <1>2, <2>1, <2>2
<1> DEFINE l == [b \in DOMAIN rec.banks |-> Len(rec.banks[b].streams)]
           k == [b \in DOMAIN new.banks |-> Len(new.banks[b].streams)]
<1>5. l = k
  BY <1>1, <1>4
<1> QED BY <1>1, <1>3, <1>5 DEF DirectoryOf

LEMMA BuiltHeaders ==
  ASSUME NEW evs \in Seq(AnEvent), NEW lay \in {"by_bank", "per_column"}, NEW enc,
         NEW smaller, NEW checksum
  PROVE  LET rec == BuildRecord(evs, lay, enc, smaller, checksum) IN
         \A b \in DOMAIN rec.banks :
           rec.banks[b].header_size = WalkBank(evs, rec.banks[b].id).header_size
<1> DEFINE rec == BuildRecord(evs, lay, enc, smaller, checksum)
           ids == Descriptors(evs)
           made(b) == IF lay = "per_column"
                      THEN PerColumnBank(WalkBank(evs, ids[b]), enc, smaller, checksum)
                      ELSE ByBankBank(WalkBank(evs, ids[b]))
<1>1. DOMAIN rec.banks = DOMAIN ids /\ \A b \in DOMAIN ids : rec.banks[b] = made(b)
  BY DEF BuildRecord
<1>2. ASSUME NEW b \in DOMAIN ids
      PROVE  made(b).header_size = WalkBank(evs, made(b).id).header_size
  <2> DEFINE w == WalkBank(evs, ids[b])
  <2>1. w.id = ids[b]
    BY WalkBankIs
  <2>2. made(b) = IF lay = "per_column" THEN PerColumnBank(w, enc, smaller, checksum) ELSE ByBankBank(w)
    OBVIOUS
  <2> HIDE DEF w, made
  <2>3. made(b).id = w.id /\ made(b).header_size = w.header_size
    BY <2>2 DEF PerColumnBank, ByBankBank
  <2> QED BY <2>1, <2>3 DEF w
<1> HIDE DEF rec, made
<1> QED BY <1>1, <1>2 DEF rec

LEMMA HInvBuild ==
  ASSUME SInv, NEW smaller \in BOOLEAN, NEW checksum \in {0, 1}, Build(smaller, checksum)
  PROVE  HInv'
<1>1. /\ record' = BuildRecord(events, layout, encodings, smaller, checksum)
      /\ UNCHANGED <<layout, encodings, events>>
  BY DEF Build
<1>2. /\ Kept /\ layout \in {"by_bank", "per_column"} /\ encodings \in BOOLEAN
      /\ (encodings => layout = "per_column") /\ events \in Seq(AnEvent)
  BY SplitReadsAssumption, InputsAre DEF SInv, Kept
<1>3. HeadersOf(record', events, TRUE)
  BY <1>1, <1>2, BuiltHeaders DEF HeadersOf
<1>4. \A b \in DOMAIN record'.banks : \A c \in DOMAIN record'.banks[b].streams :
        record'.banks[b].streams[c].damage = "none"
  BY <1>1, <1>2, BuiltIs
<1>5. DamagedIn(record') = {}
  BY <1>4 DEF DamagedIn, StreamsOf
<1>6. HeadersOf(record', events', DirectoryIntact')
  BY <1>1, <1>3 DEF HeadersOf
<1>7. OneAtMost(DamagedIn(record'))
  BY <1>5 DEF OneAtMost
<1> QED BY <1>6, <1>7 DEF HInv

LEMMA HInvDamage ==
  ASSUME SInv, HInv, NEW s \in StreamsOf(record), NEW how \in {"garbled", "undecodable"},
         Damage(s[1], s[2], how)
  PROVE  HInv'
<1> DEFINE b == s[1]
           c == s[2]
           new == [record EXCEPT !.banks[b].streams[c].damage = how]
<1>1. /\ phase = "stored" /\ Undamaged /\ record' = new
      /\ UNCHANGED <<layout, encodings, events, declared>>
  BY DEF Damage
<1>2. b \in DOMAIN record.banks /\ c \in DOMAIN record.banks[b].streams /\ s = <<b, c>>
  BY DEF StreamsOf
<1>3. RecordIs(record, events, layout) /\ events \in Seq(AnEvent)
  BY <1>1, InputsAre DEF SInv, Kept
<1>4. RecordIs(new, events, layout)
  BY <1>2, <1>3, DamagedIs
<1> DEFINE bank == [record.banks[b] EXCEPT !.streams = [record.banks[b].streams EXCEPT ![c].damage = how]]
<1>5. /\ record = [event_tags |-> record.event_tags, banks |-> record.banks]
      /\ record.banks = [x \in DOMAIN record.banks |-> record.banks[x]]
      /\ BankIs(record.banks[b], WalkBank(events, Descriptors(events)[b]), layout)
  BY <1>2, <1>3 DEF RecordIs
<1>6. new.banks = [record.banks EXCEPT ![b] = bank]
  BY <1>5
<1>7. /\ bank.header_size = record.banks[b].header_size /\ bank.id = record.banks[b].id
      /\ bank.streams = [record.banks[b].streams EXCEPT ![c].damage = how]
  <2> DEFINE old == record.banks[b]
             w == WalkBank(events, Descriptors(events)[b])
             streams == [old.streams EXCEPT ![c].damage = how]
  <2>1. BankIs(old, w, layout)
    BY <1>5
  <2> HIDE DEF old, w, streams
  <2>2. [old EXCEPT !.streams = streams].header_size = old.header_size
        /\ [old EXCEPT !.streams = streams].id = old.id
        /\ [old EXCEPT !.streams = streams].streams = streams
    BY <2>1 DEF BankIs
  <2> QED BY <2>2 DEF old, streams
<1> HIDE DEF bank, new
<1>8. ASSUME NEW x \in DOMAIN record.banks
      PROVE  /\ new.banks[x].header_size = record.banks[x].header_size
             /\ new.banks[x].id = record.banks[x].id
             /\ DOMAIN new.banks[x].streams = DOMAIN record.banks[x].streams
             /\ \A d \in DOMAIN record.banks[x].streams :
                  <<x, d>> # s => new.banks[x].streams[d] = record.banks[x].streams[d]
  <2>1. CASE x = b
    BY <1>2, <1>6, <1>7, <2>1
  <2>2. CASE x # b
    BY <1>6, <2>2
  <2> QED BY <2>1, <2>2
<1>9. DOMAIN new.banks = DOMAIN record.banks
  BY <1>6
<1>10. DirectoryOf(new) = DirectoryOf(record)
  BY <1>3, <1>4, <1>8, SameDirectory
<1>11. DirectoryIntact' = DirectoryIntact
  BY <1>1, <1>10 DEF DirectoryIntact, DirectoryOf
<1>12. HeadersOf(new, events, DirectoryIntact)
  BY <1>1, <1>8, <1>9 DEF HInv, HeadersOf
<1>13. DamagedIn(new) \subseteq {s}
  <2> SUFFICES ASSUME NEW x \in DamagedIn(new) PROVE x = s
    OBVIOUS
  <2>1. PICK y \in DOMAIN new.banks : x \in {y} \X DOMAIN new.banks[y].streams
    BY DEF DamagedIn, StreamsOf
  <2>2. /\ x = <<y, x[2]>> /\ y \in DOMAIN record.banks /\ x[2] \in DOMAIN record.banks[y].streams
        /\ x[1] = y
    BY <1>8, <1>9, <2>1
  <2>3. new.banks[y].streams[x[2]].damage # "none"
    BY <2>2 DEF DamagedIn
  <2>4. x \in StreamsOf(record)
    BY <2>2 DEF StreamsOf
  <2>5. record.banks[y].streams[x[2]].damage = "none"
    BY <1>1, <2>2, <2>4 DEF Undamaged, StreamAt
  <2> QED BY <1>8, <2>2, <2>3, <2>5
<1>14. HeadersOf(record', events', DirectoryIntact')
  BY <1>1, <1>11, <1>12
<1> QED BY <1>1, <1>13, <1>14 DEF HInv, OneAtMost

LEMMA HInvDamageLength ==
  ASSUME HInv, NEW len, DamageLength(len)
  PROVE  HInv'
<1>1. /\ phase = "stored" /\ Undamaged /\ len # declared /\ declared' = len
      /\ UNCHANGED <<layout, encodings, events, phase, record>>
  BY DEF DamageLength
<1>2. DirectoryOf(record)' = DirectoryOf(record)
  BY <1>1 DEF DirectoryOf
<1>3. DirectoryIntact /\ ~DirectoryIntact'
  BY <1>1, <1>2 DEF Undamaged, DirectoryIntact
<1>4. HeadersOf(record, events, TRUE) /\ OneAtMost(DamagedIn(record))
  BY <1>1, <1>3 DEF HInv
<1>5. HeadersOf(record', events', DirectoryIntact')
  BY <1>1, <1>4 DEF HeadersOf
<1> QED BY <1>1, <1>4, <1>5 DEF HInv

LEMMA HInvParse ==
  ASSUME SInv, HInv, Parse
  PROVE  HInv'
<1>1. /\ phase = "stored"
      /\ UNCHANGED <<layout, encodings, events, declared>>
      /\ record' = Parsed \/ record' = record
  BY DEF Parse
<1>2. /\ RecordIs(record, events, layout) /\ events \in Seq(AnEvent)
      /\ layout \in Layouts /\ encodings \in BOOLEAN
  BY <1>1, InputsAre DEF SInv, Kept
<1>3. CASE record' = record
  <2>1. DirectoryIntact' = DirectoryIntact
    BY <1>1, <1>3 DEF DirectoryIntact, DirectoryOf
  <2> QED BY <1>1, <1>3, <2>1 DEF HInv
<1>4. CASE record' = Parsed /\ record' # record
  <2> DEFINE d == DirectoryOf(record)
             new == [record EXCEPT !.banks = [b \in DOMAIN record.banks |->
                                                [record.banks[b] EXCEPT !.header_size = 0]]]
  <2>1. record' = new /\ ~HasHeaderSizes(d, Inflated)
    BY <1>4 DEF Parsed
  <2>2. ~DirectoryIntact
    <3> SUFFICES ASSUME DirectoryIntact PROVE FALSE
      OBVIOUS
    <3>1. d \in Directory /\ WrittenLen(d) \in Nat
      BY <1>2, DirectoryIs
    <3>2. Inflated = WrittenLen(d)
      BY <3>1 DEF Inflated, InflatedLen, DirectoryIntact
    <3> HIDE DEF d
    <3>3. /\ HeaderSizesAt(d) = BaseLen(d) + StreamTableLen(d)
          /\ BaseLen(d) \in Nat /\ StreamTableLen(d) \in Nat
      BY <3>1, Offsets
    <3>4. d.num_banks \in Nat /\ d.num_streams \in Nat
      BY <3>1 DEF Directory
    <3>5. WrittenLen(d) >= HeaderSizesAt(d) + d.num_banks
      BY <3>3, <3>4 DEF WrittenLen
    <3> QED BY <2>1, <3>2, <3>5 DEF HasHeaderSizes
  <2>3. RecordIs(new, events, layout) /\ StreamsOf(new) = StreamsOf(record)
    BY <1>2, <1>4, <2>1, ParsedIs
  <2>4. /\ record = [event_tags |-> record.event_tags, banks |-> record.banks]
        /\ \A b \in DOMAIN record.banks : BankIs(record.banks[b], WalkBank(events, Descriptors(events)[b]), layout)
    BY <1>2 DEF RecordIs
  <2>5. new.banks = [b \in DOMAIN record.banks |-> [record.banks[b] EXCEPT !.header_size = 0]]
    BY <2>4
  <2>6. ASSUME NEW b \in DOMAIN record.banks
        PROVE  /\ new.banks[b].header_size = 0
               /\ new.banks[b].streams = record.banks[b].streams
    <3> DEFINE old == record.banks[b]
               w == WalkBank(events, Descriptors(events)[b])
    <3>1. BankIs(old, w, layout) /\ new.banks[b] = [old EXCEPT !.header_size = 0]
      BY <2>4, <2>5
    <3> HIDE DEF old, w, new
    <3>2. [old EXCEPT !.header_size = 0].header_size = 0
          /\ [old EXCEPT !.header_size = 0].streams = old.streams
      BY <3>1 DEF BankIs
    <3> QED BY <3>1, <3>2 DEF old
  <2>7. DOMAIN new.banks = DOMAIN record.banks
    BY <2>5
  <2> HIDE DEF new, d
  <2>8. DirectoryOf(new) = DirectoryOf(record)
    BY <1>2, <2>3, <2>6, SameDirectory
  <2>9. ~DirectoryIntact'
    <3>1. DirectoryOf(record)' = DirectoryOf(new)
      BY <1>1, <2>1 DEF DirectoryOf
    <3> QED BY <1>1, <2>2, <2>8, <3>1 DEF DirectoryIntact
  <2>10. HeadersOf(record', events', DirectoryIntact')
    BY <2>1, <2>6, <2>7, <2>9 DEF HeadersOf
  <2>11. DamagedIn(new) = DamagedIn(record)
    <3>1. \A s \in StreamsOf(record) : s[1] \in DOMAIN record.banks
      BY DEF StreamsOf
    <3> QED BY <2>3, <2>6, <3>1 DEF DamagedIn
  <2> QED BY <1>1, <2>1, <2>10, <2>11 DEF HInv
<1> QED BY <1>1, <1>3, <1>4

LEMMA HInvNext == SInv /\ HInv /\ [Next]_vars => HInv'
<1> SUFFICES ASSUME SInv, HInv, [Next]_vars PROVE HInv'
  OBVIOUS
<1>1. CASE \E smaller \in BOOLEAN, checksum \in {0, 1} : Build(smaller, checksum)
  BY <1>1, HInvBuild
<1>2. CASE \E s \in StreamsOf(record), how \in {"garbled", "undecodable"} : Damage(s[1], s[2], how)
  BY <1>2, HInvDamage
<1>3. CASE \E len : DamageLength(len)
  BY <1>3, HInvDamageLength
<1>4. CASE Parse
  BY <1>4, HInvParse
<1>5. CASE UNCHANGED stored
  <2>1. UNCHANGED <<layout, encodings, events, phase, declared, record>>
    BY <1>5 DEF stored
  <2>2. DirectoryIntact' = DirectoryIntact
    BY <2>1 DEF DirectoryIntact, DirectoryOf
  <2> QED BY <2>1, <2>2 DEF HInv
<1>6. CASE UNCHANGED vars
  BY <1>5, <1>6 DEF vars, stored
<1>7. CASE \E t \in Threads, r \in Reads : Begin(t, r)
  BY <1>5, <1>7 DEF Begin
<1>8. ASSUME NEW t \in Threads, Hit(t) \/ Miss(t) \/ InflateStream(t) \/ Set(t) \/ Answer(t) \/ Drop(t)
      PROVE  UNCHANGED stored
  BY <1>8 DEF Hit, Miss, InflateStream, Set, Answer, Drop
<1> QED BY <1>1, <1>2, <1>3, <1>4, <1>5, <1>6, <1>7, <1>8 DEF Next

LEMMA HInvAlways == Spec => [](IInv /\ SInv /\ HInv)
<1>1. Init => HInv
  BY DEF Init, HInv
<1>2. SInv /\ HInv /\ [Next]_vars => HInv'
  BY HInvNext
<1> QED BY <1>1, <1>2, SInvAlways, PTL DEF Spec

-----------------------------------------------------------------------------
(***************************************************************************)
(* The header size of a bank that the events agree on.                     *)
(***************************************************************************)
Agree(evs) ==
  \A d, e \in DOMAIN evs :
    \A j \in DOMAIN evs[d].structures, k \in DOMAIN evs[e].structures :
      evs[d].structures[j].id = evs[e].structures[k].id =>
        evs[d].structures[j].header_size = evs[e].structures[k].header_size

LEMMA HeaderIs ==
  ASSUME NEW evs \in Seq(AnEvent), Agree(evs), NEW e \in DOMAIN evs, NEW k \in DOMAIN evs[e].structures
  PROVE  WalkBank(evs, evs[e].structures[k].id).header_size = evs[e].structures[k].header_size
<1> DEFINE id == evs[e].structures[k].id
           h == evs[e].structures[k].header_size
           n == Len(evs)
           found == [d \in DOMAIN evs |-> Found(evs[d].structures, id)]
           present == {d \in DOMAIN evs : found[d] # << >>}
           all == UNION {{found[d][i].header_size : i \in DOMAIN found[d]} : d \in present}
<1>1. n \in Nat /\ DOMAIN evs = 1..n /\ \A d \in 1..n : evs[d].structures \in Seq(AStructure)
  BY EventsShape
<1>2. WalkBank(evs, id).header_size = Max(all)
  BY DEF WalkBank
<1>3. \A d \in 1..n :
        /\ found[d] = Found(evs[d].structures, id)
        /\ DOMAIN found[d] = 1..Len(found[d]) /\ Len(found[d]) \in Nat
        /\ found[d] # << >> <=> id \in BanksOf(evs[d].structures)
        /\ \A i \in 1..Len(found[d]) :
             \E j \in DOMAIN evs[d].structures :
               found[d][i] = evs[d].structures[j] /\ evs[d].structures[j].id = id
  <2> SUFFICES ASSUME NEW d \in 1..n
               PROVE  LET f == Found(evs[d].structures, id) IN
                      /\ DOMAIN f = 1..Len(f) /\ Len(f) \in Nat
                      /\ f # << >> <=> id \in BanksOf(evs[d].structures)
                      /\ \A i \in 1..Len(f) :
                           \E j \in DOMAIN evs[d].structures :
                             f[i] = evs[d].structures[j] /\ evs[d].structures[j].id = id
    <3> HIDE DEF id
    <3> QED BY <1>1
  <2>1. evs[d].structures \in Seq(AStructure)
    BY <1>1
  <2> HIDE DEF id
  <2> QED BY <2>1, FoundIs
<1>4. h \in Nat
  <2>1. evs[e].structures[k] \in AStructure
    BY <1>1, SeqIsFunction
  <2> QED BY <2>1 DEF AStructure
<1> HIDE DEF found
<1>5. \A x \in all : x = h
  <2> SUFFICES ASSUME NEW d \in present, NEW i \in DOMAIN found[d]
               PROVE  found[d][i].header_size = h
    OBVIOUS
  <2>1. d \in 1..n /\ i \in 1..Len(found[d])
    BY <1>1, <1>3
  <2>2. PICK j \in DOMAIN evs[d].structures :
          found[d][i] = evs[d].structures[j] /\ evs[d].structures[j].id = id
    BY <1>3, <2>1
  <2>3. d \in DOMAIN evs /\ evs[d].structures[j].id = evs[e].structures[k].id
    BY <1>1, <2>1, <2>2
  <2>4. evs[d].structures[j].header_size = evs[e].structures[k].header_size
    BY <2>3, Zenon DEF Agree
  <2> QED BY <2>2, <2>4
<1>6. h \in all
  <2>1. id \in BanksOf(evs[e].structures) /\ e \in 1..n
    BY <1>1 DEF BanksOf
  <2>2. e \in present /\ found[e] # << >>
    BY <1>3, <2>1
  <2>3. 1 \in DOMAIN found[e]
    <3>1. Len(found[e]) # 0
      <4>1. PICK i \in DOMAIN evs[e].structures : evs[e].structures[i].id = id
        BY <2>1
      <4>2. found[e] \in Seq(AStructure)
        BY <1>1, <1>3, <2>1, FoundIs
      <4> QED BY <2>2, <4>2
    <3> QED BY <1>3, <2>1, <3>1
  <2>4. found[e][1].header_size \in all
    BY <2>2, <2>3
  <2> QED BY <1>5, <2>4
<1> HIDE DEF all, h
<1>7. all = {h}
  BY <1>5, <1>6
<1>8. Max({h}) = h
  BY <1>4 DEF Max
<1> QED BY <1>2, <1>7, <1>8 DEF h

-----------------------------------------------------------------------------
(***************************************************************************)
(* An event read as a whole, bank by bank.                                 *)
(***************************************************************************)
(* What is read of a bank, and what was written: the structure want.       *)
KeepsShape(read, want, whole) ==
  /\ read.id = want.id
  /\ read.header_size = want.header_size \/ (~whole /\ read.header_size = 0)
  /\ Len(read.data) = Len(want.data)
  /\ \A p \in DOMAIN want.data : read.data[p] = want.data[p] \/ read.data[p] \in {Zero, Garbage}

BankRead(rec, b, e, has) ==
  [id |-> rec.banks[b].id, header_size |-> rec.banks[b].header_size,
   data |-> EventData(rec.banks[b], b, e, has)]

LEMMA BankReadIs ==
  ASSUME NEW evs \in Seq(AnEvent), OnceEach(evs), Agree(evs),
         NEW lay, NEW rec, RecordIs(rec, evs, lay), NEW whole, HeadersOf(rec, evs, whole),
         NEW e \in DOMAIN evs, NEW b \in DOMAIN rec.banks, e \in rec.banks[b].present,
         NEW has,
         NeededRemain(evs, lay, rec, e, has, b)
  PROVE  LET want == Found(evs[e].structures, rec.banks[b].id)[1] IN
         /\ want \in AStructure
         /\ KeepsShape(BankRead(rec, b, e, has), want, whole)
         /\ Untouched(evs, lay, rec, e, has, b) =>
              EventData(rec.banks[b], b, e, has) = want.data
<1> DEFINE id == rec.banks[b].id
           st == evs[e].structures
           w == WalkBank(evs, id)
           want == Found(st, id)[1]
           data == EventData(rec.banks[b], b, e, has)
           S == Cell \cup {Zero, Garbage}
<1>1. e \in 1..Len(evs) /\ st \in Seq(AStructure) /\ Once(st)
  BY EventsShape DEF OnceEach
<1>2. id \in BanksOf(st)
  BY BanksAre
<1>3. want \in AStructure /\ \E k \in DOMAIN st : st[k].id = id /\ want = st[k]
  <2> HIDE DEF id, st
  <2> QED BY <1>1, <1>2, FoundOnce
<1>4. want.id = id /\ want.header_size = w.header_size
  BY <1>3, HeaderIs
<1>5. want.data \in Seq(Cell) /\ w.sizes[e] = Len(want.data) /\ BlockOf(w, e) = want.data
  BY <1>1, <1>2, BlockIsData
<1>6. /\ Len(data) = w.sizes[e] /\ w.sizes[e] \in Nat /\ data \in Seq(S)
      /\ \A p \in 1..w.sizes[e] :
           /\ data[p] \in {BlockOf(w, e)[p], Zero, Garbage}
           /\ Untouched(evs, lay, rec, e, has, b) => data[p] = BlockOf(w, e)[p]
  BY <1>1, EventCells DEF CellsOf
<1>7. rec.banks[b].header_size = w.header_size \/ (~whole /\ rec.banks[b].header_size = 0)
  BY DEF HeadersOf
<1>8. rec.banks[b].sizes = w.sizes
  BY <1>1, SplitBankIs
<1> HIDE DEF want, data, w, id
<1>9. BankRead(rec, b, e, has).id = id /\ BankRead(rec, b, e, has).header_size = rec.banks[b].header_size
      /\ BankRead(rec, b, e, has).data = data
  BY DEF BankRead, data, id
<1>10. KeepsShape(BankRead(rec, b, e, has), want, whole)
  <2>1. \A p \in DOMAIN want.data : data[p] = want.data[p] \/ data[p] \in {Zero, Garbage}
    <3>1. DOMAIN want.data = 1..w.sizes[e]
      BY <1>5
    <3> QED BY <1>5, <1>6, <3>1
  <2> QED BY <1>4, <1>5, <1>6, <1>7, <1>9, <2>1 DEF KeepsShape
<1>11. ASSUME Untouched(evs, lay, rec, e, has, b)
       PROVE  data = want.data
  <2>1. Len(data) = Len(want.data)
    BY <1>5, <1>6
  <2>2. \A p \in 1..Len(data) : data[p] = want.data[p]
    <3> SUFFICES ASSUME NEW p \in 1..w.sizes[e] PROVE data[p] = want.data[p]
      BY <1>6
    <3> QED BY <1>5, <1>6, <1>11
  <2>3. want.data \in Seq(S)
    <3>1. Cell \subseteq S
      OBVIOUS
    <3> HIDE DEF S
    <3> QED BY <1>5, <3>1
  <2> DEFINE x == want.data
  <2>4. x \in Seq(S) /\ data \in Seq(S) /\ Len(data) = Len(x) /\ \A p \in 1..Len(data) : data[p] = x[p]
    BY <1>6, <2>1, <2>2, <2>3
  <2> HIDE DEF S, x
  <2>5. data = x
    BY <2>4, SameSeq
  <2> QED BY <2>5 DEF x
<1> QED BY <1>3, <1>10, <1>11 DEF want, data, id

(* What a read has of its streams remains of what was written.             *)
RemainIn(evs, lay, rec, has, S) ==
  \A s \in S : Remains(has[s], BytesAt(WalkBank(evs, rec.banks[s[1]].id), lay, s[2]))

(* All the banks of an event: each as it was written, or spoiled in place. *)
EventRead(evs, lay, rec, e, has, whole) ==
  LET event == SynthesizeEvent(rec, e, has)
      here == Ascending(Here(rec, e))
      ids == Ascending(BanksOf(evs[e].structures))
      want(k) == Found(evs[e].structures, ids[k])[1]
  IN /\ event.tag = evs[e].tag
     /\ Len(ids) \in Nat /\ DOMAIN ids = 1..Len(ids)
     /\ event.structures = [k \in 1..Len(ids) |-> BankRead(rec, here[k], e, has)]
     /\ \A k \in 1..Len(ids) :
          /\ here[k] \in DOMAIN rec.banks /\ e \in rec.banks[here[k]].present
          /\ want(k) \in AStructure
          /\ KeepsShape(BankRead(rec, here[k], e, has), want(k), whole)
          /\ Untouched(evs, lay, rec, e, has, here[k]) =>
               EventData(rec.banks[here[k]], here[k], e, has) = want(k).data

LEMMA EventReadIs ==
  ASSUME NEW evs \in Seq(AnEvent), OnceEach(evs), Agree(evs),
         NEW lay, NEW rec, RecordIs(rec, evs, lay), NEW whole, HeadersOf(rec, evs, whole),
         NEW e \in DOMAIN evs, NEW has,
         RemainIn(evs, lay, rec, has, ToSet(EventStreams(rec, e)))
  PROVE  EventRead(evs, lay, rec, e, has, whole)
<1> DEFINE event == SynthesizeEvent(rec, e, has)
           here == Ascending(Here(rec, e))
           st == evs[e].structures
           ids == Ascending(BanksOf(st))
           want(k) == Found(st, ids[k])[1]
<1>1. /\ Len(here) = Len(ids) /\ Len(ids) \in Nat
      /\ DOMAIN here = 1..Len(ids) /\ DOMAIN ids = 1..Len(ids)
      /\ \A k \in 1..Len(ids) : /\ here[k] \in DOMAIN rec.banks /\ e \in rec.banks[here[k]].present
                                /\ rec.banks[here[k]].id = ids[k]
  <2>1. BanksHere(evs, rec, e)
    BY BanksOfEvent
  <2> QED BY <2>1 DEF BanksHere
<1>2. /\ event.tag = rec.event_tags[e]
      /\ event.structures = [k \in 1..Len(ids) |-> BankRead(rec, here[k], e, has)]
  BY <1>1, EventIs DEF BankRead
<1>3. rec.event_tags[e] = evs[e].tag
  BY DEF RecordIs
<1> HIDE DEF event, here, ids, st
<1>4. ASSUME NEW k \in 1..Len(ids)
      PROVE  /\ want(k) \in AStructure
             /\ KeepsShape(BankRead(rec, here[k], e, has), want(k), whole)
             /\ Untouched(evs, lay, rec, e, has, here[k]) =>
                  EventData(rec.banks[here[k]], here[k], e, has) = want(k).data
  <2> DEFINE b == here[k]
  <2>1. b \in DOMAIN rec.banks /\ e \in rec.banks[b].present /\ want(k) = Found(st, rec.banks[b].id)[1]
    BY <1>1
  <2> HIDE DEF b, want
  <2>2. NeededRemain(evs, lay, rec, e, has, b)
    <3> SUFFICES ASSUME rec.banks[b].sizes[e] # 0, NEW c \in DOMAIN rec.banks[b].streams
                 PROVE  Remains(has[<<b, c>>], BytesAt(WalkBank(evs, rec.banks[b].id), lay, c))
      BY DEF NeededRemain
    <3>1. <<b, c>> \in ToSet(EventStreams(rec, e))
      BY <2>1, EventAsks
    <3> QED BY <3>1 DEF RemainIn
  <2>3. /\ Found(st, rec.banks[b].id)[1] \in AStructure
        /\ KeepsShape(BankRead(rec, b, e, has), Found(st, rec.banks[b].id)[1], whole)
        /\ Untouched(evs, lay, rec, e, has, b) =>
             EventData(rec.banks[b], b, e, has) = Found(st, rec.banks[b].id)[1].data
    BY <2>1, <2>2, BankReadIs DEF st
  <2> QED BY <2>1, <2>3 DEF b
<1> QED BY <1>1, <1>2, <1>3, <1>4 DEF event, here, ids, st, EventRead

(* Any stream remains; one that storage has left alone is as written.      *)
LEMMA AnyRemains ==
  ASSUME NEW evs \in Seq(AnEvent), NEW lay, NEW rec, RecordIs(rec, evs, lay),
         NEW s \in StreamsOf(rec)
  PROVE  LET stream == rec.banks[s[1]].streams[s[2]]
             bytes == BytesAt(WalkBank(evs, rec.banks[s[1]].id), lay, s[2])
         IN /\ Remains(BytesIn(rec, lay, s), bytes)
            /\ stream.damage = "none" => BytesIn(rec, lay, s) = bytes
<1> DEFINE b == s[1]
           c == s[2]
           stream == rec.banks[b].streams[c]
           bytes == BytesAt(WalkBank(evs, rec.banks[b].id), lay, c)
<1>1. b \in DOMAIN rec.banks /\ c \in DOMAIN rec.banks[b].streams
  BY DEF StreamsOf
<1>2. bytes \in Seq(Cell) /\ StreamIs(stream, bytes, lay)
  BY <1>1, BytesAre
<1>3. BytesIn(rec, lay, s) = Inflate(stream, lay)
  BY DEF BytesIn
<1> HIDE DEF bytes, stream
<1>4. /\ \/ Inflate(stream, lay) \in {bytes, Failed}
         \/ Inflate(stream, lay) = [p \in 1..Len(bytes) |-> Garbage]
      /\ stream.damage = "none" => Inflate(stream, lay) = bytes
  BY <1>2, InflateIs
<1> QED BY <1>3, <1>4 DEF stream, bytes, b, c, Remains

(* A column that is answered from streams as they were written.            *)
AsWrittenIn(evs, lay, rec, has, S) ==
  \A s \in S : has[s] = BytesAt(WalkBank(evs, rec.banks[s[1]].id), lay, s[2])

ColumnOf(evs, e, id, c) ==
  IF Found(evs[e].structures, id) = << >> THEN NoBank
  ELSE ContiguousColumn(id, Found(evs[e].structures, id)[1].data, c)

LEMMA OpaqueColumn ==
  ASSUME NEW evs \in Seq(AnEvent), OnceEach(evs), NEW lay, NEW rec, RecordIs(rec, evs, lay),
         NEW e \in 1..Len(evs), NEW b \in DOMAIN rec.banks, IsOpaque(rec.banks[b]),
         NEW s, s = BytesAt(WalkBank(evs, rec.banks[b].id), lay, 1)
  PROVE  /\ Fits(s, SumBefore(rec.banks[b].sizes, e), rec.banks[b].sizes[e])
         /\ Slice(s, SumBefore(rec.banks[b].sizes, e), rec.banks[b].sizes[e]) =
              BlockOf(WalkBank(evs, rec.banks[b].id), e)
<1> DEFINE w == WalkBank(evs, rec.banks[b].id)
<1>1. s = w.bytes /\ rec.banks[b].sizes = w.sizes
  BY SplitBankIs
<1>2. s \in Seq(Cell)
  <2>1. w.bytes \in Seq(Cell)
    BY BankBytes
  <2> QED BY <1>1, <2>1
<1>3. SumBefore(w.sizes, e) + w.sizes[e] <= Len(w.bytes)
  BY BlockIs
<1> HIDE DEF w
<1>4. s # Failed
  BY <1>2, CellsAreNot
<1> QED BY <1>1, <1>3, <1>4 DEF Fits, BlockOf, w

LEMMA SplitColumn ==
  ASSUME NEW evs \in Seq(AnEvent), OnceEach(evs), NEW lay, NEW rec, RecordIs(rec, evs, lay),
         NEW e \in 1..Len(evs), NEW b \in DOMAIN rec.banks, ~IsOpaque(rec.banks[b]),
         rec.banks[b].id \in BanksOf(evs[e].structures),
         NEW c \in DOMAIN Dict[rec.banks[b].id]
  PROVE  LET id == rec.banks[b].id
             w == WalkBank(evs, id)
             from == RowsBefore(rec.banks[b], e) * Width(id, c)
             n == RowsIn(rec.banks[b], e) * Width(id, c)
         IN /\ n = 0 => ContiguousColumn(id, BlockOf(w, e), c) = << >>
            /\ Fits(ColumnStream(w, c), from, n)
            /\ Slice(ColumnStream(w, c), from, n) = ContiguousColumn(id, BlockOf(w, e), c)
<1> DEFINE id == rec.banks[b].id
           w == WalkBank(evs, id)
           rows == w.sizes[e] \div RowSize(id)
           from == RowsBefore(rec.banks[b], e) * Width(id, c)
           n == RowsIn(rec.banks[b], e) * Width(id, c)
           stream == ColumnStream(w, c)
           data == BlockOf(w, e)
           column == ContiguousColumn(id, data, c)
<1>1. /\ rec.banks[b].sizes = w.sizes /\ id \in DOMAIN Dict /\ Columnar(w)
      /\ w.sizes[e] % RowSize(id) = 0
  BY SplitBankIs
<1>2. RowsIn(rec.banks[b], e) = rows /\ RowsBefore(rec.banks[b], e) = SumBefore(w.sizes, e) \div RowSize(id)
  BY <1>1 DEF RowsIn, RowsBefore
<1>3. /\ stream \in Seq(Cell)
      /\ from \in Nat /\ n \in Nat /\ from + n <= Len(stream)
      /\ \A j \in 1..n : stream[from + j] = data[rows * RowOffset(id, c) + j]
  <2> DEFINE f == (SumBefore(w.sizes, e) \div RowSize(id)) * Width(id, c)
             m == rows * Width(id, c)
  <2>1. /\ stream \in Seq(Cell)
        /\ f \in Nat /\ m \in Nat /\ f + m <= Len(stream)
        /\ \A j \in 1..m : stream[f + j] = data[rows * RowOffset(id, c) + j]
    <3>1. c \in DOMAIN Dict[id]
      OBVIOUS
    <3> HIDE DEF id
    <3> QED BY <1>1, <3>1, ColumnPlace
  <2>2. f = from /\ m = n
    BY <1>2
  <2> HIDE DEF f, m, from, n, stream, data, rows
  <2> QED BY <2>1, <2>2
<1>4. data \in Seq(Cell) /\ Len(data) = w.sizes[e]
  BY BlockIs
<1>5. Len(data) \div RowSize(id) = rows /\ Len(data) % RowSize(id) = 0 /\ n = rows * Width(id, c)
  BY <1>1, <1>2, <1>4
<1> HIDE DEF data, stream, w
<1>6. /\ column \in Seq(Cell)
      /\ Len(column) = rows * Width(id, c)
      /\ \A j \in 1..rows * Width(id, c) : column[j] = data[rows * RowOffset(id, c) + j]
  <2> DEFINE q == Len(data) \div RowSize(id)
  <2>1. /\ column \in Seq(Cell)
        /\ Len(column) = q * Width(id, c)
        /\ \A j \in 1..q * Width(id, c) : column[j] = data[q * RowOffset(id, c) + j]
    <3> HIDE DEF id
    <3> QED BY <1>1, <1>4, <1>5, ContiguousIs DEF id
  <2>2. q = rows
    BY <1>5
  <2> HIDE DEF q, rows, column
  <2> QED BY <2>1, <2>2
<1> HIDE DEF column, from, n, rows
<1>7. n = 0 => column = << >>
  BY <1>5, <1>6
<1>8. stream # Failed /\ Fits(stream, from, n)
  <2>1. stream # Failed
    BY <1>3, CellsAreNot
  <2> QED BY <1>3, <2>1 DEF Fits
<1>9. Slice(stream, from, n) = column
  <2> DEFINE piece == Slice(stream, from, n)
  <2>1. piece \in Seq(Cell) /\ Len(piece) = n /\ \A j \in 1..n : piece[j] = stream[from + j]
    BY <1>3, SliceIs
  <2> HIDE DEF piece
  <2>2. \A j \in 1..Len(piece) : piece[j] = column[j]
    <3> SUFFICES ASSUME NEW j \in 1..n PROVE piece[j] = column[j]
      BY <2>1
    <3>1. piece[j] = stream[from + j] /\ stream[from + j] = data[rows * RowOffset(id, c) + j]
      BY <1>3, <2>1
    <3>2. j \in 1..rows * Width(id, c)
      BY <1>5
    <3> QED BY <1>6, <3>1, <3>2
  <2>3. piece = column
    BY <1>5, <1>6, <2>1, <2>2, SameSeq
  <2> QED BY <2>3 DEF piece
<1> QED BY <1>7, <1>8, <1>9 DEF column, from, n, rows, stream, data, w, id

LEMMA ColumnReadIs ==
  ASSUME NEW evs \in Seq(AnEvent), OnceEach(evs), NEW lay, NEW rec, RecordIs(rec, evs, lay),
         NEW e \in DOMAIN evs, NEW id \in DOMAIN Dict, NEW c \in DOMAIN Dict[id], NEW has,
         AsWrittenIn(evs, lay, rec, has, ToSet(ColumnStreams(rec, e, id, c)))
  PROVE  ReadColumn(rec, e, id, c, has) = ColumnOf(evs, e, id, c)
<1> DEFINE at == {b \in BankIndex(rec, id) : e \in rec.banks[b].present}
           st == evs[e].structures
           w == WalkBank(evs, id)
<1>1. e \in 1..Len(evs) /\ st \in Seq(AStructure)
  BY EventsShape
<1>2. Found(st, id) # << >> <=> id \in BanksOf(st)
  BY <1>1, FoundIs
<1>3. \A b \in DOMAIN rec.banks : e \in rec.banks[b].present <=> rec.banks[b].id \in BanksOf(st)
  BY BanksAre
<1>4. CASE at = {}
  <2>1. ReadColumn(rec, e, id, c, has) = NoBank
    BY <1>4, ReadColumnIs
  <2>2. id \notin BanksOf(st)
    <3> SUFFICES ASSUME id \in BanksOf(st) PROVE FALSE
      OBVIOUS
    <3> DEFINE all == Descriptors(evs)
    <3>1. DOMAIN rec.banks = DOMAIN all /\ \A b \in DOMAIN rec.banks : rec.banks[b].id = all[b]
      BY BanksAre
    <3>2. /\ DOMAIN all = 1..Len(all)
          /\ \A x \in BanksOf(st) : \E b \in 1..Len(all) : all[b] = x
      BY DescriptorsAre DEF AllBanks
    <3> HIDE DEF all, st
    <3>3. PICK b \in 1..Len(all) : all[b] = id
      BY <3>2
    <3>4. b \in at
      BY <1>3, <3>1, <3>2, <3>3 DEF BankIndex
    <3> QED BY <1>4, <3>4
  <2> QED BY <1>2, <2>1, <2>2 DEF ColumnOf
<1>5. CASE at # {}
  <2>1. PICK b \in at :
          ColumnStreams(rec, e, id, c) =
            IF IsOpaque(rec.banks[b]) THEN <<<<b, 1>>>>
            ELSE IF RowsIn(rec.banks[b], e) = 0 THEN << >> ELSE <<<<b, c>>>>
    BY <1>5, ColumnAsks
  <2>2. b \in DOMAIN rec.banks /\ rec.banks[b].id = id /\ id \in BanksOf(st)
    BY <1>3 DEF BankIndex
  <2>3. /\ Found(st, id)[1].data = BlockOf(w, e)
        /\ ColumnOf(evs, e, id, c) = ContiguousColumn(id, BlockOf(w, e), c)
    <3>1. Found(st, id)[1].data = BlockOf(w, e)
      BY <1>1, <2>2, BlockIsData
    <3> QED BY <1>2, <2>2, <3>1 DEF ColumnOf
  <2> DEFINE bank == rec.banks[b]
             from == SumBefore(bank.sizes, e)
             first == RowsBefore(bank, e) * Width(id, c)
             length == RowsIn(bank, e) * Width(id, c)
             answered == ReadColumn(rec, e, id, c, has)
  <2>4. CASE IsOpaque(bank)
    <3>1. answered = IF Fits(has[<<b, 1>>], from, bank.sizes[e])
                     THEN ContiguousColumn(id, Slice(has[<<b, 1>>], from, bank.sizes[e]), c) ELSE NoBank
      BY <2>4, ReadColumnIs
    <3>2. has[<<b, 1>>] = BytesAt(w, lay, 1)
      <4>1. <<b, 1>> \in ToSet(ColumnStreams(rec, e, id, c))
        BY <2>1, <2>4 DEF ToSet
      <4> QED BY <2>2, <4>1 DEF AsWrittenIn
    <3>3. /\ Fits(has[<<b, 1>>], from, bank.sizes[e])
          /\ Slice(has[<<b, 1>>], from, bank.sizes[e]) = BlockOf(w, e)
      BY <1>1, <2>2, <2>4, <3>2, OpaqueColumn
    <3> QED BY <2>3, <3>1, <3>3
  <2>5. CASE ~IsOpaque(bank)
    <3>1. answered = IF length = 0 THEN << >>
                     ELSE IF Fits(has[<<b, c>>], first, length) THEN Slice(has[<<b, c>>], first, length)
                     ELSE << >>
      BY <2>5, ReadColumnIs
    <3>2. /\ length = 0 => ContiguousColumn(id, BlockOf(w, e), c) = << >>
          /\ Fits(ColumnStream(w, c), first, length)
          /\ Slice(ColumnStream(w, c), first, length) = ContiguousColumn(id, BlockOf(w, e), c)
      BY <1>1, <2>2, <2>5, SplitColumn
    <3>3. ASSUME length # 0
          PROVE  has[<<b, c>>] = ColumnStream(w, c)
      <4>1. /\ DOMAIN bank.streams = DOMAIN Dict[id]
            /\ \A d \in DOMAIN bank.streams : BytesAt(w, lay, d) = ColumnStream(w, d)
        BY <1>1, <2>2, <2>5, SplitBankIs
      <4>2. Width(id, c) \in Nat
        BY RowsAre
      <4>3. RowsIn(bank, e) # 0
        BY <3>3, <4>2
      <4>4. <<b, c>> \in ToSet(ColumnStreams(rec, e, id, c))
        BY <2>1, <2>5, <4>3 DEF ToSet
      <4> QED BY <2>2, <4>1, <4>4 DEF AsWrittenIn
    <3> HIDE DEF answered, first, length, w
    <3>4. answered = ContiguousColumn(id, BlockOf(w, e), c)
      BY <3>1, <3>2, <3>3
    <3> QED BY <2>3, <3>4 DEF answered, w
  <2> QED BY <2>4, <2>5
<1> QED BY <1>4, <1>5

LEMMA EventsAre ==
  /\ NoDuplicates => OnceEach(events)
  /\ HeadersAgree => Agree(events)
<1>1. NoDuplicates => OnceEach(events)
  BY DEF NoDuplicates, Duplicated, OnceEach, Once
<1>2. HeadersAgree => Agree(events)
  BY DEF HeadersAgree, Agree
<1> QED BY <1>1, <1>2

(* The streams a read has: of each, what remains of what was written.      *)
LEMMA HasIs ==
  ASSUME IInv, SInv, NEW t \in Answered
  PROVE  LET has == BytesOf(got[t])  asked == ToSet(AskedOf(record, reads[t])) IN
         /\ asked = DOMAIN got[t] /\ asked \subseteq StreamsOf(record)
         /\ \A s \in asked :
              LET bytes == BytesAt(WalkBank(events, record.banks[s[1]].id), layout, s[2]) IN
              /\ Remains(has[s], bytes)
              /\ StreamAt(s).damage = "none" => has[s] = bytes
<1> DEFINE has == BytesOf(got[t])
<1>1. /\ events \in Seq(AnEvent) /\ RecordIs(record, events, layout)
      /\ DOMAIN got[t] = ToSet(AskedOf(record, reads[t]))
      /\ \A s \in DOMAIN got[t] : s \in StreamsOf(record) /\ has[s] = BytesIn(record, layout, s)
  BY DoneIs
<1> HIDE DEF has
<1>2. ASSUME NEW s \in DOMAIN got[t]
      PROVE  LET bytes == BytesAt(WalkBank(events, record.banks[s[1]].id), layout, s[2]) IN
             /\ Remains(has[s], bytes)
             /\ StreamAt(s).damage = "none" => has[s] = bytes
  <2>1. s \in StreamsOf(record) /\ has[s] = BytesIn(record, layout, s)
    BY <1>1
  <2> QED BY <1>1, <2>1, AnyRemains DEF StreamAt
<1> QED BY <1>1, <1>2 DEF has

(* Where an event's bank reads as it was written, so does the structure.   *)
LEMMA SameStructure ==
  ASSUME NEW want \in AStructure, NEW read, NEW id, NEW h, NEW data, NEW whole, whole = TRUE,
         read = [id |-> id, header_size |-> h, data |-> data],
         KeepsShape(read, want, whole), data = want.data
  PROVE  read = want
<1>1. read.id = want.id /\ read.header_size = want.header_size /\ read.data = want.data
  BY DEF KeepsShape
<1>2. want = [id |-> want.id, header_size |-> want.header_size, data |-> want.data]
  BY DEF AStructure
<1> QED BY <1>1, <1>2

EventWritten(evs, rec, e, has) ==
  LET event == SynthesizeEvent(rec, e, has)
      ids == Ascending(BanksOf(evs[e].structures))
  IN /\ event.tag = evs[e].tag
     /\ event.structures = [k \in DOMAIN ids |-> Found(evs[e].structures, ids[k])[1]]

LEMMA EventIsAsWritten ==
  ASSUME NEW evs \in Seq(AnEvent), OnceEach(evs), Agree(evs),
         NEW lay, NEW rec, RecordIs(rec, evs, lay),
         NEW whole, whole = TRUE, HeadersOf(rec, evs, whole),
         NEW e \in DOMAIN evs, NEW has,
         AsWrittenIn(evs, lay, rec, has, ToSet(EventStreams(rec, e)))
  PROVE  EventWritten(evs, rec, e, has)
<1> DEFINE event == SynthesizeEvent(rec, e, has)
           here == Ascending(Here(rec, e))
           ids == Ascending(BanksOf(evs[e].structures))
           want(k) == Found(evs[e].structures, ids[k])[1]
<1>1. RemainIn(evs, lay, rec, has, ToSet(EventStreams(rec, e)))
  BY DEF RemainIn, AsWrittenIn, Remains
<1>2. /\ event.tag = evs[e].tag
      /\ Len(ids) \in Nat /\ DOMAIN ids = 1..Len(ids)
      /\ event.structures = [k \in 1..Len(ids) |-> BankRead(rec, here[k], e, has)]
      /\ \A k \in 1..Len(ids) :
           /\ here[k] \in DOMAIN rec.banks /\ e \in rec.banks[here[k]].present
           /\ want(k) \in AStructure
           /\ KeepsShape(BankRead(rec, here[k], e, has), want(k), whole)
           /\ Untouched(evs, lay, rec, e, has, here[k]) =>
                EventData(rec.banks[here[k]], here[k], e, has) = want(k).data
  <2>1. EventRead(evs, lay, rec, e, has, whole)
    BY <1>1, EventReadIs
  <2> QED BY <2>1 DEF EventRead
<1> HIDE DEF event, here, ids, want
<1>3. ASSUME NEW k \in 1..Len(ids)
      PROVE  BankRead(rec, here[k], e, has) = want(k)
  <2> DEFINE b == here[k]
             x == want(k)
             read == BankRead(rec, b, e, has)
             data == EventData(rec.banks[b], b, e, has)
             i == rec.banks[b].id
             h == rec.banks[b].header_size
  <2>1. /\ b \in DOMAIN rec.banks /\ e \in rec.banks[b].present
        /\ x \in AStructure /\ KeepsShape(read, x, whole)
        /\ Untouched(evs, lay, rec, e, has, b) => data = x.data
    BY <1>2
  <2>2. read = [id |-> i, header_size |-> h, data |-> data]
    BY DEF BankRead
  <2>3. Untouched(evs, lay, rec, e, has, b)
    <3> HIDE DEF b
    <3> SUFFICES ASSUME rec.banks[b].sizes[e] # 0, NEW c \in DOMAIN rec.banks[b].streams
                 PROVE  has[<<b, c>>] = BytesAt(WalkBank(evs, rec.banks[b].id), lay, c)
      BY DEF Untouched
    <3>1. <<b, c>> \in ToSet(EventStreams(rec, e))
      BY <2>1, EventAsks
    <3> QED BY <3>1 DEF AsWrittenIn
  <2> HIDE DEF b, x, read, data, i, h
  <2>4. read = x
    BY <2>1, <2>2, <2>3, SameStructure
  <2> QED BY <2>4 DEF read, x, b
<1>4. event.structures = [k \in DOMAIN ids |-> want(k)]
  BY <1>2, <1>3
<1> QED BY <1>2, <1>4 DEF event, ids, want, EventWritten

(* Every read whose streams storage has left alone returns what was        *)
(* written, whichever threads inflated what and in which order.            *)
THEOREM ReadsReturnWhatWasWritten == Spec => []ReadsAreTheEvents
<1>1. IInv /\ SInv /\ HInv => ReadsAreTheEvents
  <2> SUFFICES ASSUME IInv, SInv, HInv, NoDuplicates, HeadersAgree, DirectoryIntact,
                      NEW t \in Answered, \A s \in DOMAIN got[t] : StreamAt(s).damage = "none"
               PROVE  answer[t] = AsWritten(reads[t])
    BY DEF ReadsAreTheEvents
  <2> DEFINE has == BytesOf(got[t])
             r == reads[t]
             e == r.event
             whole == DirectoryIntact
  <2>1. /\ events \in Seq(AnEvent) /\ RecordIs(record, events, layout)
        /\ r \in ReadsOf(events) /\ answer[t] = AnswerOf(record, r, has)
    BY DoneIs
  <2>2. \A s \in ToSet(AskedOf(record, r)) :
          has[s] = BytesAt(WalkBank(events, record.banks[s[1]].id), layout, s[2])
    BY HasIs
  <2>3. OnceEach(events) /\ Agree(events)
    BY EventsAre
  <2>4. HeadersOf(record, events, whole) /\ whole = TRUE
    <3>1. phase # "new"
      <4>1. reads[t] \in Reads /\ phase = "open"
        BY AskedHasSlot DEF Answered
      <4> QED BY <4>1
    <3>2. DirectoryIntact = TRUE
      BY DEF DirectoryIntact
    <3> QED BY <3>1, <3>2 DEF HInv
  <2> HIDE DEF has, r, whole
  <2>5. CASE r.kind = "bytes"
    <3>1. e \in DOMAIN events /\ AskedOf(record, r) = EventStreams(record, e)
      BY <2>1, <2>5 DEF ReadsOf, AskedOf
    <3> DEFINE event == SynthesizeEvent(record, e, has)
               ids == Ascending(BanksOf(events[e].structures))
    <3>2. /\ event.tag = events[e].tag
          /\ event.structures = [k \in DOMAIN ids |-> Found(events[e].structures, ids[k])[1]]
      <4>1. AsWrittenIn(events, layout, record, has, ToSet(EventStreams(record, e)))
        BY <2>2, <3>1 DEF AsWrittenIn
      <4> HIDE DEF e
      <4>2. EventWritten(events, record, e, has)
        BY <2>1, <2>3, <2>4, <3>1, <4>1, EventIsAsWritten
      <4> QED BY <4>2 DEF EventWritten
    <3>3. answer[t] = [NoAnswer EXCEPT !.tag = event.tag, !.structures = event.structures]
      BY <2>1, <2>5 DEF AnswerOf
    <3>4. AsWritten(r) = [NoAnswer EXCEPT !.tag = events[e].tag,
                            !.structures = [k \in DOMAIN ids |-> Found(events[e].structures, ids[k])[1]]]
      BY <2>5 DEF AsWritten, EventAsWritten
    <3> HIDE DEF event, ids
    <3> QED BY <3>2, <3>3, <3>4 DEF r
  <2>6. CASE r.kind # "bytes"
    <3>1. /\ e \in DOMAIN events /\ r.id \in DOMAIN Dict /\ r.col \in DOMAIN Dict[r.id]
          /\ AskedOf(record, r) = ColumnStreams(record, e, r.id, r.col)
      BY <2>1, <2>6 DEF ReadsOf, AskedOf
    <3> DEFINE column == ReadColumn(record, e, r.id, r.col, has)
               asked == ToSet(ColumnStreams(record, e, r.id, r.col))
    <3>2. AsWrittenIn(events, layout, record, has, asked)
      BY <2>2, <3>1 DEF AsWrittenIn
    <3>3. column = ColumnOf(events, e, r.id, r.col)
      <4> HIDE DEF e
      <4> QED BY <2>1, <2>3, <3>1, <3>2, ColumnReadIs
    <3>4. answer[t] = [NoAnswer EXCEPT !.bytes = column]
      BY <2>1, <2>6 DEF AnswerOf
    <3>5. AsWritten(r) = [NoAnswer EXCEPT !.bytes = ColumnOf(events, e, r.id, r.col)]
      BY <2>6 DEF AsWritten, ColumnAsWritten, ColumnOf
    <3> HIDE DEF column
    <3> QED BY <3>3, <3>4, <3>5 DEF r
  <2> QED BY <2>5, <2>6
<1> QED BY <1>1, HInvAlways, PTL

(* Two banks of an event that do not read as they were written are one.    *)
LEMMA OneBankSpoiled ==
  ASSUME NEW evs, NEW lay, NEW rec, NEW e, NEW has, OneAtMost(DamagedIn(rec)),
         NEW a, NEW b, ~Untouched(evs, lay, rec, e, has, a), ~Untouched(evs, lay, rec, e, has, b),
         \A x \in {a, b} : \A c \in DOMAIN rec.banks[x].streams :
           rec.banks[x].sizes[e] # 0 /\ <<x, c>> \notin DamagedIn(rec) =>
             has[<<x, c>>] = BytesAt(WalkBank(evs, rec.banks[x].id), lay, c)
  PROVE  a = b
<1>1. ASSUME NEW x \in {a, b} PROVE \E c : <<x, c>> \in DamagedIn(rec)
  <2>1. ~Untouched(evs, lay, rec, e, has, x)
    BY <1>1
  <2> QED BY <1>1, <2>1 DEF Untouched
<1>2. PICK c : <<a, c>> \in DamagedIn(rec)
  BY <1>1
<1>3. PICK d : <<b, d>> \in DamagedIn(rec)
  BY <1>1
<1> QED BY <1>2, <1>3 DEF OneAtMost

(* Damage to one stream stays there: the event keeps its banks and their   *)
(* sizes, and one bank at most has cells that are not those written.       *)
THEOREM DamageStaysThere == Spec => []DamageKeepsTheShape
<1>1. IInv /\ SInv /\ HInv => DamageKeepsTheShape
  <2> SUFFICES ASSUME IInv, SInv, HInv, NoDuplicates, HeadersAgree,
                      NEW t \in Answered, reads[t].kind = "bytes"
               PROVE  LET want == EventAsWritten(reads[t].event)
                          have == answer[t]
                      IN /\ have.tag = want.tag
                         /\ Len(have.structures) = Len(want.structures)
                         /\ \A k \in DOMAIN want.structures :
                              /\ have.structures[k].id = want.structures[k].id
                              /\ \/ have.structures[k].header_size = want.structures[k].header_size
                                 \/ ~DirectoryIntact /\ have.structures[k].header_size = 0
                              /\ Len(have.structures[k].data) = Len(want.structures[k].data)
                              /\ \A p \in DOMAIN want.structures[k].data :
                                   \/ have.structures[k].data[p] = want.structures[k].data[p]
                                   \/ have.structures[k].data[p] \in {Zero, Garbage}
                         /\ Cardinality({k \in DOMAIN want.structures :
                              have.structures[k].data # want.structures[k].data}) <= 1
    BY DEF DamageKeepsTheShape
  <2> DEFINE has == BytesOf(got[t])
             r == reads[t]
             e == r.event
             whole == DirectoryIntact
             want == EventAsWritten(e)
             have == answer[t]
             event == SynthesizeEvent(record, e, has)
             here == Ascending(Here(record, e))
             ids == Ascending(BanksOf(events[e].structures))
             read(k) == BankRead(record, here[k], e, has)
             due(k) == Found(events[e].structures, ids[k])[1]
  <2>1. /\ events \in Seq(AnEvent) /\ RecordIs(record, events, layout)
        /\ r \in ReadsOf(events) /\ answer[t] = AnswerOf(record, r, has)
    BY DoneIs
  <2>2. /\ ToSet(AskedOf(record, r)) \subseteq StreamsOf(record)
        /\ \A s \in ToSet(AskedOf(record, r)) :
             LET bytes == BytesAt(WalkBank(events, record.banks[s[1]].id), layout, s[2]) IN
             /\ Remains(has[s], bytes)
             /\ StreamAt(s).damage = "none" => has[s] = bytes
    BY HasIs
  <2>3. OnceEach(events) /\ Agree(events)
    BY EventsAre
  <2>4. HeadersOf(record, events, whole) /\ OneAtMost(DamagedIn(record))
    <3>1. phase # "new"
      <4>1. reads[t] \in Reads /\ phase = "open"
        BY AskedHasSlot DEF Answered
      <4> QED BY <4>1
    <3> QED BY <3>1 DEF HInv
  <2>5. e \in DOMAIN events /\ AskedOf(record, r) = EventStreams(record, e)
    BY <2>1 DEF ReadsOf, AskedOf
  <2>6. /\ have.tag = event.tag /\ have.structures = event.structures
        /\ want.tag = events[e].tag /\ want.structures = [k \in DOMAIN ids |-> due(k)]
    BY <2>1 DEF AnswerOf, EventAsWritten, NoAnswer
  <2> HIDE DEF has, r, whole
  <2>7. /\ event.tag = events[e].tag
        /\ Len(ids) \in Nat /\ DOMAIN ids = 1..Len(ids)
        /\ event.structures = [k \in 1..Len(ids) |-> read(k)]
        /\ \A k \in 1..Len(ids) :
             /\ here[k] \in DOMAIN record.banks /\ e \in record.banks[here[k]].present
             /\ due(k) \in AStructure
             /\ KeepsShape(read(k), due(k), whole)
             /\ Untouched(events, layout, record, e, has, here[k]) =>
                  EventData(record.banks[here[k]], here[k], e, has) = due(k).data
    <3> HIDE DEF e
    <3>1. RemainIn(events, layout, record, has, ToSet(EventStreams(record, e)))
      BY <2>2, <2>5 DEF RemainIn
    <3>2. EventRead(events, layout, record, e, has, whole)
      BY <2>1, <2>3, <2>4, <2>5, <3>1, EventReadIs
    <3> QED BY <3>2 DEF EventRead, e
  <2>8. \A j, k \in 1..Len(ids) : j < k => here[j] < here[k]
    <3>1. Len(here) = Len(ids)
      <4> HIDE DEF e
      <4>1. BanksHere(events, record, e)
        BY <2>1, <2>5, BanksOfEvent
      <4> QED BY <4>1 DEF BanksHere
    <3> QED BY <2>1, <3>1, HereIs
  <2>9. \A k \in 1..Len(ids) : read(k).data = EventData(record.banks[here[k]], here[k], e, has)
    BY DEF BankRead
  <2>10. \A k \in 1..Len(ids) : here[k] \in Nat
    <3>1. DOMAIN record.banks \subseteq Nat
      BY <2>1, BanksAre
    <3> QED BY <2>7, <3>1
  <2> HIDE DEF here, ids, event, want, have, e, read, due
  <2>11. DOMAIN want.structures = 1..Len(ids)
    BY <2>6, <2>7
  <2>12. \A k \in 1..Len(ids) : have.structures[k] = read(k) /\ want.structures[k] = due(k)
    BY <2>6, <2>7
  <2>13. Len(have.structures) = Len(want.structures)
    BY <2>6, <2>7
  <2>14. ASSUME NEW k \in DOMAIN want.structures
         PROVE  /\ have.structures[k].id = want.structures[k].id
                /\ \/ have.structures[k].header_size = want.structures[k].header_size
                   \/ ~DirectoryIntact /\ have.structures[k].header_size = 0
                /\ Len(have.structures[k].data) = Len(want.structures[k].data)
                /\ \A p \in DOMAIN want.structures[k].data :
                     \/ have.structures[k].data[p] = want.structures[k].data[p]
                     \/ have.structures[k].data[p] \in {Zero, Garbage}
    BY <2>7, <2>11, <2>12 DEF KeepsShape, whole
  <2> DEFINE spoiled == {k \in DOMAIN want.structures : have.structures[k].data # want.structures[k].data}
  <2>15. ASSUME NEW j \in spoiled, NEW k \in spoiled PROVE j = k
    <3>1. j \in 1..Len(ids) /\ k \in 1..Len(ids)
      BY <2>11
    <3>2. /\ ~Untouched(events, layout, record, e, has, here[j])
          /\ ~Untouched(events, layout, record, e, has, here[k])
      BY <2>7, <2>9, <2>12, <3>1
    <3>3. \A x \in {here[j], here[k]} : \A c \in DOMAIN record.banks[x].streams :
            record.banks[x].sizes[e] # 0 /\ <<x, c>> \notin DamagedIn(record) =>
              has[<<x, c>>] = BytesAt(WalkBank(events, record.banks[x].id), layout, c)
      <4> SUFFICES ASSUME NEW x \in {here[j], here[k]}, NEW c \in DOMAIN record.banks[x].streams,
                          record.banks[x].sizes[e] # 0, <<x, c>> \notin DamagedIn(record)
                   PROVE  has[<<x, c>>] = BytesAt(WalkBank(events, record.banks[x].id), layout, c)
        OBVIOUS
      <4>1. x \in DOMAIN record.banks /\ e \in record.banks[x].present
        BY <2>7, <3>1
      <4>2. <<x, c>> \in ToSet(EventStreams(record, e))
        BY <2>1, <2>5, <4>1, EventAsks
      <4>3. <<x, c>> \in StreamsOf(record)
        BY <4>1 DEF StreamsOf
      <4>4. record.banks[x].streams[c].damage = "none"
        BY <4>3 DEF DamagedIn
      <4> QED BY <2>2, <2>5, <4>2, <4>4 DEF StreamAt
    <3>4. here[j] = here[k]
      BY <2>4, <3>2, <3>3, OneBankSpoiled
    <3>5. j < k \/ k < j \/ j = k
      BY <2>7, <3>1
    <3> QED BY <2>8, <2>10, <3>1, <3>4, <3>5
  <2>16. Cardinality(spoiled) <= 1
    <3>1. OneAtMost(spoiled)
      BY <2>15 DEF OneAtMost
    <3> HIDE DEF spoiled
    <3> QED BY <3>1, AtMostOne
  <2> QED BY <2>6, <2>7, <2>13, <2>14, <2>16 DEF want, have, e, r
<1> QED BY <1>1, HInvAlways, PTL

-----------------------------------------------------------------------------
(***************************************************************************)
(* The checks of order and sizes.                                          *)
(***************************************************************************)
(* A bank no event has twice: its bytes are those of its sizes.            *)
LEMMA SizesFill ==
  ASSUME NEW evs \in Seq(AnEvent), OnceEach(evs), NEW id
  PROVE  SumOf(WalkBank(evs, id).sizes) = Len(WalkBank(evs, id).bytes)
<1> DEFINE w == WalkBank(evs, id)
           n == Len(evs)
           data == [d \in 1..n |-> DataOf(evs, id, d)]
           lens == [d \in 1..n |-> Len(DataOf(evs, id, d))]
           s == w.sizes
           g == Totals(s)
<1>1. n \in Nat /\ s \in [1..n -> Nat]
  BY WalkBankIs
<1>2. PICK f : IsTotal(f, lens, n) /\ Places(w.bytes, data, f, n, Cell)
  BY BankBytes
<1>3. \A d \in 1..n : s[d] = Len(DataOf(evs, id, d))
  BY BlockIsData
<1>4. s = lens
  <2> HIDE DEF s, n
  <2> QED BY <1>1, <1>3
<1>5. IsTotal(g, s, n) /\ Len(s) = n
  BY <1>1, TotalsAre
<1>6. SumOf(s) = g[n + 1]
  BY <1>5 DEF SumOf, SumBefore
<1>7. Len(w.bytes) = f[n + 1]
  BY <1>2 DEF Places
<1> HIDE DEF w, n, s, lens, g
<1>8. IsTotal(f, s, n)
  BY <1>2, <1>4
<1>9. n + 1 \in 1..n + 1 /\ \A i \in 1..n : s[i] <= s[i]
  BY <1>1
<1>10. g[n + 1] <= f[n + 1] /\ f[n + 1] <= g[n + 1]
  BY <1>1, <1>5, <1>8, <1>9, TotalsLess
<1>11. g[n + 1] \in Nat /\ f[n + 1] \in Nat
  BY <1>1, <1>5, <1>8, <1>9, TotalSteps
<1>12. SumOf(s) = Len(w.bytes)
  BY <1>6, <1>7, <1>10, <1>11
<1> QED BY <1>12 DEF s, w

(* The columns of a bank: each has its width of every row there is.        *)
LEMMA ColumnsFill ==
  ASSUME NEW evs \in Seq(AnEvent), NEW id, Columnar(WalkBank(evs, id))
  PROVE  LET w == WalkBank(evs, id) IN
         /\ id \in DOMAIN Dict
         /\ \E rows \in Nat :
              /\ SumOf(w.sizes) = rows * RowSize(id)
              /\ \A c \in DOMAIN Dict[id] : Len(ColumnStream(w, c)) = rows * Width(id, c)
<1> DEFINE w == WalkBank(evs, id)
           n == Len(evs)
           s == w.sizes
           k == RowSize(id)
           rows == [d \in 1..n |-> s[d] \div k]
<1>1. n \in Nat /\ s \in [1..n -> Nat] /\ w.id = id
  BY WalkBankIs
<1>2. id \in DOMAIN Dict
  BY <1>1 DEF Columnar
<1>3. k \in Nat
  <2>1. Widths(id) \in [1..Len(Dict[id]) -> Nat] /\ Len(Dict[id]) \in Nat
    BY <1>2, SchemaShape DEF Widths
  <2> QED BY <2>1, NoTotal DEF RowSize
<1>4. \A d \in 1..n : s[d] \div k \in Nat /\ s[d] = (s[d] \div k) * k
  BY WholeRows
<1> HIDE DEF n, s, k
<1>5. rows \in [1..n -> Nat] /\ Multiples(s, rows, k, n)
  BY <1>4 DEF Multiples
<1>6. \A d \in 1..n : rows[d] = s[d] \div k
  OBVIOUS
<1> HIDE DEF rows
<1>7. PICK g : IsTotal(g, rows, n)
  BY <1>1, <1>5, TotalExists
<1>8. n + 1 \in 1..n + 1 /\ g[n + 1] \in Nat
  <2>1. n + 1 \in 1..n + 1
    BY <1>1
  <2>2. g \in [1..n + 1 -> Nat]
    BY <1>1, <1>5, <1>7, TotalSteps
  <2> QED BY <2>1, <2>2
<1>9. SumOf(s) = g[n + 1] * k
  <2> DEFINE f == Totals(s)
  <2>1. IsTotal(f, s, n) /\ Len(s) = n
    BY <1>1, TotalsAre
  <2>2. SumOf(s) = f[n + 1]
    BY <2>1 DEF SumOf, SumBefore
  <2> HIDE DEF f
  <2>3. Multiples(f, g, k, n + 1)
    BY <1>1, <1>3, <1>5, <1>7, <2>1, TotalsScale
  <2> QED BY <1>8, <2>2, <2>3 DEF Multiples
<1>10. ASSUME NEW c \in DOMAIN Dict[id]
       PROVE  Len(ColumnStream(w, c)) = g[n + 1] * Width(id, c)
  <2> DEFINE x == Width(id, c)
             lens == [e \in 1..n |-> (s[e] \div k) * x]
             chunks == [e \in 1..n |-> ChunkOf(w, c, e)]
  <2>1. PICK f : IsTotal(f, lens, n) /\ Places(ColumnStream(w, c), chunks, f, n, Cell)
    BY <1>2, ColumnStreamIs DEF n, s, k
  <2>2. lens \in [1..n -> Nat]
    BY <1>2, ColumnStreamIs DEF n, s, k
  <2>3. x \in Nat
    BY <1>2, SchemaShape
  <2>4. Multiples(lens, rows, x, n)
    <3> HIDE DEF x
    <3> QED BY <1>6 DEF Multiples
  <2>5. Len(ColumnStream(w, c)) = f[n + 1]
    BY <2>1 DEF Places
  <2> HIDE DEF x, lens, w
  <2>6. Multiples(f, g, x, n + 1)
    BY <1>1, <1>5, <1>7, <2>1, <2>2, <2>3, <2>4, TotalsScale
  <2> QED BY <1>8, <2>5, <2>6 DEF Multiples, x
<1> QED BY <1>2, <1>8, <1>9, <1>10 DEF s, k, w

(* What the sizes of a bank say is what its streams hold.                  *)
LEMMA StreamsFill ==
  ASSUME NEW evs \in Seq(AnEvent), OnceEach(evs), NEW id, NEW lay \in {"by_bank", "per_column"},
         NEW bank, BankIs(bank, WalkBank(evs, id), lay)
  PROVE  /\ lay = "by_bank" => SumOf(bank.sizes) = bank.streams[1].size
         /\ lay = "per_column" => SumOf(bank.sizes) = SumOf(StreamSizes(bank))
<1> DEFINE w == WalkBank(evs, id)
           sizes == StreamSizes(bank)
<1>1. /\ bank.sizes = w.sizes /\ w.id = id
      /\ DOMAIN bank.streams = StreamNumbers(w, lay)
      /\ \A c \in StreamNumbers(w, lay) : bank.streams[c].size = Len(BytesAt(w, lay, c))
  <2>1. w.id = id
    BY WalkBankIs
  <2> HIDE DEF w
  <2>2. bank.streams = [c \in StreamNumbers(w, lay) |-> bank.streams[c]]
    BY DEF BankIs, w
  <2>3. DOMAIN bank.streams = StreamNumbers(w, lay)
    BY <2>2
  <2> QED BY <2>1, <2>3 DEF BankIs, StreamIs, w
<1>2. SumOf(w.sizes) = Len(w.bytes)
  BY SizesFill
<1>3. w.bytes \in Seq(Cell)
  BY WalkBankIs
<1>4. sizes = [c \in StreamNumbers(w, lay) |-> Len(BytesAt(w, lay, c))]
  BY <1>1 DEF StreamSizes
<1>5. CASE Splits(w, lay)
  <2> DEFINE m == Len(Dict[id])
             v == Widths(id)
             f == Totals(sizes)
             g == Totals(v)
  <2>1. lay = "per_column" /\ Columnar(w)
    BY <1>5 DEF Splits
  <2>2. id \in DOMAIN Dict
    BY <2>1, ColumnsFill
  <2>3. PICK rows \in Nat :
          /\ SumOf(w.sizes) = rows * RowSize(id)
          /\ \A c \in DOMAIN Dict[id] : Len(ColumnStream(w, c)) = rows * Width(id, c)
    BY <2>1, ColumnsFill
  <2>4. m \in Nat /\ DOMAIN Dict[id] = 1..m /\ \A c \in 1..m : Width(id, c) \in Nat
    BY <2>2, SchemaShape
  <2>5. v \in [1..m -> Nat] /\ \A c \in 1..m : v[c] = Width(id, c)
    BY <2>4 DEF Widths
  <2>6. \A x \in Nat : x * rows = rows * x /\ x * rows \in Nat
    OBVIOUS
  <2>7. sizes = [c \in 1..m |-> Len(ColumnStream(w, c))]
    BY <1>1, <1>4, <1>5, <2>4 DEF StreamNumbers, BytesAt
  <2>8. \A c \in 1..m : sizes[c] = v[c] * rows /\ sizes[c] \in Nat
    <3> HIDE DEF w, sizes, v, m
    <3> QED BY <2>3, <2>4, <2>5, <2>6, <2>7
  <2>9. sizes \in [1..m -> Nat] /\ Multiples(sizes, v, rows, m)
    <3> HIDE DEF w, sizes, v, m
    <3> QED BY <2>7, <2>8 DEF Multiples
  <2>10. /\ IsTotal(f, sizes, m) /\ Len(sizes) = m
         /\ IsTotal(g, v, m) /\ Len(v) = m
    <3> HIDE DEF sizes, v, m
    <3> QED BY <2>4, <2>5, <2>9, TotalsAre
  <2>11. SumOf(sizes) = f[m + 1] /\ RowSize(id) = g[m + 1]
    BY <2>10 DEF SumOf, SumBefore, RowSize
  <2> HIDE DEF f, g, v, m, sizes, w
  <2>12. Multiples(f, g, rows, m + 1)
    BY <2>4, <2>5, <2>9, <2>10, TotalsScale
  <2>13. m + 1 \in 1..m + 1 /\ g[m + 1] \in Nat
    <3>1. m + 1 \in 1..m + 1
      BY <2>4
    <3>2. g \in [1..m + 1 -> Nat]
      BY <2>4, <2>5, <2>10, TotalSteps
    <3> QED BY <3>1, <3>2
  <2>14. SumOf(sizes) = rows * RowSize(id)
    BY <2>6, <2>11, <2>12, <2>13 DEF Multiples
  <2> QED BY <1>1, <2>1, <2>3, <2>14 DEF sizes
<1>6. CASE ~Splits(w, lay)
  <2> DEFINE all == Len(w.bytes)
  <2>1. sizes = [c \in 1..1 |-> all] /\ bank.streams[1].size = all
    <3>1. StreamNumbers(w, lay) = 1..1 /\ \A c \in 1..1 : BytesAt(w, lay, c) = w.bytes
      BY <1>6 DEF StreamNumbers, BytesAt
    <3> HIDE DEF w, sizes
    <3> QED BY <1>1, <1>4, <3>1
  <2>2. all \in Nat
    BY <1>3
  <2> HIDE DEF all, sizes
  <2>3. sizes \in [1..1 -> Nat] /\ Len(sizes) = 1 /\ sizes[1] = all
    BY <2>1, <2>2
  <2>4. SumBefore(sizes, 1) = 0 /\ SumBefore(sizes, 1 + 1) = SumBefore(sizes, 1) + sizes[1]
    <3>1. 1 \in Nat /\ 1 \in 1..1
      OBVIOUS
    <3> QED BY <2>3, <3>1, SumsAre
  <2>5. SumOf(sizes) = all
    BY <2>2, <2>3, <2>4 DEF SumOf
  <2> QED BY <1>1, <1>2, <2>1, <2>5 DEF all, sizes
<1> QED BY <1>5, <1>6

(* The reader's checks of order and sizes hold of any record that was      *)
(* built of events with no bank twice.                                     *)
LEMMA BuiltParses ==
  ASSUME NEW evs \in Seq(AnEvent), OnceEach(evs), NEW lay \in {"by_bank", "per_column"},
         NEW rec, RecordIs(rec, evs, lay)
  PROVE  Parses(rec, lay)
<1> DEFINE ids == Descriptors(evs)
<1>1. /\ Len(rec.banks) \in Nat /\ DOMAIN rec.banks = 1..Len(rec.banks)
      /\ DOMAIN rec.banks = DOMAIN ids
      /\ \A b \in DOMAIN rec.banks : /\ BankIs(rec.banks[b], WalkBank(evs, ids[b]), lay)
                                     /\ rec.banks[b].id = ids[b]
  BY BanksAre
<1>2. /\ DOMAIN ids = 1..Len(ids) /\ \A a, b \in 1..Len(ids) : a < b => ids[a] < ids[b]
  BY DescriptorsAre
<1>3. ASSUME NEW b \in 2..Len(rec.banks)
      PROVE  rec.banks[b - 1].id < rec.banks[b].id
  <2>1. b \in 1..Len(rec.banks) /\ b - 1 \in 1..Len(rec.banks) /\ b - 1 < b
    BY <1>1
  <2> HIDE DEF ids
  <2>2. ids[b - 1] < ids[b]
    BY <1>1, <1>2, <2>1
  <2> QED BY <1>1, <2>1, <2>2
<1>4. ASSUME NEW b \in DOMAIN rec.banks
      PROVE  /\ lay = "by_bank" => SumOf(rec.banks[b].sizes) = rec.banks[b].streams[1].size
             /\ lay = "per_column" => SumOf(rec.banks[b].sizes) = SumOf(StreamSizes(rec.banks[b]))
  BY <1>1, StreamsFill
<1> QED BY <1>3, <1>4 DEF Parses, ByBankParses, PerColumnParses

-----------------------------------------------------------------------------
(***************************************************************************)
(* What the writer wrote the reader accepts; and what the reader has       *)
(* accepted, damaged or not, it can look into.                             *)
(***************************************************************************)
(* The writer holds a directory in memory: its tables fit a usize.         *)
DirectoryFits == phase # "new" => BaseLen(DirectoryOf(record)) <= MaxUsize

AInv ==
  /\ phase = "rejected" /\ DirectoryIntact /\ DirectoryFits => ~NoDuplicates
  /\ phase = "open" => HoldsTables(DirectoryOf(record), Inflated)

(* A parse leaves the counts of the directory as they are.                 *)
LEMMA ParseKeepsDirectory ==
  ASSUME SInv, SInv', Parse
  PROVE  DirectoryOf(record)' = DirectoryOf(record) /\ declared' = declared
<1>1. /\ phase = "stored" /\ phase' # "new"
      /\ UNCHANGED <<layout, encodings, events, declared>>
  BY DEF Parse
<1>2. /\ RecordIs(record, events, layout) /\ RecordIs(record', events, layout)
      /\ events \in Seq(AnEvent)
  BY <1>1, InputsAre DEF SInv, Kept
<1> DEFINE new == record'
           w(b) == WalkBank(events, Descriptors(events)[b])
<1>3. DirectoryOf(record)' = DirectoryOf(new)
  BY <1>1 DEF DirectoryOf
<1>4. RecordIs(new, events, layout)
  BY <1>2
<1> HIDE DEF new
<1>5. /\ DOMAIN new.banks = DOMAIN record.banks
      /\ \A b \in DOMAIN record.banks : DOMAIN record.banks[b].streams = StreamNumbers(w(b), layout)
      /\ \A b \in DOMAIN new.banks : DOMAIN new.banks[b].streams = StreamNumbers(w(b), layout)
  BY <1>2, <1>4, BanksAre
<1>6. \A b \in DOMAIN record.banks : DOMAIN new.banks[b].streams = DOMAIN record.banks[b].streams
  BY <1>5
<1>7. DirectoryOf(new) = DirectoryOf(record)
  BY <1>2, <1>4, <1>6, SameDirectory
<1> QED BY <1>1, <1>3, <1>7

LEMMA AInvParse ==
  ASSUME SInv, SInv', Parse
  PROVE  AInv'
<1> DEFINE d == DirectoryOf(record)
           n == Inflated
<1>1. DirectoryOf(record)' = DirectoryOf(record) /\ declared' = declared
  BY ParseKeepsDirectory
<1>2. Inflated' = Inflated /\ DirectoryIntact' = DirectoryIntact
  BY <1>1 DEF Inflated, DirectoryIntact
<1>3. /\ phase = "stored" /\ UNCHANGED <<layout, encodings, events>>
      /\ \/ phase' = "open" /\ AcceptsDirectory
         \/ phase' = "rejected" /\ (~AcceptsDirectory \/ ~Parses(record, layout))
  BY DEF Parse
<1>4. /\ RecordIs(record, events, layout) /\ events \in Seq(AnEvent)
      /\ layout \in Layouts /\ layout \in {"by_bank", "per_column"}
      /\ encodings \in BOOLEAN /\ (encodings => layout = "per_column")
  BY <1>3, InputsAre, SplitReadsAssumption DEF SInv, Kept
<1>5. NoDuplicates' <=> NoDuplicates
  BY <1>3 DEF NoDuplicates, Duplicated
<1>6. ASSUME DirectoryIntact, DirectoryFits', NoDuplicates
      PROVE  AcceptsDirectory /\ Parses(record, layout)
  <2>1. Parses(record, layout)
    BY <1>4, <1>6, EventsAre, BuiltParses
  <2>2. d \in Directory /\ WrittenLen(d) \in Nat
    BY <1>4, DirectoryIs
  <2>3. BaseLen(d) <= MaxUsize
    BY <1>1, <1>3, <1>6 DEF DirectoryFits
  <2>4. d.encoded => d.layout = "per_column"
    BY <1>4 DEF DirectoryOf
  <2>5. declared = WrittenLen(d) /\ n = WrittenLen(d)
    BY <1>6, <2>2 DEF DirectoryIntact, Inflated, InflatedLen
  <2> HIDE DEF d, n
  <2>6. /\ AdmitsLength(d, WrittenLen(d)) /\ HoldsTables(d, WrittenLen(d))
    BY <2>2, <2>3, <2>4, WrittenIsAccepted
  <2>7. ~Underflows(declared, WrittenLen(d))
    BY <2>2, <2>5, SplitDirectoryAssumption DEF Underflows
  <2>8. AcceptsDirectory
    BY <2>5, <2>6, <2>7 DEF AcceptsDirectory, d, n
  <2> QED BY <2>1, <2>8
<1>7. phase' = "open" => HoldsTables(DirectoryOf(record), Inflated)'
  <2>1. AcceptsDirectory => HoldsTables(d, n)
    BY DEF AcceptsDirectory
  <2>2. HoldsTables(DirectoryOf(record), Inflated)' <=> HoldsTables(d, n)
    BY <1>1, <1>2 DEF HoldsTables, BaseLen, BodyLen, FixedLen, BytesPerRow, HeaderSizesAt, EncodingsAt,
                      StreamSizesAt, SizesAt, PresenceAt, TagsAt, StreamTableLen
  <2> QED BY <1>3, <2>1, <2>2
<1>8. phase' = "rejected" /\ DirectoryIntact' /\ DirectoryFits' => ~NoDuplicates'
  BY <1>2, <1>3, <1>5, <1>6
<1> QED BY <1>7, <1>8 DEF AInv

LEMMA AInvNext == SInv /\ SInv' /\ AInv /\ [Next]_vars => AInv'
<1> SUFFICES ASSUME SInv, SInv', AInv, [Next]_vars PROVE AInv'
  OBVIOUS
<1>1. CASE \E smaller \in BOOLEAN, checksum \in {0, 1} : Build(smaller, checksum)
  BY <1>1 DEF Build, AInv
<1>2. CASE \E s \in StreamsOf(record), how \in {"garbled", "undecodable"} : Damage(s[1], s[2], how)
  BY <1>2 DEF Damage, AInv
<1>3. CASE \E len : DamageLength(len)
  BY <1>3 DEF DamageLength, AInv
<1>4. CASE Parse
  BY <1>4, AInvParse
<1>5. CASE UNCHANGED stored
  <2>1. UNCHANGED <<layout, encodings, events, phase, declared, record>>
    BY <1>5 DEF stored
  <2>2. /\ DirectoryOf(record)' = DirectoryOf(record)
        /\ NoDuplicates' <=> NoDuplicates
    BY <2>1 DEF DirectoryOf, NoDuplicates, Duplicated
  <2>3. /\ Inflated' = Inflated /\ DirectoryIntact' = DirectoryIntact
        /\ DirectoryFits' = DirectoryFits
    BY <2>1, <2>2 DEF Inflated, DirectoryIntact, DirectoryFits
  <2>4. HoldsTables(DirectoryOf(record), Inflated)' <=> HoldsTables(DirectoryOf(record), Inflated)
    BY <2>2, <2>3
  <2> QED BY <2>1, <2>2, <2>3, <2>4 DEF AInv
<1>6. CASE UNCHANGED vars
  BY <1>5, <1>6 DEF vars, stored
<1>7. CASE \E t \in Threads, r \in Reads : Begin(t, r)
  BY <1>5, <1>7 DEF Begin
<1>8. ASSUME NEW t \in Threads, Hit(t) \/ Miss(t) \/ InflateStream(t) \/ Set(t) \/ Answer(t) \/ Drop(t)
      PROVE  UNCHANGED stored
  BY <1>8 DEF Hit, Miss, InflateStream, Set, Answer, Drop
<1> QED BY <1>1, <1>2, <1>3, <1>4, <1>5, <1>6, <1>7, <1>8 DEF Next

(* What the writer writes the reader accepts, for any events with no bank  *)
(* twice whose directory a machine can hold; and of a directory cut or     *)
(* stretched it refuses what lacks a table, reads no byte outside it and   *)
(* none twice, and can lose but the header sizes, of all the banks.        *)
THEOREM WritesAreAccepted == Spec => [](DirectoryFits => AcceptedAsWritten)
<1>1. Init => AInv
  BY DEF Init, AInv
<1>2. SInv /\ HInv /\ AInv => (DirectoryFits => AcceptedAsWritten)
  <2> SUFFICES ASSUME SInv, HInv, AInv, DirectoryFits PROVE AcceptedAsWritten
    OBVIOUS
  <2>1. phase = "rejected" /\ DirectoryIntact => ~NoDuplicates
    BY DEF AInv
  <2>2. ASSUME phase = "open"
        PROVE  /\ StaysInside(DirectoryOf(record), Inflated)
               /\ LiesApart(DirectoryOf(record), Inflated)
               /\ \/ \A b \in DOMAIN record.banks :
                       record.banks[b].header_size = HeaderSizeWritten(record.banks[b].id)
                  \/ ~DirectoryIntact /\ \A b \in DOMAIN record.banks : record.banks[b].header_size = 0
    <3> DEFINE d == DirectoryOf(record)
               n == Inflated
    <3>1. /\ RecordIs(record, events, layout) /\ events \in Seq(AnEvent)
          /\ layout \in Layouts /\ encodings \in BOOLEAN /\ declared \in Nat
      BY <2>2, InputsAre DEF SInv, Kept
    <3>2. d \in Directory /\ WrittenLen(d) \in Nat
      BY <3>1, DirectoryIs
    <3>3. n \in Nat
      BY <3>1, <3>2 DEF Inflated, InflatedLen
    <3>4. HoldsTables(d, n)
      BY <2>2 DEF AInv
    <3>5. \A id : WalkBank(events, id).header_size = HeaderSizeWritten(id)
      BY <3>1, HeaderWritten DEF HeaderSizeWritten
    <3>6. HeadersOf(record, events, DirectoryIntact)
      BY <2>2 DEF HInv
    <3>7. \/ \A b \in DOMAIN record.banks :
               record.banks[b].header_size = HeaderSizeWritten(record.banks[b].id)
          \/ ~DirectoryIntact /\ \A b \in DOMAIN record.banks : record.banks[b].header_size = 0
      BY <3>5, <3>6 DEF HeadersOf
    <3> HIDE DEF d, n
    <3>8. StaysInside(d, n) /\ LiesApart(d, n)
      BY <3>2, <3>3, <3>4, ReadsStayInside, ReadsLieApart
    <3> QED BY <3>7, <3>8 DEF d, n
  <2> QED BY <2>1, <2>2 DEF AcceptedAsWritten
<1>3. SInv /\ SInv' /\ AInv /\ [Next]_vars => AInv'
  BY AInvNext
<1> QED BY <1>1, <1>2, <1>3, HInvAlways, PTL DEF Spec

=============================================================================
