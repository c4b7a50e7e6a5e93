------------------------- MODULE HipoRecoveryProofs -------------------------
(***************************************************************************)
(* Proofs about HipoWriter and HipoRecovery, for every size of buffer,     *)
(* record and event and every pattern of failures.  Of the writer: the     *)
(* types, the index invariant, what the header on disk may name, that      *)
(* records are never written over.  Of the reader on what the writer       *)
(* leaves: a normal open reads a prefix of what is stored, a finished file *)
(* reads back, salvage finds the whole records, and writer and reader      *)
(* together implement the event log.                                       *)
(***************************************************************************)
EXTENDS HipoRecovery, SequenceTheorems, ListProofs

(***************************************************************************)
(* The writer.                                                             *)
(***************************************************************************)

FileType == [disk: Seq(Cell), pos: Nat, buf: Seq(Cell)]

(* t begins with all of s.                                                 *)
Extends(s, t) == Len(s) <= Len(t) /\ \A i \in 1..Len(s) : t[i] = s[i]

StreamOf(f)  == f.disk \o f.buf
Aligned(f)   == f.pos = Len(f.disk)

(***************************************************************************)
(* Contents and their cells.                                               *)
(***************************************************************************)

(* Every content the writer builds is one, with at least one cell.         *)
LEMMA ContentTypes ==
  /\ \A flag \in Nat : HeaderFront(flag) \in Content
  /\ \A p \in Nat : TrailerPos(p) \in Content
  /\ DictRecord \in Content
  /\ \A rows \in Seq(IndexEntry) : TrailerRecord(rows) \in Content
  /\ \A evs \in Seq(Event), bytes \in Nat, w \in Nat : DataRecord(evs, bytes, w) \in Content
  BY FileAssumption
  DEF FileAssumption, HeaderFront, TrailerPos, DictRecord, TrailerRecord, DataRecord, Content

(* The cells of a content are a sequence of cells as long as the content,  *)
(* each naming it and its place in it.                                     *)
LEMMA CellsType ==
  ASSUME NEW c \in Content
  PROVE  /\ Length(c) \in Nat \ {0}
         /\ Cells(c) \in Seq(Cell)
         /\ Len(Cells(c)) = Length(c)
         /\ \A i \in 1..Length(c) : Cells(c)[i] = [of |-> c, at |-> i - 1]
<1>1. Length(c) \in Nat \ {0}
  BY DEF Content, Length, RecordHeaderSize
<1>2. \A i \in 1..Length(c) : [of |-> c, at |-> i - 1] \in Cell
  BY <1>1 DEF Cell
<1> QED
  BY <1>1, <1>2 DEF Cells

(***************************************************************************)
(* Writing over part of a file.                                            *)
(***************************************************************************)

(* Writing k cells at an offset inside the file gives a file that is at    *)
(* least as long, with the new cells there and the old ones elsewhere.     *)
LEMMA OverwriteShape ==
  ASSUME NEW d \in Seq(Cell), NEW new \in Seq(Cell), NEW p \in Nat, NEW k \in Nat,
         p <= Len(d), k <= Len(new)
  PROVE  /\ Overwrite(d, p, new, k) \in Seq(Cell)
         /\ Len(Overwrite(d, p, new, k)) = IF p + k > Len(d) THEN p + k ELSE Len(d)
         /\ \A i \in 1..Len(Overwrite(d, p, new, k)) :
              Overwrite(d, p, new, k)[i] = IF i \in p + 1..p + k THEN new[i - p] ELSE d[i]
<1> DEFINE n == IF p + k > Len(d) THEN p + k ELSE Len(d)
<1> DEFINE cell(i) == IF i \in p + 1..p + k THEN new[i - p] ELSE d[i]
<1>1. n \in Nat
  OBVIOUS
<1>2. \A i \in 1..n : cell(i) \in Cell
  OBVIOUS
<1>3. Overwrite(d, p, new, k) = [i \in 1..n |-> cell(i)]
  BY DEF Overwrite
<1> HIDE DEF n, cell
<1>4. /\ Overwrite(d, p, new, k) \in Seq(Cell)
      /\ Len(Overwrite(d, p, new, k)) = n
      /\ \A i \in 1..n : Overwrite(d, p, new, k)[i] = cell(i)
  BY <1>1, <1>2, <1>3
<1> QED
  BY <1>4 DEF n, cell

(* At the end of the file, the k cells are appended.                       *)
LEMMA OverwriteAppends ==
  ASSUME NEW d \in Seq(Cell), NEW new \in Seq(Cell), NEW k \in Nat, k <= Len(new)
  PROVE  Overwrite(d, Len(d), new, k) = d \o SubSeq(new, 1, k)
<1>1. /\ Overwrite(d, Len(d), new, k) \in Seq(Cell)
      /\ Len(Overwrite(d, Len(d), new, k)) = Len(d) + k
      /\ \A i \in 1..Len(d) + k :
           Overwrite(d, Len(d), new, k)[i] = IF i \in Len(d) + 1..Len(d) + k
                                               THEN new[i - Len(d)] ELSE d[i]
  <2>1. Len(d) \in Nat /\ Len(d) <= Len(d)
    OBVIOUS
  <2>2. (IF Len(d) + k > Len(d) THEN Len(d) + k ELSE Len(d)) = Len(d) + k
    BY <2>1
  <2>3. PICK w : w = Overwrite(d, Len(d), new, k)
    OBVIOUS
  <2>4. /\ w \in Seq(Cell)
        /\ Len(w) = IF Len(d) + k > Len(d) THEN Len(d) + k ELSE Len(d)
        /\ \A i \in 1..Len(w) :
             w[i] = IF i \in Len(d) + 1..Len(d) + k THEN new[i - Len(d)] ELSE d[i]
    BY <2>1, <2>3, OverwriteShape
  <2>5. Len(w) = Len(d) + k
    BY <2>2, <2>4
  <2> QED
    BY <2>3, <2>4, <2>5, Zenon
<1>2. /\ SubSeq(new, 1, k) \in Seq(Cell)
      /\ Len(SubSeq(new, 1, k)) = k
      /\ \A i \in 1..k : SubSeq(new, 1, k)[i] = new[i]
  OBVIOUS
<1> DEFINE s == SubSeq(new, 1, k)
<1> HIDE DEF s
<1>3. /\ d \o s \in Seq(Cell)
      /\ Len(d \o s) = Len(d) + k
      /\ \A i \in 1..Len(d) + k : (d \o s)[i] = IF i <= Len(d) THEN d[i] ELSE s[i - Len(d)]
  BY <1>2 DEF s
<1>4. \A i \in 1..Len(d) + k : Overwrite(d, Len(d), new, k)[i] = (d \o s)[i]
  BY <1>1, <1>2, <1>3 DEF s
<1>5. Overwrite(d, Len(d), new, k) = d \o s
  BY <1>1, <1>3, <1>4, SeqEqual
<1> QED
  BY <1>5 DEF s

(* Cutting a sequence in two and putting the halves behind another, one    *)
(* after the other, is appending it whole.                                 *)
LEMMA AppendInTwo ==
  ASSUME NEW d \in Seq(Cell), NEW b \in Seq(Cell), NEW k \in 0..Len(b)
  PROVE  /\ SubSeq(b, 1, k) \in Seq(Cell) /\ Len(SubSeq(b, 1, k)) = k
         /\ SubSeq(b, k + 1, Len(b)) \in Seq(Cell)
         /\ Len(SubSeq(b, k + 1, Len(b))) = Len(b) - k
         /\ (d \o SubSeq(b, 1, k)) \o SubSeq(b, k + 1, Len(b)) = d \o b
         /\ Extends(d, d \o SubSeq(b, 1, k))
         /\ Extends(d \o SubSeq(b, 1, k), d \o b)
<1>1. PICK p : p = SubSeq(b, 1, k)
  OBVIOUS
<1>2. PICK r : r = SubSeq(b, k + 1, Len(b))
  OBVIOUS
<1>3. p \in Seq(Cell) /\ Len(p) = k /\ \A i \in 1..k : p[i] = b[i]
  BY <1>1
<1>4. /\ r \in Seq(Cell) /\ Len(r) = Len(b) - k
      /\ \A i \in 1..Len(b) - k : r[i] = b[i + k]
  BY <1>2
<1>5. /\ p \o r \in Seq(Cell)
      /\ Len(p \o r) = k + (Len(b) - k)
      /\ \A i \in 1..k + (Len(b) - k) : (p \o r)[i] = IF i <= k THEN p[i] ELSE r[i - k]
  BY <1>3, <1>4, ConcatProperties
<1>0. Len(b) \in Nat /\ k \in Nat /\ k <= Len(b)
  OBVIOUS
<1>6. \A i \in 1..Len(b) : (p \o r)[i] = b[i]
  BY <1>0, <1>3, <1>4, <1>5
<1>7. p \o r = b
  BY <1>0, <1>5, <1>6, SeqEqual
<1>8. (d \o p) \o r = d \o b
  <2>1. d \in Seq(Cell) /\ p \in Seq(Cell) /\ r \in Seq(Cell)
    BY <1>3, <1>4
  <2>2. (d \o p) \o r = d \o (p \o r)
    BY <2>1, ConcatAssociative
  <2> QED
    BY <2>2, <1>7
<1>9. Extends(d, d \o p) /\ Extends(d \o p, d \o b)
  BY <1>3 DEF Extends
<1> QED
  BY <1>1, <1>2, <1>3, <1>4, <1>8, <1>9

(* Being extended is transitive, and survives appending.                   *)
LEMMA ExtendsTransitive ==
  ASSUME NEW s \in Seq(Cell), NEW t \in Seq(Cell), NEW u \in Seq(Cell),
         Extends(s, t), Extends(t, u)
  PROVE  Extends(s, u)
  BY DEF Extends

LEMMA ExtendsAppended ==
  ASSUME NEW s \in Seq(Cell), NEW t \in Seq(Cell)
  PROVE  Extends(s, s \o t)
  BY DEF Extends

(***************************************************************************)
(* The buffered file.                                                      *)
(***************************************************************************)

(* Draining k buffered cells keeps the file's type, the offset inside it   *)
(* and the distance from the start to the end of what is buffered; from    *)
(* the end of the file it leaves the stream as it was.                     *)
LEMMA DrainedShape ==
  ASSUME NEW f \in FileType, f.pos <= Len(f.disk), NEW k \in 0..Len(f.buf)
  PROVE  /\ Drained(f, k) \in FileType
         /\ Drained(f, k).pos <= Len(Drained(f, k).disk)
         /\ Drained(f, k).pos = f.pos + k
         /\ Len(Drained(f, k).buf) = Len(f.buf) - k
         /\ Aligned(f) => /\ Aligned(Drained(f, k))
                          /\ StreamOf(Drained(f, k)) = StreamOf(f)
                          /\ Extends(f.disk, Drained(f, k).disk)
                          /\ Extends(Drained(f, k).disk, StreamOf(f))
<1>1. PICK d, p, b : d = f.disk /\ p = f.pos /\ b = f.buf
  OBVIOUS
<1>2. /\ d \in Seq(Cell) /\ b \in Seq(Cell) /\ p \in Nat /\ p <= Len(d)
      /\ k \in 0..Len(b) /\ k \in Nat /\ k <= Len(b)
  BY <1>1 DEF FileType
<1>3. PICK o, r : o = Overwrite(d, p, b, k) /\ r = SubSeq(b, k + 1, Len(b))
  OBVIOUS
<1>4. Drained(f, k) = [disk |-> o, pos |-> p + k, buf |-> r]
  BY <1>1, <1>3 DEF Drained
<1>5. o \in Seq(Cell) /\ Len(o) = IF p + k > Len(d) THEN p + k ELSE Len(d)
  <2>1. /\ Overwrite(d, p, b, k) \in Seq(Cell)
        /\ Len(Overwrite(d, p, b, k)) = IF p + k > Len(d) THEN p + k ELSE Len(d)
    BY <1>2, OverwriteShape
  <2> QED
    BY <2>1, <1>3
<1>6. r \in Seq(Cell) /\ Len(r) = Len(b) - k
  BY <1>2, <1>3, AppendInTwo
<1>7. Drained(f, k) \in FileType /\ p + k <= Len(o)
  BY <1>2, <1>4, <1>5, <1>6 DEF FileType
<1>8. ASSUME p = Len(d)
      PROVE  /\ p + k = Len(o)
             /\ o \o r = d \o b
             /\ Extends(d, o)
             /\ Extends(o, d \o b)
  <2>1. Overwrite(d, Len(d), b, k) = d \o SubSeq(b, 1, k)
    BY <1>2, OverwriteAppends
  <2>2. /\ (d \o SubSeq(b, 1, k)) \o SubSeq(b, k + 1, Len(b)) = d \o b
        /\ Extends(d, d \o SubSeq(b, 1, k))
        /\ Extends(d \o SubSeq(b, 1, k), d \o b)
    BY <1>2, AppendInTwo
  <2>3. p + k = Len(o)
    BY <1>2, <1>5, <1>8
  <2> QED
    BY <2>1, <2>2, <2>3, <1>3, <1>8
<1>9. Drained(f, k).pos = p + k /\ Drained(f, k).disk = o /\ Drained(f, k).buf = r
  BY <1>2, <1>4
<1>10. ASSUME Aligned(f)
       PROVE  /\ Aligned(Drained(f, k))
              /\ StreamOf(Drained(f, k)) = StreamOf(f)
              /\ Extends(f.disk, Drained(f, k).disk)
              /\ Extends(Drained(f, k).disk, StreamOf(f))
  <2>1. p = Len(d)
    BY <1>1, <1>10 DEF Aligned
  <2> QED
    BY <2>1, <1>1, <1>8, <1>9 DEF Aligned, StreamOf
<1> QED
  BY <1>1, <1>6, <1>7, <1>9, <1>10

(* Writing k cells directly, past an empty buffer.                         *)
LEMMA DirectShape ==
  ASSUME NEW f \in FileType, f.pos <= Len(f.disk), Len(f.buf) = 0,
         NEW new \in Seq(Cell), NEW k \in 0..Len(new)
  PROVE  /\ Direct(f, new, k) \in FileType
         /\ Direct(f, new, k).pos <= Len(Direct(f, new, k).disk)
         /\ Direct(f, new, k).pos = f.pos + k
         /\ Len(Direct(f, new, k).buf) = 0
         /\ Aligned(f) => /\ Aligned(Direct(f, new, k))
                          /\ Extends(f.disk, Direct(f, new, k).disk)
                          /\ Extends(Direct(f, new, k).disk, StreamOf(f) \o new)
                          /\ k = 0 => StreamOf(Direct(f, new, k)) = StreamOf(f)
                          /\ k = Len(new) => StreamOf(Direct(f, new, k)) = StreamOf(f) \o new
<1>1. PICK d, p, b : d = f.disk /\ p = f.pos /\ b = f.buf
  OBVIOUS
<1>2. /\ d \in Seq(Cell) /\ p \in Nat /\ p <= Len(d) /\ b \in Seq(Cell) /\ Len(b) = 0
      /\ k \in 0..Len(new) /\ k \in Nat /\ k <= Len(new)
  BY <1>1 DEF FileType
<1>3. PICK o : o = Overwrite(d, p, new, k)
  OBVIOUS
<1>4. Direct(f, new, k) = [disk |-> o, pos |-> p + k, buf |-> b]
  BY <1>1, <1>3 DEF Direct
<1>5. o \in Seq(Cell) /\ Len(o) = IF p + k > Len(d) THEN p + k ELSE Len(d)
  <2>1. /\ Overwrite(d, p, new, k) \in Seq(Cell)
        /\ Len(Overwrite(d, p, new, k)) = IF p + k > Len(d) THEN p + k ELSE Len(d)
    BY <1>2, OverwriteShape
  <2> QED
    BY <2>1, <1>3
<1>6. Direct(f, new, k) \in FileType /\ p + k <= Len(o)
  BY <1>2, <1>4, <1>5 DEF FileType
<1>7. Direct(f, new, k).pos = p + k /\ Direct(f, new, k).disk = o /\ Direct(f, new, k).buf = b
  BY <1>2, <1>4
<1>8. ASSUME Aligned(f)
      PROVE  /\ Aligned(Direct(f, new, k))
             /\ Extends(f.disk, Direct(f, new, k).disk)
             /\ Extends(Direct(f, new, k).disk, StreamOf(f) \o new)
             /\ k = 0 => StreamOf(Direct(f, new, k)) = StreamOf(f)
             /\ k = Len(new) => StreamOf(Direct(f, new, k)) = StreamOf(f) \o new
  <2>1. p = Len(d)
    BY <1>1, <1>8 DEF Aligned
  <2>2. Overwrite(d, Len(d), new, k) = d \o SubSeq(new, 1, k)
    BY <1>2, OverwriteAppends
  <2>3. /\ Extends(d, d \o SubSeq(new, 1, k))
        /\ Extends(d \o SubSeq(new, 1, k), d \o new)
    BY <1>2, AppendInTwo
  <2>4. Extends(d, o) /\ Extends(o, d \o new)
    BY <2>1, <2>2, <2>3, <1>3
  <2>5. StreamOf(f) = d /\ StreamOf(Direct(f, new, k)) = o
    <3>1. d \o b = d /\ o \o b = o
      BY <1>2, <1>5
    <3> QED
      BY <3>1, <1>1, <1>7 DEF StreamOf
  <2>6. k = 0 => o = d
    BY <2>1, <2>2, <1>2, <1>3
  <2>7. k = Len(new) => o = d \o new
    BY <2>1, <2>2, <1>2, <1>3
  <2>8. Aligned(Direct(f, new, k))
    <3>1. p + k = Len(o)
      BY <2>1, <1>2, <1>5
    <3> QED
      BY <3>1, <1>7 DEF Aligned
  <2> QED
    BY <2>4, <2>5, <2>6, <2>7, <2>8, <1>1, <1>7
<1>9. Len(Direct(f, new, k).buf) = 0
  BY <1>2, <1>7
<1> QED
  BY <1>1, <1>6, <1>7, <1>8, <1>9

(* What an outcome of handing new to the buffered file f guarantees.  Only *)
(* from an aligned file does it say where the cells ended up.              *)
Sound(f, new, o) ==
  /\ o.file \in FileType
  /\ o.file.pos <= Len(o.file.disk)
  /\ o.torn \in BOOLEAN
  /\ o.res = "ok" => o.file.pos + Len(o.file.buf) = f.pos + Len(f.buf) + Len(new)
  /\ Aligned(f) =>
       /\ Extends(f.disk, o.file.disk)
       /\ Extends(o.file.disk, StreamOf(f) \o new)
       /\ o.res = "ok" => Aligned(o.file) /\ StreamOf(o.file) = StreamOf(f) \o new
       /\ o.res # "ok" /\ ~o.torn => Aligned(o.file) /\ StreamOf(o.file) = StreamOf(f)

(* The members of BrokenFlush, one by one.                                 *)
LEMMA BrokenFlushCases ==
  ASSUME NEW f, NEW o \in BrokenFlush(f)
  PROVE  \E r \in {"err", "kill"}, k \in 0..Len(f.buf) - 1 :
           o = Outcome(r, "flush", Drained(f, k), FALSE)
  BY DEF BrokenFlush, Outcome, Drained

(* A flush that breaks off loses nothing: what did not reach the disk is   *)
(* still buffered.                                                         *)
LEMMA BrokenFlushSound ==
  ASSUME NEW f \in FileType, f.pos <= Len(f.disk), NEW new \in Seq(Cell),
         NEW o \in BrokenFlush(f)
  PROVE  Sound(f, new, o) /\ o.res # "ok"
<1>1. PICK r \in {"err", "kill"}, k \in 0..Len(f.buf) - 1 :
        o = Outcome(r, "flush", Drained(f, k), FALSE)
  BY BrokenFlushCases
<1>2. o.file = Drained(f, k) /\ o.torn = FALSE /\ o.res # "ok"
  BY <1>1 DEF Outcome
<1>3. k \in 0..Len(f.buf)
  BY DEF FileType
<1>4. /\ Drained(f, k) \in FileType
      /\ Drained(f, k).pos <= Len(Drained(f, k).disk)
      /\ Aligned(f) => /\ Aligned(Drained(f, k))
                       /\ StreamOf(Drained(f, k)) = StreamOf(f)
                       /\ Extends(f.disk, Drained(f, k).disk)
                       /\ Extends(Drained(f, k).disk, StreamOf(f))
  BY <1>3, DrainedShape
<1>5. Aligned(f) => Extends(Drained(f, k).disk, StreamOf(f) \o new)
  <2>1. /\ Drained(f, k).disk \in Seq(Cell) /\ StreamOf(f) \in Seq(Cell)
        /\ StreamOf(f) \o new \in Seq(Cell)
    BY <1>4 DEF FileType, StreamOf
  <2> QED
    BY <2>1, <1>4, ExtendsAppended, ExtendsTransitive
<1> QED
  BY <1>2, <1>4, <1>5 DEF Sound

LEMMA BrokenDirectCases ==
  ASSUME NEW f, NEW new, NEW o \in BrokenDirect(f, new)
  PROVE  \E r \in {"err", "kill"}, k \in 0..Len(new) - 1 :
           o = Outcome(r, "direct", Direct(f, new, k), k > 0)
  BY DEF BrokenDirect, Outcome, Direct

(* Making room for new flushes the buffer, unless new fits: afterwards the *)
(* stream is the same, and what does not fit a buffer finds it empty.      *)
LEMMA MakeRoomShape ==
  ASSUME NEW f \in FileType, f.pos <= Len(f.disk), NEW new \in Seq(Cell)
  PROVE  /\ MakeRoom(f, new) \in FileType
         /\ MakeRoom(f, new).pos <= Len(MakeRoom(f, new).disk)
         /\ MakeRoom(f, new).pos + Len(MakeRoom(f, new).buf) = f.pos + Len(f.buf)
         /\ Len(new) >= BufCap => Len(MakeRoom(f, new).buf) = 0
         /\ Aligned(f) => /\ Aligned(MakeRoom(f, new))
                          /\ StreamOf(MakeRoom(f, new)) = StreamOf(f)
                          /\ Extends(f.disk, MakeRoom(f, new).disk)
                          /\ Extends(MakeRoom(f, new).disk, StreamOf(f))
<1>1. Len(f.buf) \in Nat /\ Len(f.buf) \in 0..Len(f.buf) /\ f.pos \in Nat /\ Len(new) \in Nat
  BY DEF FileType
<1>2. CASE Full(f, new)
  <2>1. MakeRoom(f, new) = Drained(f, Len(f.buf))
    BY <1>2 DEF MakeRoom
  <2>2. /\ Drained(f, Len(f.buf)) \in FileType
        /\ Drained(f, Len(f.buf)).pos <= Len(Drained(f, Len(f.buf)).disk)
        /\ Drained(f, Len(f.buf)).pos = f.pos + Len(f.buf)
        /\ Len(Drained(f, Len(f.buf)).buf) = Len(f.buf) - Len(f.buf)
        /\ Aligned(f) => /\ Aligned(Drained(f, Len(f.buf)))
                         /\ StreamOf(Drained(f, Len(f.buf))) = StreamOf(f)
                         /\ Extends(f.disk, Drained(f, Len(f.buf)).disk)
                         /\ Extends(Drained(f, Len(f.buf)).disk, StreamOf(f))
    BY <1>1, DrainedShape
  <2> QED
    BY <1>1, <2>1, <2>2
<1>3. CASE ~Full(f, new)
  <2>1. MakeRoom(f, new) = f
    BY <1>3 DEF MakeRoom
  <2>2. Len(new) >= BufCap => Len(f.buf) = 0
    BY <1>1, <1>3, WriterAssumption DEF Full, WriterAssumption
  <2>3. Extends(f.disk, f.disk) /\ Extends(f.disk, StreamOf(f))
    BY DEF FileType, Extends, StreamOf
  <2> QED
    BY <2>1, <2>2, <2>3
<1> QED
  BY <1>2, <1>3

(* Whatever happens to a write, its outcome is sound.                      *)
LEMMA WriteAllSound ==
  ASSUME NEW f \in FileType, f.pos <= Len(f.disk), NEW new \in Seq(Cell),
         NEW o \in WriteAll(f, new)
  PROVE  Sound(f, new, o)
<1>1. PICK g : g = MakeRoom(f, new)
  OBVIOUS
<1>2. /\ g \in FileType
      /\ g.pos <= Len(g.disk)
      /\ g.pos + Len(g.buf) = f.pos + Len(f.buf)
      /\ Len(new) >= BufCap => Len(g.buf) = 0
      /\ Aligned(f) => /\ Aligned(g)
                       /\ StreamOf(g) = StreamOf(f)
                       /\ Extends(f.disk, g.disk)
                       /\ Extends(g.disk, StreamOf(f))
  BY <1>1, MakeRoomShape
<1>3. \/ o \in BrokenFlush(f)
      \/ Len(new) < BufCap /\ o = Outcome("ok", "buffer", Buffered(g, new), FALSE)
      \/ Len(new) >= BufCap /\ o = Outcome("ok", "direct", Direct(g, new, Len(new)), FALSE)
      \/ Len(new) >= BufCap /\ o \in BrokenDirect(g, new)
  <2>1. BufCap \in Nat /\ Len(new) \in Nat
    BY WriterAssumption DEF WriterAssumption
  <2>2. Len(new) < BufCap \/ Len(new) >= BufCap
    BY <2>1
  <2>3. ~(Len(new) < BufCap) => Len(new) >= BufCap
    BY <2>2
  <2> QED
    BY <1>1, <2>3, Zenon DEF WriteAll
<1>4. ASSUME Len(new) >= BufCap, NEW k \in 0..Len(new)
      PROVE  /\ Direct(g, new, k) \in FileType
             /\ Direct(g, new, k).pos <= Len(Direct(g, new, k).disk)
             /\ Direct(g, new, k).pos = g.pos + k
             /\ Len(Direct(g, new, k).buf) = 0
             /\ Aligned(f) => /\ Aligned(Direct(g, new, k))
                              /\ Extends(f.disk, Direct(g, new, k).disk)
                              /\ Extends(Direct(g, new, k).disk, StreamOf(f) \o new)
                              /\ k = 0 => StreamOf(Direct(g, new, k)) = StreamOf(f)
                              /\ k = Len(new) => StreamOf(Direct(g, new, k)) = StreamOf(f) \o new
  <2>1. /\ Direct(g, new, k) \in FileType
        /\ Direct(g, new, k).pos <= Len(Direct(g, new, k).disk)
        /\ Direct(g, new, k).pos = g.pos + k
        /\ Len(Direct(g, new, k).buf) = 0
        /\ Aligned(g) => /\ Aligned(Direct(g, new, k))
                         /\ Extends(g.disk, Direct(g, new, k).disk)
                         /\ Extends(Direct(g, new, k).disk, StreamOf(g) \o new)
                         /\ k = 0 => StreamOf(Direct(g, new, k)) = StreamOf(g)
                         /\ k = Len(new) => StreamOf(Direct(g, new, k)) = StreamOf(g) \o new
    BY <1>2, <1>4, DirectShape
  <2>2. /\ f.disk \in Seq(Cell) /\ g.disk \in Seq(Cell)
        /\ Direct(g, new, k).disk \in Seq(Cell)
    BY <1>2, <2>1 DEF FileType
  <2>3. Aligned(f) => Extends(f.disk, Direct(g, new, k).disk)
    BY <1>2, <2>1, <2>2, ExtendsTransitive
  <2> QED
    BY <1>2, <2>1, <2>3
<1>5. Len(new) \in Nat /\ Len(f.buf) \in Nat /\ f.pos \in Nat
  BY DEF FileType
<1>6. CASE o \in BrokenFlush(f)
  BY <1>6, BrokenFlushSound
<1>7. CASE Len(new) < BufCap /\ o = Outcome("ok", "buffer", Buffered(g, new), FALSE)
  <2>1. PICK b : b = Buffered(g, new)
    OBVIOUS
  <2>2. /\ b.disk = g.disk /\ b.pos = g.pos /\ b.buf = g.buf \o new
        /\ b \in FileType
    BY <1>2, <2>1 DEF Buffered, FileType
  <2>3. Len(b.buf) = Len(g.buf) + Len(new)
    BY <1>2, <2>2 DEF FileType
  <2>4. StreamOf(b) = StreamOf(g) \o new
    <3>1. g.disk \in Seq(Cell) /\ g.buf \in Seq(Cell) /\ new \in Seq(Cell)
      BY <1>2 DEF FileType
    <3>2. PICK gd, gb : gd = g.disk /\ gb = g.buf
      OBVIOUS
    <3>3. gd \in Seq(Cell) /\ gb \in Seq(Cell) /\ new \in Seq(Cell)
      BY <3>1, <3>2
    <3>4. (gd \o gb) \o new = gd \o (gb \o new)
      BY <3>3, ConcatAssociative
    <3> QED
      BY <3>2, <3>4, <2>2 DEF StreamOf
  <2>5. Aligned(f) => Extends(b.disk, StreamOf(f) \o new)
    <3>1. g.disk \in Seq(Cell) /\ StreamOf(f) \in Seq(Cell) /\ StreamOf(f) \o new \in Seq(Cell)
      BY <1>2 DEF FileType, StreamOf
    <3> QED
      BY <3>1, <1>2, <2>2, ExtendsAppended, ExtendsTransitive
  <2>6. o.file = b /\ o.res = "ok" /\ o.torn = FALSE
    BY <1>7, <2>1 DEF Outcome
  <2>7. b.pos + Len(b.buf) = f.pos + Len(f.buf) + Len(new)
    BY <1>2, <1>5, <2>2, <2>3 DEF FileType
  <2>8. Aligned(f) => Aligned(b)
    BY <1>2, <2>2 DEF Aligned
  <2> QED
    BY <1>2, <2>2, <2>4, <2>5, <2>6, <2>7, <2>8 DEF Sound
<1>8. CASE Len(new) >= BufCap /\ o = Outcome("ok", "direct", Direct(g, new, Len(new)), FALSE)
  <2>1. o.file = Direct(g, new, Len(new)) /\ o.res = "ok" /\ o.torn = FALSE
    BY <1>8 DEF Outcome
  <2>2. Len(new) \in 0..Len(new)
    BY <1>5
  <2>3. Direct(g, new, Len(new)).pos + Len(Direct(g, new, Len(new)).buf)
          = f.pos + Len(f.buf) + Len(new)
    <3>1. /\ Direct(g, new, Len(new)).pos = g.pos + Len(new)
          /\ Len(Direct(g, new, Len(new)).buf) = 0
          /\ Len(g.buf) = 0
      BY <1>2, <1>4, <1>8, <2>2
    <3>2. g.pos \in Nat
      BY <1>2 DEF FileType
    <3> QED
      BY <3>1, <3>2, <1>2, <1>5
  <2> QED
    BY <1>4, <1>8, <2>1, <2>2, <2>3 DEF Sound
<1>9. CASE Len(new) >= BufCap /\ o \in BrokenDirect(g, new)
  <2>1. PICK r \in {"err", "kill"}, k \in 0..Len(new) - 1 :
          o = Outcome(r, "direct", Direct(g, new, k), k > 0)
    BY <1>9, BrokenDirectCases
  <2>2. o.file = Direct(g, new, k) /\ o.res # "ok" /\ o.torn = (k > 0)
    BY <2>1 DEF Outcome
  <2>3. k \in 0..Len(new) /\ (~(k > 0) => k = 0)
    BY <1>5
  <2>4. /\ Direct(g, new, k) \in FileType
        /\ Direct(g, new, k).pos <= Len(Direct(g, new, k).disk)
        /\ Aligned(f) => /\ Aligned(Direct(g, new, k))
                         /\ Extends(f.disk, Direct(g, new, k).disk)
                         /\ Extends(Direct(g, new, k).disk, StreamOf(f) \o new)
                         /\ k = 0 => StreamOf(Direct(g, new, k)) = StreamOf(f)
    BY <1>4, <1>9, <2>3
  <2>5. o.torn \in BOOLEAN /\ (~o.torn => k = 0)
    <3>1. (k > 0) \in BOOLEAN
      BY <1>5
    <3> QED
      BY <3>1, <2>2, <2>3, Zenon
  <2>6. o.torn \in BOOLEAN /\ ~(o.res = "ok")
    BY <2>2, <2>5
  <2>7. Aligned(f) /\ ~o.torn => /\ Aligned(o.file)
                                 /\ StreamOf(o.file) = StreamOf(f)
    BY <2>2, <2>4, <2>5
  <2>8. o.file \in FileType /\ o.file.pos <= Len(o.file.disk)
    BY <2>2, <2>4
  <2>9. Aligned(f) => /\ Extends(f.disk, o.file.disk)
                     /\ Extends(o.file.disk, StreamOf(f) \o new)
    BY <2>2, <2>4
  <2> QED
    BY <2>6, <2>7, <2>8, <2>9 DEF Sound
<1> QED
  BY <1>3, <1>6, <1>7, <1>8, <1>9

LEMMA FlushSound ==
  ASSUME NEW f \in FileType, f.pos <= Len(f.disk), NEW o \in Flush(f)
  PROVE  Sound(f, << >>, o) /\ (o.res = "ok" => Len(o.file.buf) = 0)
<1>1. << >> \in Seq(Cell) /\ Len(<< >>) = 0
  OBVIOUS
<1>2. CASE o \in BrokenFlush(f)
  BY <1>1, <1>2, BrokenFlushSound
<1>3. CASE o = Outcome("ok", "flush", Drained(f, Len(f.buf)), FALSE)
  <2>1. PICK g : g = Drained(f, Len(f.buf))
    OBVIOUS
  <2>2. Len(f.buf) \in Nat /\ Len(f.buf) \in 0..Len(f.buf) /\ f.pos \in Nat
    BY DEF FileType
  <2>3. /\ g \in FileType /\ g.pos <= Len(g.disk)
        /\ g.pos = f.pos + Len(f.buf) /\ Len(g.buf) = Len(f.buf) - Len(f.buf)
        /\ Aligned(f) => /\ Aligned(g)
                         /\ StreamOf(g) = StreamOf(f)
                         /\ Extends(f.disk, g.disk)
                         /\ Extends(g.disk, StreamOf(f))
    BY <2>1, <2>2, DrainedShape
  <2>4. o.file = g /\ o.res = "ok" /\ o.torn = FALSE
    BY <1>3, <2>1 DEF Outcome
  <2>5. StreamOf(f) \o << >> = StreamOf(f)
    BY DEF FileType, StreamOf
  <2>6. g.pos + Len(g.buf) = f.pos + Len(f.buf) + Len(<< >>) /\ Len(g.buf) = 0
    BY <1>1, <2>2, <2>3
  <2> QED
    BY <2>3, <2>4, <2>5, <2>6 DEF Sound
<1> QED
  BY <1>2, <1>3 DEF Flush
-----------------------------------------------------------------------------
(***************************************************************************)
(* Types.  To be inductive the type invariant must say that the file       *)
(* offset never passes the end of the file, that the header is there when  *)
(* it is patched, and that a trailer's position is no negative number.     *)
(***************************************************************************)
TInv ==
  /\ TypeOK
  /\ file.pos <= Len(file.disk)
  /\ pc = "flush" => file.pos + Len(file.buf) >= FileHeaderSize
  /\ pc \in {"patch_pos", "patch_bit", "seek_end"} => Len(file.disk) >= FileHeaderSize
  /\ pc \in {"flush", "patch_pos", "patch_bit"} =>
       cursor >= Length(TrailerRecord(index_entries))

LEMMA TypeInit == Init => TInv
<1> SUFFICES ASSUME Init PROVE TInv
  OBVIOUS
<1>1. << >> \in Seq(Cell) /\ << >> \in Seq(Event) /\ << >> \in Seq(IndexEntry) /\ Len(<< >>) = 0
  OBVIOUS
<1>2. 0 \in Word
  BY FileAssumption DEF FileAssumption
<1>3. TypeOK
  BY <1>1, <1>2 DEF Init, TypeOK, EmptyBuilder, Finalizing, Done
<1> QED
  BY <1>1, <1>3 DEF Init, TInv

(* The record being built is a data record.                                *)
LEMMA BuildingType ==
  ASSUME TypeOK
  PROVE  /\ Building \in Content
         /\ Building.kind = "data"
         /\ Cells(Building) \in Seq(Cell)
<1>1. builder.evs \in Seq(Event) /\ builder.bytes \in Nat /\ builder.user_word \in Nat
  BY FileAssumption DEF TypeOK, FileAssumption
<1>2. Building \in Content
  BY <1>1, ContentTypes DEF Building
<1> QED
  BY <1>2, CellsType DEF Building, DataRecord

(* write_record's bookkeeping keeps the types.                             *)
LEMMA RecordedType ==
  ASSUME TypeOK, NEW r \in Content, Recorded(r)
  PROVE  cursor' \in Nat /\ index_entries' \in Seq(IndexEntry)
<1>1. Length(r) \in Nat /\ cursor \in Nat /\ index_entries \in Seq(IndexEntry)
  BY CellsType DEF TypeOK
<1>2. EventCount(r) \in Nat /\ r.word \in Nat
  BY FileAssumption DEF EventCount, Content, FileAssumption
<1>3. [position |-> cursor, record_length |-> Length(r),
       event_count |-> EventCount(r), user_word |-> r.word] \in IndexEntry
  BY <1>1, <1>2 DEF IndexEntry
<1> QED
  BY <1>1, <1>3 DEF Recorded

(* Being gone is well typed whatever is left on disk.                      *)
LEMMA GoneType ==
  ASSUME TypeOK, NEW disk \in Seq(Cell), Gone(disk)
  PROVE  TInv'
<1>1. << >> \in Seq(Cell) /\ << >> \in Seq(Event) /\ << >> \in Seq(IndexEntry)
  OBVIOUS
<1>2. 0 \in Word
  BY FileAssumption DEF FileAssumption
<1>3. file' \in [disk: Seq(Cell), pos: Nat, buf: Seq(Cell)] /\ file'.pos <= Len(file'.disk)
  BY <1>1 DEF Gone
<1>4. builder' \in [evs: Seq(Event), bytes: Nat, user_word: Word]
  BY <1>1, <1>2 DEF Gone, EmptyBuilder
<1> QED
  BY <1>1, <1>3, <1>4 DEF Gone, TInv, TypeOK, Finalizing, Done

(* An operation that is refused keeps the types, however it goes on.       *)
LEMMA RefusedType ==
  ASSUME TInv, NEW f \in FileType, NEW new \in Seq(Cell), NEW o, Sound(f, new, o),
         Refused(o),
         \/ pc' \notin {"flush", "patch_pos", "patch_bit", "seek_end"} \cup Done
           /\ pc' \in {"new", "open", "drop_file"} \cup Finalizing,
         by' \in {"finish", "drop"}
  PROVE  TInv'
<1>1. o.file \in FileType /\ o.file.pos <= Len(o.file.disk) /\ o.torn \in BOOLEAN
  BY DEF Sound
<1>2. faults' \in Nat /\ damaged' \in BOOLEAN
  BY <1>1 DEF TInv, TypeOK, Refused
<1> QED
  BY <1>1, <1>2 DEF Refused, TInv, TypeOK, FileType, Finalizing, Done

(* A write of new, taken at file, gives a sound outcome.                   *)
LEMMA WriteStep ==
  ASSUME TInv, NEW new \in Seq(Cell), NEW o \in WriteAll(file, new)
  PROVE  Sound(file, new, o) /\ o.file.disk \in Seq(Cell)
<1>1. file \in FileType /\ file.pos <= Len(file.disk)
  BY DEF TInv, TypeOK, FileType
<1>2. Sound(file, new, o)
  BY <1>1, WriteAllSound
<1> QED
  BY <1>2 DEF Sound, FileType

(* The typed state after write_record has succeeded with r.                *)
LEMMA RecordStep ==
  ASSUME TInv, NEW r \in Content, NEW o, Sound(file, Cells(r), o), Written(o), Recorded(r),
         builder' \in [evs: Seq(Event), bytes: Nat, user_word: Word],
         pc' \in {"open", "trailer"}, UNCHANGED <<finished, by>>
  PROVE  TInv'
<1>1. cursor' \in Nat /\ index_entries' \in Seq(IndexEntry)
  BY RecordedType DEF TInv
<1>2. file' \in FileType /\ file'.pos <= Len(file'.disk)
  BY DEF Sound, Written
<1> QED
  BY <1>1, <1>2 DEF TInv, TypeOK, Written, FileType, Finalizing, Done

(* A patch writes over one cell of the header and no other.                *)
LEMMA PatchShape ==
  ASSUME NEW d \in Seq(Cell), NEW at \in {FH_BIT_INFO, FH_TRAILER_POS}, NEW c \in Content,
         Len(d) >= FileHeaderSize
  PROVE  /\ Overwrite(d, at, Cells(c), 1) \in Seq(Cell)
         /\ Len(Overwrite(d, at, Cells(c), 1)) = Len(d)
         /\ \A i \in 1..Len(d) :
              Overwrite(d, at, Cells(c), 1)[i]
                = IF i = at + 1 THEN [of |-> c, at |-> 0] ELSE d[i]
<1>1. PICK new : new = Cells(c)
  OBVIOUS
<1>2. new \in Seq(Cell) /\ 1 <= Len(new) /\ new[1] = [of |-> c, at |-> 0]
  <2>1. /\ Length(c) \in Nat \ {0} /\ Len(new) = Length(c) /\ new \in Seq(Cell)
        /\ \A i \in 1..Length(c) : new[i] = [of |-> c, at |-> i - 1]
    BY <1>1, CellsType
  <2>2. 1 \in 1..Length(c)
    BY <2>1
  <2> QED
    BY <2>1, <2>2
<1>3. at \in Nat /\ 1 \in Nat /\ at <= Len(d) /\ at + 1 <= Len(d)
  BY DEF FH_BIT_INFO, FH_TRAILER_POS, FileHeaderSize
<1>4. PICK w : w = Overwrite(d, at, new, 1)
  OBVIOUS
<1>5. /\ w \in Seq(Cell)
      /\ Len(w) = IF at + 1 > Len(d) THEN at + 1 ELSE Len(d)
      /\ \A i \in 1..Len(w) : w[i] = IF i \in at + 1..at + 1 THEN new[i - at] ELSE d[i]
  BY <1>2, <1>3, <1>4, OverwriteShape
<1>6. Len(w) = Len(d)
  BY <1>3, <1>5
<1>7. \A i \in 1..Len(d) : w[i] = IF i = at + 1 THEN [of |-> c, at |-> 0] ELSE d[i]
  BY <1>2, <1>3, <1>5, <1>6
<1> QED
  BY <1>1, <1>4, <1>5, <1>6, <1>7

(* A patch, done or failed, keeps the types.                               *)
LEMMA PatchType ==
  ASSUME TInv, NEW at \in {FH_BIT_INFO, FH_TRAILER_POS}, NEW c \in Content,
         NEW next \in {"patch_bit", "seek_end"}, pc \in {"patch_pos", "patch_bit"},
         Patch(at, c, next)
  PROVE  TInv'
<1>0. /\ file \in FileType /\ file.pos <= Len(file.disk) /\ file.disk \in Seq(Cell)
      /\ Len(file.disk) >= FileHeaderSize /\ TypeOK
      /\ cursor >= Length(TrailerRecord(index_entries))
  BY DEF TInv, TypeOK, FileType
<1>1. at \in Nat /\ at + 1 \in Nat /\ at + 1 <= Len(file.disk) /\ at <= Len(file.disk)
  BY <1>0 DEF FH_BIT_INFO, FH_TRAILER_POS, FileHeaderSize
<1>2. CASE /\ file' = [file EXCEPT !.disk = Overwrite(@, at, Cells(c), 1), !.pos = at + 1]
           /\ pc' = next
           /\ UNCHANGED <<builder, index_entries, cursor, finished, by, faults, damaged>>
  <2>1. PICK w : w = Overwrite(file.disk, at, Cells(c), 1)
    OBVIOUS
  <2>2. w \in Seq(Cell) /\ Len(w) = Len(file.disk)
    BY <1>0, <2>1, PatchShape
  <2>3. file' = [disk |-> w, pos |-> at + 1, buf |-> file.buf]
    BY <1>0, <1>2, <2>1 DEF FileType
  <2>4. file' \in FileType /\ file'.pos <= Len(file'.disk) /\ Len(file'.disk) >= FileHeaderSize
    BY <1>0, <1>1, <2>2, <2>3 DEF FileType
  <2> QED
    BY <1>0, <1>2, <2>4 DEF TInv, TypeOK, FileType, Finalizing
<1>3. CASE /\ file' = [file EXCEPT !.pos = at]
           /\ faults' = faults + 1
           /\ damaged' = TRUE
           /\ GiveUp
           /\ UNCHANGED <<builder, index_entries, cursor, finished>>
  <2>1. file' \in FileType /\ file'.pos <= Len(file'.disk)
    BY <1>0, <1>1, <1>3 DEF FileType
  <2>2. faults' \in Nat
    BY <1>0, <1>3 DEF TypeOK
  <2> QED
    BY <1>0, <1>3, <2>1, <2>2 DEF TInv, TypeOK, FileType, GiveUp, Finalizing
<1> QED
  BY <1>2, <1>3 DEF Patch

LEMMA TypeStep == TInv /\ [Next]_vars => TInv'
<1> SUFFICES ASSUME TInv, [Next]_vars PROVE TInv'
  OBVIOUS
<1>0. /\ file \in FileType /\ file.pos <= Len(file.disk)
      /\ builder \in [evs: Seq(Event), bytes: Nat, user_word: Word]
      /\ index_entries \in Seq(IndexEntry) /\ cursor \in Nat
      /\ pc \in {"new", "open", "drop_file"} \cup Finalizing \cup Done
      /\ by \in {"finish", "drop"} /\ TypeOK
  BY DEF TInv, TypeOK, FileType
<1>1. /\ Building \in Content /\ Cells(Building) \in Seq(Cell)
      /\ DictRecord \in Content /\ Cells(DictRecord) \in Seq(Cell)
      /\ Length(DictRecord) \in Nat
  BY <1>0, BuildingType, ContentTypes, CellsType
<1>2. Reset(builder) \in [evs: Seq(Event), bytes: Nat, user_word: Word]
  BY <1>0 DEF Reset
<1>3. \A b \in [evs: Seq(Event), bytes: Nat, user_word: Word], e \in Event :
        AddEvent(b, e) \in [evs: Seq(Event), bytes: Nat, user_word: Word]
  BY FileAssumption DEF AddEvent, FileAssumption
<1>4. CASE Create
  <2>1. PICK f : f = [file EXCEPT !.buf = FileHeader]
    OBVIOUS
  <2>2. FileHeader \in Seq(Cell)
    <3>1. 0 \in Nat
      OBVIOUS
    <3>2. HeaderFront(0) \in Content /\ TrailerPos(0) \in Content
      BY <3>1, ContentTypes
    <3>3. Cells(HeaderFront(0)) \in Seq(Cell) /\ Cells(TrailerPos(0)) \in Seq(Cell)
      BY <3>2, CellsType
    <3> QED
      BY <3>3 DEF FileHeader
  <2>3. f \in FileType /\ f.pos <= Len(f.disk)
    BY <1>0, <2>1, <2>2 DEF FileType
  <2>4. PICK o \in WriteAll(f, Cells(DictRecord)) :
           \/ /\ Written(o)
              /\ cursor' = FileHeaderSize + Length(DictRecord)
              /\ pc' = "open"
              /\ UNCHANGED <<builder, index_entries, finished, by>>
           \/ /\ o.res = "err" /\ o.kind \in FaultKinds /\ faults < MaxFaults
              /\ file' = o.file
              /\ faults' = faults + 1
              /\ damaged' = (damaged \/ o.torn)
              /\ cursor' = FileHeaderSize
              /\ pc' = "flush_record"
              /\ by' = "drop"
              /\ UNCHANGED <<builder, index_entries, finished>>
           \/ Killed(o)
    BY <1>4, <2>1 DEF Create
  <2>5. Sound(f, Cells(DictRecord), o)
    BY <1>1, <2>3, <2>4, WriteAllSound
  <2>6. o.file \in FileType /\ o.file.pos <= Len(o.file.disk) /\ o.torn \in BOOLEAN
        /\ o.file.disk \in Seq(Cell)
    BY <2>5 DEF Sound, FileType
  <2>7. CASE Written(o) /\ cursor' = FileHeaderSize + Length(DictRecord) /\ pc' = "open"
             /\ UNCHANGED <<builder, index_entries, finished, by>>
    <3>1. cursor' \in Nat
      BY <1>1, <2>7 DEF FileHeaderSize
    <3> QED
      BY <1>0, <2>6, <2>7, <3>1 DEF TInv, TypeOK, Written, FileType, Finalizing, Done
  <2>8. CASE /\ file' = o.file
             /\ faults' = faults + 1
             /\ damaged' = (damaged \/ o.torn)
             /\ cursor' = FileHeaderSize
             /\ pc' = "flush_record"
             /\ by' = "drop"
             /\ UNCHANGED <<builder, index_entries, finished>>
    <3>1. cursor' \in Nat /\ faults' \in Nat
      BY <1>0, <2>8 DEF FileHeaderSize, TypeOK
    <3>2. damaged' \in BOOLEAN
      BY <1>0, <2>6, <2>8 DEF TypeOK
    <3> QED
      BY <1>0, <2>6, <2>8, <3>1, <3>2 DEF TInv, TypeOK, FileType, Finalizing, Done
  <2>9. CASE Killed(o)
    BY <1>0, <2>6, <2>9, GoneType DEF Killed
  <2> QED
    BY <2>4, <2>7, <2>8, <2>9
<1>5. ASSUME NEW e \in Event, AppendRaw(e) PROVE TInv'
  <2>1. CASE Overfull(e) /\ builder.evs # << >>
    <3>1. PICK o \in WriteAll(file, Cells(Building)) :
            \/ /\ Written(o) /\ Recorded(Building)
               /\ builder' = AddEvent(Reset(builder), e)
               /\ UNCHANGED <<finished, pc, by>>
            \/ Refused(o) /\ UNCHANGED <<pc, by>>
            \/ Killed(o)
      BY <1>5, <2>1 DEF AppendRaw
    <3>2. Sound(file, Cells(Building), o) /\ o.file.disk \in Seq(Cell) /\ pc = "open"
      BY <1>1, <1>5, WriteStep DEF AppendRaw
    <3>3. CASE Written(o) /\ Recorded(Building) /\ builder' = AddEvent(Reset(builder), e)
               /\ UNCHANGED <<finished, pc, by>>
      BY <1>1, <1>2, <1>3, <3>2, <3>3, RecordStep
    <3>4. CASE Refused(o) /\ UNCHANGED <<pc, by>>
      BY <1>0, <1>1, <3>2, <3>4, RefusedType DEF Done
    <3>5. CASE Killed(o)
      BY <1>0, <3>2, <3>5, GoneType DEF Killed
    <3> QED
      BY <3>1, <3>3, <3>4, <3>5
  <2>2. CASE ~(Overfull(e) /\ builder.evs # << >>)
    <3>1. builder' \in [evs: Seq(Event), bytes: Nat, user_word: Word]
      BY <1>0, <1>3, <1>5, <2>2 DEF AppendRaw
    <3> QED
      BY <1>5, <2>2, <3>1 DEF AppendRaw, TInv, TypeOK
  <2> QED
    BY <2>1, <2>2
<1>6. CASE FlushRecord
  <2>1. PICK o \in WriteAll(file, Cells(Building)) :
          \/ /\ Written(o) /\ Recorded(Building)
             /\ builder' = Reset(builder)
             /\ UNCHANGED <<finished, pc, by>>
          \/ Refused(o) /\ UNCHANGED <<pc, by>>
          \/ Killed(o)
    BY <1>6 DEF FlushRecord
  <2>2. Sound(file, Cells(Building), o) /\ o.file.disk \in Seq(Cell) /\ pc = "open"
    BY <1>1, <1>6, WriteStep DEF FlushRecord
  <2>3. CASE Written(o) /\ Recorded(Building) /\ builder' = Reset(builder)
             /\ UNCHANGED <<finished, pc, by>>
    BY <1>1, <1>2, <2>2, <2>3, RecordStep
  <2>4. CASE Refused(o) /\ UNCHANGED <<pc, by>>
    BY <1>0, <1>1, <2>2, <2>4, RefusedType DEF Done
  <2>5. CASE Killed(o)
    BY <1>0, <2>2, <2>5, GoneType DEF Killed
  <2> QED
    BY <2>1, <2>3, <2>4, <2>5
<1>7. ASSUME NEW batch \in Batch, NEW w \in Word, WriteRecord(batch, w) PROVE TInv'
  <2>1. PICK r : r = DataRecord(batch.evs, batch.bytes, w)
    OBVIOUS
  <2>2. r \in Content /\ Cells(r) \in Seq(Cell)
    <3>1. batch.evs \in Seq(Event) /\ batch.bytes \in Nat /\ w \in Nat
      BY WriterAssumption, FileAssumption DEF WriterAssumption, FileAssumption
    <3> QED
      BY <2>1, <3>1, ContentTypes, CellsType
  <2>3. PICK o \in WriteAll(file, Cells(r)) :
           \/ Written(o) /\ Recorded(r) /\ UNCHANGED <<builder, finished, pc, by>>
           \/ Refused(o) /\ UNCHANGED <<pc, by>>
           \/ Killed(o)
    BY <1>7, <2>1 DEF WriteRecord
  <2>4. Sound(file, Cells(r), o) /\ o.file.disk \in Seq(Cell) /\ pc = "open"
    BY <1>7, <2>2, WriteStep DEF WriteRecord
  <2>5. CASE Written(o) /\ Recorded(r) /\ UNCHANGED <<builder, finished, pc, by>>
    BY <1>0, <2>2, <2>4, <2>5, RecordStep
  <2>6. CASE Refused(o) /\ UNCHANGED <<pc, by>>
    BY <1>0, <2>2, <2>4, <2>6, RefusedType DEF Done
  <2>7. CASE Killed(o)
    BY <1>0, <2>4, <2>7, GoneType DEF Killed
  <2> QED
    BY <2>3, <2>5, <2>6, <2>7
<1>8. ASSUME NEW w \in Word, SetUserWord(w) PROVE TInv'
  BY <1>8 DEF SetUserWord, TInv, TypeOK
<1>9. ASSUME NEW who \in {"finish", "drop"}, Finalize(who) PROVE TInv'
  BY <1>9 DEF Finalize, TInv, TypeOK, Finalizing
<1>10. CASE FinalizeRecord
  <2>1. CASE builder.evs = << >>
    BY <1>10, <2>1 DEF FinalizeRecord, TInv, TypeOK, Finalizing
  <2>2. CASE builder.evs # << >>
    <3>1. PICK o \in WriteAll(file, Cells(Building)) :
            \/ /\ Written(o) /\ Recorded(Building)
               /\ builder' = Reset(builder)
               /\ pc' = "trailer"
               /\ UNCHANGED <<finished, by>>
            \/ Refused(o) /\ GiveUp
            \/ Killed(o)
      BY <1>10, <2>2 DEF FinalizeRecord
    <3>2. Sound(file, Cells(Building), o) /\ o.file.disk \in Seq(Cell)
      BY <1>1, WriteStep
    <3>3. CASE Written(o) /\ Recorded(Building) /\ builder' = Reset(builder)
               /\ pc' = "trailer" /\ UNCHANGED <<finished, by>>
      BY <1>1, <1>2, <3>2, <3>3, RecordStep
    <3>4. CASE Refused(o) /\ GiveUp
      BY <1>0, <1>1, <3>2, <3>4, RefusedType DEF GiveUp, Finalizing, Done
    <3>5. CASE Killed(o)
      BY <1>0, <3>2, <3>5, GoneType DEF Killed
    <3> QED
      BY <3>1, <3>3, <3>4, <3>5
  <2> QED
    BY <2>1, <2>2
<1>11. CASE FinalizeTrailer
  <2>1. PICK r : r = TrailerRecord(index_entries)
    OBVIOUS
  <2>2. /\ r \in Content /\ Cells(r) \in Seq(Cell) /\ Len(Cells(r)) = Length(r)
        /\ Length(r) \in Nat /\ Length(r) >= 3
    <3>1. r \in Content
      BY <1>0, <2>1, ContentTypes
    <3>2. Length(r) >= 3
      BY <1>0, <2>1 DEF Length, RecordHeaderSize, TrailerRecord
    <3> QED
      BY <3>1, <3>2, CellsType
  <2>3. PICK o \in WriteAll(file, Cells(r)) :
          \/ /\ Written(o)
             /\ cursor' = cursor + Length(r)
             /\ pc' = "flush"
             /\ UNCHANGED <<builder, index_entries, finished, by>>
          \/ Refused(o) /\ GiveUp
          \/ Killed(o)
    BY <1>11, <2>1 DEF FinalizeTrailer
  <2>4. Sound(file, Cells(r), o) /\ o.file.disk \in Seq(Cell)
    BY <2>2, WriteStep
  <2>5. CASE Written(o) /\ cursor' = cursor + Length(r) /\ pc' = "flush"
             /\ UNCHANGED <<builder, index_entries, finished, by>>
    <3>1. /\ file' \in FileType /\ file'.pos <= Len(file'.disk)
          /\ file'.pos + Len(file'.buf) = file.pos + Len(file.buf) + Length(r)
      BY <2>2, <2>4, <2>5 DEF Sound, Written
    <3>2. file.pos \in Nat /\ Len(file.buf) \in Nat
      BY <1>0 DEF FileType
    <3>3. file'.pos + Len(file'.buf) >= FileHeaderSize
      BY <2>2, <3>1, <3>2 DEF FileHeaderSize
    <3>4. cursor' \in Nat /\ cursor' >= Length(TrailerRecord(index_entries'))
      BY <1>0, <2>1, <2>2, <2>5
    <3> QED
      BY <1>0, <2>5, <3>1, <3>3, <3>4 DEF TInv, TypeOK, Written, FileType, Finalizing
  <2>6. CASE Refused(o) /\ GiveUp
    BY <1>0, <2>2, <2>4, <2>6, RefusedType DEF GiveUp, Finalizing, Done
  <2>7. CASE Killed(o)
    BY <1>0, <2>4, <2>7, GoneType DEF Killed
  <2> QED
    BY <2>3, <2>5, <2>6, <2>7
<1>12. CASE FinalizeFlush
  <2>1. PICK o \in Flush(file) :
          \/ /\ Written(o)
             /\ pc' = "patch_pos"
             /\ UNCHANGED <<builder, index_entries, cursor, finished, by>>
          \/ Refused(o) /\ GiveUp
          \/ Killed(o)
    BY <1>12 DEF FinalizeFlush
  <2>2. /\ Sound(file, << >>, o) /\ (o.res = "ok" => Len(o.file.buf) = 0)
        /\ o.file.disk \in Seq(Cell)
    <3>1. Sound(file, << >>, o) /\ (o.res = "ok" => Len(o.file.buf) = 0)
      BY <1>0, <2>1, FlushSound
    <3> QED
      BY <3>1 DEF Sound, FileType
  <2>3. pc = "flush" /\ file.pos + Len(file.buf) >= FileHeaderSize
        /\ cursor >= Length(TrailerRecord(index_entries))
    BY <1>12 DEF FinalizeFlush, TInv
  <2>4. CASE Written(o) /\ pc' = "patch_pos"
             /\ UNCHANGED <<builder, index_entries, cursor, finished, by>>
    <3>1. /\ file' \in FileType /\ file'.pos <= Len(file'.disk)
          /\ file'.pos + Len(file'.buf) = file.pos + Len(file.buf) + Len(<< >>)
          /\ Len(file'.buf) = 0
      BY <2>2, <2>4 DEF Sound, Written
    <3>2. file.pos \in Nat /\ Len(file.buf) \in Nat /\ file'.pos \in Nat /\ Len(<< >>) = 0
          /\ Len(file'.disk) \in Nat
      BY <1>0, <3>1 DEF FileType
    <3>3. Len(file'.disk) >= FileHeaderSize
      BY <2>3, <3>1, <3>2 DEF FileHeaderSize
    <3> QED
      BY <1>0, <2>3, <2>4, <3>1, <3>3 DEF TInv, TypeOK, Written, FileType, Finalizing
  <2>5. CASE Refused(o) /\ GiveUp
    <3>1. << >> \in Seq(Cell)
      OBVIOUS
    <3> QED
      BY <1>0, <2>2, <2>5, <3>1, RefusedType DEF GiveUp, Finalizing, Done
  <2>6. CASE Killed(o)
    BY <1>0, <2>2, <2>6, GoneType DEF Killed
  <2> QED
    BY <2>1, <2>4, <2>5, <2>6
<1>13. CASE PatchTrailerPos
  <2>1. TrailerPos(trailer_pos) \in Content
    <3>1. cursor >= Length(TrailerRecord(index_entries))
      BY <1>13 DEF PatchTrailerPos, TInv
    <3>2. Length(TrailerRecord(index_entries)) \in Nat
      BY <1>0, ContentTypes, CellsType
    <3>3. trailer_pos \in Nat
      BY <1>0, <3>1, <3>2 DEF trailer_pos
    <3> QED
      BY <3>3, ContentTypes
  <2> QED
    BY <1>13, <2>1, PatchType DEF PatchTrailerPos
<1>14. CASE PatchBitInfo
  <2>1. PICK c : c = IF file.disk[FH_BIT_INFO + 1].of.kind = "front"
                     THEN HeaderFront(1) ELSE file.disk[FH_BIT_INFO + 1].of
    OBVIOUS
  <2>2. Patch(FH_BIT_INFO, c, "seek_end") /\ pc = "patch_bit"
    BY <1>14, <2>1 DEF PatchBitInfo
  <2>3. c \in Content
    <3>1. Len(file.disk) >= FileHeaderSize /\ file.disk \in Seq(Cell)
      BY <1>0, <2>2 DEF TInv, FileType
    <3>2. file.disk[FH_BIT_INFO + 1] \in Cell
      BY <3>1 DEF FH_BIT_INFO, FileHeaderSize
    <3>3. file.disk[FH_BIT_INFO + 1].of \in Content
      BY <3>2 DEF Cell
    <3>4. 1 \in Nat
      OBVIOUS
    <3>5. HeaderFront(1) \in Content
      BY <3>4, ContentTypes
    <3> QED
      BY <2>1, <3>3, <3>5
  <2> QED
    BY <2>2, <2>3, PatchType
<1>15. CASE SeekEnd
  <2>1. CASE finished' = TRUE /\ pc' = "closed"
             /\ file' = [file EXCEPT !.pos = Len(file.disk)]
             /\ UNCHANGED <<builder, index_entries, cursor, by, faults, damaged>>
    <3>1. file' = [disk |-> file.disk, pos |-> Len(file.disk), buf |-> file.buf]
      BY <1>0, <2>1 DEF FileType
    <3>2. file' \in FileType /\ file'.pos <= Len(file'.disk)
      BY <1>0, <3>1 DEF FileType
    <3> QED
      BY <1>0, <1>15, <2>1, <3>2 DEF SeekEnd, TInv, TypeOK, FileType, Finalizing, Done
  <2>2. CASE faults < MaxFaults /\ faults' = faults + 1 /\ damaged' = TRUE /\ GiveUp
             /\ UNCHANGED <<file, builder, index_entries, cursor, finished>>
    BY <1>0, <1>15, <2>2 DEF SeekEnd, GiveUp, TInv, TypeOK, FileType, Finalizing, Done
  <2> QED
    BY <1>15, <2>1, <2>2 DEF SeekEnd
<1>16. CASE DropFile
  <2>1. PICK o \in Flush(file) : Gone(o.file.disk)
    BY <1>16 DEF DropFile
  <2>2. o.file.disk \in Seq(Cell)
    BY <1>0, <2>1, FlushSound DEF Sound, FileType
  <2> QED
    BY <1>0, <2>1, <2>2, GoneType
<1>17. CASE Crash
  BY <1>0, <1>17, GoneType DEF Crash, FileType
<1>18. CASE UNCHANGED vars
  BY <1>18 DEF vars, TInv, TypeOK, trailer_pos
<1> QED
  BY <1>4, <1>5, <1>6, <1>7, <1>8, <1>9, <1>10, <1>11, <1>12, <1>13, <1>14, <1>15, <1>16,
     <1>17, <1>18 DEF Next

(* Every variable keeps its type, whatever fails.                          *)
THEOREM TypeCorrect == Spec => []TypeOK
<1>1. TInv => TypeOK
  BY DEF TInv
<1> QED
  BY <1>1, TypeInit, TypeStep, PTL DEF Spec

-----------------------------------------------------------------------------
(***************************************************************************)
(* The index, the header and the disk: an index row always describes the   *)
(* record at its position, the header on disk names a trailer only when    *)
(* all of it is there, and nothing that has reached the disk behind the    *)
(* header is written over.                                                 *)
(***************************************************************************)
(* The books, damaged or not: rows are contiguous, the cursor follows the  *)
(* last of them while there is a record to write, and no event is left in  *)
(* the builder once its record is written.                                 *)
Books ==
  /\ \A i \in 1..Len(index_entries) - 1 :
       index_entries[i + 1].position = index_entries[i].position + index_entries[i].record_length
  /\ pc = "open" \/ builder.evs # << >> =>
       /\ FirstData <= cursor
       /\ index_entries # << >> =>
            cursor = index_entries[Len(index_entries)].position
                       + index_entries[Len(index_entries)].record_length
  /\ pc \in (Finalizing \ {"flush_record"}) \cup Done \cup {"new"} => builder.evs = << >>
  /\ pc = "new" => /\ index_entries = << >> /\ cursor = 0
                   /\ file = [disk |-> << >>, pos |-> 0, buf |-> << >>]

(* The trailer_position in the header of the cells s, if it is there, is 0.*)
NamesNothing(s) == Len(s) >= FileHeaderSize => s[FH_TRAILER_POS + 1].of.word = 0

(* What HeaderNamesTrailer says of the disk.                               *)
NamesTrailer(d) ==
  LET tp == d[FH_TRAILER_POS + 1].of.word
      t  == d[tp + 1].of
  IN  Len(d) >= FileHeaderSize /\ tp # 0 =>
        /\ tp + RecordHeaderSize <= Len(d)
        /\ t.kind = "trailer"
        /\ Holds(d, tp, t)
        /\ \A i \in DOMAIN t.rows : RowMatches(t.rows[i], d)

Patching == {"patch_bit", "seek_end"}

(* Undamaged, the stream is where the writer believes it is, every row     *)
(* describes it, and once handed over the trailer lies at trailer_pos.     *)
Healthy ==
  ~damaged /\ pc \notin Done =>
    /\ pc \notin Patching => Aligned(file) /\ NamesNothing(Stream)
    /\ pc # "new" => Len(Stream) >= FileHeaderSize
    /\ cursor = Len(Stream)
    /\ \A i \in 1..Len(index_entries) : RowMatches(index_entries[i], Stream)
    /\ pc \in {"flush", "patch_pos"} =>
         /\ trailer_pos >= FileHeaderSize
         /\ Holds(Stream, trailer_pos, TrailerRecord(index_entries))
    /\ pc \in Patching \cup {"patch_pos"} => Len(file.buf) = 0

(* Undamaged, from the first patch on the header names a whole trailer or  *)
(* none.                                                                   *)
Named == ~damaged /\ pc \in Patching \cup Done => NamesTrailer(file.disk)

IInv == TInv /\ Books /\ Healthy /\ Named

(***************************************************************************)
(* Rows and the cells they describe.                                       *)
(***************************************************************************)

(* A row that matches the cells s matches cells t that are at least as     *)
(* many and the same behind the file header.                               *)
LEMMA RowSurvives ==
  ASSUME NEW s \in Seq(Cell), NEW t \in Seq(Cell), NEW e \in IndexEntry, RowMatches(e, s),
         Len(s) <= Len(t), \A i \in FileHeaderSize + 1..Len(s) : t[i] = s[i]
  PROVE  RowMatches(e, t)
<1>1. PICK p : p = e.position
  OBVIOUS
<1>2. PICK r : r = s[p + 1].of
  OBVIOUS
<1>3. /\ p \in Nat /\ p >= FirstData /\ p + RecordHeaderSize <= Len(s)
      /\ Holds(s, p, r) /\ r.kind = "data"
      /\ e.record_length = Length(r) /\ e.event_count = Len(r.evs) /\ e.user_word = r.word
  BY <1>1, <1>2 DEF RowMatches, RecordOf, IndexEntry
<1>4. FirstData \in Nat /\ FirstData >= FileHeaderSize + 1
  BY FileAssumption DEF FirstData, FileHeaderSize, RecordHeaderSize, FileAssumption
<1>5. p + 1 \in FileHeaderSize + 1..Len(s)
  BY <1>3, <1>4 DEF FileHeaderSize, RecordHeaderSize
<1>6. t[p + 1].of = r
  BY <1>2, <1>5
<1>7. r \in Content /\ Length(r) \in Nat
  <2>1. s[p + 1] \in Cell
    BY <1>5 DEF FileHeaderSize
  <2> QED
    BY <2>1, <1>2, CellsType DEF Cell
<1>8. Holds(t, p, r)
  <2>1. p + Length(r) <= Len(s) /\ \A i \in 1..Length(r) : s[p + i] = [of |-> r, at |-> i - 1]
    BY <1>3 DEF Holds
  <2>2. p + Length(r) <= Len(t)
    BY <1>3, <1>7, <2>1
  <2>3. \A i \in 1..Length(r) : p + i \in FileHeaderSize + 1..Len(s)
    BY <1>3, <1>4, <1>7, <2>1 DEF FileHeaderSize
  <2>4. \A i \in 1..Length(r) : t[p + i] = [of |-> r, at |-> i - 1]
    BY <2>1, <2>3
  <2> QED
    BY <2>2, <2>4 DEF Holds
<1>9. p + RecordHeaderSize <= Len(t)
  BY <1>3 DEF RecordHeaderSize
<1> QED
  BY <1>1, <1>3, <1>6, <1>8, <1>9 DEF RowMatches, RecordOf

(* Content c appended to the cells s is held at their end.                 *)
LEMMA AppendedHolds ==
  ASSUME NEW s \in Seq(Cell), NEW c \in Content
  PROVE  /\ Holds(s \o Cells(c), Len(s), c)
         /\ Len(s) + RecordHeaderSize <= Len(s \o Cells(c))
         /\ (s \o Cells(c))[Len(s) + 1].of = c
<1>1. PICK new : new = Cells(c)
  OBVIOUS
<1>2. /\ Length(c) \in Nat \ {0} /\ new \in Seq(Cell) /\ Len(new) = Length(c)
      /\ \A i \in 1..Length(c) : new[i] = [of |-> c, at |-> i - 1]
  BY <1>1, CellsType
<1>3. /\ Len(s \o new) = Len(s) + Length(c)
      /\ \A i \in 1..Length(c) : (s \o new)[Len(s) + i] = new[i]
  <2>1. /\ Len(s \o new) = Len(s) + Length(c) /\ Len(s) \in Nat
        /\ \A j \in 1..Len(s) + Length(c) :
             (s \o new)[j] = IF j <= Len(s) THEN s[j] ELSE new[j - Len(s)]
    <3>1. /\ Len(s \o new) = Len(s) + Len(new)
          /\ \A j \in 1..Len(s) + Len(new) :
               (s \o new)[j] = IF j <= Len(s) THEN s[j] ELSE new[j - Len(s)]
      BY <1>2, ConcatProperties
    <3> QED
      BY <1>2, <3>1
  <2>2. ASSUME NEW i \in 1..Length(c) PROVE (s \o new)[Len(s) + i] = new[i]
    <3>1. /\ Len(s) + i \in 1..Len(s) + Length(c)
          /\ ~(Len(s) + i <= Len(s)) /\ (Len(s) + i) - Len(s) = i
      BY <1>2, <2>1
    <3> QED
      BY <2>1, <3>1
  <2> QED
    BY <2>1, <2>2
<1>4. 1 \in 1..Length(c)
  BY <1>2
<1>5. (s \o new)[Len(s) + 1] = [of |-> c, at |-> 0]
  BY <1>2, <1>3, <1>4
<1>6. Holds(s \o new, Len(s), c)
  BY <1>2, <1>3 DEF Holds
<1>7. Len(s) + RecordHeaderSize <= Len(s \o new)
  BY <1>2, <1>3 DEF RecordHeaderSize
<1> QED
  BY <1>1, <1>5, <1>6, <1>7

(* The row Recorded writes for a data record matches it.                   *)
LEMMA NewRowMatches ==
  ASSUME NEW s \in Seq(Cell), NEW r \in Content, r.kind = "data", FirstData <= Len(s)
  PROVE  RowMatches([position |-> Len(s), record_length |-> Length(r),
                     event_count |-> EventCount(r), user_word |-> r.word], s \o Cells(r))
<1>1. /\ Holds(s \o Cells(r), Len(s), r)
      /\ Len(s) + RecordHeaderSize <= Len(s \o Cells(r))
      /\ (s \o Cells(r))[Len(s) + 1].of = r
  BY AppendedHolds
<1>2. EventCount(r) = Len(r.evs)
  BY DEF EventCount
<1>3. FirstData \in Nat
  BY FileAssumption DEF FirstData, FileHeaderSize, RecordHeaderSize, FileAssumption
<1> QED
  BY <1>1, <1>2, <1>3 DEF RowMatches, RecordOf

(* Appending to a stream of at least a header leaves what it names alone.  *)
LEMMA NamesNothingAppended ==
  ASSUME NEW s \in Seq(Cell), NEW new \in Seq(Cell), Len(s) >= FileHeaderSize, NamesNothing(s)
  PROVE  /\ s \o new \in Seq(Cell) /\ Len(s \o new) = Len(s) + Len(new)
         /\ NamesNothing(s \o new)
         /\ \A i \in 1..Len(s) : (s \o new)[i] = s[i]
<1>1. /\ s \o new \in Seq(Cell) /\ Len(s \o new) = Len(s) + Len(new)
      /\ \A i \in 1..Len(s) : (s \o new)[i] = s[i]
  OBVIOUS
<1>2. FH_TRAILER_POS + 1 \in 1..Len(s)
  BY DEF FH_TRAILER_POS, FileHeaderSize
<1> QED
  BY <1>1, <1>2 DEF NamesNothing

(* A disk that is the beginning of a stream naming nothing names nothing.  *)
LEMMA BeginningNames ==
  ASSUME NEW d \in Seq(Cell), NEW s \in Seq(Cell), Extends(d, s), NamesNothing(s)
  PROVE  NamesTrailer(d)
<1>1. CASE Len(d) >= FileHeaderSize
  <2>1. FH_TRAILER_POS + 1 \in 1..Len(d) /\ Len(s) >= FileHeaderSize
    BY <1>1 DEF FH_TRAILER_POS, FileHeaderSize, Extends
  <2>2. d[FH_TRAILER_POS + 1].of.word = 0
    BY <2>1 DEF Extends, NamesNothing
  <2> QED
    BY <2>2 DEF NamesTrailer
<1>2. CASE ~(Len(d) >= FileHeaderSize)
  BY <1>2 DEF NamesTrailer
<1> QED
  BY <1>1, <1>2

(***************************************************************************)
(* What the outcomes of a write preserve.                                  *)
(***************************************************************************)
Writing == {"open", "flush_record", "trailer", "flush", "drop_file"}

(* The facts of a healthy state in the middle of the writer's life.        *)
LEMMA HealthyFacts ==
  ASSUME TInv, Healthy, ~damaged, pc \in Writing
  PROVE  /\ file \in FileType /\ Aligned(file) /\ Stream \in Seq(Cell)
         /\ Stream = StreamOf(file)
         /\ NamesNothing(Stream) /\ Len(Stream) >= FileHeaderSize
         /\ cursor = Len(Stream)
         /\ index_entries \in Seq(IndexEntry)
         /\ \A i \in 1..Len(index_entries) : RowMatches(index_entries[i], Stream)
<1>1. /\ file \in FileType /\ Stream \in Seq(Cell) /\ Stream = StreamOf(file)
      /\ index_entries \in Seq(IndexEntry)
  BY DEF TInv, TypeOK, FileType, Stream, StreamOf
<1>2. pc \notin Done /\ pc \notin Patching /\ pc # "new"
  BY DEF Writing, Done, Patching
<1> QED
  BY <1>1, <1>2 DEF Healthy

(* A write that succeeded has put its cells at the end of the stream.      *)
LEMMA OkWrite ==
  ASSUME TInv, Healthy, ~damaged, pc \in Writing,
         NEW new \in Seq(Cell), NEW o, Sound(file, new, o), Written(o)
  PROVE  /\ Aligned(file') /\ Stream' = Stream \o new /\ Stream' \in Seq(Cell)
         /\ Len(Stream') = Len(Stream) + Len(new)
         /\ NamesNothing(Stream')
         /\ \A e \in IndexEntry : RowMatches(e, Stream) => RowMatches(e, Stream')
<1>1. /\ file \in FileType /\ Aligned(file) /\ Stream \in Seq(Cell) /\ Stream = StreamOf(file)
      /\ NamesNothing(Stream) /\ Len(Stream) >= FileHeaderSize
  BY HealthyFacts
<1>2. Aligned(file') /\ Stream' = Stream \o new
  BY <1>1 DEF Sound, Written, Stream, StreamOf
<1>3. /\ Stream' \in Seq(Cell) /\ Len(Stream') = Len(Stream) + Len(new)
      /\ NamesNothing(Stream') /\ \A i \in 1..Len(Stream) : Stream'[i] = Stream[i]
  BY <1>1, <1>2, NamesNothingAppended
<1>4. Len(Stream) <= Len(Stream')
      /\ \A i \in FileHeaderSize + 1..Len(Stream) : Stream'[i] = Stream[i]
  BY <1>1, <1>3 DEF FileHeaderSize
<1>5. ASSUME NEW e \in IndexEntry, RowMatches(e, Stream) PROVE RowMatches(e, Stream')
  BY <1>1, <1>3, <1>4, <1>5, RowSurvives
<1> QED
  BY <1>2, <1>3, <1>5

(* A refused operation leaves the books, and undamaged the stream.         *)
LEMMA RefusedInv ==
  ASSUME IInv, pc \in Writing, NEW new \in Seq(Cell), NEW o, Sound(file, new, o), Refused(o),
         pc' \in {"open", "flush_record", "drop_file"}, pc' = "open" => pc = "open"
  PROVE  Books' /\ Healthy' /\ Named'
<1>1. Books'
  BY DEF IInv, Books, Refused, Finalizing, Done
<1>2. Named'
  BY DEF Named, Patching, Done
<1>3. Healthy'
  <2> SUFFICES ASSUME ~damaged' PROVE Healthy'
    BY DEF Healthy
  <2>1. ~damaged /\ ~o.torn /\ o.res # "ok" /\ file' = o.file
        /\ UNCHANGED <<builder, index_entries, cursor>>
    BY DEF Refused
  <2>2. /\ file \in FileType /\ Aligned(file) /\ Stream \in Seq(Cell)
        /\ Stream = StreamOf(file)
        /\ NamesNothing(Stream) /\ Len(Stream) >= FileHeaderSize
        /\ cursor = Len(Stream)
        /\ \A i \in 1..Len(index_entries) : RowMatches(index_entries[i], Stream)
    BY <2>1, HealthyFacts DEF IInv
  <2>3. Aligned(file') /\ Stream' = Stream
    BY <2>1, <2>2 DEF Sound, Stream, StreamOf
  <2> QED
    BY <2>1, <2>2, <2>3 DEF Healthy, Patching
<1> QED
  BY <1>1, <1>2, <1>3

(* Once the writer is gone there are no books to keep.                     *)
LEMMA GoneBooks ==
  ASSUME NEW disk, Gone(disk)
  PROVE  Books' /\ Healthy'
  BY DEF Gone, Books, Healthy, EmptyBuilder, Done, Finalizing

(* Killed in a write, the writer leaves a disk that names nothing.         *)
LEMMA KilledInv ==
  ASSUME IInv, pc \in Writing, NEW new \in Seq(Cell), NEW o, Sound(file, new, o),
         Gone(o.file.disk)
  PROVE  Books' /\ Healthy' /\ Named'
<1>1. Books' /\ Healthy'
  BY GoneBooks
<1>2. Named'
  <2> SUFFICES ASSUME ~damaged' PROVE NamesTrailer(file'.disk)
    BY DEF Named
  <2>1. ~damaged /\ file'.disk = o.file.disk
    BY DEF Gone
  <2>2. /\ file \in FileType /\ Aligned(file) /\ Stream \in Seq(Cell)
        /\ Stream = StreamOf(file)
        /\ NamesNothing(Stream) /\ Len(Stream) >= FileHeaderSize
    BY <2>1, HealthyFacts DEF IInv
  <2>3. Extends(o.file.disk, Stream \o new) /\ o.file.disk \in Seq(Cell)
    BY <2>2 DEF Sound, FileType
  <2>4. Stream \o new \in Seq(Cell) /\ NamesNothing(Stream \o new)
    BY <2>2, NamesNothingAppended
  <2> QED
    BY <2>1, <2>3, <2>4, BeginningNames
<1> QED
  BY <1>1, <1>2

(* A record written: its row matches it, and the books are balanced.       *)
LEMMA RecordInv ==
  ASSUME IInv, pc \in Writing, pc = "open" \/ builder.evs # << >>,
         NEW r \in Content, r.kind = "data", NEW o, Sound(file, Cells(r), o),
         Written(o), Recorded(r), pc' \in {"open", "trailer"},
         pc' = "trailer" => builder'.evs = << >>
  PROVE  Books' /\ Healthy' /\ Named'
<1>0. /\ Length(r) \in Nat \ {0} /\ Cells(r) \in Seq(Cell) /\ Len(Cells(r)) = Length(r)
      /\ cursor \in Nat /\ index_entries \in Seq(IndexEntry)
      /\ FirstData <= cursor /\ FirstData \in Nat
  BY CellsType, FileAssumption
  DEF IInv, TInv, TypeOK, Books, FirstData, FileHeaderSize, RecordHeaderSize, FileAssumption
<1>1. PICK e : e = [position |-> cursor, record_length |-> Length(r),
                    event_count |-> EventCount(r), user_word |-> r.word]
  OBVIOUS
<1>2. cursor' = cursor + Length(r) /\ index_entries' = Append(index_entries, e)
  BY <1>1 DEF Recorded
<1>3. e \in IndexEntry
  <2>1. EventCount(r) \in Nat /\ r.word \in Nat
    BY FileAssumption DEF EventCount, Content, FileAssumption
  <2> QED
    BY <1>0, <1>1, <2>1 DEF IndexEntry
<1>4. /\ Len(index_entries') = Len(index_entries) + 1
      /\ index_entries'[Len(index_entries) + 1] = e
      /\ \A i \in 1..Len(index_entries) : index_entries'[i] = index_entries[i]
      /\ Len(index_entries) \in Nat
  BY <1>0, <1>2, <1>3
<1>5. Books'
  <2>1. \A i \in 1..Len(index_entries') - 1 :
          index_entries'[i + 1].position
            = index_entries'[i].position + index_entries'[i].record_length
    <3>1. ASSUME NEW i \in 1..Len(index_entries') - 1, i < Len(index_entries)
          PROVE  index_entries'[i + 1].position
                   = index_entries'[i].position + index_entries'[i].record_length
      <4>1. i \in 1..Len(index_entries) - 1 /\ i \in 1..Len(index_entries)
            /\ i + 1 \in 1..Len(index_entries)
        BY <1>4, <3>1
      <4> QED
        BY <1>4, <4>1 DEF IInv, Books
    <3>2. ASSUME NEW i \in 1..Len(index_entries') - 1, i = Len(index_entries)
          PROVE  index_entries'[i + 1].position
                   = index_entries'[i].position + index_entries'[i].record_length
      <4>1. i \in 1..Len(index_entries) /\ index_entries # << >>
        BY <1>4, <3>2
      <4>2. cursor = index_entries[i].position + index_entries[i].record_length
        BY <3>2, <4>1 DEF IInv, Books
      <4>3. index_entries'[i + 1].position = cursor
        BY <1>1, <1>4, <3>2
      <4> QED
        BY <1>4, <4>1, <4>2, <4>3
    <3> QED
      BY <1>4, <3>1, <3>2
  <2>2. FirstData <= cursor'
    BY <1>0, <1>2
  <2>3. cursor' = index_entries'[Len(index_entries')].position
                    + index_entries'[Len(index_entries')].record_length
    BY <1>1, <1>2, <1>4
  <2> QED
    BY <2>1, <2>2, <2>3 DEF Books, Finalizing, Done
<1>6. Named'
  BY DEF Named, Patching, Done
<1>7. Healthy'
  <2> SUFFICES ASSUME ~damaged' PROVE Healthy'
    BY DEF Healthy
  <2>1. ~damaged
    BY DEF Written
  <2>2. /\ Stream \in Seq(Cell) /\ Len(Stream) >= FileHeaderSize /\ cursor = Len(Stream)
        /\ \A i \in 1..Len(index_entries) : RowMatches(index_entries[i], Stream)
    BY <2>1, HealthyFacts DEF IInv
  <2>3. /\ Aligned(file') /\ Stream' = Stream \o Cells(r) /\ Stream' \in Seq(Cell)
        /\ Len(Stream') = Len(Stream) + Length(r)
        /\ NamesNothing(Stream')
        /\ \A x \in IndexEntry : RowMatches(x, Stream) => RowMatches(x, Stream')
    BY <1>0, <2>1, OkWrite DEF IInv
  <2>4. RowMatches(e, Stream')
    BY <1>0, <1>1, <2>2, <2>3, NewRowMatches
  <2>5. \A i \in 1..Len(index_entries') : RowMatches(index_entries'[i], Stream')
    <3>1. ASSUME NEW i \in 1..Len(index_entries') PROVE RowMatches(index_entries'[i], Stream')
      <4>1. CASE i \in 1..Len(index_entries)
        <5>1. index_entries[i] \in IndexEntry
          BY <1>0, <4>1
        <5> QED
          BY <1>4, <2>2, <2>3, <4>1, <5>1
      <4>2. CASE i = Len(index_entries) + 1
        BY <1>4, <2>4, <4>2
      <4> QED
        BY <1>4, <4>1, <4>2
    <3> QED
      BY <3>1
  <2>6. cursor' = Len(Stream') /\ Len(Stream') >= FileHeaderSize
    BY <1>0, <1>2, <2>2, <2>3 DEF FileHeaderSize
  <2> QED
    BY <2>3, <2>5, <2>6 DEF Healthy, Patching
<1> QED
  BY <1>5, <1>6, <1>7

(***************************************************************************)
(* The steps that do more than write a record.                             *)
(***************************************************************************)

(* The file header is two cells that name nothing.                         *)
LEMMA FileHeaderShape ==
  FileHeader \in Seq(Cell) /\ Len(FileHeader) = FileHeaderSize /\ NamesNothing(FileHeader)
<1>1. PICK a, b : a = HeaderFront(0) /\ b = TrailerPos(0)
  OBVIOUS
<1>2. a \in Content /\ b \in Content /\ Length(a) = 1 /\ Length(b) = 1 /\ b.word = 0
  <2>1. 0 \in Nat
    OBVIOUS
  <2>2. a \in Content /\ b \in Content
    BY <1>1, <2>1, ContentTypes
  <2> QED
    BY <1>1, <2>2 DEF HeaderFront, TrailerPos, Length, RecordHeaderSize
<1>3. PICK x, y : x = Cells(a) /\ y = Cells(b)
  OBVIOUS
<1>4. /\ x \in Seq(Cell) /\ y \in Seq(Cell) /\ Len(x) = 1 /\ Len(y) = 1
      /\ y[1].of = b
  <2>1. /\ x \in Seq(Cell) /\ y \in Seq(Cell) /\ Len(x) = Length(a) /\ Len(y) = Length(b)
        /\ \A i \in 1..Length(b) : y[i] = [of |-> b, at |-> i - 1]
    BY <1>2, <1>3, CellsType
  <2>2. 1 \in 1..Length(b)
    BY <1>2
  <2> QED
    BY <1>2, <2>1, <2>2
<1>5. x \o y \in Seq(Cell) /\ Len(x \o y) = 2 /\ (x \o y)[2] = y[1]
  <2>1. /\ x \o y \in Seq(Cell) /\ Len(x \o y) = Len(x) + Len(y)
        /\ \A i \in 1..Len(x) + Len(y) :
             (x \o y)[i] = IF i <= Len(x) THEN x[i] ELSE y[i - Len(x)]
    BY <1>4, ConcatProperties
  <2>2. 2 \in 1..Len(x) + Len(y) /\ ~(2 <= Len(x)) /\ 2 - Len(x) = 1 /\ Len(x) + Len(y) = 2
    BY <1>4
  <2>3. (x \o y)[2] = y[2 - Len(x)]
    BY <2>1, <2>2
  <2> QED
    BY <2>1, <2>2, <2>3
<1>6. (x \o y)[2].of.word = 0
  BY <1>2, <1>4, <1>5
<1>7. FileHeader = x \o y
  BY <1>1, <1>3 DEF FileHeader
<1> QED
  BY <1>5, <1>6, <1>7 DEF NamesNothing, FileHeaderSize, FH_TRAILER_POS

LEMMA CreateInv ==
  ASSUME IInv, Create
  PROVE  Books' /\ Healthy' /\ Named'
<1>1. PICK f : f = [file EXCEPT !.buf = FileHeader]
  OBVIOUS
<1>2. /\ pc = "new" /\ index_entries = << >> /\ builder.evs = << >>
      /\ file = [disk |-> << >>, pos |-> 0, buf |-> << >>]
  BY DEF Create, IInv, Books
<1>3. /\ f = [disk |-> << >>, pos |-> 0, buf |-> FileHeader]
      /\ f \in FileType /\ f.pos <= Len(f.disk) /\ Aligned(f)
  <2>1. f = [disk |-> << >>, pos |-> 0, buf |-> FileHeader]
    BY <1>1, <1>2
  <2>2. << >> \in Seq(Cell) /\ Len(<< >>) = 0
    OBVIOUS
  <2>3. f.disk = << >> /\ f.pos = 0 /\ f.buf = FileHeader
    BY <2>1
  <2> QED
    BY <2>1, <2>2, <2>3, FileHeaderShape DEF FileType, Aligned
<1>4. StreamOf(f) = FileHeader
  BY <1>3, FileHeaderShape, ConcatEmptySeq DEF StreamOf
<1>5. /\ Cells(DictRecord) \in Seq(Cell) /\ Len(Cells(DictRecord)) = Length(DictRecord)
      /\ Length(DictRecord) \in Nat
  BY ContentTypes, CellsType
<1>6. PICK o \in WriteAll(f, Cells(DictRecord)) :
         \/ /\ Written(o)
            /\ cursor' = FileHeaderSize + Length(DictRecord)
            /\ pc' = "open"
            /\ UNCHANGED <<builder, index_entries, finished, by>>
         \/ /\ o.res = "err" /\ o.kind \in FaultKinds /\ faults < MaxFaults
            /\ file' = o.file
            /\ faults' = faults + 1
            /\ damaged' = (damaged \/ o.torn)
            /\ cursor' = FileHeaderSize
            /\ pc' = "flush_record"
            /\ by' = "drop"
            /\ UNCHANGED <<builder, index_entries, finished>>
         \/ Killed(o)
  BY <1>1 DEF Create
<1>7. Sound(f, Cells(DictRecord), o)
  BY <1>3, <1>5, <1>6, WriteAllSound
<1>8. PICK s : s = FileHeader \o Cells(DictRecord)
  OBVIOUS
<1>9. /\ s \in Seq(Cell) /\ Len(s) = FileHeaderSize + Length(DictRecord) /\ NamesNothing(s)
  <2>1. Len(FileHeader) >= FileHeaderSize
    BY FileHeaderShape DEF FileHeaderSize
  <2> QED
    BY <1>5, <1>8, <2>1, FileHeaderShape, NamesNothingAppended
<1>10. CASE Written(o) /\ cursor' = FileHeaderSize + Length(DictRecord) /\ pc' = "open"
            /\ UNCHANGED <<builder, index_entries, finished, by>>
  <2>1. Aligned(file') /\ Stream' = s
    BY <1>3, <1>4, <1>7, <1>8, <1>10 DEF Sound, Written, Stream, StreamOf
  <2>2. FirstData <= cursor'
    BY <1>5, <1>10, FileAssumption
    DEF FirstData, FileHeaderSize, Length, DictRecord, RecordHeaderSize, FileAssumption
  <2>3. Books'
    BY <1>2, <1>10, <2>2 DEF Books, Finalizing, Done
  <2>4. Len(Stream') >= FileHeaderSize
    BY <1>5, <1>9, <2>1 DEF FileHeaderSize
  <2>5. Healthy'
    BY <1>2, <1>9, <1>10, <2>1, <2>4 DEF Healthy, Patching
  <2> QED
    BY <1>10, <2>3, <2>5 DEF Named, Patching, Done
<1>11. CASE /\ o.res = "err"
            /\ file' = o.file
            /\ damaged' = (damaged \/ o.torn)
            /\ cursor' = FileHeaderSize
            /\ pc' = "flush_record"
            /\ UNCHANGED <<builder, index_entries, finished>>
  <2>1. Books'
    BY <1>2, <1>11 DEF Books, Finalizing, Done
  <2>2. ~damaged' => Aligned(file') /\ Stream' = FileHeader
    BY <1>3, <1>4, <1>7, <1>11 DEF Sound, Stream, StreamOf
  <2>3. FileHeaderSize >= FileHeaderSize
    BY DEF FileHeaderSize
  <2>4. Healthy'
    BY <1>2, <1>11, <2>2, <2>3, FileHeaderShape DEF Healthy, Patching
  <2> QED
    BY <1>11, <2>1, <2>4 DEF Named, Patching, Done
<1>12. CASE Killed(o)
  <2>1. Books' /\ Healthy'
    BY <1>12, GoneBooks DEF Killed
  <2>2. file'.disk = o.file.disk /\ o.file.disk \in Seq(Cell) /\ Extends(o.file.disk, s)
    BY <1>3, <1>4, <1>7, <1>8, <1>12 DEF Sound, Killed, Gone, FileType
  <2>3. NamesTrailer(file'.disk)
    BY <1>9, <2>2, BeginningNames
  <2> QED
    BY <2>1, <2>3 DEF Named
<1> QED
  BY <1>6, <1>10, <1>11, <1>12

LEMMA TrailerInv ==
  ASSUME IInv, FinalizeTrailer
  PROVE  Books' /\ Healthy' /\ Named'
<1>1. PICK r : r = TrailerRecord(index_entries)
  OBVIOUS
<1>2. /\ r \in Content /\ Cells(r) \in Seq(Cell) /\ Len(Cells(r)) = Length(r)
      /\ Length(r) \in Nat
  <2>1. r \in Content
    BY <1>1, ContentTypes DEF IInv, TInv, TypeOK
  <2> QED
    BY <2>1, CellsType
<1>3. PICK o \in WriteAll(file, Cells(r)) :
        \/ /\ Written(o)
           /\ cursor' = cursor + Length(r)
           /\ pc' = "flush"
           /\ UNCHANGED <<builder, index_entries, finished, by>>
        \/ Refused(o) /\ GiveUp
        \/ Killed(o)
  BY <1>1 DEF FinalizeTrailer
<1>4. Sound(file, Cells(r), o) /\ pc = "trailer" /\ pc \in Writing /\ builder.evs = << >>
  BY <1>2, <1>3, WriteStep DEF FinalizeTrailer, IInv, Books, Writing, Finalizing
<1>5. CASE Written(o) /\ cursor' = cursor + Length(r) /\ pc' = "flush"
           /\ UNCHANGED <<builder, index_entries, finished, by>>
  <2>1. Books'
    BY <1>4, <1>5 DEF IInv, Books, Finalizing, Done
  <2>2. Named'
    BY <1>5 DEF Named, Patching, Done
  <2>3. Healthy'
    <3> SUFFICES ASSUME ~damaged' PROVE Healthy'
      BY DEF Healthy
    <3>1. ~damaged
      BY <1>5 DEF Written
    <3>2. /\ Stream \in Seq(Cell) /\ Len(Stream) >= FileHeaderSize /\ cursor = Len(Stream)
          /\ index_entries \in Seq(IndexEntry)
          /\ \A i \in 1..Len(index_entries) : RowMatches(index_entries[i], Stream)
      BY <1>4, <3>1, HealthyFacts DEF IInv
    <3>3. /\ Aligned(file') /\ Stream' = Stream \o Cells(r) /\ Stream' \in Seq(Cell)
          /\ Len(Stream') = Len(Stream) + Length(r)
          /\ NamesNothing(Stream')
          /\ \A x \in IndexEntry : RowMatches(x, Stream) => RowMatches(x, Stream')
      BY <1>2, <1>4, <1>5, <3>1, OkWrite DEF IInv
    <3>4. \A i \in 1..Len(index_entries') : RowMatches(index_entries'[i], Stream')
      BY <1>5, <3>2, <3>3
    <3>5. Len(Stream) \in Nat
      BY <3>2
    <3>6. trailer_pos' = Len(Stream)
      BY <1>1, <1>2, <1>5, <3>2, <3>5 DEF trailer_pos
    <3>7. Holds(Stream', trailer_pos', TrailerRecord(index_entries'))
      BY <1>1, <1>2, <1>5, <3>2, <3>3, <3>6, AppendedHolds
    <3>8. cursor' = Len(Stream') /\ Len(Stream') >= FileHeaderSize
          /\ trailer_pos' >= FileHeaderSize
      BY <1>2, <1>5, <3>2, <3>3, <3>5, <3>6 DEF FileHeaderSize
    <3> QED
      BY <1>5, <3>3, <3>4, <3>7, <3>8 DEF Healthy, Patching
  <2> QED
    BY <2>1, <2>2, <2>3
<1>6. CASE Refused(o) /\ GiveUp
  BY <1>2, <1>4, <1>6, RefusedInv DEF GiveUp
<1>7. CASE Killed(o)
  BY <1>2, <1>4, <1>7, KilledInv DEF Killed
<1> QED
  BY <1>3, <1>5, <1>6, <1>7

LEMMA FlushInv ==
  ASSUME IInv, FinalizeFlush
  PROVE  Books' /\ Healthy' /\ Named'
<1>1. PICK o \in Flush(file) :
        \/ /\ Written(o)
           /\ pc' = "patch_pos"
           /\ UNCHANGED <<builder, index_entries, cursor, finished, by>>
        \/ Refused(o) /\ GiveUp
        \/ Killed(o)
  BY DEF FinalizeFlush
<1>2. /\ Sound(file, << >>, o) /\ (o.res = "ok" => Len(o.file.buf) = 0)
      /\ pc = "flush" /\ pc \in Writing /\ builder.evs = << >> /\ << >> \in Seq(Cell)
  <2>1. file \in FileType /\ file.pos <= Len(file.disk)
    BY DEF IInv, TInv, TypeOK, FileType
  <2> QED
    BY <1>1, <2>1, FlushSound DEF FinalizeFlush, IInv, Books, Writing, Finalizing
<1>3. CASE Written(o) /\ pc' = "patch_pos"
           /\ UNCHANGED <<builder, index_entries, cursor, finished, by>>
  <2>1. Books'
    BY <1>2, <1>3 DEF IInv, Books, Finalizing, Done
  <2>2. Named'
    BY <1>3 DEF Named, Patching, Done
  <2>3. Healthy'
    <3> SUFFICES ASSUME ~damaged' PROVE Healthy'
      BY DEF Healthy
    <3>1. ~damaged
      BY <1>3 DEF Written
    <3>2. /\ file \in FileType /\ Aligned(file) /\ Stream = StreamOf(file)
          /\ Stream \in Seq(Cell) /\ NamesNothing(Stream)
          /\ Len(Stream) >= FileHeaderSize /\ cursor = Len(Stream)
          /\ \A i \in 1..Len(index_entries) : RowMatches(index_entries[i], Stream)
      BY <1>2, <3>1, HealthyFacts DEF IInv
    <3>3. /\ trailer_pos >= FileHeaderSize
          /\ Holds(Stream, trailer_pos, TrailerRecord(index_entries))
      BY <1>2, <3>1 DEF IInv, Healthy, Done
    <3>4. Stream' = Stream /\ Aligned(file') /\ Len(file'.buf) = 0
      <4>1. Stream \o << >> = Stream
        BY <3>2
      <4> QED
        BY <1>2, <1>3, <3>2, <4>1 DEF Sound, Written, Stream, StreamOf
    <3>5. trailer_pos' = trailer_pos
      BY <1>3 DEF trailer_pos
    <3> QED
      BY <1>3, <3>2, <3>3, <3>4, <3>5 DEF Healthy, Patching
  <2> QED
    BY <2>1, <2>2, <2>3
<1>4. CASE Refused(o) /\ GiveUp
  BY <1>2, <1>4, RefusedInv DEF GiveUp
<1>5. CASE Killed(o)
  BY <1>2, <1>5, KilledInv DEF Killed
<1> QED
  BY <1>1, <1>3, <1>4, <1>5

(* What HeaderNamesTrailer says of a disk does not depend on the front of  *)
(* the header.                                                             *)
LEMMA FrontImmaterial ==
  ASSUME NEW d \in Seq(Cell), NEW w \in Seq(Cell), Len(w) = Len(d),
         \A i \in FH_TRAILER_POS + 1..Len(d) : w[i] = d[i], NamesTrailer(d)
  PROVE  NamesTrailer(w)
<1> SUFFICES ASSUME Len(w) >= FileHeaderSize, w[FH_TRAILER_POS + 1].of.word # 0
             PROVE  NamesTrailer(w)
  BY DEF NamesTrailer
<1>1. FH_TRAILER_POS + 1 \in FH_TRAILER_POS + 1..Len(d) /\ Len(d) >= FileHeaderSize
  BY DEF FH_TRAILER_POS, FileHeaderSize
<1>2. PICK tp : tp = d[FH_TRAILER_POS + 1].of.word
  OBVIOUS
<1>3. tp = w[FH_TRAILER_POS + 1].of.word /\ tp # 0 /\ tp \in Nat
  <2>1. d[FH_TRAILER_POS + 1] \in Cell
    BY <1>1 DEF FH_TRAILER_POS
  <2>2. tp \in Nat
    BY <1>2, <2>1 DEF Cell, Content
  <2> QED
    BY <1>1, <1>2, <2>2
<1>4. PICK t : t = d[tp + 1].of
  OBVIOUS
<1>5. /\ tp + RecordHeaderSize <= Len(d) /\ t.kind = "trailer" /\ Holds(d, tp, t)
      /\ \A i \in DOMAIN t.rows : RowMatches(t.rows[i], d)
  BY <1>1, <1>2, <1>3, <1>4 DEF NamesTrailer
<1>6. tp + 1 \in FH_TRAILER_POS + 1..Len(d) /\ tp + 1 \in 1..Len(d)
  BY <1>3, <1>5 DEF FH_TRAILER_POS, RecordHeaderSize
<1>7. w[tp + 1].of = t
  BY <1>4, <1>6
<1>8. t \in Content /\ Length(t) \in Nat
  <2>1. d[tp + 1] \in Cell
    BY <1>6
  <2> QED
    BY <1>4, <2>1, CellsType DEF Cell
<1>9. Holds(w, tp, t)
  <2>1. tp + Length(t) <= Len(d) /\ \A i \in 1..Length(t) : d[tp + i] = [of |-> t, at |-> i - 1]
    BY <1>5 DEF Holds
  <2>2. \A i \in 1..Length(t) : tp + i \in FH_TRAILER_POS + 1..Len(d)
    BY <1>3, <1>8, <2>1 DEF FH_TRAILER_POS
  <2> QED
    BY <2>1, <2>2 DEF Holds
<1>10. \A i \in DOMAIN t.rows : RowMatches(t.rows[i], w)
  <2>1. t.rows \in Seq(IndexEntry)
    BY <1>8 DEF Content
  <2>2. /\ Len(d) <= Len(w)
        /\ \A i \in FileHeaderSize + 1..Len(d) : w[i] = d[i]
    BY DEF FileHeaderSize, FH_TRAILER_POS
  <2>3. ASSUME NEW i \in DOMAIN t.rows PROVE RowMatches(t.rows[i], w)
    <3>1. t.rows[i] \in IndexEntry
      BY <2>1
    <3> QED
      BY <1>5, <2>2, <3>1, RowSurvives
  <2> QED
    BY <2>3
<1> QED
  BY <1>3, <1>5, <1>7, <1>9, <1>10 DEF NamesTrailer

(* Undamaged, a patch failed or done leaves all but its cell.              *)
LEMMA PatchInv ==
  ASSUME IInv, NEW at \in {FH_BIT_INFO, FH_TRAILER_POS}, NEW c \in Content,
         NEW next \in Patching, pc \in {"patch_pos", "patch_bit"}, Patch(at, c, next)
  PROVE  /\ Books' /\ Healthy'
         /\ ~damaged' =>
              /\ ~damaged /\ pc' = next
              /\ UNCHANGED <<index_entries, cursor>>
              /\ file'.disk \in Seq(Cell) /\ Len(file'.disk) = Len(file.disk)
              /\ \A i \in 1..Len(file.disk) :
                   file'.disk[i] = IF i = at + 1 THEN [of |-> c, at |-> 0] ELSE file.disk[i]
              /\ \A i \in 1..Len(index_entries) : RowMatches(index_entries[i], file'.disk)
<1>0. /\ file \in FileType /\ Len(file.disk) >= FileHeaderSize /\ index_entries \in Seq(IndexEntry)
      /\ pc \notin Done /\ pc # "new" /\ builder.evs = << >>
  BY DEF IInv, TInv, TypeOK, FileType, Done, Books, Finalizing
<1>1. CASE /\ file' = [file EXCEPT !.disk = Overwrite(@, at, Cells(c), 1), !.pos = at + 1]
           /\ pc' = next
           /\ UNCHANGED <<builder, index_entries, cursor, finished, by, faults, damaged>>
  <2>1. Books'
    BY <1>0, <1>1 DEF IInv, Books, Patching, Finalizing, Done
  <2>2. PICK w : w = Overwrite(file.disk, at, Cells(c), 1)
    OBVIOUS
  <2>3. /\ w \in Seq(Cell) /\ Len(w) = Len(file.disk)
        /\ \A i \in 1..Len(file.disk) : w[i] = IF i = at + 1 THEN [of |-> c, at |-> 0] ELSE file.disk[i]
    <3>1. file.disk \in Seq(Cell)
      BY <1>0 DEF FileType
    <3> QED
      BY <1>0, <2>2, <3>1, PatchShape
  <2>4. file' = [disk |-> w, pos |-> at + 1, buf |-> file.buf]
    BY <1>0, <1>1, <2>2 DEF FileType
  <2>5. CASE damaged
    BY <1>1, <2>1, <2>5 DEF Healthy
  <2>6. CASE ~damaged
    <3>1. /\ Len(file.buf) = 0 /\ cursor = Len(Stream)
          /\ \A i \in 1..Len(index_entries) : RowMatches(index_entries[i], Stream)
      BY <1>0, <2>6 DEF IInv, Healthy, Patching
    <3>2. Stream = file.disk /\ Stream' = w /\ Len(file'.buf) = 0
      <4>1. file.disk \o file.buf = file.disk /\ w \o file.buf = w
        BY <1>0, <2>3, <3>1 DEF FileType
      <4>2. file'.disk = w /\ file'.buf = file.buf
        BY <2>4
      <4> QED
        BY <3>1, <4>1, <4>2 DEF Stream
    <3>3. ASSUME NEW i \in 1..Len(index_entries) PROVE RowMatches(index_entries[i], w)
      <4>1. index_entries[i] \in IndexEntry /\ file.disk \in Seq(Cell)
        BY <1>0 DEF FileType
      <4>2. /\ Len(file.disk) <= Len(w)
            /\ \A j \in FileHeaderSize + 1..Len(file.disk) : w[j] = file.disk[j]
        <5>1. \A j \in FileHeaderSize + 1..Len(file.disk) :
                j \in 1..Len(file.disk) /\ j # at + 1
          BY DEF FH_BIT_INFO, FH_TRAILER_POS, FileHeaderSize
        <5>2. Len(file.disk) \in Nat
          BY <4>1
        <5> QED
          BY <2>3, <5>1, <5>2
      <4> QED
        BY <2>3, <3>1, <3>2, <4>1, <4>2, RowSurvives
    <3>4. Healthy'
      BY <1>0, <1>1, <2>3, <3>1, <3>2, <3>3 DEF Healthy, Patching
    <3>5. file'.disk = w
      BY <2>4
    <3> QED
      BY <1>1, <2>1, <2>3, <2>6, <3>3, <3>4, <3>5
  <2> QED
    BY <2>5, <2>6
<1>2. CASE /\ file' = [file EXCEPT !.pos = at]
           /\ faults' = faults + 1
           /\ damaged' = TRUE
           /\ GiveUp
           /\ UNCHANGED <<builder, index_entries, cursor, finished>>
  <2>1. Books'
    BY <1>0, <1>2 DEF IInv, Books, GiveUp, Finalizing, Done
  <2> QED
    BY <1>2, <2>1 DEF Healthy
<1> QED
  BY <1>1, <1>2 DEF Patch

(* Patching trailer_position makes the header name the trailer just        *)
(* flushed.                                                                *)
LEMMA PatchTrailerPosInv ==
  ASSUME IInv, PatchTrailerPos
  PROVE  Books' /\ Healthy' /\ Named'
<1>1. PICK tp, t : tp = trailer_pos /\ t = TrailerRecord(index_entries)
  OBVIOUS
<1>2. /\ pc = "patch_pos" /\ Patch(FH_TRAILER_POS, TrailerPos(tp), "patch_bit")
      /\ index_entries \in Seq(IndexEntry) /\ cursor \in Nat
      /\ file \in FileType /\ file.disk \in Seq(Cell) /\ Len(file.disk) >= FileHeaderSize
      /\ cursor >= Length(t)
  BY <1>1 DEF PatchTrailerPos, IInv, TInv, TypeOK, FileType
<1>3. t \in Content /\ Length(t) \in Nat \ {0} /\ t.kind = "trailer" /\ t.rows = index_entries
  BY <1>1, <1>2, ContentTypes, CellsType DEF TrailerRecord
<1>4. tp \in Nat /\ TrailerPos(tp) \in Content /\ TrailerPos(tp).word = tp
  <2>1. tp \in Nat
    BY <1>1, <1>2, <1>3 DEF trailer_pos
  <2> QED
    BY <2>1, ContentTypes DEF TrailerPos
<1>5. /\ Books' /\ Healthy'
      /\ ~damaged' =>
           /\ ~damaged /\ pc' = "patch_bit"
           /\ UNCHANGED <<index_entries, cursor>>
           /\ file'.disk \in Seq(Cell) /\ Len(file'.disk) = Len(file.disk)
           /\ \A i \in 1..Len(file.disk) :
                file'.disk[i] = IF i = FH_TRAILER_POS + 1
                                  THEN [of |-> TrailerPos(tp), at |-> 0] ELSE file.disk[i]
           /\ \A i \in 1..Len(index_entries) : RowMatches(index_entries[i], file'.disk)
  BY <1>2, <1>4, PatchInv DEF Patching
<1>6. ASSUME ~damaged' PROVE NamesTrailer(file'.disk)
  <2>1. PICK d, w : d = file.disk /\ w = file'.disk
    OBVIOUS
  <2>2. /\ tp >= FileHeaderSize /\ Holds(Stream, tp, t) /\ Len(file.buf) = 0
    BY <1>1, <1>2, <1>5, <1>6 DEF IInv, Healthy, Done, Patching
  <2>3. Stream = d
    <3>1. file.disk \o file.buf = file.disk
      BY <1>2, <2>2 DEF FileType
    <3> QED
      BY <2>1, <3>1 DEF Stream
  <2>4. tp + Length(t) <= Len(d) /\ \A i \in 1..Length(t) : d[tp + i] = [of |-> t, at |-> i - 1]
    BY <2>2, <2>3 DEF Holds
  <2>5. /\ Len(w) = Len(d) /\ Len(d) \in Nat /\ Len(d) >= FileHeaderSize
        /\ \A i \in 1..Len(d) : w[i] = IF i = FH_TRAILER_POS + 1
                                         THEN [of |-> TrailerPos(tp), at |-> 0] ELSE d[i]
    <3>1. /\ Len(file'.disk) = Len(file.disk)
          /\ \A i \in 1..Len(file.disk) :
               file'.disk[i] = IF i = FH_TRAILER_POS + 1
                                 THEN [of |-> TrailerPos(tp), at |-> 0] ELSE file.disk[i]
      BY <1>5, <1>6, Zenon
    <3>2. Len(file.disk) \in Nat /\ Len(file.disk) >= FileHeaderSize
      BY <1>2
    <3> QED
      BY <2>1, <3>1, <3>2, Zenon
  <2>6. \A i \in 1..Length(t) : tp + i \in 1..Len(d) /\ tp + i # FH_TRAILER_POS + 1
    BY <1>3, <1>4, <2>2, <2>4, <2>5 DEF FileHeaderSize, FH_TRAILER_POS
  <2>7. Holds(w, tp, t)
    BY <2>4, <2>5, <2>6 DEF Holds
  <2>8. w[FH_TRAILER_POS + 1].of.word = tp
    <3>1. FH_TRAILER_POS + 1 \in 1..Len(d)
      BY <2>5 DEF FileHeaderSize, FH_TRAILER_POS
    <3> QED
      BY <1>4, <2>5, <3>1
  <2>9. w[tp + 1].of = t
    <3>1. 1 \in 1..Length(t)
      BY <1>3
    <3>2. w[tp + 1] = [of |-> t, at |-> 1 - 1]
      BY <2>4, <2>5, <2>6, <3>1
    <3> QED
      BY <3>2
  <2>10. tp + RecordHeaderSize <= Len(w)
    BY <1>3, <1>4, <2>4, <2>5 DEF RecordHeaderSize
  <2>11. \A i \in DOMAIN t.rows : RowMatches(t.rows[i], w)
    BY <1>2, <1>3, <1>5, <1>6, <2>1
  <2> QED
    BY <1>3, <2>1, <2>7, <2>8, <2>9, <2>10, <2>11 DEF NamesTrailer
<1> QED
  BY <1>5, <1>6 DEF Named

LEMMA PatchBitInfoInv ==
  ASSUME IInv, PatchBitInfo
  PROVE  Books' /\ Healthy' /\ Named'
<1>1. PICK c : c = IF file.disk[FH_BIT_INFO + 1].of.kind = "front"
                   THEN HeaderFront(1) ELSE file.disk[FH_BIT_INFO + 1].of
  OBVIOUS
<1>2. /\ Patch(FH_BIT_INFO, c, "seek_end") /\ pc = "patch_bit"
      /\ file.disk \in Seq(Cell) /\ Len(file.disk) >= FileHeaderSize
  BY <1>1 DEF PatchBitInfo, IInv, TInv, TypeOK
<1>3. c \in Content
  <2>1. file.disk[FH_BIT_INFO + 1] \in Cell
    BY <1>2 DEF FH_BIT_INFO, FileHeaderSize
  <2>2. 1 \in Nat
    OBVIOUS
  <2>3. file.disk[FH_BIT_INFO + 1].of \in Content /\ HeaderFront(1) \in Content
    BY <2>1, <2>2, ContentTypes DEF Cell
  <2> QED
    BY <1>1, <2>3
<1>4. /\ Books' /\ Healthy'
      /\ ~damaged' =>
           /\ ~damaged
           /\ file'.disk \in Seq(Cell) /\ Len(file'.disk) = Len(file.disk)
           /\ \A i \in 1..Len(file.disk) :
                file'.disk[i] = IF i = FH_BIT_INFO + 1
                                  THEN [of |-> c, at |-> 0] ELSE file.disk[i]
  BY <1>2, <1>3, PatchInv DEF Patching
<1>5. ASSUME ~damaged' PROVE NamesTrailer(file'.disk)
  <2>1. NamesTrailer(file.disk)
    BY <1>2, <1>4, <1>5 DEF IInv, Named, Patching
  <2>2. \A i \in FH_TRAILER_POS + 1..Len(file.disk) : file'.disk[i] = file.disk[i]
    <3>1. \A i \in FH_TRAILER_POS + 1..Len(file.disk) :
            i \in 1..Len(file.disk) /\ i # FH_BIT_INFO + 1
      BY DEF FH_TRAILER_POS, FH_BIT_INFO
    <3> QED
      BY <1>4, <1>5, <3>1
  <2> QED
    BY <1>2, <1>4, <1>5, <2>1, <2>2, FrontImmaterial
<1> QED
  BY <1>4, <1>5 DEF Named

(* Nothing is on disk that the writer has not handed over.                 *)
LEMMA DiskBegins ==
  ASSUME TInv
  PROVE  /\ file.disk \in Seq(Cell) /\ Stream \in Seq(Cell) /\ Extends(file.disk, Stream)
  BY DEF TInv, TypeOK, Stream, Extends

LEMMA DropFileInv ==
  ASSUME IInv, DropFile
  PROVE  Books' /\ Healthy' /\ Named'
<1>1. PICK o \in Flush(file) : Gone(o.file.disk)
  BY DEF DropFile
<1>2. file \in FileType /\ file.pos <= Len(file.disk) /\ pc \in Writing /\ << >> \in Seq(Cell)
  BY DEF IInv, TInv, TypeOK, FileType, DropFile, Writing
<1>3. Sound(file, << >>, o)
  BY <1>1, <1>2, FlushSound
<1> QED
  BY <1>1, <1>2, <1>3, KilledInv

LEMMA CrashInv ==
  ASSUME IInv, Crash
  PROVE  Books' /\ Healthy' /\ Named'
<1>1. Books' /\ Healthy'
  BY GoneBooks DEF Crash
<1>2. ASSUME ~damaged' PROVE NamesTrailer(file'.disk)
  <2>1. ~damaged /\ file'.disk = file.disk /\ pc \notin Done
    BY <1>2 DEF Crash, Gone
  <2>2. CASE pc \in Patching
    BY <2>1, <2>2 DEF IInv, Named
  <2>3. CASE pc \notin Patching
    <3>1. NamesNothing(Stream)
      BY <2>1, <2>3 DEF IInv, Healthy
    <3> QED
      BY <2>1, <3>1, DiskBegins, BeginningNames DEF IInv
  <2> QED
    BY <2>2, <2>3
<1> QED
  BY <1>1, <1>2 DEF Named

LEMMA SeekEndInv ==
  ASSUME IInv, SeekEnd
  PROVE  Books' /\ Healthy' /\ Named'
<1>1. pc = "seek_end" /\ file'.disk = file.disk
      /\ UNCHANGED <<builder, index_entries, cursor>>
  BY DEF SeekEnd, IInv, TInv, TypeOK
<1>2. CASE pc' = "closed" /\ UNCHANGED damaged
  <2>1. Books'
    BY <1>1, <1>2 DEF IInv, Books, Finalizing, Done
  <2>2. Healthy'
    BY <1>2 DEF Healthy, Done
  <2>3. Named'
    BY <1>1, <1>2 DEF IInv, Named, Patching
  <2> QED
    BY <2>1, <2>2, <2>3
<1>3. CASE damaged' = TRUE /\ GiveUp
  <2>1. Books'
    BY <1>1, <1>3 DEF IInv, Books, GiveUp, Finalizing, Done
  <2> QED
    BY <1>3, <2>1 DEF Healthy, Named
<1> QED
  BY <1>2, <1>3 DEF SeekEnd

(* Actions that leave the file, the index and the cursor alone.            *)
LEMMA QuietInv ==
  ASSUME IInv, UNCHANGED <<file, index_entries, cursor, damaged>>,
         \/ pc = "open" /\ pc' \in {"open", "flush_record"}
         \/ pc = "flush_record" /\ pc' = "trailer" /\ builder'.evs = << >>
             /\ builder.evs = << >>
  PROVE  Books' /\ Healthy' /\ Named'
<1>1. Books'
  BY DEF IInv, Books, Finalizing, Done
<1>2. Stream' = Stream
  BY DEF Stream
<1>3. Healthy'
  BY <1>2 DEF IInv, Healthy, Patching, Done
<1>4. Named'
  BY DEF Named, Patching, Done
<1> QED
  BY <1>1, <1>3, <1>4
-----------------------------------------------------------------------------
LEMMA InvInit == Init => IInv
<1> SUFFICES ASSUME Init PROVE IInv
  OBVIOUS
<1>1. TInv
  BY TypeInit
<1>2. << >> \in Seq(Cell) /\ Len(<< >>) = 0 /\ << >> \o << >> = << >>
  OBVIOUS
<1>3. Books
  BY <1>2 DEF Init, Books, EmptyBuilder, Finalizing, Done
<1>4. Stream = << >>
  BY <1>2 DEF Init, Stream
<1>5. NamesNothing(Stream) /\ Aligned(file) /\ cursor = Len(Stream)
  BY <1>2, <1>4 DEF Init, NamesNothing, FileHeaderSize, Aligned
<1>6. Healthy
  BY <1>2, <1>4, <1>5 DEF Init, Healthy, Patching, Done
<1>7. Named
  BY DEF Init, Named, Patching, Done
<1> QED
  BY <1>1, <1>3, <1>6, <1>7 DEF IInv

LEMMA InvStep == IInv /\ [Next]_vars => IInv'
<1> SUFFICES ASSUME IInv, [Next]_vars PROVE IInv'
  OBVIOUS
<1>1. TInv'
  BY TypeStep DEF IInv
<1>2. Building \in Content /\ Building.kind = "data" /\ Cells(Building) \in Seq(Cell)
  BY BuildingType DEF IInv, TInv
<1>3. CASE Create
  BY <1>1, <1>3, CreateInv DEF IInv
<1>4. ASSUME NEW e \in Event, AppendRaw(e) PROVE IInv'
  <2>1. pc = "open" /\ pc \in Writing
    BY <1>4 DEF AppendRaw, Writing
  <2>2. CASE Overfull(e) /\ builder.evs # << >>
    <3>1. PICK o \in WriteAll(file, Cells(Building)) :
            \/ Written(o) /\ Recorded(Building) /\ UNCHANGED <<pc, by>>
            \/ Refused(o) /\ UNCHANGED <<pc, by>>
            \/ Killed(o)
      BY <1>4, <2>2 DEF AppendRaw
    <3>2. Sound(file, Cells(Building), o)
      BY <1>2, WriteStep DEF IInv
    <3>3. CASE Written(o) /\ Recorded(Building) /\ UNCHANGED <<pc, by>>
      BY <1>1, <1>2, <2>1, <3>2, <3>3, RecordInv DEF IInv
    <3>4. CASE Refused(o) /\ UNCHANGED <<pc, by>>
      BY <1>1, <1>2, <2>1, <3>2, <3>4, RefusedInv DEF IInv
    <3>5. CASE Killed(o)
      BY <1>1, <1>2, <2>1, <3>2, <3>5, KilledInv DEF IInv, Killed
    <3> QED
      BY <3>1, <3>3, <3>4, <3>5
  <2>3. CASE ~(Overfull(e) /\ builder.evs # << >>)
    <3>1. UNCHANGED <<file, index_entries, cursor, damaged, pc>>
      BY <1>4, <2>3 DEF AppendRaw
    <3> QED
      BY <1>1, <2>1, <3>1, QuietInv DEF IInv
  <2> QED
    BY <2>2, <2>3
<1>5. CASE FlushRecord
  <2>1. PICK o \in WriteAll(file, Cells(Building)) :
          \/ Written(o) /\ Recorded(Building) /\ UNCHANGED <<pc, by>>
          \/ Refused(o) /\ UNCHANGED <<pc, by>>
          \/ Killed(o)
    BY <1>5 DEF FlushRecord
  <2>2. Sound(file, Cells(Building), o) /\ pc = "open" /\ pc \in Writing
    BY <1>2, <1>5, WriteStep DEF IInv, FlushRecord, Writing
  <2>3. CASE Written(o) /\ Recorded(Building) /\ UNCHANGED <<pc, by>>
    BY <1>1, <1>2, <2>2, <2>3, RecordInv DEF IInv
  <2>4. CASE Refused(o) /\ UNCHANGED <<pc, by>>
    BY <1>1, <1>2, <2>2, <2>4, RefusedInv DEF IInv
  <2>5. CASE Killed(o)
    BY <1>1, <1>2, <2>2, <2>5, KilledInv DEF IInv, Killed
  <2> QED
    BY <2>1, <2>3, <2>4, <2>5
<1>6. ASSUME NEW batch \in Batch, NEW w \in Word, WriteRecord(batch, w) PROVE IInv'
  <2>1. PICK r : r = DataRecord(batch.evs, batch.bytes, w)
    OBVIOUS
  <2>2. r \in Content /\ r.kind = "data" /\ Cells(r) \in Seq(Cell)
    <3>1. batch.evs \in Seq(Event) /\ batch.bytes \in Nat /\ w \in Nat
      BY WriterAssumption, FileAssumption DEF WriterAssumption, FileAssumption
    <3> QED
      BY <2>1, <3>1, ContentTypes, CellsType DEF DataRecord
  <2>3. PICK o \in WriteAll(file, Cells(r)) :
           \/ Written(o) /\ Recorded(r) /\ UNCHANGED <<pc, by>>
           \/ Refused(o) /\ UNCHANGED <<pc, by>>
           \/ Killed(o)
    BY <1>6, <2>1 DEF WriteRecord
  <2>4. Sound(file, Cells(r), o) /\ pc = "open" /\ pc \in Writing
    BY <1>6, <2>2, WriteStep DEF IInv, WriteRecord, Writing
  <2>5. CASE Written(o) /\ Recorded(r) /\ UNCHANGED <<pc, by>>
    BY <1>1, <2>2, <2>4, <2>5, RecordInv DEF IInv
  <2>6. CASE Refused(o) /\ UNCHANGED <<pc, by>>
    BY <1>1, <2>2, <2>4, <2>6, RefusedInv DEF IInv
  <2>7. CASE Killed(o)
    BY <1>1, <2>2, <2>4, <2>7, KilledInv DEF IInv, Killed
  <2> QED
    BY <2>3, <2>5, <2>6, <2>7
<1>7. ASSUME NEW w \in Word, SetUserWord(w) PROVE IInv'
  BY <1>1, <1>7, QuietInv DEF SetUserWord, IInv
<1>8. ASSUME NEW who \in {"finish", "drop"}, Finalize(who) PROVE IInv'
  BY <1>1, <1>8, QuietInv DEF Finalize, IInv
<1>9. CASE FinalizeRecord
  <2>1. CASE builder.evs = << >>
    <3>1. /\ pc = "flush_record" /\ pc' = "trailer"
          /\ UNCHANGED <<file, builder, index_entries, cursor, damaged>>
      BY <1>9, <2>1 DEF FinalizeRecord
    <3> QED
      BY <1>1, <2>1, <3>1, QuietInv DEF IInv
  <2>2. CASE builder.evs # << >>
    <3>1. PICK o \in WriteAll(file, Cells(Building)) :
            \/ Written(o) /\ Recorded(Building) /\ builder' = Reset(builder) /\ pc' = "trailer"
            \/ Refused(o) /\ GiveUp
            \/ Killed(o)
      BY <1>9, <2>2 DEF FinalizeRecord
    <3>2. Sound(file, Cells(Building), o) /\ pc \in Writing
      BY <1>2, <1>9, WriteStep DEF IInv, FinalizeRecord, Writing
    <3>3. CASE Written(o) /\ Recorded(Building) /\ builder' = Reset(builder) /\ pc' = "trailer"
      <4>1. builder'.evs = << >>
        BY <3>3 DEF Reset
      <4> QED
        BY <1>1, <1>2, <2>2, <3>2, <3>3, <4>1, RecordInv DEF IInv
    <3>4. CASE Refused(o) /\ GiveUp
      BY <1>1, <1>2, <3>2, <3>4, RefusedInv DEF IInv, GiveUp
    <3>5. CASE Killed(o)
      BY <1>1, <1>2, <3>2, <3>5, KilledInv DEF IInv, Killed
    <3> QED
      BY <3>1, <3>3, <3>4, <3>5
  <2> QED
    BY <2>1, <2>2
<1>10. CASE FinalizeTrailer
  BY <1>1, <1>10, TrailerInv DEF IInv
<1>11. CASE FinalizeFlush
  BY <1>1, <1>11, FlushInv DEF IInv
<1>12. CASE PatchTrailerPos
  BY <1>1, <1>12, PatchTrailerPosInv DEF IInv
<1>13. CASE PatchBitInfo
  BY <1>1, <1>13, PatchBitInfoInv DEF IInv
<1>14. CASE SeekEnd
  BY <1>1, <1>14, SeekEndInv DEF IInv
<1>15. CASE DropFile
  BY <1>1, <1>15, DropFileInv DEF IInv
<1>16. CASE Crash
  BY <1>1, <1>16, CrashInv DEF IInv
<1>17. CASE UNCHANGED vars
  BY <1>1, <1>17 DEF vars, IInv, Books, Healthy, Named, Stream, trailer_pos
<1> QED
  BY <1>3, <1>4, <1>5, <1>6, <1>7, <1>8, <1>9, <1>10, <1>11, <1>12, <1>13, <1>14, <1>15,
     <1>16, <1>17 DEF Next

LEMMA InvAlways == Spec => []IInv
  BY InvInit, InvStep, PTL DEF Spec

(* While nothing has torn the file, every index row describes the record   *)
(* at its position, record follows record, and the cursor is the end of    *)
(* what was handed over: whatever the sizes of buffer, records and events. *)
THEOREM IndexCorrect == Spec => []IndexMatchesStream
<1>1. IInv => IndexMatchesStream
  <2> SUFFICES ASSUME IInv, ~damaged, pc \notin Done PROVE IndexMatchesStream
    BY DEF IndexMatchesStream
  <2>1. index_entries \in Seq(IndexEntry)
    BY DEF IInv, TInv, TypeOK
  <2>2. \A i \in DOMAIN index_entries : RowMatches(index_entries[i], Stream)
    BY <2>1 DEF IInv, Healthy
  <2>3. cursor = Len(Stream)
    BY DEF IInv, Healthy
  <2> QED
    BY <2>2, <2>3 DEF IInv, Books, IndexMatchesStream
<1> QED
  BY <1>1, InvAlways, PTL

(* Killed at any instant, the writer leaves a header that names no trailer *)
(* or one that is wholly there, with every record it lists.                *)
THEOREM HeaderCorrect == Spec => []HeaderNamesTrailer
<1>1. IInv => HeaderNamesTrailer
  <2> SUFFICES ASSUME IInv, ~damaged PROVE NamesTrailer(file.disk)
    BY DEF HeaderNamesTrailer, NamesTrailer
  <2>1. CASE pc \in Patching \cup Done
    BY <2>1 DEF IInv, Named
  <2>2. CASE pc \notin Patching \cup Done
    <3>1. NamesNothing(Stream)
      BY <2>2 DEF IInv, Healthy
    <3> QED
      BY <3>1, DiskBegins, BeginningNames DEF IInv
  <2> QED
    BY <2>1, <2>2
<1> QED
  BY <1>1, InvAlways, PTL

(* The cells of d behind the header are in w too, where they were.         *)
Keeps(d, w) ==
  \A i \in FileHeaderSize + 1..Len(d) : i <= Len(w) /\ w[i] = d[i]

LEMMA ExtendsKeeps ==
  ASSUME NEW d \in Seq(Cell), NEW w \in Seq(Cell), Extends(d, w)
  PROVE  Keeps(d, w)
  BY DEF Extends, Keeps, FileHeaderSize

(* A write keeps what is on disk, however it ends.                         *)
LEMMA WriteKeeps ==
  ASSUME IInv, ~damaged, pc \in Writing, NEW new \in Seq(Cell), NEW o, Sound(file, new, o)
  PROVE  Keeps(file.disk, o.file.disk)
<1>1. file \in FileType /\ Aligned(file)
  BY HealthyFacts DEF IInv
<1>2. /\ file.disk \in Seq(Cell) /\ o.file.disk \in Seq(Cell)
      /\ Extends(file.disk, o.file.disk)
  BY <1>1 DEF Sound, FileType
<1> QED
  BY <1>2, ExtendsKeeps

(* However a write ends, the disk is what its outcome says.                *)
LEMMA OutcomeDisk ==
  ASSUME NEW o, Written(o) \/ Refused(o) \/ Killed(o), ~damaged'
  PROVE  file'.disk = o.file.disk /\ ~damaged
<1>1. ~damaged
  BY Zenon DEF Written, Refused, Killed, Gone
<1>2. file'.disk = o.file.disk
  BY DEF Written, Refused, Killed, Gone
<1> QED
  BY <1>1, <1>2

(* A patch keeps what lies behind the header.                              *)
LEMMA PatchKeeps ==
  ASSUME IInv, NEW at \in {FH_BIT_INFO, FH_TRAILER_POS}, NEW c \in Content,
         NEW next \in Patching, pc \in {"patch_pos", "patch_bit"}, Patch(at, c, next), ~damaged'
  PROVE  Keeps(file.disk, file'.disk)
<1>1. /\ Len(file'.disk) = Len(file.disk)
      /\ \A i \in 1..Len(file.disk) :
           file'.disk[i] = IF i = at + 1 THEN [of |-> c, at |-> 0] ELSE file.disk[i]
  BY PatchInv
<1>2. Len(file.disk) \in Nat
  BY DEF IInv, TInv, TypeOK
<1>3. \A i \in FileHeaderSize + 1..Len(file.disk) : i \in 1..Len(file.disk) /\ i # at + 1
  BY <1>2 DEF FileHeaderSize, FH_BIT_INFO, FH_TRAILER_POS
<1> QED
  BY <1>1, <1>2, <1>3 DEF Keeps

LEMMA KeepStep == IInv /\ [Next]_vars /\ ~damaged' => Keeps(file.disk, file'.disk)
<1> SUFFICES ASSUME IInv, [Next]_vars, ~damaged' PROVE Keeps(file.disk, file'.disk)
  OBVIOUS
<1>1. /\ file \in FileType /\ file.disk \in Seq(Cell) /\ TInv
      /\ Building \in Content /\ Cells(Building) \in Seq(Cell)
  BY BuildingType DEF IInv, TInv, TypeOK, FileType
<1>2. Keeps(file.disk, file.disk)
  BY <1>1, ExtendsKeeps DEF Extends
<1>3. ASSUME ~damaged, pc \in Writing, NEW new \in Seq(Cell), NEW o \in WriteAll(file, new),
             file'.disk = o.file.disk
      PROVE  Keeps(file.disk, file'.disk)
  BY <1>1, <1>3, WriteStep, WriteKeeps
<1>4. CASE Create
  <2>1. file.disk = << >>
    BY <1>4 DEF Create, IInv, Books
  <2> QED
    BY <2>1 DEF Keeps, FileHeaderSize
<1>5. ASSUME NEW e \in Event, AppendRaw(e) PROVE Keeps(file.disk, file'.disk)
  <2>1. CASE Overfull(e) /\ builder.evs # << >>
    <3>1. PICK o \in WriteAll(file, Cells(Building)) : Written(o) \/ Refused(o) \/ Killed(o)
      BY <1>5, <2>1 DEF AppendRaw
    <3>2. file'.disk = o.file.disk /\ ~damaged /\ pc \in Writing
      BY <1>5, <3>1, OutcomeDisk DEF AppendRaw, Writing
    <3> QED
      BY <1>1, <1>3, <3>2
  <2>2. CASE ~(Overfull(e) /\ builder.evs # << >>)
    BY <1>2, <1>5, <2>2 DEF AppendRaw
  <2> QED
    BY <2>1, <2>2
<1>6. CASE FlushRecord
  <2>1. PICK o \in WriteAll(file, Cells(Building)) : Written(o) \/ Refused(o) \/ Killed(o)
    BY <1>6 DEF FlushRecord
  <2>2. file'.disk = o.file.disk /\ ~damaged /\ pc \in Writing
    BY <1>6, <2>1, OutcomeDisk DEF FlushRecord, Writing
  <2> QED
    BY <1>1, <1>3, <2>2
<1>7. ASSUME NEW batch \in Batch, NEW w \in Word, WriteRecord(batch, w)
      PROVE  Keeps(file.disk, file'.disk)
  <2>1. PICK r : r = DataRecord(batch.evs, batch.bytes, w)
    OBVIOUS
  <2>2. Cells(r) \in Seq(Cell)
    <3>1. batch.evs \in Seq(Event) /\ batch.bytes \in Nat /\ w \in Nat
      BY WriterAssumption, FileAssumption DEF WriterAssumption, FileAssumption
    <3> QED
      BY <2>1, <3>1, ContentTypes, CellsType
  <2>3. PICK o \in WriteAll(file, Cells(r)) : Written(o) \/ Refused(o) \/ Killed(o)
    BY <1>7, <2>1 DEF WriteRecord
  <2>4. file'.disk = o.file.disk /\ ~damaged /\ pc \in Writing
    BY <1>7, <2>3, OutcomeDisk DEF WriteRecord, Writing
  <2> QED
    BY <1>3, <2>2, <2>4
<1>8. ASSUME NEW w \in Word, SetUserWord(w) PROVE Keeps(file.disk, file'.disk)
  BY <1>2, <1>8 DEF SetUserWord
<1>9. ASSUME NEW who \in {"finish", "drop"}, Finalize(who) PROVE Keeps(file.disk, file'.disk)
  BY <1>2, <1>9 DEF Finalize
<1>10. CASE FinalizeRecord
  <2>1. CASE builder.evs = << >>
    BY <1>2, <1>10, <2>1 DEF FinalizeRecord
  <2>2. CASE builder.evs # << >>
    <3>1. PICK o \in WriteAll(file, Cells(Building)) : Written(o) \/ Refused(o) \/ Killed(o)
      BY <1>10, <2>2 DEF FinalizeRecord
    <3>2. file'.disk = o.file.disk /\ ~damaged /\ pc \in Writing
      BY <1>10, <3>1, OutcomeDisk DEF FinalizeRecord, Writing
    <3> QED
      BY <1>1, <1>3, <3>2
  <2> QED
    BY <2>1, <2>2
<1>11. CASE FinalizeTrailer
  <2>1. PICK r : r = TrailerRecord(index_entries)
    OBVIOUS
  <2>2. Cells(r) \in Seq(Cell)
    BY <2>1, ContentTypes, CellsType DEF IInv, TInv, TypeOK
  <2>3. PICK o \in WriteAll(file, Cells(r)) : Written(o) \/ Refused(o) \/ Killed(o)
    BY <1>11, <2>1 DEF FinalizeTrailer
  <2>4. file'.disk = o.file.disk /\ ~damaged /\ pc \in Writing
    BY <1>11, <2>3, OutcomeDisk DEF FinalizeTrailer, Writing
  <2> QED
    BY <1>3, <2>2, <2>4
<1>12. CASE FinalizeFlush \/ DropFile
  <2>1. PICK o \in Flush(file) : file'.disk = o.file.disk /\ ~damaged /\ pc \in Writing
    <3>1. CASE FinalizeFlush
      <4>1. PICK o \in Flush(file) : Written(o) \/ Refused(o) \/ Killed(o)
        BY <3>1 DEF FinalizeFlush
      <4> QED
        BY <3>1, <4>1, OutcomeDisk DEF FinalizeFlush, Writing
    <3>2. CASE DropFile
      <4>1. PICK o \in Flush(file) : Gone(o.file.disk)
        BY <3>2 DEF DropFile
      <4>2. file'.disk = o.file.disk /\ ~damaged
        BY <4>1 DEF Gone
      <4> QED
        BY <3>2, <4>2 DEF DropFile, Writing
    <3> QED
      BY <1>12, <3>1, <3>2
  <2>2. Sound(file, << >>, o) /\ << >> \in Seq(Cell)
    BY <1>1, FlushSound DEF TInv
  <2> QED
    BY <2>1, <2>2, WriteKeeps
<1>13. CASE PatchTrailerPos
  <2>1. cursor >= Length(TrailerRecord(index_entries)) /\ cursor \in Nat
        /\ Length(TrailerRecord(index_entries)) \in Nat
    BY <1>13, ContentTypes, CellsType DEF PatchTrailerPos, IInv, TInv, TypeOK
  <2>2. trailer_pos \in Nat
    BY <2>1 DEF trailer_pos
  <2>3. TrailerPos(trailer_pos) \in Content
    BY <2>2, ContentTypes
  <2> QED
    BY <1>13, <2>3, PatchKeeps DEF PatchTrailerPos, Patching
<1>14. CASE PatchBitInfo
  <2>1. PICK c : c = IF file.disk[FH_BIT_INFO + 1].of.kind = "front"
                     THEN HeaderFront(1) ELSE file.disk[FH_BIT_INFO + 1].of
    OBVIOUS
  <2>2. Len(file.disk) >= FileHeaderSize
    BY <1>14 DEF PatchBitInfo, IInv, TInv
  <2>3. file.disk[FH_BIT_INFO + 1] \in Cell /\ 1 \in Nat
    BY <1>1, <2>2 DEF FH_BIT_INFO, FileHeaderSize
  <2>4. c \in Content
    BY <2>1, <2>3, ContentTypes DEF Cell
  <2> QED
    BY <1>14, <2>1, <2>4, PatchKeeps DEF PatchBitInfo, Patching
<1>15. CASE SeekEnd \/ Crash \/ UNCHANGED vars
  <2>1. file'.disk = file.disk
    BY <1>1, <1>15 DEF SeekEnd, Crash, Gone, vars, FileType
  <2> QED
    BY <1>2, <2>1
<1> QED
  BY <1>4, <1>5, <1>6, <1>7, <1>8, <1>9, <1>10, <1>11, <1>12, <1>13, <1>14, <1>15
  DEF Next

(* No step that leaves the file undamaged writes over the dictionary or a  *)
(* record already on disk.                                                 *)
THEOREM RecordsKept == Spec => RecordsNeverOverwritten
<1>1. ASSUME IInv, [Next]_vars
      PROVE  [~damaged' => \A i \in FileHeaderSize + 1..Len(file.disk) :
                i <= Len(file'.disk) /\ file'.disk[i] = file.disk[i]]_vars
  BY <1>1, KeepStep DEF Keeps
<1> QED
  BY <1>1, InvAlways, PTL DEF Spec, RecordsNeverOverwritten
-----------------------------------------------------------------------------
(* A record never holds more than the options allow, but for the index     *)
(* word append_raw's estimate forgets.                                     *)
LEMMA LimitsStep == TypeOK /\ BuilderWithinLimits /\ [Next]_vars => BuilderWithinLimits'
<1> SUFFICES ASSUME TypeOK, BuilderWithinLimits, [Next]_vars PROVE BuilderWithinLimits'
  OBVIOUS
<1>1. /\ builder.evs \in Seq(Event) /\ builder.bytes \in Nat
      /\ max_record_events \in Nat /\ max_record_bytes \in Nat
      /\ EventLen \in [Event -> Nat \ {0}]
  BY WriterAssumption, FileAssumption DEF TypeOK, WriterAssumption, FileAssumption
<1>2. CASE builder'.evs = << >>
  BY <1>1, <1>2 DEF BuilderWithinLimits
<1>3. CASE builder'.evs = builder.evs /\ builder'.bytes = builder.bytes
  BY <1>3 DEF BuilderWithinLimits
<1>4. ASSUME NEW e \in Event, AppendRaw(e) PROVE BuilderWithinLimits'
  <2>1. CASE builder' = AddEvent(Reset(builder), e)
    <3>1. builder'.evs = <<e>>
      BY <2>1 DEF AddEvent, Reset
    <3> QED
      BY <1>1, <3>1 DEF BuilderWithinLimits
  <2>2. CASE builder' = AddEvent(builder, e) /\ ~(Overfull(e) /\ builder.evs # << >>)
    <3>1. /\ builder'.evs = Append(builder.evs, e)
          /\ builder'.bytes = builder.bytes + EventLen[e] /\ EventLen[e] \in Nat
      BY <1>1, <2>2 DEF AddEvent
    <3>2. Len(builder'.evs) = Len(builder.evs) + 1 /\ Len(builder.evs) \in Nat
      BY <1>1, <3>1
    <3>3. CASE builder.evs = << >>
      BY <1>1, <3>2, <3>3 DEF BuilderWithinLimits
    <3>4. CASE builder.evs # << >>
      <4>1. /\ Len(builder.evs) < max_record_events
            /\ Len(builder.evs) + builder.bytes + EventLen[e] <= max_record_bytes
        BY <1>1, <2>2, <3>1, <3>2, <3>4 DEF Overfull
      <4>2. Len(builder'.evs) <= max_record_events /\ max_record_events # 0
        BY <1>1, <3>2, <4>1
      <4>3. Len(builder'.evs) + builder'.bytes <= max_record_bytes + 1
        BY <1>1, <3>1, <3>2, <4>1
      <4> QED
        BY <4>2, <4>3 DEF BuilderWithinLimits
    <3> QED
      BY <3>3, <3>4
  <2>3. CASE builder'.evs = << >> \/ builder' = builder
    BY <1>2, <1>3, <2>3
  <2> QED
    BY <1>4, <2>1, <2>2, <2>3 DEF AppendRaw, Refused, Killed, Gone, EmptyBuilder
<1>5. ASSUME ~\E e \in Event : AppendRaw(e)
      PROVE  builder'.evs = << >> \/ (builder'.evs = builder.evs /\ builder'.bytes = builder.bytes)
  <2>1. CASE \E w \in Word : SetUserWord(w)
    BY <2>1 DEF SetUserWord, TypeOK
  <2>2. CASE Create \/ FlushRecord \/ \E batch \in Batch, w \in Word : WriteRecord(batch, w)
    BY <2>2 DEF Create, FlushRecord, WriteRecord, Refused, Killed, Gone, EmptyBuilder, Reset
  <2>3. CASE FinalizeRecord \/ FinalizeTrailer \/ FinalizeFlush
    BY <2>3
    DEF FinalizeRecord, FinalizeTrailer, FinalizeFlush, Refused, Killed, Gone, EmptyBuilder, Reset
  <2>4. CASE PatchTrailerPos \/ PatchBitInfo
    BY <2>4 DEF PatchTrailerPos, PatchBitInfo, Patch
  <2>5. CASE (\E who \in {"finish", "drop"} : Finalize(who)) \/ SeekEnd \/ DropFile \/ Crash
    BY <2>5 DEF Finalize, SeekEnd, DropFile, Crash, Gone, EmptyBuilder
  <2>6. CASE UNCHANGED vars
    BY <2>6 DEF vars
  <2> QED
    BY <1>5, <2>1, <2>2, <2>3, <2>4, <2>5, <2>6 DEF Next
<1> QED
  BY <1>2, <1>3, <1>4, <1>5

THEOREM LimitsKept == Spec => []BuilderWithinLimits
<1>1. Init => BuilderWithinLimits
  <2> SUFFICES ASSUME Init PROVE BuilderWithinLimits
    OBVIOUS
  <2>1. builder.evs = << >> /\ Len(<< >>) = 0 /\ max_record_events \in Nat
    BY WriterAssumption DEF Init, EmptyBuilder, WriterAssumption
  <2> QED
    BY <2>1 DEF BuilderWithinLimits
<1> QED
  BY <1>1, TypeCorrect, LimitsStep, PTL DEF Spec

(***************************************************************************)
(* The reader: what a scan, and a trailer, get out of any file.            *)
(***************************************************************************)

(* Only the elements at the places in I: all of them when all are in I.    *)
LEMMA OnlyAll ==
  ASSUME NEW S, NEW s \in Seq(S), NEW I, DOMAIN s \subseteq I
  PROVE  Only(s, I) = s
BY SubsequenceAll DEF Only, Subsequence
(***************************************************************************)
(* What is read from an index, one span after the other.                   *)
(***************************************************************************)
Handed == Event \cup {Phantom, Unreadable}

(* The record at an offset where a header parses, and its counts.          *)
LEMMA ParsedType ==
  ASSUME NEW d \in Seq(Cell), NEW p \in Nat, ParsesAt(d, p)
  PROVE  /\ p + 1 \in 1..Len(d) /\ d[p + 1] \in Cell /\ d[p + 1].of \in Content
         /\ d[p + 1].at = 0
         /\ EventCount(d[p + 1].of) \in Nat /\ Length(d[p + 1].of) \in Nat \ {0}
<1>1. p + 1 \in 1..Len(d) /\ d[p + 1].at = 0
  BY DEF ParsesAt, RecordHeaderSize
<1>2. d[p + 1] \in Cell
  BY <1>1
<1>3. PICK r : r = d[p + 1].of
  OBVIOUS
<1>4. r \in Content
  BY <1>2, <1>3 DEF Cell
<1>5. EventCount(r) \in Nat /\ Length(r) \in Nat \ {0}
  BY <1>4, FileAssumption DEF EventCount, Length, Content, RecordHeaderSize, FileAssumption
<1> QED BY <1>1, <1>2, <1>3, <1>4, <1>5

(* What is read at a span is events, or marks of what no writer wrote.     *)
LEMMA EventsAtType ==
  ASSUME NEW d \in Seq(Cell), NEW span \in RecordSpan
  PROVE  EventsAt(d, span) \in Seq(Handed) /\ DataAt(d, span) \in Seq(Event)
<1>1. PICK p, n : p = span.file_offset /\ n = span.event_count /\ p \in Nat /\ n \in Nat
  BY DEF RecordSpan
<1>2. CASE ~ReadableAt(d, p)
  <2>1. EventsAt(d, span) = [i \in 1..n |-> Unreadable] /\ DataAt(d, span) = << >>
    BY <1>1, <1>2 DEF EventsAt, DataAt
  <2>2. Unreadable \in Handed
    BY DEF Handed
  <2>3. [i \in 1..n |-> Unreadable] \in Seq(Handed) /\ << >> \in Seq(Event)
    BY <1>1, <2>2
  <2> QED BY <2>1, <2>3
<1>3. CASE ReadableAt(d, p)
  <2>1. PICK r : r = d[p + 1].of
    OBVIOUS
  <2>2. r \in Content /\ EventCount(r) \in Nat
    BY <1>1, <1>3, <2>1, ParsedType DEF ReadableAt
  <2>3. /\ EventsAt(d, span) = IF r.kind = "data" THEN r.evs ELSE [i \in 1..EventCount(r) |-> Phantom]
        /\ DataAt(d, span) = IF r.kind = "data" THEN r.evs ELSE << >>
    BY <1>1, <1>3, <2>1 DEF EventsAt, DataAt
  <2>4. r.evs \in Seq(Event) /\ Event \subseteq Handed /\ Phantom \in Handed
    BY <2>2 DEF Content, Handed
  <2>5. r.evs \in Seq(Handed)
    BY <2>4
  <2>6. [i \in 1..EventCount(r) |-> Phantom] \in Seq(Handed) /\ << >> \in Seq(Event)
    BY <2>2, <2>4
  <2> QED BY <2>3, <2>4, <2>5, <2>6
<1> QED BY <1>2, <1>3

(* All that is read at the spans of an index, and the data among it.       *)
(* What is read over spans, and the data events among it.                  *)
ReadOf(d, spans) == FlattenSeq([i \in 1..Len(spans) |-> EventsAt(d, spans[i])])
DataIn(d, spans) == FlattenSeq([i \in 1..Len(spans) |-> DataAt(d, spans[i])])

(* Reading by an index is reading over its spans.                          *)
LEMMA EventsOfIs ==
  ASSUME NEW d, NEW index, index.spans \in Seq(RecordSpan)
  PROVE  EventsOf(d, index) = ReadOf(d, index.spans) /\ DataOf(d, index) = DataIn(d, index.spans)
<1>1. DOMAIN index.spans = 1..Len(index.spans)
  OBVIOUS
<1>2. EventsOf(d, index) = ReadOf(d, index.spans)
  BY <1>1 DEF EventsOf, ReadOf
<1>3. DataOf(d, index) = DataIn(d, index.spans)
  BY <1>1 DEF DataOf, DataIn
<1> QED BY <1>2, <1>3

(* Without spans nothing is read.                                          *)
LEMMA ReadNone ==
  ASSUME NEW d
  PROVE  ReadOf(d, << >>) = << >> /\ DataIn(d, << >>) = << >>
<1>1. [i \in 1..Len(<< >>) |-> EventsAt(d, << >>[i])] = << >>
  OBVIOUS
<1>2. [i \in 1..Len(<< >>) |-> DataAt(d, << >>[i])] = << >>
  OBVIOUS
<1>3. FlattenSeq(<< >>) = << >>
  BY DEF FlattenSeq
<1> QED BY <1>1, <1>2, <1>3 DEF ReadOf, DataIn

(* One more span adds what is read there.                                  *)
LEMMA ReadMore ==
  ASSUME NEW d \in Seq(Cell), NEW spans \in Seq(RecordSpan), NEW x \in RecordSpan
  PROVE  /\ Append(spans, x) \in Seq(RecordSpan)
         /\ ReadOf(d, Append(spans, x)) = ReadOf(d, spans) \o EventsAt(d, x)
         /\ DataIn(d, Append(spans, x)) = DataIn(d, spans) \o DataAt(d, x)
<1>1. PICK n \in Nat : n = Len(spans)
  OBVIOUS
<1>2. PICK t : t = Append(spans, x)
  OBVIOUS
<1>3. /\ t \in Seq(RecordSpan) /\ Len(t) = n + 1 /\ t[n + 1] = x
      /\ \A i \in 1..n : t[i] = spans[i]
      /\ \A i \in 1..n : spans[i] \in RecordSpan
      /\ \A i \in 1..n + 1 : t[i] \in RecordSpan
  BY <1>1, <1>2
<1> DEFINE e == [i \in 1..n |-> EventsAt(d, spans[i])]
           f == [i \in 1..n + 1 |-> EventsAt(d, t[i])]
           a == [i \in 1..n |-> DataAt(d, spans[i])]
           b == [i \in 1..n + 1 |-> DataAt(d, t[i])]
<1>4. \A i \in 1..n : EventsAt(d, spans[i]) \in Seq(Handed) /\ DataAt(d, spans[i]) \in Seq(Event)
  BY <1>3, EventsAtType
<1>5. \A i \in 1..n + 1 : EventsAt(d, t[i]) \in Seq(Handed) /\ DataAt(d, t[i]) \in Seq(Event)
  BY <1>3, EventsAtType
<1>6. /\ e \in [1..n -> Seq(Handed)] /\ f \in [1..n + 1 -> Seq(Handed)]
      /\ a \in [1..n -> Seq(Event)] /\ b \in [1..n + 1 -> Seq(Event)]
  BY <1>4, <1>5
<1>7. /\ \A i \in 1..n : f[i] = e[i] /\ b[i] = a[i]
      /\ f[n + 1] = EventsAt(d, x) /\ b[n + 1] = DataAt(d, x)
  BY <1>3
<1>8. /\ ReadOf(d, spans) = FlattenSeq(e) /\ ReadOf(d, t) = FlattenSeq(f)
      /\ DataIn(d, spans) = FlattenSeq(a) /\ DataIn(d, t) = FlattenSeq(b)
  BY <1>1, <1>3 DEF ReadOf, DataIn
<1> HIDE DEF e, f, a, b
<1>9. FlattenSeq(f) = FlattenSeq(e) \o f[n + 1]
  <2>1. e \in [1..n -> Seq(Handed)] /\ f \in [1..n + 1 -> Seq(Handed)]
        /\ \A i \in 1..n : f[i] = e[i]
    BY <1>6, <1>7
  <2> QED BY ONLY <2>1, n \in Nat, FlattenMore
<1>10. FlattenSeq(b) = FlattenSeq(a) \o b[n + 1]
  <2>1. a \in [1..n -> Seq(Event)] /\ b \in [1..n + 1 -> Seq(Event)]
        /\ \A i \in 1..n : b[i] = a[i]
    BY <1>6, <1>7
  <2> QED BY ONLY <2>1, n \in Nat, FlattenMore
<1> QED BY <1>2, <1>3, <1>7, <1>8, <1>9, <1>10

(* What is read over spans is a sequence of such events.                   *)
LEMMA ReadType ==
  ASSUME NEW d \in Seq(Cell), NEW spans \in Seq(RecordSpan)
  PROVE  ReadOf(d, spans) \in Seq(Handed) /\ DataIn(d, spans) \in Seq(Event)
<1>1. Len(spans) \in Nat /\ \A i \in 1..Len(spans) : spans[i] \in RecordSpan
  OBVIOUS
<1>2. \A i \in 1..Len(spans) :
        EventsAt(d, spans[i]) \in Seq(Handed) /\ DataAt(d, spans[i]) \in Seq(Event)
  BY <1>1, EventsAtType
<1>3. [i \in 1..Len(spans) |-> EventsAt(d, spans[i])] \in [1..Len(spans) -> Seq(Handed)]
  BY <1>2
<1>4. [i \in 1..Len(spans) |-> DataAt(d, spans[i])] \in [1..Len(spans) -> Seq(Event)]
  BY <1>2
<1>5. ReadOf(d, spans) \in Seq(Handed)
  BY <1>1, <1>3, FlattenType DEF ReadOf
<1>6. DataIn(d, spans) \in Seq(Event)
  BY <1>1, <1>4, FlattenType DEF DataIn
<1> QED BY <1>5, <1>6

(* Files that are the same behind an offset are read the same there.       *)
LEMMA ReadSame ==
  ASSUME NEW d, NEW w, NEW spans,
         \A i \in 1..Len(spans) : EventsAt(w, spans[i]) = EventsAt(d, spans[i])
  PROVE  ReadOf(w, spans) = ReadOf(d, spans)
<1>1. [i \in 1..Len(spans) |-> EventsAt(w, spans[i])] = [i \in 1..Len(spans) |-> EventsAt(d, spans[i])]
  OBVIOUS
<1> QED BY <1>1 DEF ReadOf
(***************************************************************************)
(* The walk of build_index_by_scanning.                                    *)
(***************************************************************************)

(* find_first_record gives the least offset from where it was told to look *)
(* at which a whole record lies, or -1 when there is none.                 *)
LEMMA FirstIs ==
  ASSUME NEW d \in Seq(Cell), NEW from \in Nat
  PROVE  LET q == FindFirstRecord(d, from)
         IN  \/ q = -1 /\ \A p \in Nat : p >= from => ~FitsAt(d, p)
             \/ /\ q \in Nat /\ q >= from /\ FitsAt(d, q)
                /\ \A p \in Nat : p >= from /\ FitsAt(d, p) => q <= p
<1> DEFINE fits == {p \in from..Len(d) - 1 : FitsAt(d, p)}
<1>1. ASSUME NEW p \in Nat, p >= from, FitsAt(d, p) PROVE p \in fits
  <2>1. p + 1 <= Len(d)
    BY <1>1 DEF FitsAt, ParsesAt, RecordHeaderSize
  <2> QED BY <1>1, <2>1
<1>2. fits \in SUBSET Nat
  OBVIOUS
<1>3. FindFirstRecord(d, from) = IF fits = {} THEN -1 ELSE Min(fits)
  BY DEF FindFirstRecord
<1>4. CASE fits = {}
  BY <1>1, <1>3, <1>4
<1>5. CASE fits # {}
  <2>1. \A p \in fits : p \in Nat /\ p >= from /\ FitsAt(d, p)
    OBVIOUS
  <2> HIDE DEF fits
  <2>2. \E m \in fits : \A k \in fits : m <= k
    BY <1>2, <1>5, Least
  <2>3. Min(fits) \in fits /\ \A k \in fits : Min(fits) <= k
    BY <2>2 DEF Min
  <2> QED BY <1>1, <1>3, <1>5, <2>1, <2>3
<1> QED BY <1>4, <1>5

(* A walk stands at an offset, or is over.                                 *)
Standing(w) == w \in Walks /\ (w.at = -1 \/ w.at \in Nat)

(* A walk is where it stands and the index it has so far.                  *)
LEMMA WalkParts ==
  ASSUME NEW p, NEW index
  PROVE  Walk(p, index).at = p /\ Walk(p, index).index = index
  BY DEF Walk

(* A turn of a scan leaves a walk, moves it on or ends it, and changes     *)
(* nothing once it has ended.                                              *)
LEMMA TurnType ==
  ASSUME NEW d \in Seq(Cell), NEW tp, NEW salvage \in BOOLEAN, NEW w, Standing(w)
  PROVE  /\ Standing(Turn(d, tp, salvage, w))
         /\ Ended(d, w) => Turn(d, tp, salvage, w) = w
         /\ Turn(d, tp, salvage, w).at = -1 \/ Ended(d, w) \/ Turn(d, tp, salvage, w).at > w.at
<1>1. PICK p, index : p = w.at /\ index = w.index
  OBVIOUS
<1>2. index \in [ok: BOOLEAN, spans: Seq(RecordSpan)] /\ (p = -1 \/ p \in Nat)
      /\ index.spans \in Seq(RecordSpan)
  BY <1>1 DEF Standing, Walks
<1>3. CASE Ended(d, w)
  BY <1>3 DEF Turn
<1>4. CASE ~Ended(d, w) /\ ~ParsesAt(d, p)
  <2>1. p \in Nat
    BY <1>1, <1>2, <1>4 DEF Ended
  <2>2. Turn(d, tp, salvage, w)
          = IF salvage THEN Walk(FindFirstRecord(d, p + 1), index) ELSE Walk(-1, Failed)
    BY <1>1, <1>4 DEF Turn
  <2>3. FindFirstRecord(d, p + 1) = -1
        \/ (FindFirstRecord(d, p + 1) \in Nat /\ FindFirstRecord(d, p + 1) > p)
    <3>1. p + 1 \in Nat /\ \A q \in Nat : q >= p + 1 => q > p
      BY <2>1
    <3> QED BY <3>1, FirstIs
  <2>4. Failed \in [ok: BOOLEAN, spans: Seq(RecordSpan)]
    BY DEF Failed
  <2> HIDE DEF Failed
  <2>5. \A q, i : (q = -1 \/ q \in Nat) /\ i \in [ok: BOOLEAN, spans: Seq(RecordSpan)]
                    => Standing(Walk(q, i))
    BY DEF Standing, Walks, Walk
  <2> QED BY <1>1, <1>2, <1>4, <2>2, <2>3, <2>4, <2>5, WalkParts
<1>5. CASE ~Ended(d, w) /\ ParsesAt(d, p)
  <2>1. p \in Nat
    BY <1>1, <1>2, <1>5 DEF Ended
  <2>2. PICK r : r = d[p + 1].of
    OBVIOUS
  <2>3. Length(r) \in Nat \ {0} /\ EventCount(r) \in Nat
    BY <1>5, <2>1, <2>2, ParsedType
  <2>4. Turn(d, tp, salvage, w)
          = IF salvage /\ ~FitsAt(d, p) THEN Walk(-1, index)
            ELSE Walk(p + Length(r), Indexed(d, tp, w))
    BY <1>1, <1>5, <2>2 DEF Turn
  <2>5. Span(p, Length(r), EventCount(r)) \in RecordSpan
    BY <2>1, <2>3 DEF Span, RecordSpan
  <2>6. Index(Append(index.spans, Span(p, Length(r), EventCount(r))))
          \in [ok: BOOLEAN, spans: Seq(RecordSpan)]
    <3>1. Append(index.spans, Span(p, Length(r), EventCount(r))) \in Seq(RecordSpan)
      BY <1>2, <2>5
    <3> QED BY <3>1 DEF Index
  <2>7. Indexed(d, tp, w) \in [ok: BOOLEAN, spans: Seq(RecordSpan)]
    BY <1>1, <1>2, <2>2, <2>6 DEF Indexed
  <2>8. \A q, i : (q = -1 \/ q \in Nat) /\ i \in [ok: BOOLEAN, spans: Seq(RecordSpan)]
                    => Standing(Walk(q, i))
    BY DEF Standing, Walks, Walk
  <2>9. p + Length(r) \in Nat /\ p + Length(r) > p
    BY <2>1, <2>3
  <2> QED BY <1>1, <1>2, <1>5, <2>4, <2>7, <2>8, <2>9, WalkParts
<1> QED BY <1>1, <1>3, <1>4, <1>5

(* g is the walk over d from first: where it stands after each turn.       *)
IsWalk(g, d, first, tp, salvage) ==
  /\ g[0] = Walk(first, Index(<< >>))
  /\ \A n \in 0..Len(d) : Standing(g[n])
  /\ \A n \in 0..Len(d) - 1 : g[n + 1] = Turn(d, tp, salvage, g[n])

(* f takes its turns as the recursive definition in ScanIndex states it.   *)
Turns(f, turn, w, n) == f = [i \in 0..n |-> IF i = 0 THEN w ELSE turn[f[i - 1]]]

(* There is a function of the turns of a scan from any walk.               *)
LEMMA TurnsExist ==
  ASSUME NEW turn, NEW w, NEW n \in Nat
  PROVE  \E f : Turns(f, turn, w, n)
<1> DEFINE T == {m \in Nat : \E f : Turns(f, turn, w, m)}
<1>1. 0 \in T
  <2> DEFINE f0 == [i \in 0..0 |-> w]
  <2>1. f0 = [i \in 0..0 |-> IF i = 0 THEN w ELSE turn[f0[i - 1]]]
    OBVIOUS
  <2> HIDE DEF f0
  <2> QED BY <2>1 DEF Turns
<1>2. ASSUME NEW m \in Nat, m \in T PROVE m + 1 \in T
  <2>1. PICK f : Turns(f, turn, w, m)
    BY <1>2
  <2> DEFINE h == [i \in 0..m + 1 |-> IF i = m + 1 THEN turn[f[m]] ELSE f[i]]
  <2>2. ASSUME NEW i \in 0..m + 1 PROVE h[i] = IF i = 0 THEN w ELSE turn[h[i - 1]]
    <3>1. CASE i = m + 1
      <4>1. i # 0 /\ i - 1 = m /\ m \in 0..m + 1 /\ m # m + 1
        BY <3>1
      <4> QED BY <3>1, <4>1
    <3>2. CASE i # m + 1
      <4>1. i \in 0..m
        BY <3>2
      <4>2. f[i] = IF i = 0 THEN w ELSE turn[f[i - 1]]
        BY <2>1, <4>1 DEF Turns
      <4>3. i # 0 => i - 1 \in 0..m + 1 /\ i - 1 # m + 1
        BY <4>1
      <4> QED BY <3>2, <4>1, <4>2, <4>3
    <3> QED BY <3>1, <3>2
  <2>3. h = [i \in 0..m + 1 |-> h[i]]
    OBVIOUS
  <2> HIDE DEF h
  <2>4. Turns(h, turn, w, m + 1)
    BY <2>2, <2>3 DEF Turns
  <2> QED BY <2>4
<1> HIDE DEF T
<1>3. n \in T
  BY <1>1, <1>2, Induction
<1> QED BY <1>3 DEF T

(* The index of a scan is that of its walk after as many turns as the file *)
(* has cells.                                                              *)
LEMMA ScanIs ==
  ASSUME NEW d \in Seq(Cell), NEW first \in Nat, NEW tp, NEW salvage \in BOOLEAN
  PROVE  \E g : /\ IsWalk(g, d, first, tp, salvage)
                /\ ScanIndex(d, first, tp, salvage) = g[Len(d)].index
<1> DEFINE turn == [walk \in Walks |-> Turn(d, tp, salvage, walk)]
           start == Walk(first, Index(<< >>))
<1>1. Len(d) \in Nat
  OBVIOUS
<1>2. PICK u : u = turn
  OBVIOUS
<1>3. PICK w : w = start
  OBVIOUS
<1> DEFINE after == CHOOSE f : Turns(f, u, w, Len(d))
<1>4. Turns(after, u, w, Len(d))
  <2>1. \E f : Turns(f, u, w, Len(d))
    BY <1>1, TurnsExist
  <2> QED BY <2>1
<1>5. ScanIndex(d, first, tp, salvage) = after[Len(d)].index
  BY <1>2, <1>3 DEF ScanIndex, Turns
<1> HIDE DEF after
<1>6. /\ after[0] = w
      /\ \A n \in 0..Len(d) - 1 : after[n + 1] = u[after[n]]
  <2>1. \A i \in 0..Len(d) : after[i] = IF i = 0 THEN w ELSE u[after[i - 1]]
    BY <1>4 DEF Turns
  <2>2. after[0] = w
    BY <1>1, <2>1
  <2>3. ASSUME NEW n \in 0..Len(d) - 1 PROVE after[n + 1] = u[after[n]]
    <3>1. n + 1 \in 0..Len(d) /\ n + 1 # 0 /\ (n + 1) - 1 = n
      BY <1>1
    <3> QED BY <2>1, <3>1
  <2> QED BY <2>2, <2>3
<1>7. Standing(w)
  <2>1. << >> \in Seq(RecordSpan)
    OBVIOUS
  <2> QED BY <1>3, <2>1 DEF Standing, Walks, Walk, Index
<1>8. ASSUME NEW v, Standing(v) PROVE u[v] = Turn(d, tp, salvage, v) /\ Standing(u[v])
  <2>1. u[v] = Turn(d, tp, salvage, v)
    BY <1>2, <1>8 DEF Standing
  <2> QED BY <1>8, <2>1, TurnType
<1> DEFINE T == {n \in Nat : n <= Len(d) => Standing(after[n])}
<1>9. Nat \subseteq T
  <2> HIDE DEF turn, start
  <2>1. 0 \in T
    BY <1>6, <1>7
  <2>2. ASSUME NEW n \in Nat, n \in T PROVE n + 1 \in T
    <3> SUFFICES ASSUME n + 1 <= Len(d) PROVE Standing(after[n + 1])
      OBVIOUS
    <3>1. n \in 0..Len(d) - 1 /\ n <= Len(d)
      BY <1>1
    <3>2. Standing(after[n])
      BY <2>2, <3>1
    <3> QED BY <1>6, <1>8, <3>1, <3>2
  <2> HIDE DEF T
  <2> QED BY <2>1, <2>2, Induction
<1>10. \A n \in 0..Len(d) : Standing(after[n])
  BY <1>1, <1>9
<1>11. \A n \in 0..Len(d) - 1 : after[n + 1] = Turn(d, tp, salvage, after[n])
  <2> TAKE n \in 0..Len(d) - 1
  <2>1. n \in 0..Len(d)
    BY <1>1
  <2>2. Standing(after[n])
    BY <1>10, <2>1
  <2>3. u[after[n]] = Turn(d, tp, salvage, after[n])
    BY <1>8, <2>2
  <2> QED BY <1>6, <2>3
<1>12. IsWalk(after, d, first, tp, salvage)
  BY <1>3, <1>6, <1>10, <1>11 DEF IsWalk
<1> QED BY <1>5, <1>12

(* After as many turns as there are cells the walk is over.                *)
LEMMA WalkEnds ==
  ASSUME NEW d \in Seq(Cell), NEW first \in Nat, NEW tp, NEW salvage \in BOOLEAN,
         NEW g, IsWalk(g, d, first, tp, salvage)
  PROVE  Ended(d, g[Len(d)])
<1> DEFINE T == {n \in Nat : n <= Len(d) => Ended(d, g[n]) \/ g[n].at >= n}
<1>1. Len(d) \in Nat
  OBVIOUS
<1>2. 0 \in T
  <2>1. g[0].at = first
    BY WalkParts DEF IsWalk
  <2> QED BY <2>1
<1>3. ASSUME NEW n \in Nat, n \in T PROVE n + 1 \in T
  <2> SUFFICES ASSUME n + 1 <= Len(d) PROVE Ended(d, g[n + 1]) \/ g[n + 1].at >= n + 1
    OBVIOUS
  <2>1. n \in 0..Len(d) - 1 /\ n \in 0..Len(d) /\ n <= Len(d) /\ n + 1 \in 0..Len(d)
    BY <1>1
  <2>2. Standing(g[n]) /\ Standing(g[n + 1]) /\ g[n + 1] = Turn(d, tp, salvage, g[n])
    BY <2>1 DEF IsWalk
  <2>3. /\ Ended(d, g[n]) => g[n + 1] = g[n]
        /\ g[n + 1].at = -1 \/ Ended(d, g[n]) \/ g[n + 1].at > g[n].at
    BY <2>2, TurnType
  <2>4. Ended(d, g[n]) \/ g[n].at >= n
    BY <1>3, <2>1
  <2>5. g[n + 1].at = -1 => Ended(d, g[n + 1])
    BY DEF Ended
  <2>6. (g[n].at = -1 \/ g[n].at \in Nat) /\ (g[n + 1].at = -1 \/ g[n + 1].at \in Nat)
    BY <2>2 DEF Standing
  <2> QED BY <2>3, <2>4, <2>5, <2>6
<1>4. Len(d) \in T
  <2> HIDE DEF T
  <2> QED BY <1>1, <1>2, <1>3, Induction
<1>5. Standing(g[Len(d)])
  BY <1>1 DEF IsWalk
<1> QED BY <1>1, <1>4, <1>5 DEF Ended, RecordHeaderSize, Standing

(***************************************************************************)
(* What a scan gets out of the beginning of a file of records.             *)
(***************************************************************************)

(* evs follow what was told, which makes more.                             *)
Follow(told, evs, more) == more = told \o evs

(* The data record from offset p to offset q, as far as the file d goes.   *)
RecordAt(d, p, q, told, more) ==
  \E r \in Content :
    /\ r.kind = "data"
    /\ q = p + Length(r)
    /\ Follow(told, r.evs, more)
    /\ p < Len(d) => d[p + 1] = [of |-> r, at |-> 0]
    /\ q <= Len(d) => Holds(d, p, r)

(* In d, as far as it goes, N data records lie back to back: record k from *)
(* P[k - 1] to P[k], and T[k] are the events up to there.  Nothing else    *)
(* looks like a record but the dictionary before them and trailers behind. *)
Tape(d, N, P, T) ==
  /\ d \in Seq(Cell)
  /\ N \in Nat
  /\ P \in [0..N -> Nat] /\ T \in [0..N -> Seq(Event)]
  /\ T[0] = << >>
  /\ P[0] >= FileHeaderSize /\ (P[0] = FileHeaderSize => N = 0)
  /\ \A j, k \in 0..N : j < k => P[j] < P[k]
  /\ \A k \in 0..N - 1 : RecordAt(d, P[k], P[k + 1], T[k], T[k + 1])
  /\ FileHeaderSize < Len(d) /\ FileHeaderSize < P[0] => ParsesAt(d, FileHeaderSize)
  /\ FirstData <= Len(d) /\ FileHeaderSize < P[0] => ReadableAt(d, FileHeaderSize)
  /\ \A p \in Nat : ParsesAt(d, p) =>
       \/ p = FileHeaderSize /\ P[0] = FirstData /\ d[p + 1].of = DictRecord
       \/ \E k \in 0..N - 1 : p = P[k]
       \/ p >= P[N] /\ d[p + 1].of.kind = "trailer"

(* The parts of a tape, one by one.                                        *)
LEMMA TapeParts ==
  ASSUME NEW d, NEW N, NEW P, NEW T, Tape(d, N, P, T)
  PROVE  /\ d \in Seq(Cell) /\ Len(d) \in Nat /\ N \in Nat
         /\ P \in [0..N -> Nat] /\ T \in [0..N -> Seq(Event)]
         /\ \A k \in 0..N : P[k] \in Nat
         /\ \A k \in 0..N : T[k] \in Seq(Event)
         /\ T[0] = << >>
         /\ P[0] >= FileHeaderSize
         /\ P[0] = FileHeaderSize => N = 0
         /\ \A j, k \in 0..N : j < k => P[j] < P[k]
         /\ \A k \in 0..N - 1 : RecordAt(d, P[k], P[k + 1], T[k], T[k + 1])
         /\ FileHeaderSize < Len(d) /\ FileHeaderSize < P[0] => ParsesAt(d, FileHeaderSize)
         /\ FirstData <= Len(d) /\ FileHeaderSize < P[0] => ReadableAt(d, FileHeaderSize)
         /\ \A p \in Nat : ParsesAt(d, p) =>
              \/ p = FileHeaderSize /\ P[0] = FirstData /\ d[p + 1].of = DictRecord
              \/ \E k \in 0..N - 1 : p = P[k]
              \/ p >= P[N] /\ d[p + 1].of.kind = "trailer"
<1>1. d \in Seq(Cell) /\ N \in Nat /\ P \in [0..N -> Nat] /\ T \in [0..N -> Seq(Event)]
  BY Zenon DEF Tape
<1>2. Len(d) \in Nat
  BY <1>1
<1>3. (\A k \in 0..N : P[k] \in Nat) /\ (\A k \in 0..N : T[k] \in Seq(Event))
  BY <1>1, Zenon
<1>4. /\ T[0] = << >> /\ P[0] >= FileHeaderSize /\ (P[0] = FileHeaderSize => N = 0)
      /\ \A j, k \in 0..N : j < k => P[j] < P[k]
      /\ \A k \in 0..N - 1 : RecordAt(d, P[k], P[k + 1], T[k], T[k + 1])
      /\ FileHeaderSize < Len(d) /\ FileHeaderSize < P[0] => ParsesAt(d, FileHeaderSize)
      /\ FirstData <= Len(d) /\ FileHeaderSize < P[0] => ReadableAt(d, FileHeaderSize)
      /\ \A p \in Nat : ParsesAt(d, p) =>
           \/ p = FileHeaderSize /\ P[0] = FirstData /\ d[p + 1].of = DictRecord
           \/ \E k \in 0..N - 1 : p = P[k]
           \/ p >= P[N] /\ d[p + 1].of.kind = "trailer"
  BY Zenon DEF Tape
<1> QED BY <1>1, <1>2, <1>3, <1>4, Zenon

(* What is read at a record, whole on disk or not.                         *)
LEMMA RecordRead ==
  ASSUME NEW d \in Seq(Cell), NEW p \in Nat, NEW q, NEW told, NEW more, RecordAt(d, p, q, told, more)
  PROVE  /\ q \in Nat /\ q > p
         /\ p < Len(d) => /\ ParsesAt(d, p) /\ d[p + 1].of.kind = "data"
                          /\ p + Length(d[p + 1].of) = q /\ (FitsAt(d, p) <=> q <= Len(d))
                          /\ EventCount(d[p + 1].of) = Len(d[p + 1].of.evs)
                          /\ d[p + 1].of.evs \in Seq(Event)
                          /\ Follow(told, d[p + 1].of.evs, more)
         /\ \A span : span.file_offset = p =>
              /\ q <= Len(d) => /\ EventsAt(d, span) = d[p + 1].of.evs
                                /\ DataAt(d, span) = d[p + 1].of.evs
              /\ q > Len(d) => DataAt(d, span) = << >>
<1>1. PICK r \in Content :
        /\ r.kind = "data" /\ q = p + Length(r) /\ Follow(told, r.evs, more)
        /\ p < Len(d) => d[p + 1] = [of |-> r, at |-> 0]
        /\ q <= Len(d) => Holds(d, p, r)
  BY DEF RecordAt
<1>2. Length(r) \in Nat \ {0} /\ r.evs \in Seq(Event) /\ Len(d) \in Nat
  BY DEF Content, Length, RecordHeaderSize
<1>3. q \in Nat /\ q > p
  BY <1>1, <1>2
<1>4. p < Len(d) => d[p + 1].of = r /\ d[p + 1].at = 0
  BY <1>1
<1>5. p < Len(d) => /\ ParsesAt(d, p) /\ (FitsAt(d, p) <=> q <= Len(d))
  BY <1>1, <1>2, <1>4 DEF ParsesAt, FitsAt, RecordHeaderSize, IsRecord
<1>6. EventCount(r) = Len(r.evs)
  BY <1>1 DEF EventCount
<1>7. q <= Len(d) => ReadableAt(d, p)
  BY <1>1, <1>2, <1>3, <1>4, <1>5 DEF ReadableAt
<1>8. q > Len(d) => ~ReadableAt(d, p)
  <2> SUFFICES ASSUME ReadableAt(d, p) PROVE q <= Len(d)
    BY <1>2, <1>3
  <2>1. p < Len(d)
    BY <1>2 DEF ReadableAt, ParsesAt, RecordHeaderSize
  <2> QED BY <1>1, <1>4, <2>1 DEF ReadableAt, Holds
<1>9. q <= Len(d) => p < Len(d)
  BY <1>2, <1>3
<1>10. \A span : span.file_offset = p /\ q <= Len(d) => EventsAt(d, span) = r.evs /\ DataAt(d, span) = r.evs
  BY <1>1, <1>4, <1>7, <1>9 DEF EventsAt, DataAt
<1>11. \A span : span.file_offset = p /\ q > Len(d) => DataAt(d, span) = << >>
  BY <1>8 DEF DataAt
<1> QED BY <1>1, <1>2, <1>3, <1>4, <1>5, <1>6, <1>9, <1>10, <1>11

(* What a look at a record's place hands out: the events of a record that  *)
(* lies whole there, and none of one that does not.                        *)
LEMMA SpanRead ==
  ASSUME NEW d \in Seq(Cell), NEW p \in Nat, NEW q, NEW told, NEW more, RecordAt(d, p, q, told, more),
         NEW span, span.file_offset = p
  PROVE  /\ q <= Len(d) => /\ EventsAt(d, span) = d[p + 1].of.evs
                           /\ DataAt(d, span) = d[p + 1].of.evs
         /\ q > Len(d) => DataAt(d, span) = << >>
<1> DEFINE Read(x) == /\ q <= Len(d) => /\ EventsAt(d, x) = d[p + 1].of.evs
                                        /\ DataAt(d, x) = d[p + 1].of.evs
                      /\ q > Len(d) => DataAt(d, x) = << >>
<1>1. \A x : x.file_offset = p => Read(x)
  BY RecordRead
<1> HIDE DEF Read
<1>2. Read(span)
  BY <1>1
<1> QED BY <1>2 DEF Read

(* The walk has read the data of the first k records, and nothing else     *)
(* that is data: it stands behind them, behind all records, or is over.    *)
Sees(d, N, P, T, w) ==
  \E k \in 0..N :
    /\ k = 0 \/ P[k] <= Len(d)
    /\ DataIn(d, w.index.spans) = T[k]
    /\ \/ w.at = -1 \/ w.at >= Len(d) \/ w.at >= P[N]
       \/ w.at = P[k]
       \/ k = 0 /\ w.at = FileHeaderSize

(* A record that parses adds one span to the index if it holds events and  *)
(* is not the trailer, and nothing otherwise.                              *)
LEMMA IndexedSpans ==
  ASSUME NEW d \in Seq(Cell), NEW tp, NEW w, Standing(w), w.at \in Nat, ParsesAt(d, w.at)
  PROVE  /\ w.index.spans \in Seq(RecordSpan)
         /\ \E x \in RecordSpan :
              /\ x.file_offset = w.at /\ x.event_count = EventCount(d[w.at + 1].of)
              /\ IF x.event_count > 0 /\ w.at # tp
                   THEN Indexed(d, tp, w) = Index(Append(w.index.spans, x))
                   ELSE Indexed(d, tp, w) = w.index
<1>1. PICK r : r = d[w.at + 1].of
  OBVIOUS
<1>2. EventCount(r) \in Nat /\ Length(r) \in Nat
  BY <1>1, ParsedType
<1>3. PICK x : x = Span(w.at, Length(r), EventCount(r))
  OBVIOUS
<1>4. x \in RecordSpan /\ x.file_offset = w.at /\ x.event_count = EventCount(r)
  BY <1>2, <1>3 DEF Span, RecordSpan
<1>5. w.index.spans \in Seq(RecordSpan)
  BY DEF Standing, Walks
<1>6. IF EventCount(r) > 0 /\ w.at # tp
        THEN Indexed(d, tp, w) = Index(Append(w.index.spans, x))
        ELSE Indexed(d, tp, w) = w.index
  BY <1>1, <1>3 DEF Indexed
<1> QED BY <1>1, <1>4, <1>5, <1>6

(* The turn of a walk that has not ended, by what it meets: a record that  *)
(* does not parse, one that the file cuts short, or a whole one.           *)
LEMMA NextWalk ==
  ASSUME NEW d \in Seq(Cell), NEW tp, NEW salvage \in BOOLEAN, NEW w, Standing(w),
         ~Ended(d, w)
  PROVE  /\ w.at \in Nat /\ w.at < Len(d)
         /\ ~ParsesAt(d, w.at) /\ salvage = FALSE => Turn(d, tp, salvage, w) = Walk(-1, Failed)
         /\ ~ParsesAt(d, w.at) /\ salvage = TRUE =>
              \E q : /\ q = -1 \/ (q \in Nat /\ q > w.at)
                     /\ Turn(d, tp, salvage, w) = Walk(q, w.index)
         /\ ParsesAt(d, w.at) /\ salvage = TRUE /\ ~FitsAt(d, w.at) =>
              Turn(d, tp, salvage, w) = Walk(-1, w.index)
         /\ ParsesAt(d, w.at) /\ (salvage = FALSE \/ FitsAt(d, w.at)) =>
              Turn(d, tp, salvage, w) = Walk(w.at + Length(d[w.at + 1].of), Indexed(d, tp, w))
<1>1. w.at \in Nat /\ w.at < Len(d)
  BY DEF Standing, Ended, RecordHeaderSize
<1>2. \/ FindFirstRecord(d, w.at + 1) = -1
      \/ (FindFirstRecord(d, w.at + 1) \in Nat /\ FindFirstRecord(d, w.at + 1) > w.at)
  <2>1. w.at + 1 \in Nat /\ \A q \in Nat : q >= w.at + 1 => q > w.at
    BY <1>1
  <2> QED BY <2>1, FirstIs
<1>3. ~ParsesAt(d, w.at) =>
        Turn(d, tp, salvage, w)
          = IF salvage THEN Walk(FindFirstRecord(d, w.at + 1), w.index) ELSE Walk(-1, Failed)
  BY DEF Turn
<1>4. ParsesAt(d, w.at) =>
        Turn(d, tp, salvage, w)
          = IF salvage /\ ~FitsAt(d, w.at) THEN Walk(-1, w.index)
            ELSE Walk(w.at + Length(d[w.at + 1].of), Indexed(d, tp, w))
  BY DEF Turn
<1>5. CASE salvage = TRUE
  BY <1>1, <1>2, <1>3, <1>4, <1>5
<1>6. CASE salvage = FALSE
  BY <1>1, <1>3, <1>4, <1>6
<1> QED BY <1>5, <1>6

(* A salvage goes on where the next record that parses lies, or ends.      *)
LEMMA SkipWalk ==
  ASSUME NEW d \in Seq(Cell), NEW tp, NEW w, Standing(w), ~Ended(d, w), ~ParsesAt(d, w.at)
  PROVE  \E q : /\ q = -1 \/ (q \in Nat /\ q > w.at)
                /\ Turn(d, tp, TRUE, w) = Walk(q, w.index)
<1>1. w.at \in Nat
  BY DEF Standing, Ended, RecordHeaderSize
<1>2. PICK q : q = FindFirstRecord(d, w.at + 1)
  OBVIOUS
<1>3. q = -1 \/ (q \in Nat /\ q > w.at)
  <2>1. w.at + 1 \in Nat /\ \A p \in Nat : p >= w.at + 1 => p > w.at
    BY <1>1
  <2> QED BY <1>2, <2>1, FirstIs
<1>4. Turn(d, tp, TRUE, w) = Walk(q, w.index)
  BY <1>2 DEF Turn
<1> QED BY <1>3, <1>4, Zenon

(* Every turn of a scan keeps it so.                                       *)
LEMMA TurnSees ==
  ASSUME NEW d, NEW N, NEW P, NEW T, Tape(d, N, P, T), NEW tp, NEW salvage \in BOOLEAN,
         \A k \in 0..N - 1 : P[k] # tp,
         NEW w, Standing(w), Sees(d, N, P, T, w)
  PROVE  Sees(d, N, P, T, Turn(d, tp, salvage, w))
<1>0. /\ d \in Seq(Cell) /\ Len(d) \in Nat /\ N \in Nat
      /\ \A k \in 0..N : P[k] \in Nat /\ T[k] \in Seq(Event)
      /\ T[0] = << >>
      /\ P[0] >= FileHeaderSize /\ (P[0] = FileHeaderSize => N = 0)
      /\ \A j, k \in 0..N : j < k => P[j] < P[k]
      /\ \A k \in 0..N - 1 : RecordAt(d, P[k], P[k + 1], T[k], T[k + 1])
      /\ FileHeaderSize < Len(d) /\ FileHeaderSize < P[0] => ParsesAt(d, FileHeaderSize)
      /\ \A p \in Nat : ParsesAt(d, p) =>
           \/ p = FileHeaderSize /\ P[0] = FirstData /\ d[p + 1].of = DictRecord
           \/ \E k \in 0..N - 1 : p = P[k]
           \/ p >= P[N] /\ d[p + 1].of.kind = "trailer"
  <2>1. d \in Seq(Cell) /\ N \in Nat /\ P \in [0..N -> Nat] /\ T \in [0..N -> Seq(Event)]
    BY Zenon DEF Tape
  <2>2. Len(d) \in Nat /\ \A k \in 0..N : P[k] \in Nat /\ T[k] \in Seq(Event)
    BY <2>1
  <2>3. /\ T[0] = << >>
        /\ P[0] >= FileHeaderSize /\ (P[0] = FileHeaderSize => N = 0)
        /\ \A j, k \in 0..N : j < k => P[j] < P[k]
        /\ \A k \in 0..N - 1 : RecordAt(d, P[k], P[k + 1], T[k], T[k + 1])
        /\ FileHeaderSize < Len(d) /\ FileHeaderSize < P[0] => ParsesAt(d, FileHeaderSize)
        /\ \A p \in Nat : ParsesAt(d, p) =>
             \/ p = FileHeaderSize /\ P[0] = FirstData /\ d[p + 1].of = DictRecord
             \/ \E k \in 0..N - 1 : p = P[k]
             \/ p >= P[N] /\ d[p + 1].of.kind = "trailer"
    BY Zenon DEF Tape
  <2> QED BY <2>1, <2>2, <2>3, Zenon
<1>1. PICK k \in 0..N :
        /\ k = 0 \/ P[k] <= Len(d)
        /\ DataIn(d, w.index.spans) = T[k]
        /\ \/ w.at = -1 \/ w.at >= Len(d) \/ w.at >= P[N]
           \/ w.at = P[k]
           \/ k = 0 /\ w.at = FileHeaderSize
  BY DEF Sees
<1>2. PICK u : u = Turn(d, tp, salvage, w)
  OBVIOUS
<1>3. CASE Ended(d, w)
  BY <1>3, <1>0, TurnType
<1>4. ASSUME ~Ended(d, w) PROVE Sees(d, N, P, T, u)
  <2>d. d \in Seq(Cell)
    BY <1>0
  <2>1. w.at \in Nat /\ w.at < Len(d)
    BY <1>4, <2>d, NextWalk
  <2>u. /\ ~ParsesAt(d, w.at) /\ salvage = FALSE => u = Walk(-1, Failed)
        /\ ~ParsesAt(d, w.at) /\ salvage = TRUE =>
             \E q : (q = -1 \/ (q \in Nat /\ q > w.at)) /\ u = Walk(q, w.index)
        /\ ParsesAt(d, w.at) /\ salvage = TRUE /\ ~FitsAt(d, w.at) => u = Walk(-1, w.index)
        /\ ParsesAt(d, w.at) /\ (salvage = FALSE \/ FitsAt(d, w.at)) =>
             u = Walk(w.at + Length(d[w.at + 1].of), Indexed(d, tp, w))
    <3>1. ~ParsesAt(d, w.at) /\ salvage = FALSE => Turn(d, tp, salvage, w) = Walk(-1, Failed)
      BY <2>d, <1>4, NextWalk
    <3>2. ~ParsesAt(d, w.at) /\ salvage = TRUE =>
            \E q : (q = -1 \/ (q \in Nat /\ q > w.at)) /\ Turn(d, tp, salvage, w) = Walk(q, w.index)
      <4> SUFFICES ASSUME ~ParsesAt(d, w.at), salvage = TRUE
                   PROVE  \E q : /\ q = -1 \/ (q \in Nat /\ q > w.at)
                                 /\ Turn(d, tp, TRUE, w) = Walk(q, w.index)
        BY Zenon
      <4> QED BY <2>d, <1>4, SkipWalk
    <3>3. ParsesAt(d, w.at) /\ salvage = TRUE /\ ~FitsAt(d, w.at) =>
            Turn(d, tp, salvage, w) = Walk(-1, w.index)
      BY <2>d, <1>4, NextWalk
    <3>4. ParsesAt(d, w.at) /\ (salvage = FALSE \/ FitsAt(d, w.at)) =>
            Turn(d, tp, salvage, w) = Walk(w.at + Length(d[w.at + 1].of), Indexed(d, tp, w))
      BY <2>d, <1>4, NextWalk
    <3> QED BY <1>2, <3>1, <3>2, <3>3, <3>4
  <2>2. \/ w.at >= P[N]
        \/ w.at = P[k] /\ k \in 0..N - 1
        \/ k = 0 /\ w.at = FileHeaderSize /\ FileHeaderSize < P[0]
    BY <1>0, <1>1, <2>1
  <2>3. 0 \in 0..N /\ N \in 0..N /\ \A i \in 0..N - 1 : i \in 0..N /\ i + 1 \in 0..N
    BY <1>0
  <2>4. \A v, i : v = Walk(-1, i) /\ DataIn(d, i.spans) = T[k] => Sees(d, N, P, T, v)
    BY <1>1, WalkParts DEF Sees
  <2>5. CASE ~ParsesAt(d, w.at)
    <3>1. w.at >= P[N]
      <4>1. w.at # FileHeaderSize \/ ~(FileHeaderSize < P[0])
        BY <1>0, <2>1, <2>5
      <4>2. ASSUME w.at = P[k], k \in 0..N - 1 PROVE FALSE
        <5>1. RecordAt(d, P[k], P[k + 1], T[k], T[k + 1])
          BY <1>0, <4>2
        <5> QED BY <1>0, <2>1, <2>5, <4>2, <5>1, RecordRead
      <4> QED BY <2>2, <4>1, <4>2
    <3>2. CASE salvage = FALSE
      <4>1. u = Walk(-1, Failed)
        BY <2>u, <2>5, <3>2
      <4>2. u.at = -1 /\ u.index.spans = << >>
        BY <4>1, WalkParts DEF Failed
      <4>3. DataIn(d, u.index.spans) = T[0]
        BY <1>0, <4>2, ReadNone
      <4> QED BY <2>3, <4>2, <4>3 DEF Sees
    <3>3. CASE salvage = TRUE
      <4>1. PICK q : (q = -1 \/ (q \in Nat /\ q > w.at)) /\ u = Walk(q, w.index)
        BY <2>u, <2>5, <3>3
      <4>2. u.at = -1 \/ u.at >= P[N]
        BY <1>0, <2>1, <2>3, <3>1, <4>1, WalkParts
      <4>3. u.index = w.index
        BY <4>1, WalkParts
      <4> QED BY <1>1, <4>2, <4>3 DEF Sees
    <3> QED BY <3>2, <3>3
  <2>6. CASE ParsesAt(d, w.at) /\ salvage = TRUE /\ ~FitsAt(d, w.at)
    <3>1. u = Walk(-1, w.index)
      BY <2>u, <2>6
    <3> QED BY <1>1, <2>4, <3>1
  <2>7. CASE ParsesAt(d, w.at) /\ (salvage = FALSE \/ FitsAt(d, w.at))
    <3>1. PICK r : r = d[w.at + 1].of
      OBVIOUS
    <3>2. u = Walk(w.at + Length(r), Indexed(d, tp, w))
      BY <2>u, <2>7, <3>1
    <3>3. u.at = w.at + Length(r) /\ u.index = Indexed(d, tp, w) /\ Length(r) \in Nat \ {0}
      BY <1>0, <2>1, <2>7, <3>1, <3>2, WalkParts, ParsedType
    <3>4. PICK x \in RecordSpan :
              /\ x.file_offset = w.at /\ x.event_count = EventCount(r)
              /\ IF x.event_count > 0 /\ w.at # tp
                   THEN Indexed(d, tp, w) = Index(Append(w.index.spans, x))
                   ELSE Indexed(d, tp, w) = w.index
      <4>1. ParsesAt(d, w.at) /\ w.at \in Nat
        BY <2>1, <2>7
      <4> QED BY <2>d, <3>1, <4>1, IndexedSpans
    <3>5. w.index.spans \in Seq(RecordSpan)
      BY DEF Standing, Walks
    <3>6. \/ u.index.spans = w.index.spans /\ ~(x.event_count > 0 /\ w.at # tp)
          \/ u.index.spans = Append(w.index.spans, x) /\ x.event_count > 0 /\ w.at # tp
      BY <3>3, <3>4 DEF Index
    <3>7. DataIn(d, Append(w.index.spans, x)) = T[k] \o DataAt(d, x)
      BY <1>0, <1>1, <3>5, ReadMore
    <3>8. DataAt(d, x) = << >> => DataIn(d, u.index.spans) = T[k]
      <4>1. T[k] \o << >> = T[k]
        BY <1>0
      <4> QED BY <1>1, <3>6, <3>7, <4>1
    <3>9. r.kind # "data" => DataAt(d, x) = << >>
      BY <3>1, <3>4 DEF DataAt
    <3>10. CASE w.at = P[k] /\ k \in 0..N - 1
      <4>1. PICK p, q, told, more : p = P[k] /\ q = P[k + 1] /\ told = T[k] /\ more = T[k + 1]
        OBVIOUS
      <4>a. RecordAt(d, p, q, told, more) /\ p \in Nat /\ p < Len(d) /\ x.file_offset = p
            /\ d \in Seq(Cell) /\ d[p + 1].of = r
        BY <1>0, <2>1, <3>1, <3>4, <3>10, <4>1
      <4>b. /\ q \in Nat /\ d[p + 1].of = r
            /\ p + Length(r) = q /\ EventCount(r) = Len(r.evs)
            /\ r.evs \in Seq(Event) /\ Follow(told, r.evs, more)
            /\ q <= Len(d) => DataAt(d, x) = r.evs
            /\ q > Len(d) => DataAt(d, x) = << >>
        <5>1. q <= Len(d) => DataAt(d, x) = d[p + 1].of.evs
          BY <4>a, SpanRead
        <5>2. q > Len(d) => DataAt(d, x) = << >>
          BY <4>a, SpanRead
        <5>3. /\ q \in Nat /\ p + Length(r) = q /\ EventCount(r) = Len(r.evs)
              /\ r.evs \in Seq(Event) /\ Follow(told, r.evs, more)
          BY <4>a, RecordRead
        <5> QED BY <4>a, <5>1, <5>2, <5>3
      <4>2. /\ P[k] + Length(r) = P[k + 1] /\ EventCount(r) = Len(r.evs)
            /\ r.evs \in Seq(Event) /\ Follow(T[k], r.evs, T[k + 1])
            /\ P[k + 1] <= Len(d) => DataAt(d, x) = r.evs
            /\ P[k + 1] > Len(d) => DataAt(d, x) = << >>
            /\ P[k + 1] \in Nat
        BY <4>1, <4>b
      <4>3. u.at = P[k + 1]
        BY <3>3, <3>10, <4>2
      <4>4. CASE P[k + 1] > Len(d)
        <5>1. DataIn(d, u.index.spans) = T[k] /\ u.at >= Len(d)
          BY <1>0, <3>8, <4>2, <4>3, <4>4
        <5> QED BY <1>1, <5>1 DEF Sees
      <4>5. CASE P[k + 1] <= Len(d)
        <5>1. DataIn(d, u.index.spans) = T[k + 1]
          <6>1. CASE x.event_count > 0 /\ w.at # tp
            BY <3>6, <3>7, <4>2, <4>5, <6>1 DEF Follow
          <6>2. CASE ~(x.event_count > 0 /\ w.at # tp)
            <7>1. Len(r.evs) = 0
              BY <3>4, <3>10, <4>2, <6>2
            <7>2. r.evs = << >>
              BY <4>2, <7>1
            <7>3. T[k + 1] = T[k]
              BY <1>0, <4>2, <7>2 DEF Follow
            <7> QED BY <3>8, <4>2, <4>5, <7>2, <7>3
          <6> QED BY <6>1, <6>2
        <5>2. k + 1 \in 0..N
          BY <2>3, <3>10
        <5> QED BY <4>3, <4>5, <5>1, <5>2 DEF Sees
      <4> QED BY <1>0, <4>2, <4>4, <4>5
    <3>11. CASE w.at >= P[N]
      <4>1. r.kind # "data"
        <5>1. \/ r = DictRecord
              \/ \E j \in 0..N - 1 : w.at = P[j]
              \/ r.kind = "trailer"
          BY <1>0, <2>1, <2>7, <3>1
        <5>2. ASSUME NEW j \in 0..N - 1, w.at = P[j] PROVE FALSE
          <6>1. j \in 0..N /\ N \in 0..N /\ j < N
            BY <1>0
          <6>2. P[j] < P[N] /\ P[j] \in Nat /\ P[N] \in Nat
            BY <1>0, <6>1
          <6> QED BY <3>11, <5>2, <6>2
        <5>3. DictRecord.kind = "dict"
          BY DEF DictRecord
        <5> QED BY <5>1, <5>2, <5>3
      <4>2. u.at >= P[N]
        BY <1>0, <2>1, <2>3, <3>3, <3>11
      <4> QED BY <1>1, <3>8, <3>9, <4>1, <4>2 DEF Sees
    <3>12. CASE k = 0 /\ w.at = FileHeaderSize /\ FileHeaderSize < P[0]
      <4>1. P[0] = FirstData /\ r = DictRecord
        <5>1. ASSUME NEW j \in 0..N - 1, w.at = P[j] PROVE FALSE
          <6>1. j \in 0..N /\ 0 \in 0..N /\ (j = 0 \/ 0 < j)
            BY <1>0
          <6>2. P[0] <= P[j] /\ P[j] \in Nat /\ P[0] \in Nat
            BY <1>0, <6>1
          <6> QED BY <3>12, <5>1, <6>2 DEF FileHeaderSize
        <5>2. ~(w.at >= P[N])
          <6>1. 0 \in 0..N /\ N \in 0..N /\ (N = 0 \/ 0 < N)
            BY <1>0
          <6>2. P[0] <= P[N] /\ P[N] \in Nat /\ P[0] \in Nat
            BY <1>0, <6>1
          <6> QED BY <3>12, <6>2 DEF FileHeaderSize
        <5> QED BY <1>0, <2>1, <2>7, <3>1, <5>1, <5>2
      <4>2. FileHeaderSize + Length(DictRecord) = FirstData /\ r.kind # "data"
        BY <4>1, FileAssumption
        DEF FirstData, DictRecord, Length, RecordHeaderSize, FileHeaderSize, FileAssumption
      <4>3. u.at = P[0]
        BY <3>3, <3>12, <4>1, <4>2
      <4> QED BY <1>1, <3>8, <3>9, <3>12, <4>2, <4>3 DEF Sees
    <3> QED BY <2>2, <3>10, <3>11, <3>12
  <2> QED BY <2>5, <2>6, <2>7
<1> QED BY <1>2, <1>3, <1>4

(* So what a scan indexes holds the data of the first records on disk.     *)
LEMMA ScanSees ==
  ASSUME NEW d, NEW N, NEW P, NEW T, Tape(d, N, P, T), NEW tp, NEW salvage \in BOOLEAN,
         \A k \in 0..N - 1 : P[k] # tp,
         NEW first \in Nat, first >= P[N] \/ first = P[0] \/ first = FileHeaderSize
  PROVE  LET i == ScanIndex(d, first, tp, salvage)
         IN  /\ i.spans \in Seq(RecordSpan)
             /\ \E k \in 0..N : (k = 0 \/ P[k] <= Len(d)) /\ DataIn(d, i.spans) = T[k]
<1>0. d \in Seq(Cell) /\ Len(d) \in Nat /\ N \in Nat /\ T[0] = << >>
  BY TapeParts, Zenon
<1>1. PICK g : /\ IsWalk(g, d, first, tp, salvage)
               /\ ScanIndex(d, first, tp, salvage) = g[Len(d)].index
  BY <1>0, ScanIs
<1> DEFINE S == {n \in Nat : n <= Len(d) => Sees(d, N, P, T, g[n])}
<1>2. 0 \in S
  <2>1. g[0] = Walk(first, Index(<< >>))
    BY <1>1 DEF IsWalk
  <2>2. g[0].at = first /\ g[0].index.spans = << >>
    BY <2>1, WalkParts DEF Index
  <2>3. DataIn(d, g[0].index.spans) = T[0] /\ 0 \in 0..N
    BY <1>0, <2>2, ReadNone
  <2>4. Sees(d, N, P, T, g[0])
    BY <2>2, <2>3 DEF Sees
  <2> QED BY <2>4
<1>3. ASSUME NEW n \in Nat, n \in S PROVE n + 1 \in S
  <2> SUFFICES ASSUME n + 1 <= Len(d) PROVE Sees(d, N, P, T, g[n + 1])
    OBVIOUS
  <2>1. n \in 0..Len(d) - 1 /\ n \in 0..Len(d) /\ n <= Len(d)
    BY <1>0
  <2>2. Standing(g[n]) /\ g[n + 1] = Turn(d, tp, salvage, g[n])
    BY <1>1, <2>1 DEF IsWalk
  <2>3. Sees(d, N, P, T, g[n])
    BY <1>3, <2>1
  <2> QED BY <2>2, <2>3, TurnSees
<1>4. Len(d) \in S
  <2> HIDE DEF S
  <2> QED BY <1>0, <1>2, <1>3, Induction
<1>5. Sees(d, N, P, T, g[Len(d)])
  BY <1>0, <1>4
<1>6. g[Len(d)].index.spans \in Seq(RecordSpan)
  BY <1>0, <1>1 DEF IsWalk, Standing, Walks
<1> QED BY <1>1, <1>5, <1>6 DEF Sees

(* Behind the records, at q, there is one trailer or nothing, as far as    *)
(* the file goes.                                                          *)
Trailing(d, q) ==
  /\ \A p \in Nat : p > q => ~ParsesAt(d, p)
  /\ q < Len(d) =>
       \E t \in Content :
         /\ t.kind = "trailer"
         /\ d[q + 1] = [of |-> t, at |-> 0]
         /\ Len(d) <= q + Length(t)
         /\ Len(d) = q + Length(t) => Holds(d, q, t)

(* What parses behind the records is the trailer, and it is a file index   *)
(* when it is whole.                                                       *)
LEMMA TailParses ==
  ASSUME NEW d \in Seq(Cell), NEW q \in Nat, Trailing(d, q), q < Len(d)
  PROVE  /\ ParsesAt(d, q) /\ EventCount(d[q + 1].of) = 1
         /\ Len(d) <= q + Length(d[q + 1].of)
         /\ FitsAt(d, q) => HoldsFileIndex(d, q)
<1>1. PICK t \in Content :
        /\ t.kind = "trailer" /\ d[q + 1] = [of |-> t, at |-> 0]
        /\ Len(d) <= q + Length(t) /\ (Len(d) = q + Length(t) => Holds(d, q, t))
  BY DEF Trailing
<1>2. Length(t) \in Nat \ {0} /\ EventCount(t) = 1
  BY <1>1 DEF Content, Length, RecordHeaderSize, EventCount
<1>3. d[q + 1].of = t /\ d[q + 1].at = 0
  BY <1>1
<1>4. ParsesAt(d, q)
  BY <1>1, <1>3 DEF ParsesAt, IsRecord, RecordHeaderSize
<1>5. FitsAt(d, q) => Len(d) = q + Length(t)
  BY <1>1, <1>2, <1>3 DEF FitsAt
<1> QED BY <1>1, <1>2, <1>3, <1>4, <1>5 DEF HoldsFileIndex, ReadableAt

(* The last of the spans is not a trailer's.                               *)
NoIndexLast(c, spans) == spans = << >> \/ ~HoldsFileIndex(c, spans[Len(spans)].file_offset)

(* The walk over c has indexed the first k records and nothing else, or    *)
(* all records and the trailer; read from d they give their events.        *)
Reads(c, d, N, P, T, tp, w) ==
  \E k \in 0..N :
    /\ k = 0 \/ P[k] <= Len(c)
    /\ \/ /\ ReadOf(d, w.index.spans) = T[k]
          /\ NoIndexLast(c, w.index.spans)
          /\ \/ w.at = P[k]
             \/ /\ k = 0 /\ w.at = FileHeaderSize /\ FileHeaderSize < P[0]
                /\ FileHeaderSize < Len(c) /\ DictEvents = 0
             \/ Ended(c, w) /\ (k < N => Len(c) < P[k + 1])
       \/ /\ tp = 0 /\ k = N /\ Ended(c, w)
          /\ ~NoIndexLast(c, w.index.spans)
          /\ ReadOf(d, SubSeq(w.index.spans, 1, Len(w.index.spans) - 1)) = T[N]

(* A scan that can be exact: salvage, or a normal one that knows where the *)
(* trailer is and finds every record whole.                                *)
Exact(c, N, P, tp, salvage) ==
  \/ salvage = TRUE /\ tp = 0
  \/ salvage = FALSE /\ tp = P[N] /\ P[N] <= Len(c)

(* A turn keeps that the walk has read all the records it has passed, and  *)
(* a trailer behind them at most.                                          *)
LEMMA TurnReads ==
  ASSUME NEW c, NEW d, NEW N, NEW P, NEW T, Tape(c, N, P, T), Tape(d, N, P, T),
         Len(c) = Len(d), Trailing(c, P[N]),
         NEW tp, NEW salvage \in BOOLEAN, Exact(c, N, P, tp, salvage),
         NEW w, Standing(w), Reads(c, d, N, P, T, tp, w)
  PROVE  Reads(c, d, N, P, T, tp, Turn(c, tp, salvage, w))
<1>0. /\ c \in Seq(Cell) /\ d \in Seq(Cell) /\ Len(c) \in Nat /\ N \in Nat
      /\ \A k \in 0..N : P[k] \in Nat /\ T[k] \in Seq(Event)
      /\ P[0] >= FileHeaderSize
      /\ \A j, k \in 0..N : j < k => P[j] < P[k]
      /\ \A k \in 0..N - 1 : RecordAt(c, P[k], P[k + 1], T[k], T[k + 1])
      /\ \A k \in 0..N - 1 : RecordAt(d, P[k], P[k + 1], T[k], T[k + 1])
      /\ FileHeaderSize < Len(c) /\ FileHeaderSize < P[0] => ParsesAt(c, FileHeaderSize)
      /\ \A p \in Nat : ParsesAt(c, p) =>
           \/ p = FileHeaderSize /\ P[0] = FirstData /\ c[p + 1].of = DictRecord
           \/ \E k \in 0..N - 1 : p = P[k]
           \/ p >= P[N] /\ c[p + 1].of.kind = "trailer"
  <2>1. c \in Seq(Cell) /\ N \in Nat /\ P \in [0..N -> Nat] /\ T \in [0..N -> Seq(Event)]
    BY Zenon DEF Tape
  <2>2. Len(c) \in Nat /\ \A k \in 0..N : P[k] \in Nat /\ T[k] \in Seq(Event)
    BY <2>1
  <2>3. d \in Seq(Cell) /\ \A k \in 0..N - 1 : RecordAt(d, P[k], P[k + 1], T[k], T[k + 1])
    BY Zenon DEF Tape
  <2>4. /\ P[0] >= FileHeaderSize
        /\ \A j, k \in 0..N : j < k => P[j] < P[k]
        /\ \A k \in 0..N - 1 : RecordAt(c, P[k], P[k + 1], T[k], T[k + 1])
        /\ FileHeaderSize < Len(c) /\ FileHeaderSize < P[0] => ParsesAt(c, FileHeaderSize)
        /\ \A p \in Nat : ParsesAt(c, p) =>
             \/ p = FileHeaderSize /\ P[0] = FirstData /\ c[p + 1].of = DictRecord
             \/ \E k \in 0..N - 1 : p = P[k]
             \/ p >= P[N] /\ c[p + 1].of.kind = "trailer"
    BY Zenon DEF Tape
  <2> QED BY <2>1, <2>2, <2>3, <2>4, Zenon
<1>1. 0 \in 0..N /\ N \in 0..N /\ \A i \in 0..N - 1 : i \in 0..N /\ i + 1 \in 0..N
  BY <1>0
<1>2. PICK u : u = Turn(c, tp, salvage, w)
  OBVIOUS
<1>3. CASE Ended(c, w)
  BY <1>2, <1>3, <1>0, TurnType
<1>4. ASSUME ~Ended(c, w) PROVE Reads(c, d, N, P, T, tp, u)
  <2>d. c \in Seq(Cell)
    BY <1>0
  <2>1. w.at \in Nat /\ w.at < Len(c) /\ w.index.spans \in Seq(RecordSpan)
    BY <1>4, <2>d, NextWalk DEF Standing, Walks
  <2>u. /\ ~ParsesAt(c, w.at) /\ salvage = FALSE => u = Walk(-1, Failed)
        /\ ~ParsesAt(c, w.at) /\ salvage = TRUE =>
             \E q : (q = -1 \/ (q \in Nat /\ q > w.at)) /\ u = Walk(q, w.index)
        /\ ParsesAt(c, w.at) /\ salvage = TRUE /\ ~FitsAt(c, w.at) => u = Walk(-1, w.index)
        /\ ParsesAt(c, w.at) /\ (salvage = FALSE \/ FitsAt(c, w.at)) =>
             u = Walk(w.at + Length(c[w.at + 1].of), Indexed(c, tp, w))
    <3>1. ~ParsesAt(c, w.at) /\ salvage = FALSE => Turn(c, tp, salvage, w) = Walk(-1, Failed)
      BY <2>d, <1>4, NextWalk
    <3>2. ~ParsesAt(c, w.at) /\ salvage = TRUE =>
            \E q : (q = -1 \/ (q \in Nat /\ q > w.at)) /\ Turn(c, tp, salvage, w) = Walk(q, w.index)
      <4> SUFFICES ASSUME ~ParsesAt(c, w.at), salvage = TRUE
                   PROVE  \E q : /\ q = -1 \/ (q \in Nat /\ q > w.at)
                                 /\ Turn(c, tp, TRUE, w) = Walk(q, w.index)
        BY Zenon
      <4> QED BY <2>d, <1>4, SkipWalk
    <3>3. ParsesAt(c, w.at) /\ salvage = TRUE /\ ~FitsAt(c, w.at) =>
            Turn(c, tp, salvage, w) = Walk(-1, w.index)
      BY <2>d, <1>4, NextWalk
    <3>4. ParsesAt(c, w.at) /\ (salvage = FALSE \/ FitsAt(c, w.at)) =>
            Turn(c, tp, salvage, w) = Walk(w.at + Length(c[w.at + 1].of), Indexed(c, tp, w))
      BY <2>d, <1>4, NextWalk
    <3> QED BY <1>2, <3>1, <3>2, <3>3, <3>4
  <2>2. PICK k \in 0..N :
          /\ k = 0 \/ P[k] <= Len(c)
          /\ ReadOf(d, w.index.spans) = T[k]
          /\ NoIndexLast(c, w.index.spans)
          /\ \/ w.at = P[k]
             \/ /\ k = 0 /\ w.at = FileHeaderSize /\ FileHeaderSize < P[0]
                /\ DictEvents = 0
    BY <1>4 DEF Reads
  <2>3. Ended(c, Walk(-1, w.index))
    BY WalkParts DEF Ended
  <2>4. CASE w.at = P[k] /\ k \in 0..N - 1
    <3>1. PICK p, q, told, more : p = P[k] /\ q = P[k + 1] /\ told = T[k] /\ more = T[k + 1]
      OBVIOUS
    <3>2. /\ p \in Nat /\ w.at = p /\ p < Len(c) /\ p < Len(d)
          /\ RecordAt(c, p, q, told, more) /\ RecordAt(d, p, q, told, more)
      BY <1>0, <2>1, <2>4, <3>1
    <3>3. PICK r : r = c[p + 1].of
      OBVIOUS
    <3>4. /\ q \in Nat /\ q > p /\ ParsesAt(c, p) /\ r.kind = "data" /\ p + Length(r) = q
          /\ FitsAt(c, p) <=> q <= Len(c)
          /\ EventCount(r) = Len(r.evs) /\ r.evs \in Seq(Event) /\ Follow(told, r.evs, more)
      BY <1>0, <3>2, <3>3, RecordRead
    <3>5. CASE q > Len(c)
      <4>1. salvage = TRUE /\ ~FitsAt(c, p)
        <5>1. k + 1 \in 0..N /\ N \in 0..N /\ (k + 1 = N \/ k + 1 < N)
          BY <1>1, <2>4
        <5>2. P[k + 1] <= P[N] /\ P[N] \in Nat
          BY <1>0, <5>1
        <5> QED BY <1>0, <3>1, <3>4, <3>5, <5>2 DEF Exact
      <4>2. u = Walk(-1, w.index)
        BY <2>u, <3>2, <3>4, <4>1
      <4>3. Ended(c, u) /\ u.index = w.index /\ Len(c) < P[k + 1]
        BY <2>3, <3>1, <3>5, <4>2, WalkParts
      <4> QED BY <2>2, <4>3 DEF Reads
    <3>6. CASE q <= Len(c)
      <4>1. u = Walk(q, Indexed(c, tp, w))
        <5>1. u = Walk(w.at + Length(c[w.at + 1].of), Indexed(c, tp, w))
          BY <2>u, <3>2, <3>4, <3>6
        <5> QED BY <3>2, <3>3, <3>4, <5>1
      <4>2. u.at = P[k + 1] /\ u.index = Indexed(c, tp, w)
        BY <3>1, <4>1, WalkParts
      <4>3. PICK x \in RecordSpan :
              /\ x.file_offset = w.at /\ x.event_count = EventCount(c[w.at + 1].of)
              /\ IF x.event_count > 0 /\ w.at # tp
                   THEN Indexed(c, tp, w) = Index(Append(w.index.spans, x))
                   ELSE Indexed(c, tp, w) = w.index
          <5>1. ParsesAt(c, w.at)
            BY <3>2, <3>4
          <5> QED BY <1>0, <2>1, <5>1, IndexedSpans
      <4>x. x.file_offset = p /\ x.event_count = EventCount(r)
        BY <3>2, <3>3, <4>3
      <4>4. w.at # tp
        <5>1. P[k] < P[N] /\ 0 < P[k]
          <6>1. k < N /\ k \in 0..N /\ (0 = k \/ 0 < k)
            BY <1>1, <2>4, <1>0
          <6>2. P[k] < P[N] /\ P[0] <= P[k] /\ P[0] \in Nat /\ P[k] \in Nat
            BY <1>0, <1>1, <6>1
          <6> QED BY <1>0, <6>2 DEF FileHeaderSize
        <5> QED BY <1>0, <2>4, <5>1 DEF Exact
      <4>5. k + 1 \in 0..N /\ P[k + 1] <= Len(c)
        BY <1>1, <2>4, <3>1, <3>6
      <4>6. CASE x.event_count > 0
        <5>1. PICK spans : spans = Append(w.index.spans, x)
          OBVIOUS
        <5>2. u.index.spans = spans
          BY <4>2, <4>3, <4>4, <4>6, <5>1 DEF Index
        <5>3. spans \in Seq(RecordSpan) /\ ReadOf(d, spans) = T[k] \o EventsAt(d, x)
          <6>1. d \in Seq(Cell) /\ w.index.spans \in Seq(RecordSpan)
            BY <1>0, <2>1
          <6>2. /\ Append(w.index.spans, x) \in Seq(RecordSpan)
                /\ ReadOf(d, Append(w.index.spans, x)) = ReadOf(d, w.index.spans) \o EventsAt(d, x)
            BY <6>1, ReadMore
          <6> QED BY <2>2, <5>1, <6>2
        <5>4. EventsAt(d, x) = d[p + 1].of.evs /\ Follow(told, d[p + 1].of.evs, more)
          <6>1. Follow(told, d[p + 1].of.evs, more)
            BY <1>0, <3>2, <3>6, <4>x, RecordRead
          <6>2. EventsAt(d, x) = d[p + 1].of.evs
            BY <1>0, <3>2, <3>6, <4>x, SpanRead
          <6> QED BY <6>1, <6>2
        <5>5. ReadOf(d, spans) = T[k + 1]
          <6>1. told \o d[p + 1].of.evs = more
            BY <5>4 DEF Follow
          <6> QED BY <3>1, <5>3, <5>4, <6>1, Zenon
        <5>6. NoIndexLast(c, spans)
          <6>1. spans[Len(spans)] = x
            BY <2>1, <5>1
          <6>2. ~HoldsFileIndex(c, p)
            BY <3>3, <3>4 DEF HoldsFileIndex
          <6> QED BY <4>x, <6>1, <6>2 DEF NoIndexLast
        <5> QED BY <4>2, <4>5, <5>2, <5>5, <5>6 DEF Reads
      <4>7. CASE ~(x.event_count > 0)
        <5>1. u.index = w.index
          BY <4>2, <4>3, <4>7
        <5>2. r.evs = << >>
          BY <3>4, <4>x, <4>7
        <5>3. T[k + 1] = T[k]
          BY <1>0, <3>1, <3>4, <5>2 DEF Follow
        <5> QED BY <2>2, <4>2, <4>5, <5>1, <5>3 DEF Reads
      <4> QED BY <4>6, <4>7
    <3> QED BY <1>0, <3>4, <3>5, <3>6
  <2>5. CASE k = 0 /\ w.at = FileHeaderSize /\ FileHeaderSize < P[0] /\ DictEvents = 0
    <3>1. ParsesAt(c, w.at) /\ c[w.at + 1].of = DictRecord /\ P[0] = FirstData
      <4>1. ASSUME NEW j \in 0..N, w.at >= P[j] PROVE FALSE
        <5>1. j = 0 \/ 0 < j
          OBVIOUS
        <5>2. P[0] <= P[j] /\ P[j] \in Nat /\ P[0] \in Nat
          BY <1>0, <1>1, <5>1
        <5> QED BY <2>5, <4>1, <5>2 DEF FileHeaderSize
      <4>2. \A j \in 0..N - 1 : w.at # P[j]
        <5> TAKE j \in 0..N - 1
        <5>1. j \in 0..N /\ P[j] \in Nat
          BY <1>0, <1>1
        <5> QED BY <2>1, <4>1, <5>1
      <4>3. ParsesAt(c, w.at)
        BY <1>0, <2>1, <2>5
      <4> QED BY <1>0, <1>1, <2>1, <4>1, <4>2, <4>3
    <3>2. /\ FileHeaderSize + Length(DictRecord) = FirstData
          /\ EventCount(DictRecord) = 0
      BY <2>5, FileAssumption
      DEF FirstData, DictRecord, Length, RecordHeaderSize, FileHeaderSize, FileAssumption, EventCount
    <3>3. CASE salvage = TRUE /\ ~FitsAt(c, w.at)
      <4>1. u = Walk(-1, w.index)
        BY <2>u, <3>1, <3>3
      <4>2. Len(c) < P[0]
        BY <1>0, <1>1, <2>5, <3>1, <3>2, <3>3 DEF FitsAt
      <4>3. 0 < N => Len(c) < P[0 + 1]
        <5> SUFFICES ASSUME 0 < N PROVE Len(c) < P[1]
          OBVIOUS
        <5>1. 1 \in 0..N /\ 0 < 1
          BY <1>0
        <5>2. P[0] < P[1] /\ P[0] \in Nat /\ P[1] \in Nat
          BY <1>0, <1>1, <5>1
        <5> QED BY <1>0, <4>2, <5>2
      <4>4. Ended(c, u) /\ u.index = w.index
        BY <2>3, <4>1, WalkParts
      <4> QED BY <2>2, <2>5, <4>3, <4>4 DEF Reads
    <3>4. CASE salvage = FALSE \/ FitsAt(c, w.at)
      <4>1. u = Walk(w.at + Length(c[w.at + 1].of), Indexed(c, tp, w))
        BY <2>u, <3>1, <3>4
      <4>2. Indexed(c, tp, w) = w.index
        BY <3>1, <3>2 DEF Indexed
      <4>3. u.at = P[0] /\ u.index = w.index
        BY <2>5, <3>1, <3>2, <4>1, <4>2, WalkParts
      <4> QED BY <2>2, <2>5, <4>3 DEF Reads
    <3> QED BY <3>3, <3>4
  <2>6. CASE w.at = P[N] /\ k = N
    <3>1. PICK q, r : q = P[N] /\ r = c[q + 1].of
      OBVIOUS
    <3>2. q \in Nat /\ w.at = q /\ q < Len(c) /\ Trailing(c, q)
      BY <2>1, <2>6, <3>1
    <3>3. /\ ParsesAt(c, q) /\ EventCount(r) = 1 /\ Len(c) <= q + Length(r)
          /\ FitsAt(c, q) => HoldsFileIndex(c, q)
      BY <1>0, <3>1, <3>2, TailParses
    <3>4. CASE salvage = TRUE /\ ~FitsAt(c, w.at)
      <4>1. u = Walk(-1, w.index)
        BY <2>u, <3>2, <3>3, <3>4
      <4>2. Ended(c, u) /\ u.index = w.index /\ ~(k < N)
        BY <1>0, <2>3, <2>6, <4>1, WalkParts
      <4> QED BY <2>2, <4>2 DEF Reads
    <3>5. CASE salvage = FALSE \/ FitsAt(c, w.at)
      <4>1. u = Walk(q + Length(r), Indexed(c, tp, w))
        <5>1. u = Walk(w.at + Length(c[w.at + 1].of), Indexed(c, tp, w))
          BY <2>u, <3>2, <3>3, <3>5
        <5> QED BY <3>1, <3>2, <5>1
      <4>2. u.at = q + Length(r) /\ u.index = Indexed(c, tp, w) /\ Length(r) \in Nat
        BY <1>0, <3>1, <3>2, <3>3, <4>1, WalkParts, ParsedType
      <4>3. Ended(c, u)
        BY <1>0, <3>2, <3>3, <4>2 DEF Ended, RecordHeaderSize
      <4>4. PICK x \in RecordSpan :
              /\ x.file_offset = w.at /\ x.event_count = EventCount(c[w.at + 1].of)
              /\ IF x.event_count > 0 /\ w.at # tp
                   THEN Indexed(c, tp, w) = Index(Append(w.index.spans, x))
                   ELSE Indexed(c, tp, w) = w.index
          <5>1. ParsesAt(c, w.at)
            BY <3>2, <3>3
          <5> QED BY <1>0, <2>1, <5>1, IndexedSpans
      <4>x. x.file_offset = q /\ x.event_count = EventCount(r)
        BY <3>1, <3>2, <4>4
      <4>5. CASE salvage = FALSE
        <5>1. u.index = w.index /\ ~(k < N)
          BY <1>0, <2>6, <4>2, <4>4, <4>5 DEF Exact
        <5> QED BY <2>2, <4>3, <5>1 DEF Reads
      <4>6. CASE salvage = TRUE
        <5>1. tp = 0 /\ w.at # tp /\ HoldsFileIndex(c, q)
          <6>1. 0 = N \/ 0 < N
            BY <1>0
          <6>2. P[0] <= P[N] /\ P[0] \in Nat /\ P[N] \in Nat
            BY <1>0, <1>1, <6>1
          <6>3. w.at # 0
            BY <1>0, <2>6, <6>2 DEF FileHeaderSize
          <6> QED BY <3>2, <3>3, <3>5, <4>6, <6>3 DEF Exact
        <5>2. PICK spans : spans = Append(w.index.spans, x)
          OBVIOUS
        <5>3. u.index.spans = spans
          BY <3>3, <4>2, <4>4, <4>x, <5>1, <5>2 DEF Index
        <5>4. /\ spans # << >> /\ spans[Len(spans)] = x
              /\ SubSeq(spans, 1, Len(spans) - 1) = w.index.spans
          BY <2>1, <5>2
        <5>5. ~NoIndexLast(c, spans)
          BY <4>x, <5>1, <5>4 DEF NoIndexLast
        <5> QED BY <1>1, <2>2, <2>6, <4>3, <5>1, <5>3, <5>4, <5>5 DEF Reads
      <4> QED BY <4>5, <4>6
    <3> QED BY <3>4, <3>5
  <2> QED
    <3>1. k = N \/ k \in 0..N - 1
      BY <1>0
    <3> QED BY <2>2, <2>4, <2>5, <2>6, <3>1
<1> QED BY <1>2, <1>3, <1>4

(* The records that lie whole on disk are the first k.                     *)
FirstWhole(d, N, P, k) ==
  /\ k \in 0..N
  /\ k = 0 \/ P[k] <= Len(d)
  /\ k < N => Len(d) < P[k + 1]

(* An exact scan indexes them, and behind all of them a trailer.           *)
LEMMA ScanReads ==
  ASSUME NEW c, NEW d, NEW N, NEW P, NEW T, Tape(c, N, P, T), Tape(d, N, P, T),
         Len(c) = Len(d), Trailing(c, P[N]),
         NEW tp, NEW salvage \in BOOLEAN, Exact(c, N, P, tp, salvage),
         NEW first \in Nat,
         \/ first = P[0]
         \/ first = FileHeaderSize /\ FileHeaderSize < P[0] /\ FileHeaderSize < Len(c) /\ DictEvents = 0
  PROVE  LET spans == ScanIndex(c, first, tp, salvage).spans
         IN  /\ spans \in Seq(RecordSpan)
             /\ \E k \in 0..N :
                  /\ FirstWhole(c, N, P, k)
                  /\ \/ ReadOf(d, spans) = T[k] /\ NoIndexLast(c, spans)
                     \/ /\ tp = 0 /\ k = N /\ ~NoIndexLast(c, spans)
                        /\ ReadOf(d, SubSeq(spans, 1, Len(spans) - 1)) = T[N]
<1>0. /\ c \in Seq(Cell) /\ Len(c) \in Nat /\ N \in Nat /\ T[0] = << >>
      /\ \A k \in 0..N : P[k] \in Nat
      /\ \A j, k \in 0..N : j < k => P[j] < P[k]
  BY TapeParts, Zenon
<1>1. PICK g : /\ IsWalk(g, c, first, tp, salvage)
               /\ ScanIndex(c, first, tp, salvage) = g[Len(c)].index
  BY <1>0, ScanIs
<1> DEFINE S == {n \in Nat : n <= Len(c) => Reads(c, d, N, P, T, tp, g[n])}
<1>2. 0 \in S
  <2>1. g[0] = Walk(first, Index(<< >>))
    BY <1>1 DEF IsWalk
  <2>2. g[0].at = first /\ g[0].index.spans = << >>
    BY <2>1, WalkParts DEF Index
  <2>3. ReadOf(d, g[0].index.spans) = T[0] /\ 0 \in 0..N
    BY <1>0, <2>2, ReadNone
  <2>4. NoIndexLast(c, g[0].index.spans)
    BY <2>2 DEF NoIndexLast
  <2>5. Reads(c, d, N, P, T, tp, g[0])
    BY <2>2, <2>3, <2>4 DEF Reads
  <2> QED BY <2>5
<1>3. ASSUME NEW n \in Nat, n \in S PROVE n + 1 \in S
  <2> SUFFICES ASSUME n + 1 <= Len(c) PROVE Reads(c, d, N, P, T, tp, g[n + 1])
    OBVIOUS
  <2>1. n \in 0..Len(c) - 1 /\ n \in 0..Len(c) /\ n <= Len(c)
    BY <1>0
  <2>2. Standing(g[n]) /\ g[n + 1] = Turn(c, tp, salvage, g[n])
    BY <1>1, <2>1 DEF IsWalk
  <2>3. Reads(c, d, N, P, T, tp, g[n])
    BY <1>3, <2>1
  <2> QED BY <2>2, <2>3, TurnReads
<1>4. Len(c) \in S
  <2> HIDE DEF S
  <2> QED BY <1>0, <1>2, <1>3, Induction
<1>5. PICK w : w = g[Len(c)]
  OBVIOUS
<1>6. Reads(c, d, N, P, T, tp, w) /\ Ended(c, w)
  BY <1>0, <1>1, <1>4, <1>5, WalkEnds
<1>7. w.index.spans \in Seq(RecordSpan)
  BY <1>0, <1>1, <1>5 DEF IsWalk, Standing, Walks
<1>8. PICK k \in 0..N :
    /\ k = 0 \/ P[k] <= Len(c)
    /\ \/ /\ ReadOf(d, w.index.spans) = T[k]
          /\ NoIndexLast(c, w.index.spans)
          /\ \/ w.at = P[k]
             \/ /\ k = 0 /\ w.at = FileHeaderSize /\ FileHeaderSize < P[0]
                /\ FileHeaderSize < Len(c) /\ DictEvents = 0
             \/ Ended(c, w) /\ (k < N => Len(c) < P[k + 1])
       \/ /\ tp = 0 /\ k = N /\ Ended(c, w)
          /\ ~NoIndexLast(c, w.index.spans)
          /\ ReadOf(d, SubSeq(w.index.spans, 1, Len(w.index.spans) - 1)) = T[N]
  BY <1>6 DEF Reads
<1>9. FirstWhole(c, N, P, k)
  <2> SUFFICES ASSUME k < N PROVE Len(c) < P[k + 1]
    BY <1>8 DEF FirstWhole
  <2>1. w.at # FileHeaderSize \/ ~(FileHeaderSize < Len(c))
    BY <1>0, <1>6 DEF Ended, FileHeaderSize, RecordHeaderSize
  <2>2. CASE w.at = P[k]
    <3>1. k + 1 \in 0..N /\ k < k + 1
      BY <1>0
    <3>2. P[k] < P[k + 1] /\ P[k] \in Nat /\ P[k + 1] \in Nat
      BY <1>0, <3>1
    <3> QED BY <1>0, <1>6, <2>2, <3>2 DEF Ended, RecordHeaderSize
  <2> QED BY <1>0, <1>8, <2>1, <2>2
<1> QED BY <1>1, <1>5, <1>7, <1>8, <1>9

(* Where the scan of salvage starts: at the records, or at the dictionary  *)
(* when that yields no schemas; or there is nothing to start from.         *)
SalvageStart(c) ==
  LET q == FindFirstRecord(c, IF HeaderParses(c) THEN FileHeaderSize ELSE 0)
  IN  IF q # -1 /\ HasDictionaryAt(c, q) THEN q + Length(c[q + 1].of) ELSE q

(* Where salvage starts on such a file, by what it finds there.            *)
LEMMA StartIs ==
  ASSUME NEW c, NEW N, NEW P, NEW T, Tape(c, N, P, T)
  PROVE  \/ SalvageStart(c) = -1 /\ \A p \in Nat : p >= FileHeaderSize => ~FitsAt(c, p)
         \/ /\ SalvageStart(c) \in Nat /\ SalvageStart(c) # -1 /\ SalvageStart(c) = P[0]
         \/ /\ SalvageStart(c) \in Nat /\ SalvageStart(c) # -1
            /\ SalvageStart(c) = FileHeaderSize /\ FileHeaderSize < P[0]
            /\ FileHeaderSize < Len(c) /\ ~HasSchemas
         \/ /\ SalvageStart(c) \in Nat /\ SalvageStart(c) # -1 /\ P[0] = FileHeaderSize
            /\ SalvageStart(c) >= P[N] /\ FitsAt(c, SalvageStart(c))
<1>0. /\ c \in Seq(Cell) /\ Len(c) \in Nat /\ N \in Nat
      /\ \A k \in 0..N : P[k] \in Nat
      /\ P[0] >= FileHeaderSize /\ (P[0] = FileHeaderSize => N = 0)
      /\ \A j, k \in 0..N : j < k => P[j] < P[k]
      /\ \A k \in 0..N - 1 : RecordAt(c, P[k], P[k + 1], T[k], T[k + 1])
      /\ FileHeaderSize < Len(c) /\ FileHeaderSize < P[0] => ParsesAt(c, FileHeaderSize)
      /\ FirstData <= Len(c) /\ FileHeaderSize < P[0] => ReadableAt(c, FileHeaderSize)
      /\ \A p \in Nat : ParsesAt(c, p) =>
           \/ p = FileHeaderSize /\ P[0] = FirstData /\ c[p + 1].of = DictRecord
           \/ \E k \in 0..N - 1 : p = P[k]
           \/ p >= P[N] /\ c[p + 1].of.kind = "trailer"
  <2>1. c \in Seq(Cell) /\ N \in Nat /\ P \in [0..N -> Nat]
    BY Zenon DEF Tape
  <2>2. Len(c) \in Nat /\ \A k \in 0..N : P[k] \in Nat
    BY <2>1
  <2>3. /\ P[0] >= FileHeaderSize /\ (P[0] = FileHeaderSize => N = 0)
        /\ \A j, k \in 0..N : j < k => P[j] < P[k]
        /\ \A k \in 0..N - 1 : RecordAt(c, P[k], P[k + 1], T[k], T[k + 1])
        /\ FileHeaderSize < Len(c) /\ FileHeaderSize < P[0] => ParsesAt(c, FileHeaderSize)
        /\ FirstData <= Len(c) /\ FileHeaderSize < P[0] => ReadableAt(c, FileHeaderSize)
        /\ \A p \in Nat : ParsesAt(c, p) =>
             \/ p = FileHeaderSize /\ P[0] = FirstData /\ c[p + 1].of = DictRecord
             \/ \E k \in 0..N - 1 : p = P[k]
             \/ p >= P[N] /\ c[p + 1].of.kind = "trailer"
    BY Zenon DEF Tape
  <2> QED BY <2>1, <2>2, <2>3, Zenon
<1>1. PICK from : from = IF HeaderParses(c) THEN FileHeaderSize ELSE 0
  OBVIOUS
<1>2. from \in Nat /\ from <= FileHeaderSize
  BY <1>1 DEF FileHeaderSize
<1>3. PICK q : q = FindFirstRecord(c, from)
  OBVIOUS
<1>4. \/ q = -1 /\ \A p \in Nat : p >= from => ~FitsAt(c, p)
      \/ /\ q \in Nat /\ q >= from /\ FitsAt(c, q)
         /\ \A p \in Nat : p >= from /\ FitsAt(c, p) => q <= p
  BY <1>0, <1>2, <1>3, FirstIs
<1>5. SalvageStart(c) = IF q # -1 /\ HasDictionaryAt(c, q) THEN q + Length(c[q + 1].of) ELSE q
  BY <1>1, <1>3 DEF SalvageStart
<1>6. /\ FileHeaderSize = 2 /\ FirstData \in Nat /\ FirstData > 2
      /\ FileHeaderSize + Length(DictRecord) = FirstData
      /\ DictRecord.kind = "dict"
  BY FileAssumption
  DEF FirstData, DictRecord, Length, RecordHeaderSize, FileHeaderSize, FileAssumption
<1>7. \A j \in 0..N : P[0] <= P[j]
  <2> TAKE j \in 0..N
  <2>1. (j = 0 \/ 0 < j) /\ 0 \in 0..N
    BY <1>0
  <2> QED BY <1>0, <2>1
<1>8. CASE q = -1
  <2>1. \A p \in Nat : p >= FileHeaderSize => p >= from
    BY <1>2, <1>6
  <2> QED BY <1>4, <1>5, <1>8, <2>1
<1>9. ASSUME q # -1
      PROVE  /\ q \in Nat /\ FitsAt(c, q) /\ ParsesAt(c, q) /\ q < Len(c)
             /\ \A p \in Nat : p >= from /\ FitsAt(c, p) => q <= p
             /\ q >= FileHeaderSize
  <2>1. /\ q \in Nat /\ FitsAt(c, q) /\ ParsesAt(c, q) /\ q < Len(c)
        /\ \A p \in Nat : p >= from /\ FitsAt(c, p) => q <= p
    BY <1>0, <1>4, <1>9 DEF FitsAt, ParsesAt, RecordHeaderSize
  <2>2. q >= FileHeaderSize
    <3>1. \/ q = FileHeaderSize
          \/ \E k \in 0..N : q >= P[k]
      <4>1. N \in 0..N /\ \A k \in 0..N - 1 : k \in 0..N /\ P[k] >= P[k]
        BY <1>0
      <4> QED BY <1>0, <2>1, <4>1
    <3>2. ASSUME NEW k \in 0..N, q >= P[k] PROVE q >= FileHeaderSize
      BY <1>0, <1>6, <1>7, <2>1, <3>2
    <3> QED BY <1>6, <2>1, <3>1, <3>2
  <2> QED BY <2>1, <2>2
<1>10. CASE q # -1 /\ P[0] # FileHeaderSize
  <2>1. FileHeaderSize < P[0] /\ FileHeaderSize < Len(c)
    BY <1>0, <1>6, <1>9, <1>10
  <2>2. P[0] = FirstData /\ c[FileHeaderSize + 1].of = DictRecord /\ ParsesAt(c, FileHeaderSize)
    <3>1. \A j \in 0..N : ~(FileHeaderSize >= P[j])
      BY <1>0, <1>6, <1>7, <2>1
    <3>2. N \in 0..N /\ \A k \in 0..N - 1 : k \in 0..N /\ P[k] >= P[k]
      BY <1>0
    <3>3. FileHeaderSize \in Nat
      BY <1>6
    <3> QED BY <1>0, <2>1, <3>1, <3>2, <3>3
  <2>3. q = FileHeaderSize
    <3> SUFFICES ASSUME q # FileHeaderSize PROVE FALSE
      OBVIOUS
    <3>1. \E k \in 0..N : q >= P[k]
      <4>1. N \in 0..N /\ \A k \in 0..N - 1 : k \in 0..N /\ P[k] >= P[k]
        BY <1>0
      <4> QED BY <1>0, <1>9, <1>10, <4>1
    <3>2. q >= FirstData
      BY <1>0, <1>6, <1>7, <1>9, <1>10, <2>2, <3>1
    <3>3. FitsAt(c, FileHeaderSize)
      BY <1>0, <1>6, <1>9, <1>10, <2>2, <3>2 DEF FitsAt
    <3> QED BY <1>2, <1>6, <1>9, <1>10, <3>2, <3>3
  <2>4. HasDictionaryAt(c, q) <=> HasSchemas
    <3>1. FirstData <= Len(c)
      BY <1>6, <1>9, <1>10, <2>2, <2>3 DEF FitsAt
    <3> QED BY <1>0, <1>6, <2>1, <2>2, <2>3, <3>1 DEF HasDictionaryAt
  <2>5. CASE HasSchemas
    BY <1>5, <1>6, <1>10, <2>2, <2>3, <2>4, <2>5
  <2>6. CASE ~HasSchemas
    BY <1>5, <1>6, <1>10, <2>1, <2>3, <2>4, <2>6
  <2> QED BY <2>5, <2>6
<1>11. CASE q # -1 /\ P[0] = FileHeaderSize
  <2>1. P[0] # FirstData /\ N = 0
    BY <1>0, <1>6, <1>11
  <2>2. c[q + 1].of.kind = "trailer" /\ q >= P[N]
    <3>1. 0..N - 1 = {}
      BY <2>1
    <3> QED BY <1>0, <1>9, <1>11, <2>1, <3>1
  <2>3. ~HasDictionaryAt(c, q)
    BY <2>2 DEF HasDictionaryAt
  <2> QED BY <1>5, <1>9, <1>11, <2>2, <2>3
<1> QED BY <1>8, <1>10, <1>11

(* What the scan of salvage indexes.                                       *)
SalvageScan(c) == ScanIndex(c, SalvageStart(c), 0, TRUE).spans

(* What salvage indexes: what its scan did, less a trailer at the end.     *)
LEMMA SalvageIs ==
  ASSUME NEW c \in Seq(Cell),
         SalvageStart(c) # -1 =>
           /\ SalvageStart(c) \in Nat
           /\ SalvageScan(c) \in Seq(RecordSpan)
  PROVE  LET spans == SalvageScan(c)
         IN  /\ SalvageStart(c) = -1 => Salvage(c) = Failed
             /\ SalvageStart(c) # -1 =>
                  Salvage(c) = IF NoIndexLast(c, spans) THEN Index(spans)
                               ELSE Index(SubSeq(spans, 1, Len(spans) - 1))
<1>1. PICK q : q = FindFirstRecord(c, IF HeaderParses(c) THEN FileHeaderSize ELSE 0)
  OBVIOUS
<1>2. q = -1 \/ q \in Nat
  <2>1. FileHeaderSize \in Nat /\ 0 \in Nat
    BY DEF FileHeaderSize
  <2> QED BY <1>1, <2>1, FirstIs
<1>3. SalvageStart(c) = IF q # -1 /\ HasDictionaryAt(c, q) THEN q + Length(c[q + 1].of) ELSE q
  BY <1>1 DEF SalvageStart
<1>4. CASE q = -1
  <2>1. q \in Int /\ SalvageStart(c) = -1
    BY <1>3, <1>4
  <2>2. Salvage(c) = Failed
    BY <1>1, <1>4, <2>1 DEF Salvage
  <2> QED BY <2>1, <2>2
<1>5. CASE q \in Nat
  <2>1. PICK first : first = IF HasDictionaryAt(c, q) THEN q + Length(c[q + 1].of) ELSE q
    OBVIOUS
  <2>2. first = SalvageStart(c) /\ q # -1 /\ q \in Int
    BY <1>3, <1>5, <2>1
  <2>3. first \in Nat
    <3>1. HasDictionaryAt(c, q) => Length(c[q + 1].of) \in Nat
      BY <1>5, ParsedType DEF HasDictionaryAt, ReadableAt
    <3> QED BY <1>5, <2>1, <3>1
  <2>4. PICK spans : spans = SalvageScan(c)
    OBVIOUS
  <2>5. spans \in Seq(RecordSpan)
    BY <2>2, <2>3, <2>4
  <2>a. spans = ScanIndex(c, first, 0, TRUE).spans
    BY <2>2, <2>4, Zenon DEF SalvageScan
  <2>6. Salvage(c) = IF spans # << >> /\ HoldsFileIndex(c, Last(spans).file_offset)
                       THEN Index(Front(spans)) ELSE Index(spans)
    BY <1>1, <2>1, <2>2, <2>5, <2>a DEF Salvage
  <2> QED BY <2>2, <2>3, <2>4, <2>6 DEF NoIndexLast, Last, Front
<1> QED BY <1>2, <1>4, <1>5

(* Salvage never hands out other data than that of the first records.      *)
LEMMA SalvageSees ==
  ASSUME NEW c, NEW N, NEW P, NEW T, Tape(c, N, P, T)
  PROVE  /\ Salvage(c).spans \in Seq(RecordSpan)
         /\ \E k \in 0..N :
              (k = 0 \/ P[k] <= Len(c)) /\ DataIn(c, Salvage(c).spans) = T[k]
<1>0. /\ c \in Seq(Cell) /\ Len(c) \in Nat /\ N \in Nat /\ T[0] = << >>
      /\ \A k \in 0..N : P[k] \in Nat /\ T[k] \in Seq(Event)
      /\ P[0] >= FileHeaderSize
      /\ \A j, k \in 0..N : j < k => P[j] < P[k]
  BY TapeParts, Zenon
<1>1. PICK start : start = SalvageStart(c)
  OBVIOUS
<1>2. \/ start = -1
      \/ /\ start \in Nat /\ start # -1
         /\ start >= P[N] \/ start = P[0] \/ start = FileHeaderSize
  BY <1>1, StartIs, Zenon
<1>3. CASE start = -1
  <2>1. Salvage(c) = Failed
    BY <1>0, <1>1, <1>3, SalvageIs
  <2>2. Salvage(c).spans = << >> /\ << >> \in Seq(RecordSpan)
    BY <2>1 DEF Failed
  <2> QED BY <1>0, <2>2, ReadNone
<1>4. CASE start \in Nat
  <2>1. \A k \in 0..N - 1 : P[k] # 0
    <3> TAKE k \in 0..N - 1
    <3>1. (k = 0 \/ 0 < k) /\ 0 \in 0..N /\ k \in 0..N
      BY <1>0
    <3> QED BY <1>0, <3>1 DEF FileHeaderSize
  <2>2. PICK spans : spans = SalvageScan(c)
    OBVIOUS
  <2>3. PICK yes \in BOOLEAN : yes = TRUE
    OBVIOUS
  <2>a. spans = ScanIndex(c, start, 0, yes).spans
    BY <1>1, <2>2, <2>3, Zenon DEF SalvageScan
  <2>b. start # -1
    BY <1>4
  <2>4. /\ spans \in Seq(RecordSpan)
        /\ \E k \in 0..N : (k = 0 \/ P[k] <= Len(c)) /\ DataIn(c, spans) = T[k]
    BY <1>2, <1>4, <2>1, <2>a, <2>b, ScanSees
  <2>5. Salvage(c) = IF NoIndexLast(c, spans) THEN Index(spans)
                     ELSE Index(SubSeq(spans, 1, Len(spans) - 1))
    BY <1>0, <1>1, <1>4, <2>2, <2>b, <2>4, SalvageIs
  <2>6. CASE NoIndexLast(c, spans)
    <3>1. Salvage(c).spans = spans
      BY <2>5, <2>6 DEF Index
    <3> QED BY <2>4, <3>1
  <2>7. CASE ~NoIndexLast(c, spans)
    <3>1. PICK front, x : front = SubSeq(spans, 1, Len(spans) - 1) /\ x = spans[Len(spans)]
      OBVIOUS
    <3>2. spans # << >> /\ HoldsFileIndex(c, x.file_offset)
      BY <2>7, <3>1 DEF NoIndexLast
    <3>3. front \in Seq(RecordSpan) /\ x \in RecordSpan /\ spans = Append(front, x)
      BY <2>4, <3>1, <3>2
    <3>4. Salvage(c).spans = front
      BY <2>5, <2>7, <3>1 DEF Index
    <3>5. DataAt(c, x) = << >>
      BY <3>2 DEF DataAt, HoldsFileIndex
    <3>6. DataIn(c, spans) = DataIn(c, front) \o << >> /\ DataIn(c, front) \in Seq(Event)
      BY <1>0, <3>3, <3>5, ReadMore, ReadType
    <3>7. DataIn(c, spans) = DataIn(c, front)
      BY <3>6
    <3> QED BY <2>4, <3>3, <3>4, <3>7
  <2> QED BY <2>6, <2>7
<1> QED BY <1>2, <1>3, <1>4

(* With one trailer at most, and a dictionary the reader can tell from     *)
(* data, it finds exactly the records that lie whole on disk.              *)
LEMMA SalvageReads ==
  ASSUME NEW c, NEW d, NEW N, NEW P, NEW T, Tape(c, N, P, T), Tape(d, N, P, T),
         Len(c) = Len(d), Trailing(c, P[N]), HasSchemas \/ DictEvents = 0
  PROVE  /\ Salvage(c).spans \in Seq(RecordSpan)
         /\ \E k \in 0..N : FirstWhole(c, N, P, k) /\ ReadOf(d, Salvage(c).spans) = T[k]
         /\ (\E p \in Nat : p >= FileHeaderSize /\ FitsAt(c, p)) => Salvage(c).ok
<1>0. /\ c \in Seq(Cell) /\ Len(c) \in Nat /\ N \in Nat /\ T[0] = << >>
      /\ \A k \in 0..N : P[k] \in Nat /\ T[k] \in Seq(Event)
      /\ P[0] >= FileHeaderSize
      /\ P[0] = FileHeaderSize => N = 0
      /\ \A k \in 0..N - 1 : RecordAt(c, P[k], P[k + 1], T[k], T[k + 1])
  <2>1. c \in Seq(Cell) /\ N \in Nat /\ P \in [0..N -> Nat] /\ T \in [0..N -> Seq(Event)]
    BY Zenon DEF Tape
  <2>2. Len(c) \in Nat /\ \A k \in 0..N : P[k] \in Nat /\ T[k] \in Seq(Event)
    BY <2>1
  <2>3. /\ T[0] = << >> /\ P[0] >= FileHeaderSize /\ (P[0] = FileHeaderSize => N = 0)
        /\ \A k \in 0..N - 1 : RecordAt(c, P[k], P[k + 1], T[k], T[k + 1])
    BY Zenon DEF Tape
  <2> QED BY <2>1, <2>2, <2>3, Zenon
<1>1. PICK start : start = SalvageStart(c)
  OBVIOUS
<1>2. CASE start = -1
  <2>1. Salvage(c) = Failed
    BY <1>0, <1>1, <1>2, SalvageIs
  <2>2. Salvage(c).spans = << >> /\ << >> \in Seq(RecordSpan)
    BY <2>1 DEF Failed
  <2>3. \A p \in Nat : p >= FileHeaderSize => ~FitsAt(c, p)
    BY <1>1, <1>2, StartIs, Zenon
  <2>4. 0 < N => Len(c) < P[1]
    <3> SUFFICES ASSUME 0 < N PROVE Len(c) < P[1]
      OBVIOUS
    <3>1. PICK p, q, told, more : p = P[0] /\ q = P[1] /\ told = T[0] /\ more = T[1]
      OBVIOUS
    <3>2. 0 \in 0..N - 1 /\ 0 + 1 = 1 /\ 0 \in 0..N /\ 1 \in 0..N
      BY <1>0
    <3>3. p \in Nat /\ q \in Nat /\ RecordAt(c, p, q, told, more) /\ ~FitsAt(c, p)
      BY <1>0, <2>3, <3>1, <3>2
    <3>4. q > p /\ (p < Len(c) => (FitsAt(c, p) <=> q <= Len(c)))
      BY <1>0, <3>3, RecordRead
    <3> QED BY <1>0, <3>1, <3>3, <3>4
  <2>5. FirstWhole(c, N, P, 0)
    BY <1>0, <2>4 DEF FirstWhole
  <2> QED BY <1>0, <2>2, <2>3, <2>5, ReadNone
<1>3. CASE start # -1
  <2>1. /\ start \in Nat
        /\ \/ start = P[0]
           \/ /\ start = FileHeaderSize /\ FileHeaderSize < P[0]
              /\ FileHeaderSize < Len(c) /\ DictEvents = 0
    <3>1. CASE /\ start \in Nat /\ P[0] = FileHeaderSize
               /\ start >= P[N] /\ FitsAt(c, start)
      <4>1. P[N] = P[0] /\ ParsesAt(c, start)
        BY <1>0, <3>1 DEF FitsAt
      <4>2. ~(start > P[N])
        BY <3>1, <4>1 DEF Trailing
      <4> QED BY <1>0, <3>1, <4>1, <4>2
    <3> QED BY <1>1, <1>3, <3>1, StartIs, Zenon
  <2>2. PICK spans : spans = SalvageScan(c)
    OBVIOUS
  <2>3. PICK yes \in BOOLEAN : yes = TRUE
    OBVIOUS
  <2>a. spans = ScanIndex(c, start, 0, yes).spans
    BY <1>1, <2>2, <2>3, Zenon DEF SalvageScan
  <2>b. Exact(c, N, P, 0, yes)
    BY <2>3 DEF Exact
  <2>4. PICK k \in 0..N :
          /\ spans \in Seq(RecordSpan)
          /\ FirstWhole(c, N, P, k)
          /\ \/ ReadOf(d, spans) = T[k] /\ NoIndexLast(c, spans)
             \/ /\ k = N /\ ~NoIndexLast(c, spans)
                /\ ReadOf(d, SubSeq(spans, 1, Len(spans) - 1)) = T[N]
    BY <2>1, <2>a, <2>b, ScanReads
  <2>5. Salvage(c) = IF NoIndexLast(c, spans) THEN Index(spans)
                     ELSE Index(SubSeq(spans, 1, Len(spans) - 1))
    BY <1>0, <1>1, <1>3, <2>1, <2>2, <2>4, SalvageIs
  <2>6. CASE NoIndexLast(c, spans)
    <3>1. Salvage(c).spans = spans /\ Salvage(c).ok
      BY <2>5, <2>6 DEF Index
    <3> QED BY <2>4, <2>6, <3>1
  <2>7. CASE ~NoIndexLast(c, spans)
    <3>1. Salvage(c).spans = SubSeq(spans, 1, Len(spans) - 1) /\ Salvage(c).ok
      BY <2>5, <2>7 DEF Index
    <3>2. SubSeq(spans, 1, Len(spans) - 1) \in Seq(RecordSpan)
      <4>1. spans # << >>
        BY <2>7 DEF NoIndexLast
      <4> QED BY <2>4, <4>1
    <3> QED BY <2>4, <2>7, <3>1, <3>2
  <2> QED BY <2>6, <2>7
<1> QED BY <1>2, <1>3

(***************************************************************************)
(* What the writer lays down.                                              *)
(***************************************************************************)
SpansOf(rows) ==
  [i \in DOMAIN rows |-> Span(rows[i].position, rows[i].record_length, rows[i].event_count)]

(* Where the last record of an index ends.                                 *)
EndOf(rows) == rows[Len(rows)].position + rows[Len(rows)].record_length

(* The records of rows lie back to back in s behind the dictionary, up to  *)
(* e, and behind e come trailers only.                                     *)
Laid(s, rows, e) ==
  /\ Len(s) >= FileHeaderSize
  /\ s[1].of.kind = "front" /\ s[2].of.kind = "trailer_pos"
  /\ \A i \in 1..Len(rows) : RowMatches(rows[i], s)
  /\ \A i \in 1..Len(rows) - 1 : rows[i + 1].position = rows[i].position + rows[i].record_length
  /\ \/ e = FileHeaderSize /\ rows = << >>
     \/ /\ Holds(s, FileHeaderSize, DictRecord)
        /\ rows = << >> => e = FirstData
        /\ rows # << >> => rows[1].position = FirstData /\ e = EndOf(rows)
  /\ e <= Len(s)
  /\ \A i \in e + 1..Len(s) : s[i].of = TrailerRecord(rows)
  /\ Len(s) > e => Holds(s, e, TrailerRecord(rows))
  /\ Len(s) > e + Length(TrailerRecord(rows)) => s[e + Length(TrailerRecord(rows)) + 1].at = 0

(* Where record k + 1 begins, and what the first k records hold.           *)
Pos(rows, e)  == [k \in 0..Len(rows) |-> IF k < Len(rows) THEN rows[k + 1].position ELSE e]
(* The data events of the first k records.                                 *)
Told(s, rows) == [k \in 0..Len(rows) |-> DataIn(s, SubSeq(SpansOf(rows), 1, k))]

(* d is s, as far as it goes, but perhaps for its file header.             *)
Cut(d, s) ==
  /\ d \in Seq(Cell)
  /\ Len(d) <= Len(s)
  /\ \A i \in FileHeaderSize + 1..Len(d) : d[i] = s[i]
  /\ \A p \in Nat : ParsesAt(d, p) => p >= FileHeaderSize

(* The spans of rows: one for each, at its offset and with its events.     *)
LEMMA SpansType ==
  ASSUME NEW rows \in Seq(IndexEntry)
  PROVE  /\ SpansOf(rows) \in Seq(RecordSpan) /\ Len(SpansOf(rows)) = Len(rows)
         /\ IndexRows(rows) = Index(SpansOf(rows))
         /\ \A i \in 1..Len(rows) :
              /\ SpansOf(rows)[i] \in RecordSpan
              /\ SpansOf(rows)[i].file_offset = rows[i].position
              /\ SpansOf(rows)[i].event_count = rows[i].event_count
<1>1. Len(rows) \in Nat /\ DOMAIN rows = 1..Len(rows) /\ \A i \in 1..Len(rows) : rows[i] \in IndexEntry
  OBVIOUS
<1>2. ASSUME NEW r \in IndexEntry
      PROVE  LET x == Span(r.position, r.record_length, r.event_count)
             IN  x \in RecordSpan /\ x.file_offset = r.position /\ x.event_count = r.event_count
  BY DEF IndexEntry, Span, RecordSpan
<1>3. \A i \in 1..Len(rows) :
        /\ SpansOf(rows)[i] \in RecordSpan
        /\ SpansOf(rows)[i].file_offset = rows[i].position
        /\ SpansOf(rows)[i].event_count = rows[i].event_count
  BY <1>1, <1>2 DEF SpansOf
<1>4. SpansOf(rows) = [i \in 1..Len(rows) |-> SpansOf(rows)[i]]
  BY <1>1 DEF SpansOf
<1>5. SpansOf(rows) \in Seq(RecordSpan) /\ Len(SpansOf(rows)) = Len(rows)
  BY <1>1, <1>3, <1>4
<1>6. IndexRows(rows) = Index(SpansOf(rows))
  BY DEF IndexRows, SpansOf
<1> QED BY <1>3, <1>5, <1>6

(* The record a row matches.                                               *)
LEMMA RowRecord ==
  ASSUME NEW s \in Seq(Cell), NEW row \in IndexEntry, RowMatches(row, s)
  PROVE  LET p == row.position
             r == s[p + 1].of
         IN  /\ p \in Nat /\ p >= FirstData /\ p + 1 <= Len(s)
             /\ r \in Content /\ r.kind = "data" /\ Length(r) \in Nat \ {0} /\ r.evs \in Seq(Event)
             /\ s[p + 1] = [of |-> r, at |-> 0]
             /\ Holds(s, p, r) /\ ReadableAt(s, p)
             /\ row.record_length = Length(r) /\ row.event_count = Len(r.evs)
             /\ p + Length(r) <= Len(s)
<1>1. PICK p, r : p = row.position /\ r = s[p + 1].of
  OBVIOUS
<1>2. /\ p \in Nat /\ p >= FirstData /\ p + RecordHeaderSize <= Len(s) /\ r.kind = "data"
      /\ Holds(s, p, r) /\ row.record_length = Length(r) /\ row.event_count = Len(r.evs)
  BY <1>1 DEF RowMatches, RecordOf, IndexEntry
<1>3. p + 1 \in 1..Len(s) /\ p + 1 <= Len(s)
  BY <1>2 DEF RecordHeaderSize
<1>4. s[p + 1] \in Cell
  BY <1>3
<1>5. r \in Content
  BY <1>1, <1>4 DEF Cell
<1>6. Length(r) \in Nat \ {0} /\ r.evs \in Seq(Event)
  BY <1>5 DEF Content, Length, RecordHeaderSize
<1>7. s[p + 1] = [of |-> r, at |-> 0] /\ p + Length(r) <= Len(s)
  <2>1. 1 \in 1..Length(r)
    BY <1>6
  <2> QED BY <1>2, <2>1 DEF Holds
<1>8. s[p + 1].at = 0
  BY <1>7
<1>9. ReadableAt(s, p)
  BY <1>1, <1>2, <1>8 DEF ReadableAt, ParsesAt, IsRecord
<1> QED BY <1>1, <1>2, <1>3, <1>5, <1>6, <1>7, <1>9

(* What is read of the rows, one more each time.                           *)
LEMMA ToldSteps ==
  ASSUME NEW s \in Seq(Cell), NEW rows \in Seq(IndexEntry),
         \A i \in 1..Len(rows) : RowMatches(rows[i], s)
  PROVE  /\ Told(s, rows) \in [0..Len(rows) -> Seq(Event)]
         /\ Told(s, rows)[0] = << >>
         /\ \A k \in 0..Len(rows) - 1 :
              Follow(Told(s, rows)[k], s[rows[k + 1].position + 1].of.evs, Told(s, rows)[k + 1])
         /\ \A k \in 0..Len(rows) : ReadOf(s, SubSeq(SpansOf(rows), 1, k)) = Told(s, rows)[k]
<1>1. PICK sp, n : sp = SpansOf(rows) /\ n = Len(rows)
  OBVIOUS
<1>2. /\ n \in Nat /\ sp \in Seq(RecordSpan) /\ Len(sp) = n
      /\ \A i \in 1..n : sp[i] \in RecordSpan /\ sp[i].file_offset = rows[i].position
  BY <1>1, SpansType
<1>3. \A k \in 0..n : SubSeq(sp, 1, k) \in Seq(RecordSpan)
  BY <1>2
<1>4. \A k \in 0..n : Told(s, rows)[k] = DataIn(s, SubSeq(sp, 1, k))
  BY <1>1 DEF Told
<1>5. \A k \in 0..n : Told(s, rows)[k] \in Seq(Event)
  BY <1>3, <1>4, ReadType
<1>6. Told(s, rows) \in [0..n -> Seq(Event)]
  <2>1. Told(s, rows) = [k \in 0..n |-> Told(s, rows)[k]]
    BY <1>1 DEF Told
  <2> QED BY <1>5, <2>1
<1>7. SubSeq(sp, 1, 0) = << >> /\ 0 \in 0..n
  BY <1>2
<1>8. Told(s, rows)[0] = << >> /\ ReadOf(s, SubSeq(sp, 1, 0)) = << >>
  BY <1>4, <1>7, ReadNone
<1>9. ASSUME NEW k \in 0..n - 1
      PROVE  LET evs == s[rows[k + 1].position + 1].of.evs
             IN  /\ Follow(Told(s, rows)[k], evs, Told(s, rows)[k + 1])
                 /\ ReadOf(s, SubSeq(sp, 1, k + 1)) = ReadOf(s, SubSeq(sp, 1, k)) \o evs
  <2>1. k \in 0..n /\ k + 1 \in 0..n /\ k + 1 \in 1..n
    BY <1>2
  <2>2. PICK x, row : x = sp[k + 1] /\ row = rows[k + 1]
    OBVIOUS
  <2>3. x \in RecordSpan /\ x.file_offset = row.position /\ row \in IndexEntry /\ RowMatches(row, s)
    BY <1>1, <1>2, <2>1, <2>2
  <2>4. PICK evs : evs = s[row.position + 1].of.evs
    OBVIOUS
  <2>5. ReadableAt(s, row.position) /\ s[row.position + 1].of.kind = "data"
    BY <2>3, RowRecord
  <2>6. EventsAt(s, x) = evs /\ DataAt(s, x) = evs
    BY <2>3, <2>4, <2>5 DEF EventsAt, DataAt
  <2>7. SubSeq(sp, 1, k + 1) = Append(SubSeq(sp, 1, k), x)
    BY <1>2, <2>1, <2>2
  <2>8. SubSeq(sp, 1, k) \in Seq(RecordSpan)
    BY <1>3, <2>1
  <2>9. /\ ReadOf(s, SubSeq(sp, 1, k + 1)) = ReadOf(s, SubSeq(sp, 1, k)) \o evs
        /\ DataIn(s, SubSeq(sp, 1, k + 1)) = DataIn(s, SubSeq(sp, 1, k)) \o evs
    BY <2>3, <2>6, <2>7, <2>8, ReadMore
  <2> QED BY <1>4, <2>1, <2>2, <2>4, <2>9 DEF Follow
<1> DEFINE S == {k \in Nat : k <= n => ReadOf(s, SubSeq(sp, 1, k)) = Told(s, rows)[k]}
<1>10. \A k \in 0..n : ReadOf(s, SubSeq(sp, 1, k)) = Told(s, rows)[k]
  <2>1. 0 \in S
    BY <1>8
  <2>2. ASSUME NEW k \in Nat, k \in S PROVE k + 1 \in S
    <3> SUFFICES ASSUME k + 1 <= n PROVE ReadOf(s, SubSeq(sp, 1, k + 1)) = Told(s, rows)[k + 1]
      OBVIOUS
    <3>1. k \in 0..n - 1 /\ k <= n
      BY <1>2
    <3>2. ReadOf(s, SubSeq(sp, 1, k)) = Told(s, rows)[k]
      BY <2>2, <3>1
    <3> QED BY <1>9, <3>1, <3>2 DEF Follow
  <2>3. Nat \subseteq S
    <3> HIDE DEF S
    <3> QED BY <2>1, <2>2, Induction
  <2> QED BY <2>3
<1> QED BY <1>1, <1>6, <1>8, <1>9, <1>10

(* The places of the records of what is laid.                              *)
LEMMA PosSteps ==
  ASSUME NEW s \in Seq(Cell), NEW rows \in Seq(IndexEntry), NEW e \in Nat, Laid(s, rows, e)
  PROVE  LET N == Len(rows)
             P == Pos(rows, e)
         IN  /\ N \in Nat /\ P \in [0..N -> Nat] /\ P[N] = e
             /\ \A k \in 0..N - 1 : /\ P[k] = rows[k + 1].position
                                    /\ P[k + 1] = P[k] + Length(s[P[k] + 1].of)
                                    /\ P[k] < P[k + 1]
             /\ \/ P[0] = FileHeaderSize /\ N = 0
                \/ P[0] = FirstData /\ Holds(s, FileHeaderSize, DictRecord)
<1>1. PICK N, P : N = Len(rows) /\ P = Pos(rows, e)
  OBVIOUS
<1>2. N \in Nat /\ \A i \in 1..N : rows[i] \in IndexEntry /\ rows[i].position \in Nat
  <2>1. N \in Nat /\ \A i \in 1..N : rows[i] \in IndexEntry
    BY <1>1
  <2>2. \A row \in IndexEntry : row.position \in Nat
    BY DEF IndexEntry
  <2> QED BY <2>1, <2>2
<1>3. P = [k \in 0..N |-> IF k < N THEN rows[k + 1].position ELSE e]
  BY <1>1 DEF Pos
<1>4. P[N] = e /\ \A k \in 0..N - 1 : P[k] = rows[k + 1].position
  BY <1>2, <1>3
<1>5. P \in [0..N -> Nat]
  <2>1. \A k \in 0..N : (IF k < N THEN rows[k + 1].position ELSE e) \in Nat
    <3> TAKE k \in 0..N
    <3>1. k < N => k + 1 \in 1..N
      BY <1>2
    <3> QED BY <1>2, <3>1
  <2> QED BY <1>3, <2>1
<1>6. ASSUME NEW k \in 0..N - 1
      PROVE  P[k + 1] = P[k] + Length(s[P[k] + 1].of) /\ P[k] < P[k + 1]
  <2>1. k + 1 \in 1..N /\ k + 1 \in 1..Len(rows)
    BY <1>1, <1>2
  <2>2. PICK row : row = rows[k + 1]
    OBVIOUS
  <2>3. row \in IndexEntry /\ RowMatches(row, s) /\ P[k] = row.position
    BY <1>2, <1>4, <2>1, <2>2 DEF Laid
  <2>4. /\ row.record_length = Length(s[P[k] + 1].of) /\ P[k] \in Nat
        /\ Length(s[P[k] + 1].of) \in Nat \ {0}
    BY <2>3, RowRecord
  <2>5. P[k + 1] = row.position + row.record_length
    <3>1. CASE k + 1 < N
      <4>1. k + 1 \in 1..Len(rows) - 1 /\ k + 1 \in 0..N - 1
        BY <1>1, <1>2, <3>1
      <4>2. rows[(k + 1) + 1].position = rows[k + 1].position + rows[k + 1].record_length
        BY <4>1 DEF Laid
      <4> QED BY <1>4, <2>2, <4>1, <4>2
    <3>2. CASE k + 1 = N
      <4>1. rows # << >>
        BY <1>1, <2>1
      <4>2. e = EndOf(rows)
        BY <4>1 DEF Laid
      <4> QED BY <1>1, <1>4, <2>2, <3>2, <4>2 DEF EndOf
    <3> QED BY <1>2, <3>1, <3>2
  <2> QED BY <2>3, <2>4, <2>5
<1>7. \/ P[0] = FileHeaderSize /\ N = 0
      \/ P[0] = FirstData /\ Holds(s, FileHeaderSize, DictRecord)
  <2>1. CASE e = FileHeaderSize /\ rows = << >>
    <3>1. N = 0
      BY <1>1, <2>1
    <3> QED BY <1>4, <2>1, <3>1
  <2>2. CASE /\ Holds(s, FileHeaderSize, DictRecord)
             /\ rows = << >> => e = FirstData
             /\ rows # << >> => rows[1].position = FirstData /\ e = EndOf(rows)
    <3>1. CASE rows = << >>
      <4>1. N = 0
        BY <1>1, <3>1
      <4> QED BY <1>4, <2>2, <3>1, <4>1
    <3>2. CASE rows # << >>
      <4>1. N # 0
        BY <1>1, <3>2
      <4>2. 0 \in 0..N - 1 /\ 0 + 1 = 1
        BY <1>2, <4>1
      <4>3. P[0] = rows[0 + 1].position
        BY <1>4, <4>2
      <4> QED BY <2>2, <3>2, <4>2, <4>3
    <3> QED BY <3>1, <3>2
  <2> QED BY <2>1, <2>2 DEF Laid
<1> QED BY <1>1, <1>2, <1>4, <1>5, <1>6, <1>7

(* What is left of it on disk, with or without its header, is a tape.      *)
LEMMA LaidTape ==
  ASSUME NEW s \in Seq(Cell), NEW rows \in Seq(IndexEntry), NEW e \in Nat, Laid(s, rows, e),
         NEW d, Cut(d, s)
  PROVE  Tape(d, Len(rows), Pos(rows, e), Told(s, rows))
<1>1. PICK N, P, T : N = Len(rows) /\ P = Pos(rows, e) /\ T = Told(s, rows)
  OBVIOUS
<1>2. /\ N \in Nat /\ P \in [0..N -> Nat] /\ P[N] = e
      /\ \A k \in 0..N - 1 : /\ P[k] = rows[k + 1].position
                             /\ P[k + 1] = P[k] + Length(s[P[k] + 1].of)
                             /\ P[k] < P[k + 1]
      /\ \/ P[0] = FileHeaderSize /\ N = 0
         \/ P[0] = FirstData /\ Holds(s, FileHeaderSize, DictRecord)
  BY <1>1, PosSteps
<1>3. \A i \in 1..N : rows[i] \in IndexEntry /\ RowMatches(rows[i], s)
  BY <1>1 DEF Laid
<1>4. /\ T \in [0..N -> Seq(Event)] /\ T[0] = << >>
      /\ \A k \in 0..N - 1 : Follow(T[k], s[rows[k + 1].position + 1].of.evs, T[k + 1])
  BY <1>1, <1>3, ToldSteps
<1>5. /\ d \in Seq(Cell) /\ Len(d) \in Nat /\ Len(d) <= Len(s)
      /\ \A i \in FileHeaderSize + 1..Len(d) : d[i] = s[i]
      /\ \A p \in Nat : ParsesAt(d, p) => p >= FileHeaderSize
  BY DEF Cut
<1>6. /\ FileHeaderSize = 2 /\ FirstData \in Nat /\ FirstData > 2
      /\ FileHeaderSize + Length(DictRecord) = FirstData
      /\ Length(DictRecord) \in Nat \ {0}
      /\ DictRecord.kind = "dict"
  BY FileAssumption
  DEF FirstData, DictRecord, Length, RecordHeaderSize, FileHeaderSize, FileAssumption
<1>7. \A j, k \in 0..N : j < k => P[j] < P[k]
  BY <1>2, Growing
<1>8. P[0] >= FileHeaderSize /\ (P[0] = FileHeaderSize => N = 0)
  BY <1>2, <1>6
<1>9. ASSUME NEW k \in 0..N - 1
      PROVE  RecordAt(d, P[k], P[k + 1], T[k], T[k + 1])
  <2>1. k + 1 \in 1..N /\ k \in 0..N
    BY <1>2
  <2>2. PICK row, p, q : row = rows[k + 1] /\ p = P[k] /\ q = P[k + 1]
    OBVIOUS
  <2>3. PICK r : r = s[p + 1].of
    OBVIOUS
  <2>4. row \in IndexEntry /\ RowMatches(row, s) /\ p = row.position
    BY <1>2, <1>3, <2>1, <2>2
  <2>5. /\ p \in Nat /\ p >= FirstData
        /\ r \in Content /\ r.kind = "data" /\ Length(r) \in Nat \ {0}
        /\ s[p + 1] = [of |-> r, at |-> 0] /\ Holds(s, p, r)
    BY <2>3, <2>4, RowRecord
  <2>6. q = p + Length(r)
    BY <1>2, <2>2, <2>3
  <2>7. p < Len(d) => d[p + 1] = [of |-> r, at |-> 0]
    <3> SUFFICES ASSUME p < Len(d) PROVE d[p + 1] = s[p + 1]
      BY <2>5
    <3>1. p + 1 \in FileHeaderSize + 1..Len(d)
      BY <1>5, <1>6, <2>5
    <3> QED BY <1>5, <3>1
  <2>8. q <= Len(d) => Holds(d, p, r)
    <3> SUFFICES ASSUME q <= Len(d) PROVE Holds(d, p, r)
      OBVIOUS
    <3>1. ASSUME NEW i \in 1..Length(r) PROVE d[p + i] = [of |-> r, at |-> i - 1]
      <4>1. p + i \in FileHeaderSize + 1..Len(d)
        BY <1>5, <1>6, <2>5, <2>6
      <4>2. s[p + i] = [of |-> r, at |-> i - 1]
        BY <2>5 DEF Holds
      <4> QED BY <1>5, <4>1, <4>2
    <3> QED BY <2>6, <3>1 DEF Holds
  <2>9. Follow(T[k], r.evs, T[k + 1])
    BY <1>4, <2>2, <2>3, <2>4
  <2> QED BY <2>2, <2>5, <2>6, <2>7, <2>8, <2>9 DEF RecordAt
<1>10. FileHeaderSize < P[0] => P[0] = FirstData /\ Holds(s, FileHeaderSize, DictRecord)
  BY <1>2, <1>6
<1>11. ASSUME FileHeaderSize < P[0], FileHeaderSize < Len(d)
       PROVE  /\ d[FileHeaderSize + 1] = [of |-> DictRecord, at |-> 0]
              /\ ParsesAt(d, FileHeaderSize)
  <2>1. 1 \in 1..Length(DictRecord)
    BY <1>6
  <2>2. s[FileHeaderSize + 1] = [of |-> DictRecord, at |-> 1 - 1]
    BY <1>10, <1>11, <2>1 DEF Holds
  <2>3. FileHeaderSize + 1 \in FileHeaderSize + 1..Len(d)
    BY <1>5, <1>6, <1>11
  <2>4. d[FileHeaderSize + 1] = [of |-> DictRecord, at |-> 0]
    BY <1>5, <2>2, <2>3
  <2>5. d[FileHeaderSize + 1].of = DictRecord /\ d[FileHeaderSize + 1].at = 0
    BY <2>4
  <2> QED BY <1>5, <1>6, <1>11, <2>4, <2>5 DEF ParsesAt, IsRecord, RecordHeaderSize
<1>12. ASSUME FirstData <= Len(d), FileHeaderSize < P[0]
       PROVE  ReadableAt(d, FileHeaderSize)
  <2>1. FileHeaderSize < Len(d)
    BY <1>5, <1>6, <1>12
  <2>2. d[FileHeaderSize + 1].of = DictRecord /\ ParsesAt(d, FileHeaderSize)
    BY <1>11, <1>12, <2>1
  <2>3. Holds(d, FileHeaderSize, DictRecord)
    <3>1. ASSUME NEW i \in 1..Length(DictRecord)
          PROVE  d[FileHeaderSize + i] = [of |-> DictRecord, at |-> i - 1]
      <4>1. FileHeaderSize + i \in FileHeaderSize + 1..Len(d)
        BY <1>5, <1>6, <1>12
      <4>2. s[FileHeaderSize + i] = [of |-> DictRecord, at |-> i - 1]
        BY <1>10, <1>12 DEF Holds
      <4> QED BY <1>5, <4>1, <4>2
    <3> QED BY <1>6, <1>12, <3>1 DEF Holds
  <2> QED BY <2>2, <2>3 DEF ReadableAt
<1>13. ASSUME NEW p \in Nat, ParsesAt(d, p)
       PROVE  \/ p = FileHeaderSize /\ P[0] = FirstData /\ d[p + 1].of = DictRecord
              \/ \E k \in 0..N - 1 : p = P[k]
              \/ p >= P[N] /\ d[p + 1].of.kind = "trailer"
  <2>1. p >= FileHeaderSize /\ p + 1 \in FileHeaderSize + 1..Len(d) /\ d[p + 1].at = 0
    BY <1>5, <1>6, <1>13 DEF ParsesAt, RecordHeaderSize
  <2>2. d[p + 1] = s[p + 1] /\ s[p + 1].at = 0
    BY <1>5, <2>1
  <2>3. CASE p >= e
    <3>1. p + 1 \in e + 1..Len(s)
      BY <1>5, <1>6, <2>1, <2>3
    <3>2. s[p + 1].of = TrailerRecord(rows)
      BY <3>1 DEF Laid
    <3>3. TrailerRecord(rows).kind = "trailer"
      BY DEF TrailerRecord
    <3> QED BY <1>2, <2>2, <2>3, <3>2, <3>3
  <2>4. CASE p < e /\ p < P[0]
    <3>0. P[0] \in Nat /\ FileHeaderSize < P[0]
      <4>1. P[0] \in Nat
        BY <1>2
      <4> QED BY <1>6, <2>1, <2>4, <4>1
    <3>1. P[0] = FirstData /\ Holds(s, FileHeaderSize, DictRecord)
      BY <1>10, <3>0
    <3>2. p - 1 \in 1..Length(DictRecord) /\ FileHeaderSize + (p - 1) = p + 1
      BY <1>6, <2>1, <2>4, <3>1
    <3>3. s[p + 1] = [of |-> DictRecord, at |-> (p - 1) - 1]
      BY <3>1, <3>2 DEF Holds
    <3>4. (p - 1) - 1 = 0 /\ s[p + 1].of = DictRecord
      BY <2>2, <3>3
    <3>5. p = FileHeaderSize
      BY <1>6, <3>4
    <3> QED BY <2>2, <3>1, <3>4, <3>5
  <2>5. CASE p < e /\ P[0] <= p
    <3>1. PICK k \in 0..N - 1 : P[k] <= p /\ p < P[k + 1]
      BY <1>2, <2>5, Between
    <3>2. PICK row, q, r : row = rows[k + 1] /\ q = P[k] /\ r = s[q + 1].of
      OBVIOUS
    <3>3. k + 1 \in 1..N
      BY <1>2
    <3>4. row \in IndexEntry /\ RowMatches(row, s) /\ q = row.position
      BY <1>2, <1>3, <3>2, <3>3
    <3>5. q \in Nat /\ Holds(s, q, r) /\ Length(r) \in Nat
      BY <3>2, <3>4, RowRecord
    <3>6. q <= p /\ p < q + Length(r)
      BY <1>2, <3>1, <3>2
    <3>7. (p + 1) - q \in 1..Length(r) /\ q + ((p + 1) - q) = p + 1
      BY <3>5, <3>6
    <3>8. s[p + 1] = [of |-> r, at |-> ((p + 1) - q) - 1]
      BY <3>5, <3>7 DEF Holds
    <3>9. ((p + 1) - q) - 1 = 0
      BY <2>2, <3>8
    <3>10. p = q
      <4>1. p \in Nat /\ q \in Nat
        BY <3>5
      <4> QED BY <3>9, <4>1
    <3> QED BY <3>2, <3>10
  <2>6. P[0] \in Nat
    BY <1>2
  <2> QED BY <2>3, <2>4, <2>5, <2>6
<1>14. Tape(d, N, P, T)
  BY <1>2, <1>4, <1>5, <1>7, <1>8, <1>9, <1>11, <1>12, <1>13 DEF Tape
<1> QED BY <1>1, <1>14

(* One trailer at most begins in d.                                        *)
Sole(d) ==
  \A i, j \in DOMAIN d :
    /\ d[i].of.kind = "trailer" /\ d[i].at = 0
    /\ d[j].of.kind = "trailer" /\ d[j].at = 0
    => i = j

(* Behind the records the file on disk has a trailer at most.              *)
LEMMA LaidTrailing ==
  ASSUME NEW s \in Seq(Cell), NEW rows \in Seq(IndexEntry), NEW e \in Nat, Laid(s, rows, e),
         NEW d, Cut(d, s), NEW w \in Seq(Cell), Sole(w), Len(w) = Len(d),
         \A i \in FileHeaderSize + 1..Len(d) : w[i] = d[i]
  PROVE  Trailing(d, e)
<1>1. /\ d \in Seq(Cell) /\ Len(d) \in Nat /\ Len(d) <= Len(s) /\ DOMAIN w = 1..Len(d)
      /\ \A i \in FileHeaderSize + 1..Len(d) : d[i] = s[i] /\ w[i] = s[i]
      /\ FileHeaderSize = 2
  BY DEF Cut, FileHeaderSize
<1>2. PICK t : t = TrailerRecord(rows)
  OBVIOUS
<1>3. t \in Content /\ t.kind = "trailer" /\ Length(t) \in Nat \ {0}
  <2>1. t \in Content
    BY <1>2, ContentTypes
  <2>2. t.kind = "trailer"
    BY <1>2 DEF TrailerRecord
  <2> QED BY <2>1, <2>2, CellsType
<1>4. e >= FileHeaderSize
  <2>1. PICK N, P : N = Len(rows) /\ P = Pos(rows, e)
    OBVIOUS
  <2>2. /\ N \in Nat /\ P \in [0..N -> Nat] /\ P[N] = e
        /\ \A k \in 0..N - 1 : P[k] < P[k + 1]
        /\ P[0] = FileHeaderSize \/ P[0] = FirstData
    BY <2>1, PosSteps
  <2>3. \A j, k \in 0..N : j < k => P[j] < P[k]
    BY <2>2, Growing
  <2>4. 0 \in 0..N /\ N \in 0..N /\ (0 = N \/ 0 < N) /\ P[0] \in Nat
    BY <2>2
  <2>5. P[0] >= FileHeaderSize
    BY <2>2, FileAssumption DEF FirstData, FileHeaderSize, RecordHeaderSize, FileAssumption
  <2> QED BY <1>1, <2>2, <2>3, <2>4, <2>5
<1>5. ASSUME e < Len(d)
      PROVE  Holds(s, e, t) /\ d[e + 1] = [of |-> t, at |-> 0] /\ w[e + 1] = d[e + 1]
             /\ e + 1 \in 1..Len(d)
  <2>1. Holds(s, e, t)
    BY <1>1, <1>2, <1>5 DEF Laid
  <2>2. 1 \in 1..Length(t) /\ e + 1 \in FileHeaderSize + 1..Len(d)
    BY <1>1, <1>3, <1>4, <1>5
  <2>3. s[e + 1] = [of |-> t, at |-> 1 - 1]
    BY <2>1, <2>2 DEF Holds
  <2> QED BY <1>1, <2>1, <2>2, <2>3
<1>6. ASSUME NEW p \in Nat, p > e PROVE ~ParsesAt(d, p)
  <2> SUFFICES ASSUME ParsesAt(d, p) PROVE FALSE
    OBVIOUS
  <2>1. p + 1 \in FileHeaderSize + 1..Len(d) /\ p + 1 \in e + 1..Len(s) /\ e < Len(d)
        /\ d[p + 1].at = 0
    BY <1>1, <1>4, <1>6 DEF ParsesAt, RecordHeaderSize
  <2>2. s[p + 1].of = t
    BY <1>2, <2>1 DEF Laid
  <2>3. w[p + 1].of.kind = "trailer" /\ w[p + 1].at = 0 /\ p + 1 \in 1..Len(d)
    BY <1>1, <1>3, <2>1, <2>2
  <2>4. w[e + 1].of.kind = "trailer" /\ w[e + 1].at = 0 /\ e + 1 \in 1..Len(d)
    BY <1>3, <1>5, <2>1
  <2>5. p + 1 = e + 1
    BY <1>1, <2>3, <2>4 DEF Sole
  <2> QED BY <1>6, <2>5
<1>7. ASSUME e < Len(d) PROVE Len(d) <= e + Length(t)
  <2> SUFFICES ASSUME Len(d) > e + Length(t) PROVE FALSE
    BY <1>1, <1>3
  <2>1. PICK i : i = e + Length(t) + 1
    OBVIOUS
  <2>2. i \in FileHeaderSize + 1..Len(d) /\ i \in e + 1..Len(s) /\ i \in 1..Len(d)
        /\ Len(s) > e + Length(t) /\ i # e + 1
    BY <1>1, <1>3, <1>4, <2>1
  <2>3. s[i].of = t /\ s[i].at = 0
    BY <1>2, <2>1, <2>2 DEF Laid
  <2>4. w[i].of.kind = "trailer" /\ w[i].at = 0
    BY <1>1, <1>3, <2>2, <2>3
  <2>5. w[e + 1].of.kind = "trailer" /\ w[e + 1].at = 0 /\ e + 1 \in 1..Len(d)
    BY <1>3, <1>5, <1>7
  <2> QED BY <1>1, <2>2, <2>4, <2>5 DEF Sole
<1>8. ASSUME e < Len(d), Len(d) = e + Length(t) PROVE Holds(d, e, t)
  <2>1. ASSUME NEW i \in 1..Length(t) PROVE d[e + i] = [of |-> t, at |-> i - 1]
    <3>1. e + i \in FileHeaderSize + 1..Len(d)
      BY <1>1, <1>3, <1>4, <1>8
    <3>2. s[e + i] = [of |-> t, at |-> i - 1]
      BY <1>5, <1>8 DEF Holds
    <3> QED BY <1>1, <3>1, <3>2
  <2> QED BY <1>8, <2>1 DEF Holds
<1> QED BY <1>3, <1>5, <1>6, <1>7, <1>8 DEF Trailing

(* The beginning of what is laid is a cut of it; so is a copy of that      *)
(* without its header.                                                     *)
NoHead(d) ==
  [i \in DOMAIN d |-> IF i <= FileHeaderSize THEN [of |-> DictRecord, at |-> 1] ELSE d[i]]

(* A file that the stream begins with is such a cut, and so is the same    *)
(* file without its header.                                                *)
LEMMA Cuts ==
  ASSUME NEW s \in Seq(Cell), NEW rows \in Seq(IndexEntry), NEW e \in Nat, Laid(s, rows, e),
         NEW d \in Seq(Cell), Len(d) <= Len(s), \A i \in 1..Len(d) : d[i] = s[i]
  PROVE  Cut(d, s) /\ Cut(NoHead(d), s) /\ Len(NoHead(d)) = Len(d)
         /\ \A i \in FileHeaderSize + 1..Len(d) : d[i] = NoHead(d)[i]
<1>1. FileHeaderSize = 2 /\ Len(d) \in Nat /\ DOMAIN d = 1..Len(d)
  BY DEF FileHeaderSize
<1>2. ASSUME NEW p \in Nat, ParsesAt(d, p) PROVE p >= FileHeaderSize
  <2>1. p + 1 \in 1..Len(d) /\ d[p + 1].of.kind \in {"dict", "data", "trailer"}
    BY <1>1, <1>2 DEF ParsesAt, IsRecord, RecordHeaderSize
  <2>2. d[p + 1] = s[p + 1]
    BY <2>1
  <2>3. p + 1 # 1 /\ p + 1 # 2
    BY <2>1, <2>2 DEF Laid
  <2> QED BY <1>1, <2>3
<1>3. PICK c : c = NoHead(d)
  OBVIOUS
<1>4. /\ c = [i \in 1..Len(d) |-> IF i <= FileHeaderSize THEN [of |-> DictRecord, at |-> 1] ELSE d[i]]
      /\ [of |-> DictRecord, at |-> 1] \in Cell
      /\ \A i \in 1..Len(d) : d[i] \in Cell
  <2>1. [of |-> DictRecord, at |-> 1] \in Cell
    <3>1. DictRecord \in Content
      BY ContentTypes
    <3> QED BY <3>1 DEF Cell
  <2>2. c = [i \in 1..Len(d) |-> IF i <= FileHeaderSize THEN [of |-> DictRecord, at |-> 1] ELSE d[i]]
    BY <1>1, <1>3 DEF NoHead
  <2> QED BY <2>1, <2>2
<1>5. c \in Seq(Cell) /\ Len(c) = Len(d)
  BY <1>1, <1>4
<1>6. \A i \in FileHeaderSize + 1..Len(d) : c[i] = d[i]
  BY <1>1, <1>4
<1>7. ASSUME NEW p \in Nat, ParsesAt(c, p) PROVE p >= FileHeaderSize
  <2> SUFFICES ASSUME p + 1 <= FileHeaderSize PROVE FALSE
    BY <1>1
  <2>1. p + 1 \in 1..Len(d) /\ c[p + 1].at = 0
    BY <1>1, <1>5, <1>7 DEF ParsesAt, RecordHeaderSize
  <2>2. c[p + 1] = [of |-> DictRecord, at |-> 1]
    BY <1>4, <2>1
  <2> QED BY <2>1, <2>2
<1>8. Cut(d, s)
  BY <1>1, <1>2 DEF Cut
<1>9. Cut(c, s)
  BY <1>1, <1>5, <1>6, <1>7 DEF Cut
<1> QED BY <1>3, <1>5, <1>6, <1>8, <1>9

(* A sequence that another one begins with is a prefix of it.              *)
LEMMA BeginsPrefix ==
  ASSUME NEW S, NEW s \in Seq(S), NEW t \in Seq(S), Extends(s, t)
  PROVE  IsPrefix(s, t)
<1>1. Len(s) \in Nat /\ Len(t) \in Nat /\ Len(s) <= Len(t) /\ \A i \in 1..Len(s) : t[i] = s[i]
  BY DEF Extends
<1>2. SubSeq(s, 1, Len(s)) = SubSeq(t, 1, Len(s))
  <2>1. SubSeq(s, 1, Len(s)) \in Seq(S) /\ SubSeq(t, 1, Len(s)) \in Seq(S)
    BY <1>1
  <2>2. Len(SubSeq(s, 1, Len(s))) = Len(s) /\ Len(SubSeq(t, 1, Len(s))) = Len(s)
    BY <1>1
  <2>3. \A i \in 1..Len(s) : SubSeq(s, 1, Len(s))[i] = s[i] /\ SubSeq(t, 1, Len(s))[i] = t[i]
    BY <1>1
  <2> QED BY <1>1, <2>1, <2>2, <2>3, SameSeq
<1> QED BY <1>1, <1>2 DEF IsPrefix

(* What was told is a prefix of what is told later.                        *)
LEMMA ToldGrows ==
  ASSUME NEW S, NEW N \in Nat, NEW T \in [0..N -> Seq(S)],
         \A k \in 0..N - 1 : \E evs \in Seq(S) : Follow(T[k], evs, T[k + 1])
  PROVE  \A j, k \in 0..N : j <= k => Extends(T[j], T[k])
<1> SUFFICES ASSUME NEW j \in 0..N PROVE \A k \in 0..N : j <= k => Extends(T[j], T[k])
  OBVIOUS
<1> DEFINE I == {m \in Nat : m <= N /\ j <= m => Extends(T[j], T[m])}
<1>1. 0 \in I
  <2> SUFFICES ASSUME j <= 0 PROVE Extends(T[j], T[0])
    OBVIOUS
  <2>1. j = 0
    OBVIOUS
  <2>2. T[0] \in Seq(S)
    OBVIOUS
  <2> QED BY <2>1, <2>2 DEF Extends
<1>2. ASSUME NEW m \in Nat, m \in I PROVE m + 1 \in I
  <2> SUFFICES ASSUME m + 1 <= N, j <= m + 1 PROVE Extends(T[j], T[m + 1])
    OBVIOUS
  <2>1. m \in 0..N - 1 /\ m \in 0..N /\ m + 1 \in 0..N
    OBVIOUS
  <2>2. PICK t, u, v : t = T[j] /\ u = T[m] /\ v = T[m + 1]
    OBVIOUS
  <2>3. t \in Seq(S) /\ u \in Seq(S) /\ v \in Seq(S)
    BY <2>1, <2>2
  <2>4. CASE j = m + 1
    BY <2>2, <2>3, <2>4 DEF Extends
  <2>5. CASE j # m + 1
    <3>1. Extends(t, u)
      BY <1>2, <2>1, <2>2, <2>5
    <3>2. PICK evs \in Seq(S) : Follow(u, evs, v)
      BY <2>1, <2>2
    <3>3. v = u \o evs
      BY <3>2 DEF Follow
    <3>4. Len(v) = Len(u) + Len(evs) /\ \A i \in 1..Len(u) : v[i] = u[i]
      BY <2>3, <3>3, Concat
    <3>5. Len(t) \in Nat /\ Len(u) \in Nat /\ Len(evs) \in Nat
      BY <2>3
    <3> QED BY <2>2, <3>1, <3>4, <3>5 DEF Extends
  <2> QED BY <2>4, <2>5
<1>3. Nat \subseteq I
  <2> HIDE DEF I
  <2> QED BY <1>1, <1>2, Induction
<1> QED BY <1>3

(* Only one number of records is the number of those that are whole.       *)
LEMMA WholeUnique ==
  ASSUME NEW c, NEW d, Len(c) = Len(d), Len(d) \in Nat, NEW N \in Nat, NEW P \in [0..N -> Nat],
         \A j, k \in 0..N : j < k => P[j] < P[k],
         NEW j, FirstWhole(c, N, P, j), NEW k, FirstWhole(d, N, P, k)
  PROVE  j = k
<1>1. /\ j \in 0..N /\ (j = 0 \/ P[j] <= Len(d)) /\ (j < N => Len(d) < P[j + 1])
      /\ k \in 0..N /\ (k = 0 \/ P[k] <= Len(d)) /\ (k < N => Len(d) < P[k + 1])
  BY DEF FirstWhole
<1>2. ASSUME NEW a \in 0..N, NEW b \in 0..N, a < b, Len(d) < P[a + 1], P[b] <= Len(d)
      PROVE  FALSE
  <2>1. a + 1 \in 0..N /\ (a + 1 = b \/ a + 1 < b)
    BY <1>2
  <2>2. P[a + 1] <= P[b] /\ P[a + 1] \in Nat /\ P[b] \in Nat
    BY <2>1
  <2> QED BY <1>2, <2>2
<1>3. ~(j < k)
  <2> SUFFICES ASSUME j < k PROVE FALSE
    OBVIOUS
  <2>1. j < N /\ k # 0
    BY <1>1
  <2> QED BY <1>1, <1>2, <2>1
<1>4. ~(k < j)
  <2> SUFFICES ASSUME k < j PROVE FALSE
    OBVIOUS
  <2>1. k < N /\ j # 0
    BY <1>1
  <2> QED BY <1>1, <1>2, <2>1
<1> QED BY <1>1, <1>3, <1>4

(* The data a cut of what is laid holds where the rows say is that of the  *)
(* records that lie whole in it.                                           *)
LEMMA CutData ==
  ASSUME NEW s \in Seq(Cell), NEW rows \in Seq(IndexEntry), NEW e \in Nat, Laid(s, rows, e),
         NEW d, Cut(d, s), NEW K, FirstWhole(d, Len(rows), Pos(rows, e), K)
  PROVE  DataIn(d, SpansOf(rows)) = Told(s, rows)[K]
<1>1. PICK N, P, T, sp : N = Len(rows) /\ P = Pos(rows, e) /\ T = Told(s, rows) /\ sp = SpansOf(rows)
  OBVIOUS
<1>2. /\ d \in Seq(Cell) /\ N \in Nat /\ P \in [0..N -> Nat] /\ T \in [0..N -> Seq(Event)]
      /\ T[0] = << >>
      /\ \A j, k \in 0..N : j < k => P[j] < P[k]
      /\ \A k \in 0..N - 1 : RecordAt(d, P[k], P[k + 1], T[k], T[k + 1])
  BY <1>1, LaidTape DEF Tape
<1>a. N \in Nat /\ Len(d) \in Nat /\ d \in Seq(Cell)
  BY <1>2
<1>d. P \in [0..N -> Nat] /\ \A j, k \in 0..N : j < k => P[j] < P[k]
  BY <1>2
<1>b. \A j, k \in 0..N : j <= k => P[j] <= P[k]
  <2> SUFFICES ASSUME NEW j \in 0..N, NEW k \in 0..N, j <= k PROVE P[j] <= P[k]
    OBVIOUS
  <2>1. P[j] \in Nat /\ P[k] \in Nat /\ (j = k \/ j < k)
    BY <1>a, <1>d
  <2>2. CASE j < k
    <3>1. P[j] < P[k]
      BY <1>d, <2>2
    <3> QED BY <2>1, <3>1
  <2> QED BY <2>1, <2>2
<1>3. /\ sp \in Seq(RecordSpan) /\ Len(sp) = N
      /\ \A i \in 1..N : sp[i] \in RecordSpan /\ sp[i].file_offset = rows[i].position
  BY <1>1, SpansType
<1>4. \A k \in 0..N - 1 : P[k] = rows[k + 1].position
  BY <1>1, PosSteps
<1>5. K \in 0..N /\ (K = 0 \/ P[K] <= Len(d)) /\ (K < N => Len(d) < P[K + 1])
  BY <1>1 DEF FirstWhole
<1> DEFINE M(k) == IF k <= K THEN k ELSE K
           I    == {k \in Nat : k <= N => DataIn(d, SubSeq(sp, 1, k)) = T[M(k)]}
<1>6. 0 \in I
  <2>1. SubSeq(sp, 1, 0) = << >> /\ M(0) = 0
    BY <1>3, <1>5
  <2> QED BY <1>2, <2>1, ReadNone
<1>7. ASSUME NEW k \in Nat, k \in I PROVE k + 1 \in I
  <2> SUFFICES ASSUME k + 1 <= N PROVE DataIn(d, SubSeq(sp, 1, k + 1)) = T[M(k + 1)]
    OBVIOUS
  <2>1. k \in 0..N - 1 /\ k \in 0..N /\ k + 1 \in 0..N /\ k + 1 \in 1..N /\ k <= N
    BY <1>2
  <2>2. PICK x, p, q, told, more :
          x = sp[k + 1] /\ p = P[k] /\ q = P[k + 1] /\ told = T[k] /\ more = T[k + 1]
    OBVIOUS
  <2>3. /\ x \in RecordSpan /\ x.file_offset = p /\ p \in Nat /\ q \in Nat
        /\ RecordAt(d, p, q, told, more)
    BY <1>2, <1>3, <1>4, <2>1, <2>2
  <2>4. SubSeq(sp, 1, k + 1) = Append(SubSeq(sp, 1, k), x) /\ SubSeq(sp, 1, k) \in Seq(RecordSpan)
    BY <1>3, <2>1, <2>2
  <2>5. DataIn(d, SubSeq(sp, 1, k + 1)) = DataIn(d, SubSeq(sp, 1, k)) \o DataAt(d, x)
    <3>1. PICK before : before = SubSeq(sp, 1, k)
      OBVIOUS
    <3>2. before \in Seq(RecordSpan) /\ x \in RecordSpan
      BY <2>3, <2>4, <3>1
    <3>3. DataIn(d, Append(before, x)) = DataIn(d, before) \o DataAt(d, x)
      BY <1>a, <3>2, ReadMore
    <3> QED BY <2>4, <3>1, <3>3
  <2>6. DataIn(d, SubSeq(sp, 1, k)) = T[M(k)]
    BY <1>7, <2>1
  <2>9. x.file_offset = p
    BY <2>3
  <2>c. p \in Nat /\ RecordAt(d, p, q, told, more)
    BY <2>3
  <2>7. CASE k + 1 <= K
    <3>1. P[k + 1] <= P[K]
      <4>1. K \in 0..N /\ k + 1 \in 0..N
        BY <1>5, <2>1
      <4> QED BY <1>b, <2>7, <4>1
    <3>2. q <= Len(d) /\ P[K] \in Nat
      <4>1. K # 0 /\ P[K] \in Nat /\ Len(d) \in Nat
        BY <1>2, <1>5, <2>7
      <4> QED BY <1>5, <2>2, <2>3, <3>1, <4>1
    <3>3. p < Len(d)
      <4>1. p < q /\ Len(d) \in Nat
        BY <1>2, <2>3, RecordRead
      <4> QED BY <2>3, <3>2, <4>1
    <3>4. DataAt(d, x) = d[p + 1].of.evs /\ Follow(told, d[p + 1].of.evs, more)
      <4>1. Follow(told, d[p + 1].of.evs, more)
        BY <1>2, <2>3, <3>3, RecordRead
      <4>2. q <= Len(d) => DataAt(d, x) = d[p + 1].of.evs
        BY <1>a, <2>c, <2>9, SpanRead
      <4> QED BY <3>2, <4>1, <4>2
    <3>5. told \o DataAt(d, x) = more
      BY <3>4 DEF Follow
    <3>6. M(k) = k /\ M(k + 1) = k + 1
      BY <1>5, <2>7
    <3> QED BY <2>2, <2>5, <2>6, <3>5, <3>6
  <2>8. CASE k + 1 > K
    <3>1. K \in 0..N - 1 /\ K < N /\ K <= k /\ K + 1 \in 0..N
      <4>1. K \in 0..N
        BY <1>5
      <4> QED BY <1>a, <2>1, <2>8, <4>1
    <3>2. P[K + 1] <= P[k + 1]
      <4>1. K + 1 <= k + 1 /\ k + 1 \in 0..N
        BY <1>a, <1>5, <2>1, <3>1
      <4> QED BY <1>b, <3>1, <4>1
    <3>3. q > Len(d)
      <4>1. P[K + 1] \in Nat /\ Len(d) \in Nat
        BY <1>2, <3>1
      <4> QED BY <1>5, <2>2, <2>3, <3>1, <3>2, <4>1
    <3>4. DataAt(d, x) = << >>
      BY <1>a, <2>c, <2>9, <3>3, SpanRead
    <3>5. M(k) = K /\ M(k + 1) = K
      BY <2>8, <3>1
    <3>6. T[K] \in Seq(Event)
      BY <1>2, <1>5
    <3>7. T[K] \o << >> = T[K]
      BY <3>6
    <3> QED BY <2>5, <2>6, <3>4, <3>5, <3>7
  <2> QED BY <1>5, <2>7, <2>8
<1>8. Nat \subseteq I
  <2> HIDE DEF I
  <2> QED BY <1>6, <1>7, Induction
<1>9. DataIn(d, SubSeq(sp, 1, N)) = T[M(N)] /\ M(N) = K
  BY <1>2, <1>5, <1>8
<1>10. SubSeq(sp, 1, N) = sp
  BY <1>2, <1>3
<1> QED BY <1>1, <1>9, <1>10

(* What all the rows tell is what is read where they say.                  *)
LEMMA AllTold ==
  ASSUME NEW s \in Seq(Cell), NEW rows \in Seq(IndexEntry),
         \A i \in 1..Len(rows) : RowMatches(rows[i], s)
  PROVE  /\ Told(s, rows)[Len(rows)] = ReadOf(s, SpansOf(rows))
         /\ Told(s, rows)[Len(rows)] = DataIn(s, SpansOf(rows))
         /\ Told(s, rows)[Len(rows)] = EventsOf(s, IndexRows(rows))
         /\ Told(s, rows)[Len(rows)] \in Seq(Event)
<1>1. PICK sp, n : sp = SpansOf(rows) /\ n = Len(rows)
  OBVIOUS
<1>2. n \in 0..n /\ sp \in Seq(RecordSpan) /\ Len(sp) = n /\ IndexRows(rows) = Index(sp)
  BY <1>1, SpansType
<1>3. SubSeq(sp, 1, n) = sp
  BY <1>2
<1>4. Told(s, rows)[n] = ReadOf(s, sp) /\ Told(s, rows)[n] \in Seq(Event)
  BY <1>1, <1>2, <1>3, ToldSteps
<1>5. Told(s, rows)[n] = DataIn(s, sp)
  BY <1>1, <1>2, <1>3 DEF Told
<1>6. EventsOf(s, IndexRows(rows)) = ReadOf(s, sp)
  BY <1>2, EventsOfIs DEF Index
<1> QED BY <1>1, <1>4, <1>5, <1>6

(* Where the rows say, files with the same cells behind the header hold    *)
(* the same.                                                               *)
LEMMA ToldSame ==
  ASSUME NEW s \in Seq(Cell), NEW t \in Seq(Cell), NEW rows \in Seq(IndexEntry),
         \A i \in 1..Len(rows) : RowMatches(rows[i], s),
         Len(s) <= Len(t), \A i \in FileHeaderSize + 1..Len(s) : t[i] = s[i]
  PROVE  /\ \A i \in 1..Len(rows) : RowMatches(rows[i], t)
         /\ Told(t, rows)[Len(rows)] = Told(s, rows)[Len(rows)]
<1>1. PICK sp, n : sp = SpansOf(rows) /\ n = Len(rows)
  OBVIOUS
<1>2. /\ n \in Nat /\ sp \in Seq(RecordSpan) /\ Len(sp) = n
      /\ \A i \in 1..n : sp[i] \in RecordSpan /\ sp[i].file_offset = rows[i].position
  BY <1>1, SpansType
<1>3. \A i \in 1..n : rows[i] \in IndexEntry /\ RowMatches(rows[i], s)
  BY <1>1
<1>4. \A i \in 1..n : RowMatches(rows[i], t)
  BY <1>3, RowSurvives
<1>5. ASSUME NEW i \in 1..n PROVE EventsAt(t, sp[i]) = EventsAt(s, sp[i])
  <2>1. PICK row, x, p : row = rows[i] /\ x = sp[i] /\ p = row.position
    OBVIOUS
  <2>2. row \in IndexEntry /\ RowMatches(row, s) /\ RowMatches(row, t) /\ x.file_offset = p
    BY <1>2, <1>3, <1>4, <2>1
  <2>3. p \in Nat /\ p >= FirstData /\ p + 1 <= Len(s) /\ ReadableAt(s, p)
        /\ s[p + 1].of.kind = "data"
    <3>1. row \in IndexEntry /\ RowMatches(row, s)
      BY <2>2
    <3>2. /\ row.position \in Nat /\ row.position >= FirstData /\ row.position + 1 <= Len(s)
          /\ s[row.position + 1].of.kind = "data"
      BY <3>1, RowRecord
    <3>3. ReadableAt(s, row.position)
      BY <3>1, RowRecord
    <3> QED BY <2>1, <3>2, <3>3
  <2>4. ReadableAt(t, p)
    BY <2>1, <2>2, RowRecord
  <2>5. p + 1 \in FileHeaderSize + 1..Len(s)
    BY <2>3, FileAssumption DEF FirstData, FileHeaderSize, RecordHeaderSize, FileAssumption
  <2>6. t[p + 1] = s[p + 1]
    BY <2>5
  <2>7. EventsAt(t, x) = EventsAt(s, x)
    BY <2>2, <2>3, <2>4, <2>6 DEF EventsAt
  <2> QED BY <2>1, <2>7
<1>6. ReadOf(t, sp) = ReadOf(s, sp)
  BY <1>2, <1>5, ReadSame
<1> QED BY <1>1, <1>3, <1>4, <1>6, AllTold

(* A set of one element at most has no two.                                *)
LEMMA SoleIs ==
  ASSUME NEW d \in Seq(Cell),
         Cardinality({p \in DOMAIN d : d[p].of.kind = "trailer" /\ d[p].at = 0}) <= 1
  PROVE  Sole(d)
<1>1. PICK S : S = {p \in DOMAIN d : d[p].of.kind = "trailer" /\ d[p].at = 0}
  OBVIOUS
<1>2. DOMAIN d = 1..Len(d) /\ Len(d) \in Nat
  OBVIOUS
<1>3. IsFiniteSet(1..Len(d))
  BY <1>2, FS_Interval
<1>4. IsFiniteSet(S) /\ Cardinality(S) <= 1
  BY <1>1, <1>2, <1>3, FS_Subset
<1>5. ASSUME NEW i \in S, NEW j \in S, i # j PROVE FALSE
  <2>1. IsFiniteSet({i}) /\ Cardinality({i}) = 1
    BY FS_Singleton
  <2>2. PICK pair, n, m : pair = {i} \cup {j} /\ n = Cardinality(pair) /\ m = Cardinality(S)
    OBVIOUS
  <2>3. n = 2
    <3>1. j \notin {i}
      BY <1>5
    <3>2. Cardinality({i} \cup {j}) = Cardinality({i}) + 1
      BY <2>1, <3>1, FS_AddElement
    <3>3. Cardinality({i} \cup {j}) = 1 + 1
      BY <2>1, <3>2
    <3>4. n = 1 + 1
      BY <2>2, <3>3, Zenon
    <3> QED BY <3>4
  <2>4. pair \in SUBSET S
    BY <2>2
  <2>5. n <= m
    BY <1>4, <2>2, <2>4, FS_Subset
  <2>6. m <= 1 /\ m \in Nat
    BY <1>4, <2>2, FS_CardinalityType
  <2> QED BY <2>3, <2>5, <2>6
<1> QED BY <1>1, <1>5 DEF Sole

(* Where the records end is behind the header, and the records begin where *)
(* the reader looks for them, or there are none.                           *)
LEMMA LaidPlaces ==
  ASSUME NEW s \in Seq(Cell), NEW rows \in Seq(IndexEntry), NEW e \in Nat, Laid(s, rows, e)
  PROVE  LET N == Len(rows)
             P == Pos(rows, e)
         IN  /\ e >= FileHeaderSize
             /\ \A i \in 1..N : rows[i].position < e
             /\ P[0] = FirstData \/ (P[0] = FileHeaderSize /\ N = 0 /\ P[N] = e /\ e = FileHeaderSize)
             /\ FirstData \in Nat /\ FirstData > FileHeaderSize
<1>1. PICK N, P : N = Len(rows) /\ P = Pos(rows, e)
  OBVIOUS
<1>2. /\ N \in Nat /\ P \in [0..N -> Nat] /\ P[N] = e
      /\ \A k \in 0..N - 1 : P[k] = rows[k + 1].position /\ P[k] < P[k + 1]
      /\ (P[0] = FileHeaderSize /\ N = 0) \/ P[0] = FirstData
  BY <1>1, PosSteps
<1>3. \A j, k \in 0..N : j < k => P[j] < P[k]
  BY <1>2, Growing
<1>4. FirstData \in Nat /\ FirstData > FileHeaderSize
  BY FileAssumption DEF FirstData, FileHeaderSize, RecordHeaderSize, FileAssumption
<1>5. e >= FileHeaderSize
  <2>1. P[0] >= FileHeaderSize
    BY <1>2, <1>4 DEF FileHeaderSize
  <2>2. 0 \in 0..N /\ N \in 0..N /\ (0 = N \/ 0 < N) /\ P[0] \in Nat
    BY <1>2
  <2> QED BY <1>2, <1>3, <2>1, <2>2 DEF FileHeaderSize
<1>6. ASSUME NEW i \in 1..N PROVE rows[i].position < e
  <2>1. i - 1 \in 0..N - 1 /\ (i - 1) + 1 = i /\ i - 1 \in 0..N /\ N \in 0..N /\ i - 1 < N
    BY <1>2
  <2>2. P[i - 1] = rows[i].position
    BY <1>2, <2>1
  <2> QED BY <1>2, <1>3, <2>1, <2>2
<1> QED BY <1>1, <1>2, <1>4, <1>5, <1>6

(* A trailer that lies whole behind the records gives their index.         *)
LEMMA TrailerReads ==
  ASSUME NEW s \in Seq(Cell), NEW rows \in Seq(IndexEntry), NEW e \in Nat, Laid(s, rows, e),
         NEW tp \in Nat, e <= tp, Holds(s, tp, TrailerRecord(rows))
  PROVE  /\ s[tp + 1] = [of |-> TrailerRecord(rows), at |-> 0] /\ tp < Len(s)
         /\ FitsAt(s, tp) /\ ReadableAt(s, tp)
         /\ TrailerIndex(s, FirstData, tp) = IndexRows(rows)
<1>1. PICK t : t = TrailerRecord(rows)
  OBVIOUS
<1>2. t \in Content /\ t.kind = "trailer" /\ t.rows = rows /\ Length(t) \in Nat \ {0}
  <2>1. t \in Content
    BY <1>1, ContentTypes
  <2>2. t.kind = "trailer" /\ t.rows = rows
    BY <1>1 DEF TrailerRecord
  <2> QED BY <2>1, <2>2, CellsType
<1>3. s[tp + 1] = [of |-> t, at |-> 0] /\ tp + Length(t) <= Len(s)
  <2>1. 1 \in 1..Length(t)
    BY <1>2
  <2>2. s[tp + 1] = [of |-> t, at |-> 1 - 1] /\ tp + Length(t) <= Len(s)
    BY <1>1, <2>1 DEF Holds
  <2> QED BY <2>2
<1>4. s[tp + 1].of = t /\ s[tp + 1].at = 0 /\ tp < Len(s) /\ tp + 1 <= Len(s)
  <2>1. Len(s) \in Nat
    OBVIOUS
  <2> QED BY <1>2, <1>3, <2>1
<1>5. ParsesAt(s, tp)
  BY <1>2, <1>4 DEF ParsesAt, IsRecord, RecordHeaderSize
<1>6. ReadableAt(s, tp) /\ FitsAt(s, tp)
  BY <1>1, <1>3, <1>4, <1>5 DEF ReadableAt, FitsAt
<1>7. \A i \in 1..Len(rows) : rows[i] \in IndexEntry /\ RowMatches(rows[i], s) /\ rows[i].position < e
  <2>1. \A i \in 1..Len(rows) : rows[i].position < e
    BY LaidPlaces
  <2> QED BY <2>1 DEF Laid
<1>8. ASSUME NEW i \in 1..Len(rows)
      PROVE  /\ rows[i].position >= FirstData /\ rows[i].position # tp
             /\ ~(rows[i].position + rows[i].record_length > Len(s))
  <2>1. PICK row : row = rows[i]
    OBVIOUS
  <2>2. row \in IndexEntry /\ RowMatches(row, s) /\ row.position < e
    BY <1>7, <2>1
  <2>3. /\ row.position \in Nat /\ row.position >= FirstData
        /\ row.record_length = Length(s[row.position + 1].of)
        /\ row.position + Length(s[row.position + 1].of) <= Len(s)
        /\ Length(s[row.position + 1].of) \in Nat
    BY <2>2, RowRecord
  <2>4. row.position # tp
    BY <2>2, <2>3
  <2> QED BY <2>1, <2>3, <2>4
<1>9. Only(rows, {i \in DOMAIN rows : rows[i].position >= FirstData /\ rows[i].position # tp}) = rows
  <2>1. DOMAIN rows = 1..Len(rows)
    OBVIOUS
  <2>2. DOMAIN rows \subseteq {i \in DOMAIN rows : rows[i].position >= FirstData /\ rows[i].position # tp}
    BY <1>8, <2>1
  <2> QED BY <2>2, OnlyAll
<1>10. ~\E i \in DOMAIN rows : rows[i].position + rows[i].record_length > Len(s)
  <2>1. DOMAIN rows = 1..Len(rows)
    OBVIOUS
  <2> QED BY <1>8, <2>1
<1>11. TrailerIndex(s, FirstData, tp) = IndexRows(rows)
  BY <1>2, <1>4, <1>6, <1>9, <1>10 DEF TrailerIndex, IndexRows
<1> QED BY <1>1, <1>3, <1>4, <1>6, <1>11

(* How from_source chooses between the trailer and the scan.               *)
LEMMA OpenIs ==
  ASSUME NEW d, NEW tp, tp = HeaderTrailerPos(d)
  PROVE  /\ ~HeaderParses(d) => Open(d) = Failed
         /\ HeaderParses(d) /\ tp # 0 /\ TrailerIndex(d, FirstData, tp).ok = TRUE =>
              Open(d) = TrailerIndex(d, FirstData, tp)
         /\ HeaderParses(d) /\ tp = 0 => Open(d) = ScanIndex(d, FirstData, 0, FALSE)
<1>1. CASE ~HeaderParses(d)
  BY <1>1 DEF Open
<1>2. CASE HeaderParses(d) /\ tp = 0
  BY <1>2 DEF Open
<1>3. CASE HeaderParses(d) /\ tp # 0
  BY <1>3 DEF Open
<1> QED BY <1>1, <1>2, <1>3

(* A scan that finds no header where it starts or behind indexes nothing.  *)
LEMMA ScanNothing ==
  ASSUME NEW d \in Seq(Cell), NEW first \in Nat, NEW tp,
         \A p \in Nat : p >= first => ~ParsesAt(d, p)
  PROVE  ScanIndex(d, first, tp, FALSE).spans = << >>
<1>1. PICK no \in BOOLEAN : no = FALSE
  OBVIOUS
<1>2. PICK g : IsWalk(g, d, first, tp, no) /\ ScanIndex(d, first, tp, no) = g[Len(d)].index
  BY ScanIs
<1>3. Len(d) \in Nat
  OBVIOUS
<1> DEFINE S == {n \in Nat : n <= Len(d) =>
                   g[n].index.spans = << >> /\ (g[n].at = -1 \/ g[n].at = first)}
<1>4. 0 \in S
  <2>1. g[0] = Walk(first, Index(<< >>))
    BY <1>2 DEF IsWalk
  <2> QED BY <2>1 DEF Walk, Index
<1>5. ASSUME NEW n \in Nat, n \in S PROVE n + 1 \in S
  <2> SUFFICES ASSUME n + 1 <= Len(d)
               PROVE  g[n + 1].index.spans = << >> /\ (g[n + 1].at = -1 \/ g[n + 1].at = first)
    OBVIOUS
  <2>1. n \in 0..Len(d) - 1 /\ n \in 0..Len(d) /\ n <= Len(d)
    BY <1>3
  <2>2. PICK w, v : w = g[n] /\ v = g[n + 1]
    OBVIOUS
  <2>3. Standing(w) /\ v = Turn(d, tp, no, w)
    BY <1>2, <2>1, <2>2 DEF IsWalk
  <2>4. w.index.spans = << >> /\ (w.at = -1 \/ w.at = first)
    BY <1>5, <2>1, <2>2
  <2>5. CASE Ended(d, w)
    <3>1. v = w
      BY <2>3, <2>5, TurnType
    <3> QED BY <2>2, <2>4, <3>1
  <2>6. CASE ~Ended(d, w)
    <3>1. w.at \in Nat /\ (~ParsesAt(d, w.at) /\ no = FALSE => v = Walk(-1, Failed))
      BY <2>3, <2>6, NextWalk
    <3>2. w.at = first
      BY <2>4, <3>1
    <3>3. ~ParsesAt(d, w.at)
      BY <3>1, <3>2
    <3>4. v = Walk(-1, Failed)
      BY <1>1, <3>1, <3>3
    <3>5. v.at = -1 /\ v.index.spans = << >>
      BY <3>4 DEF Walk, Failed
    <3> QED BY <2>2, <3>5
  <2> QED BY <2>5, <2>6
<1>6. Nat \subseteq S
  <2> HIDE DEF S
  <2> QED BY <1>4, <1>5, Induction
<1>7. g[Len(d)].index.spans = << >>
  BY <1>3, <1>6
<1>8. no = FALSE
  BY <1>1
<1>9. ScanIndex(d, first, tp, no).spans = << >>
  BY <1>2, <1>7
<1> QED BY <1>8, <1>9, Zenon

(***************************************************************************)
(* Undamaged, there is an offset e up to which records lie in the stream,  *)
(* one for each row; behind it are trailers only.  While events are taken  *)
(* e is the end of the stream; once the trailer has been handed over it    *)
(* lies whole at trailer_pos; once trailer_position has been patched the   *)
(* header names it.                                                        *)
(***************************************************************************)
Trailed == {"flush", "patch_pos", "patch_bit", "seek_end", "closed"}

(* The records end at e.                                                   *)
Kept(e) ==
  /\ Laid(Stream, index_entries, e)
  /\ pc = "open" \/ builder.evs # << >> => e = Len(Stream) /\ FirstData <= e
  /\ pc \in Trailed => /\ cursor = Len(Stream) /\ e <= trailer_pos
                       /\ Holds(Stream, trailer_pos, TrailerRecord(index_entries))
  /\ pc \in Trailed \ {"flush"} => file.buf = << >>
  /\ pc \in Trailed \ {"flush", "patch_pos"} =>
       Stream[FH_TRAILER_POS + 1].of.word = trailer_pos

(* Undamaged and with its file open, the writer keeps such an offset.      *)
Whole == ~damaged /\ pc \notin {"new", "gone"} => \E e \in Nat : Kept(e)

(* The inductive invariant of what is read back.                           *)
RInv == IInv /\ Whole /\ (finished => pc = "closed")

(* What was told of the first records is a prefix of all that is told.     *)
LEMMA ToldPrefix ==
  ASSUME NEW s \in Seq(Cell), NEW rows \in Seq(IndexEntry),
         \A i \in 1..Len(rows) : RowMatches(rows[i], s), NEW k \in 0..Len(rows)
  PROVE  /\ Told(s, rows)[k] \in Seq(Event) /\ Told(s, rows)[Len(rows)] \in Seq(Event)
         /\ Extends(Told(s, rows)[k], Told(s, rows)[Len(rows)])
         /\ IsPrefix(Told(s, rows)[k], Told(s, rows)[Len(rows)])
<1>1. PICK N, T : N = Len(rows) /\ T = Told(s, rows)
  OBVIOUS
<1>2. /\ N \in Nat /\ T \in [0..N -> Seq(Event)]
      /\ \A j \in 0..N - 1 : Follow(T[j], s[rows[j + 1].position + 1].of.evs, T[j + 1])
  BY <1>1, ToldSteps
<1>3. ASSUME NEW j \in 0..N - 1 PROVE \E evs \in Seq(Event) : Follow(T[j], evs, T[j + 1])
  <2>1. PICK row : row = rows[j + 1]
    OBVIOUS
  <2>2. j + 1 \in 1..N
    BY <1>2
  <2>3. row \in IndexEntry /\ RowMatches(row, s)
    BY <1>1, <2>1, <2>2
  <2>4. s[row.position + 1].of.evs \in Seq(Event)
    BY <2>3, RowRecord
  <2> QED BY <1>2, <2>1, <2>4
<1>4. \A j, m \in 0..N : j <= m => Extends(T[j], T[m])
  BY <1>2, <1>3, ToldGrows
<1>5. k \in 0..N /\ N \in 0..N /\ k <= N
  BY <1>1, <1>2
<1>6. T[k] \in Seq(Event) /\ T[N] \in Seq(Event) /\ Extends(T[k], T[N])
  BY <1>2, <1>4, <1>5
<1>7. IsPrefix(T[k], T[N])
  BY <1>6, BeginsPrefix
<1> QED BY <1>1, <1>6, <1>7

(* What is stored is what the rows tell.                                   *)
LEMMA StoredIs ==
  ASSUME TInv, \A i \in 1..Len(index_entries) : RowMatches(index_entries[i], Stream)
  PROVE  /\ Stream \in Seq(Cell) /\ index_entries \in Seq(IndexEntry)
         /\ Stored = Told(Stream, index_entries)[Len(index_entries)]
         /\ Stored = ReadOf(Stream, SpansOf(index_entries))
         /\ Stored \in Seq(Event)
<1>1. Stream \in Seq(Cell) /\ index_entries \in Seq(IndexEntry)
  BY DiskBegins DEF TInv, TypeOK
<1> QED BY <1>1, AllTold DEF Stored

(* The disk is a cut of the stream, with its header and without.           *)
LEMMA DiskCuts ==
  ASSUME TInv, NEW e \in Nat, Laid(Stream, index_entries, e)
  PROVE  /\ file.disk \in Seq(Cell) /\ Len(file.disk) \in Nat /\ Len(file.disk) <= Len(Stream)
         /\ \A i \in 1..Len(file.disk) : file.disk[i] = Stream[i]
         /\ Cut(file.disk, Stream) /\ Cut(NoHead(file.disk), Stream)
         /\ Len(NoHead(file.disk)) = Len(file.disk)
         /\ \A i \in FileHeaderSize + 1..Len(file.disk) : file.disk[i] = NoHead(file.disk)[i]
<1>1. /\ file.disk \in Seq(Cell) /\ Stream \in Seq(Cell) /\ Len(file.disk) <= Len(Stream)
      /\ \A i \in 1..Len(file.disk) : file.disk[i] = Stream[i]
  BY DiskBegins DEF Extends
<1>2. index_entries \in Seq(IndexEntry)
  BY DEF TInv, TypeOK
<1>3. PICK d, s, rows : d = file.disk /\ s = Stream /\ rows = index_entries
  OBVIOUS
<1>4. /\ d \in Seq(Cell) /\ s \in Seq(Cell) /\ rows \in Seq(IndexEntry) /\ Laid(s, rows, e)
      /\ Len(d) <= Len(s) /\ \A i \in 1..Len(d) : d[i] = s[i]
  BY <1>1, <1>2, <1>3
<1>5. Cut(d, s) /\ Cut(NoHead(d), s) /\ Len(NoHead(d)) = Len(d)
      /\ \A i \in FileHeaderSize + 1..Len(d) : d[i] = NoHead(d)[i]
  BY <1>4, Cuts
<1>6. Len(d) \in Nat
  BY <1>4
<1> QED BY <1>1, <1>3, <1>5, <1>6

(* The header read from a disk that has one: what the stream says.         *)
LEMMA HeaderRead ==
  ASSUME NEW s, NEW rows, NEW e, Laid(s, rows, e), NEW d \in Seq(Cell), Len(d) <= Len(s),
         \A i \in 1..Len(d) : d[i] = s[i]
  PROVE  /\ HeaderParses(d) <=> Len(d) >= FileHeaderSize
         /\ HeaderParses(d) => HeaderTrailerPos(d) = s[FH_TRAILER_POS + 1].of.word
<1>1. s[1].of.kind = "front" /\ s[2].of.kind = "trailer_pos"
  BY DEF Laid
<1>2. CASE Len(d) >= FileHeaderSize
  <2>1. d[1] = s[1] /\ d[2] = s[2]
    <3>1. 1 \in 1..Len(d) /\ 2 \in 1..Len(d)
      BY <1>2 DEF FileHeaderSize
    <3> QED BY <3>1
  <2>2. HeaderParses(d)
    BY <1>1, <1>2, <2>1 DEF HeaderParses
  <2>3. HeaderTrailerPos(d) = s[2].of.word
    BY <1>1, <2>1 DEF HeaderTrailerPos, FH_TRAILER_POS
  <2> QED BY <1>2, <2>2, <2>3 DEF FH_TRAILER_POS
<1>3. CASE ~(Len(d) >= FileHeaderSize)
  BY <1>3 DEF HeaderParses
<1> QED BY <1>2, <1>3

(* While the writer lives, what a normal open finds on disk is a prefix of *)
(* what is stored.                                                         *)
LEMMA OpenPrefix == RInv => OpenReadsAPrefix
<1> SUFFICES ASSUME RInv, ~damaged, pc \notin Done
             PROVE  IsPrefix(DataOf(file.disk, Open(file.disk)), Stored)
  BY DEF OpenReadsAPrefix
<1>1. TInv /\ Books /\ Healthy
  BY DEF RInv, IInv
<1>2. \A i \in 1..Len(index_entries) : RowMatches(index_entries[i], Stream)
  BY <1>1 DEF Healthy
<1>3. PICK d, s, rows : d = file.disk /\ s = Stream /\ rows = index_entries
  OBVIOUS
<1>4. /\ Stored = Told(s, rows)[Len(rows)] /\ Stored \in Seq(Event)
      /\ s \in Seq(Cell) /\ rows \in Seq(IndexEntry) /\ d \in Seq(Cell)
      /\ \A i \in 1..Len(rows) : RowMatches(rows[i], s)
  BY <1>1, <1>2, <1>3, StoredIs, DiskBegins
<1>5. ASSUME Open(d) = Failed PROVE IsPrefix(DataOf(d, Open(d)), Stored)
  <2>1. << >> \in Seq(RecordSpan) /\ Failed.spans = << >>
    BY DEF Failed
  <2>2. DataOf(d, Failed) = << >>
    BY <2>1, EventsOfIs, ReadNone
  <2>3. << >> \in Seq(Event) /\ Extends(<< >>, Stored)
    BY <1>4 DEF Extends
  <2> QED BY <1>4, <1>5, <2>2, <2>3, BeginsPrefix
<1>6. CASE pc = "new"
  <2>1. d = << >>
    BY <1>1, <1>3, <1>6 DEF Books
  <2>2. ~HeaderParses(d)
    BY <2>1 DEF HeaderParses, FileHeaderSize
  <2> QED BY <1>3, <1>5, <2>2, OpenIs
<1>7. CASE pc # "new"
  <2>1. PICK e \in Nat : Kept(e)
    BY <1>7 DEF RInv, Whole, Done
  <2>2. Laid(s, rows, e)
    BY <1>3, <2>1 DEF Kept
  <2>3. /\ Len(d) \in Nat /\ Len(d) <= Len(s) /\ \A i \in 1..Len(d) : d[i] = s[i]
        /\ Cut(d, s)
    BY <1>1, <1>3, <2>2, DiskCuts
  <2>4. PICK tp : tp = HeaderTrailerPos(d)
    OBVIOUS
  <2>5. CASE ~HeaderParses(d)
    BY <1>3, <1>5, <2>5, OpenIs
  <2>6. CASE HeaderParses(d) /\ tp = 0
    <3>1. PICK N, P, T : N = Len(rows) /\ P = Pos(rows, e) /\ T = Told(s, rows)
      OBVIOUS
    <3>2. Tape(d, N, P, T) /\ N \in Nat /\ P \in [0..N -> Nat]
      BY <1>4, <2>2, <2>3, <3>1, LaidTape, PosSteps
    <3>3. /\ P[0] = FirstData \/ (N = 0 /\ P[N] = FileHeaderSize)
          /\ FirstData \in Nat /\ FirstData > FileHeaderSize
      BY <1>4, <2>2, <3>1, LaidPlaces
    <3>4. \A k \in 0..N - 1 : P[k] # 0
      <4>1. \A k \in 0..N - 1 : P[k] = rows[k + 1].position
        <5>1. s \in Seq(Cell) /\ rows \in Seq(IndexEntry)
          BY <1>4
        <5>2. \A k \in 0..Len(rows) - 1 : Pos(rows, e)[k] = rows[k + 1].position
          BY <2>2, <5>1, PosSteps
        <5> QED BY <3>1, <5>2
      <4>2. ASSUME NEW k \in 0..N - 1 PROVE rows[k + 1].position # 0
        <5>1. PICK row : row = rows[k + 1]
          OBVIOUS
        <5>2. k + 1 \in 1..N
          BY <3>2
        <5>3. row \in IndexEntry /\ RowMatches(row, s)
          BY <1>4, <3>1, <5>1, <5>2
        <5>4. row.position \in Nat /\ row.position >= FirstData
          <6>1. s \in Seq(Cell)
            BY <1>4
          <6> QED BY <5>3, <6>1, RowRecord
        <5> QED BY <3>3, <5>1, <5>4 DEF FileHeaderSize
      <4> QED BY <4>1, <4>2
    <3>5. FirstData >= P[N] \/ FirstData = P[0] \/ FirstData = FileHeaderSize
      BY <3>3 DEF FileHeaderSize
    <3>6. PICK i : i = ScanIndex(d, FirstData, 0, FALSE)
      OBVIOUS
    <3>7. PICK k \in 0..N : DataIn(d, i.spans) = T[k] /\ i.spans \in Seq(RecordSpan)
      <4>1. PICK no \in BOOLEAN : no = FALSE
        OBVIOUS
      <4>2. LET j == ScanIndex(d, FirstData, 0, no)
            IN  /\ j.spans \in Seq(RecordSpan)
                /\ \E k \in 0..N : (k = 0 \/ P[k] <= Len(d)) /\ DataIn(d, j.spans) = T[k]
        BY <3>2, <3>3, <3>4, <3>5, ScanSees
      <4>3. i = ScanIndex(d, FirstData, 0, no)
        BY <3>6, <4>1, Zenon
      <4> QED BY <4>2, <4>3
    <3>8. Open(d) = i
      BY <2>4, <2>6, <3>6, OpenIs
    <3>9. DataOf(d, i) = T[k]
      BY <3>7, EventsOfIs
    <3>10. IsPrefix(T[k], Stored)
      BY <1>4, <3>1, ToldPrefix
    <3> QED BY <1>3, <3>8, <3>9, <3>10
  <2>7. CASE HeaderParses(d) /\ tp # 0
    <3>1. tp = s[FH_TRAILER_POS + 1].of.word /\ Len(d) >= FileHeaderSize
      BY <1>4, <2>2, <2>3, <2>4, <2>7, HeaderRead
    <3>2. pc \in Patching
      <4> SUFFICES ASSUME pc \notin Patching PROVE FALSE
        OBVIOUS
      <4>1. NamesNothing(s)
        BY <1>1, <1>3 DEF Healthy
      <4>2. s[FH_TRAILER_POS + 1].of.word = 0
        BY <2>3, <3>1, <4>1 DEF NamesNothing, Laid, FileHeaderSize
      <4> QED BY <2>7, <3>1, <4>2
    <3>3. /\ tp = trailer_pos /\ e <= tp /\ file.buf = << >>
          /\ Holds(s, tp, TrailerRecord(rows))
      BY <1>3, <2>1, <3>1, <3>2 DEF Kept, Patching, Trailed
    <3>4. tp \in Nat
      <4>1. tp \in Int
        <5>1. Length(TrailerRecord(index_entries)) \in Int /\ cursor \in Int
          BY <1>1, ContentTypes, CellsType DEF TInv, TypeOK
        <5> QED BY <3>3, <5>1 DEF trailer_pos
      <4> QED BY <3>3, <4>1
    <3>5. d = s
      <4>1. s = d \o << >>
        BY <1>3, <3>3 DEF Stream
      <4> QED BY <1>4, <4>1
    <3>6. TrailerIndex(d, FirstData, tp) = IndexRows(rows)
      BY <1>4, <2>2, <3>3, <3>4, <3>5, TrailerReads
    <3>7. TrailerIndex(d, FirstData, tp).ok = TRUE
      BY <3>6 DEF IndexRows, Index
    <3>8. Open(d) = IndexRows(rows)
      BY <2>4, <2>7, <3>6, <3>7, OpenIs
    <3>9. IndexRows(rows) = Index(SpansOf(rows)) /\ SpansOf(rows) \in Seq(RecordSpan)
      BY <1>4, SpansType
    <3>10. DataOf(d, Index(SpansOf(rows))) = DataIn(d, SpansOf(rows))
      <4>1. Index(SpansOf(rows)).spans = SpansOf(rows)
        BY DEF Index
      <4> QED BY <3>9, <4>1, EventsOfIs
    <3>11. DataIn(d, SpansOf(rows)) = Stored
      BY <1>4, <3>5, AllTold
    <3>12. IsPrefix(Stored, Stored)
      <4>1. Extends(Stored, Stored)
        BY <1>4 DEF Extends
      <4> QED BY <1>4, <4>1, BeginsPrefix
    <3> QED BY <1>3, <3>8, <3>9, <3>10, <3>11, <3>12
  <2> QED BY <1>3, <2>5, <2>6, <2>7
<1> QED BY <1>6, <1>7

(* What finish leaves: the whole stream on disk, and a header that names   *)
(* the trailer behind the records.                                         *)
LEMMA FinishedFile ==
  ASSUME RInv, finished, ~damaged
  PROVE  \E e, tp \in Nat :
           /\ file.disk \in Seq(Cell) /\ index_entries \in Seq(IndexEntry)
           /\ Laid(file.disk, index_entries, e)
           /\ e <= tp /\ Holds(file.disk, tp, TrailerRecord(index_entries))
           /\ HeaderParses(file.disk) /\ HeaderTrailerPos(file.disk) = tp
           /\ tp # 0
<1>1. TInv /\ pc = "closed"
  BY DEF RInv, IInv
<1>2. PICK e \in Nat : Kept(e)
  BY <1>1 DEF RInv, Whole
<1>3. PICK d, rows : d = file.disk /\ rows = index_entries
  OBVIOUS
<1>4. d \in Seq(Cell) /\ rows \in Seq(IndexEntry)
  BY <1>1, <1>3 DEF TInv, TypeOK
<1>5. file.buf = << >>
  BY <1>1, <1>2 DEF Kept, Trailed
<1>6. Stream = d
  BY <1>3, <1>4, <1>5 DEF Stream
<1>7. Laid(d, rows, e)
  BY <1>2, <1>3, <1>6 DEF Kept
<1>8. /\ e <= trailer_pos /\ Holds(d, trailer_pos, TrailerRecord(rows))
      /\ d[FH_TRAILER_POS + 1].of.word = trailer_pos
  BY <1>1, <1>2, <1>3, <1>6 DEF Kept, Trailed
<1>9. PICK tp : tp = trailer_pos
  OBVIOUS
<1>10. tp \in Nat
  <2>1. Length(TrailerRecord(index_entries)) \in Int /\ cursor \in Int
    BY <1>1, ContentTypes, CellsType DEF TInv, TypeOK
  <2>2. tp \in Int
    BY <1>9, <2>1 DEF trailer_pos
  <2> QED BY <1>8, <1>9, <2>2
<1>11. Len(d) >= FileHeaderSize
  BY <1>7 DEF Laid
<1>12. HeaderParses(d) /\ HeaderTrailerPos(d) = tp
  BY <1>4, <1>7, <1>8, <1>9, <1>11, HeaderRead
<1>13. tp # 0
  <2>1. e >= FileHeaderSize
    BY <1>4, <1>7, LaidPlaces
  <2> QED BY <1>8, <1>9, <1>10, <2>1 DEF FileHeaderSize
<1> QED BY <1>3, <1>4, <1>7, <1>8, <1>9, <1>10, <1>12, <1>13

(* Opened by its trailer, the finished file yields what was stored.        *)
LEMMA FinishedOpens ==
  ASSUME RInv, finished, ~damaged
  PROVE  Open(file.disk).ok /\ EventsOf(file.disk, Open(file.disk)) = Stored
<1>1. PICK d, rows : d = file.disk /\ rows = index_entries
  OBVIOUS
<1>2. PICK e, tp \in Nat :
        /\ d \in Seq(Cell) /\ rows \in Seq(IndexEntry) /\ Laid(d, rows, e)
        /\ e <= tp /\ Holds(d, tp, TrailerRecord(rows))
        /\ HeaderParses(d) /\ HeaderTrailerPos(d) = tp /\ tp # 0
  BY <1>1, FinishedFile
<1>3. TrailerIndex(d, FirstData, tp) = IndexRows(rows)
  BY <1>2, TrailerReads
<1>4. IndexRows(rows).ok = TRUE
  BY DEF IndexRows, Index
<1>5. Open(d) = IndexRows(rows)
  BY <1>2, <1>3, <1>4, OpenIs
<1>6. Stream = d
  <2>1. TInv /\ pc = "closed"
    BY DEF RInv, IInv
  <2>2. file.buf = << >>
    BY <2>1 DEF RInv, Whole, Kept, Trailed
  <2> QED BY <1>1, <1>2, <2>2 DEF Stream
<1>7. EventsOf(d, IndexRows(rows)) = Stored
  BY <1>1, <1>6 DEF Stored
<1> QED BY <1>1, <1>4, <1>5, <1>7

(* So it does read by a scan that knows where the trailer is, and by       *)
(* salvage, when it holds no second trailer.                               *)
LEMMA FinishedScanned ==
  ASSUME RInv, finished, ~damaged, OneTrailer
  PROVE  LET d == file.disk
         IN  /\ EventsOf(d, ScanIndex(d, FirstData, HeaderTrailerPos(d), FALSE)) = Stored
             /\ HasSchemas \/ DictEvents = 0 => Salvage(d).ok /\ Recovered = Stored
<1>1. PICK d, rows : d = file.disk /\ rows = index_entries
  OBVIOUS
<1>2. PICK e, tp \in Nat :
        /\ d \in Seq(Cell) /\ rows \in Seq(IndexEntry) /\ Laid(d, rows, e)
        /\ e <= tp /\ Holds(d, tp, TrailerRecord(rows))
        /\ HeaderParses(d) /\ HeaderTrailerPos(d) = tp /\ tp # 0
  BY <1>1, FinishedFile
<1>3. PICK N, P, T : N = Len(rows) /\ P = Pos(rows, e) /\ T = Told(d, rows)
  OBVIOUS
<1>4. Len(d) \in Nat
  BY <1>2
<1>5. Cut(d, d)
  <2>1. Len(d) <= Len(d) /\ \A i \in 1..Len(d) : d[i] = d[i]
    BY <1>4
  <2> QED BY <1>2, <2>1, Cuts
<1>6. Tape(d, N, P, T)
  BY <1>2, <1>3, <1>5, LaidTape
<1>7. Sole(d)
  BY <1>1, <1>2, SoleIs DEF OneTrailer
<1>8. Trailing(d, e)
  BY <1>2, <1>4, <1>5, <1>7, LaidTrailing
<1>9. N \in Nat /\ P \in [0..N -> Nat] /\ P[N] = e
  BY <1>2, <1>3, PosSteps
<1>10. e <= Len(d)
  BY <1>2 DEF Laid
<1>11. /\ d[tp + 1] = [of |-> TrailerRecord(rows), at |-> 0] /\ tp < Len(d)
       /\ FitsAt(d, tp)
  BY <1>2, TrailerReads
<1>12. e = tp
  <2>1. e < Len(d)
    BY <1>2, <1>4, <1>11
  <2>2. ParsesAt(d, tp)
    BY <1>11 DEF FitsAt
  <2>3. ~(tp > e)
    BY <1>8, <2>2 DEF Trailing
  <2> QED BY <1>2, <2>3
<1>13. T[N] = Stored
  <2>1. TInv /\ pc = "closed"
    BY DEF RInv, IInv
  <2>2. file.buf = << >>
    BY <2>1 DEF RInv, Whole, Kept, Trailed
  <2>3. Stream = d
    BY <1>1, <1>2, <2>2 DEF Stream
  <2>4. \A i \in 1..Len(rows) : RowMatches(rows[i], d)
    BY <1>2 DEF Laid
  <2> QED BY <1>1, <1>2, <1>3, <2>1, <2>3, <2>4, StoredIs
<1>14. ASSUME NEW k, FirstWhole(d, N, P, k) PROVE k = N
  <2>1. FirstWhole(d, N, P, N)
    BY <1>9, <1>10 DEF FirstWhole
  <2>2. \A i, j \in 0..N : i < j => P[i] < P[j]
    BY <1>6 DEF Tape
  <2> QED BY <1>4, <1>9, <1>14, <2>1, <2>2, WholeUnique
<1>15. EventsOf(d, ScanIndex(d, FirstData, tp, FALSE)) = Stored
  <2>1. /\ P[0] = FirstData \/ (P[0] = FileHeaderSize /\ N = 0 /\ e = FileHeaderSize)
        /\ FirstData \in Nat /\ FirstData > FileHeaderSize
    BY <1>2, <1>3, LaidPlaces
  <2>2. PICK no \in BOOLEAN : no = FALSE
    OBVIOUS
  <2>3. PICK i : i = ScanIndex(d, FirstData, tp, no)
    OBVIOUS
  <2>4. i = ScanIndex(d, FirstData, tp, FALSE)
    BY <2>2, <2>3, Zenon
  <2>5. CASE P[0] = FirstData
    <3>1. Exact(d, N, P, tp, no)
      BY <1>9, <1>10, <1>12, <2>2 DEF Exact
    <3>2. LET spans == ScanIndex(d, FirstData, tp, no).spans
          IN  /\ spans \in Seq(RecordSpan)
              /\ \E k \in 0..N :
                   /\ FirstWhole(d, N, P, k)
                   /\ \/ ReadOf(d, spans) = T[k] /\ NoIndexLast(d, spans)
                      \/ /\ tp = 0 /\ k = N /\ ~NoIndexLast(d, spans)
                         /\ ReadOf(d, SubSeq(spans, 1, Len(spans) - 1)) = T[N]
      BY <1>6, <1>8, <1>9, <2>1, <2>5, <3>1, ScanReads
    <3>3. i.spans \in Seq(RecordSpan) /\ \E k \in 0..N : FirstWhole(d, N, P, k) /\ ReadOf(d, i.spans) = T[k]
      BY <1>2, <2>3, <3>2
    <3>4. ReadOf(d, i.spans) = T[N]
      BY <1>14, <3>3
    <3>5. EventsOf(d, i) = T[N]
      BY <3>3, <3>4, EventsOfIs
    <3> QED BY <1>13, <2>4, <3>5
  <2>6. CASE N = 0 /\ e = FileHeaderSize
    <3>1. \A p \in Nat : p >= FirstData => ~ParsesAt(d, p)
      BY <1>8, <2>1, <2>6 DEF Trailing, FileHeaderSize
    <3>2. i.spans = << >>
      BY <1>2, <2>1, <2>4, <3>1, ScanNothing
    <3>3. EventsOf(d, i) = << >>
      <4>1. << >> \in Seq(RecordSpan)
        OBVIOUS
      <4> QED BY <3>2, <4>1, EventsOfIs, ReadNone
    <3>4. T[0] = << >>
      BY <1>6 DEF Tape
    <3> QED BY <1>13, <2>4, <2>6, <3>3, <3>4
  <2> QED BY <2>1, <2>5, <2>6
<1>16. ASSUME HasSchemas \/ DictEvents = 0 PROVE Salvage(d).ok /\ EventsOf(d, Salvage(d)) = Stored
  <2>1. PICK i : i = Salvage(d)
    OBVIOUS
  <2>2. /\ i.spans \in Seq(RecordSpan)
        /\ \E k \in 0..N : FirstWhole(d, N, P, k) /\ ReadOf(d, i.spans) = T[k]
    BY <1>6, <1>8, <1>9, <1>16, <2>1, SalvageReads
  <2>3. tp \in Nat /\ tp >= FileHeaderSize
    <3>1. e >= FileHeaderSize
      BY <1>2, LaidPlaces
    <3> QED BY <1>12, <3>1
  <2>4. Salvage(d).ok
    BY <1>6, <1>8, <1>9, <1>11, <1>16, <2>3, SalvageReads
  <2>5. ReadOf(d, i.spans) = T[N]
    BY <1>14, <2>2
  <2>6. EventsOf(d, i) = T[N]
    BY <2>2, <2>5, EventsOfIs
  <2> QED BY <1>13, <2>1, <2>4, <2>6
<1> QED BY <1>1, <1>2, <1>15, <1>16 DEF Recovered

(* A finished file reads back whole, by its trailer and by a scan, if      *)
(* salvage knows the dictionary record for what it is.                     *)
LEMMA FinishedBack ==
  HasSchemas \/ DictEvents = 0 => (RInv => FinishedReadsBack)
BY FinishedOpens, FinishedScanned DEF FinishedReadsBack

(* Salvage of nothing finds nothing.                                       *)
LEMMA SalvageNothing ==
  /\ Salvage(<< >>) = Failed
  /\ EventsOf(<< >>, Failed) = << >> /\ DataOf(<< >>, Failed) = << >>
<1>1. PICK c : c = << >>
  OBVIOUS
<1>2. c \in Seq(Cell) /\ Len(c) = 0
  BY <1>1
<1>3. \A p \in Nat : ~FitsAt(c, p)
  BY <1>2 DEF FitsAt, ParsesAt, RecordHeaderSize
<1>4. ~HeaderParses(c)
  BY <1>2 DEF HeaderParses, FileHeaderSize
<1>5. FindFirstRecord(c, 0) = -1
  <2>1. PICK q, z : q = FindFirstRecord(c, z) /\ z = 0
    OBVIOUS
  <2>2. z \in Nat
    BY <2>1
  <2>3. q = -1 \/ (q \in Nat /\ FitsAt(c, q))
    BY <1>2, <2>1, <2>2, FirstIs
  <2> QED BY <1>3, <2>1, <2>3
<1>6. SalvageStart(c) = -1
  BY <1>4, <1>5 DEF SalvageStart
<1>7. Salvage(c) = Failed
  BY <1>2, <1>6, SalvageIs
<1>8. << >> \in Seq(RecordSpan) /\ Failed.spans = << >>
  BY DEF Failed
<1>9. EventsOf(c, Failed) = << >> /\ DataOf(c, Failed) = << >>
  BY <1>8, EventsOfIs, ReadNone
<1> QED BY <1>1, <1>7, <1>9

(* Salvage of any file the writer leaves finds the whole records of it,    *)
(* under the same condition.                                               *)
LEMMA SalvageWhole ==
  HasSchemas \/ DictEvents = 0 => (RInv => SalvageFindsWholeRecords)
<1> SUFFICES ASSUME HasSchemas \/ DictEvents = 0, RInv, ~damaged, pc \notin Done, OneTrailer
             PROVE  /\ DataOf(file.disk, IndexRows(index_entries)) = Recovered
                    /\ EventsOf(file.disk, Salvage(NoHead(file.disk))) = Recovered
  BY DEF SalvageFindsWholeRecords, NoHead
<1>1. TInv /\ Books /\ Healthy
  BY DEF RInv, IInv
<1>2. PICK d, s, rows : d = file.disk /\ s = Stream /\ rows = index_entries
  OBVIOUS
<1>3. d \in Seq(Cell) /\ s \in Seq(Cell) /\ rows \in Seq(IndexEntry) /\ Len(d) \in Nat
  <2>1. d \in Seq(Cell) /\ s \in Seq(Cell) /\ rows \in Seq(IndexEntry)
    BY <1>1, <1>2, DiskBegins DEF TInv, TypeOK
  <2> QED BY <2>1
<1>4. CASE pc = "new"
  <2>1. d = << >> /\ rows = << >>
    BY <1>1, <1>2, <1>4 DEF Books
  <2>2. NoHead(d) = << >>
    BY <2>1 DEF NoHead
  <2>3. IndexRows(rows).spans = << >>
    <3>1. IndexRows(rows) = Index(SpansOf(rows)) /\ Len(SpansOf(rows)) = 0 /\ SpansOf(rows) \in Seq(RecordSpan)
      BY <1>3, <2>1, SpansType
    <3>2. SpansOf(rows) = << >>
      BY <3>1
    <3> QED BY <3>1, <3>2 DEF Index
  <2>4. DataOf(d, IndexRows(rows)) = << >>
    <3>1. << >> \in Seq(RecordSpan)
      OBVIOUS
    <3> QED BY <2>3, <3>1, EventsOfIs, ReadNone
  <2> QED BY <1>2, <2>1, <2>2, <2>4, SalvageNothing DEF Recovered
<1>5. CASE pc # "new"
  <2>1. PICK e \in Nat : Kept(e)
    BY <1>5 DEF RInv, Whole, Done
  <2>2. Laid(s, rows, e)
    BY <1>2, <2>1 DEF Kept
  <2>3. PICK c : c = NoHead(d)
    OBVIOUS
  <2>4. Cut(d, s) /\ Cut(c, s) /\ Len(c) = Len(d) /\ \A i \in FileHeaderSize + 1..Len(d) : d[i] = c[i]
    BY <1>1, <1>2, <2>2, <2>3, DiskCuts
  <2>5. PICK N, P, T : N = Len(rows) /\ P = Pos(rows, e) /\ T = Told(s, rows)
    OBVIOUS
  <2>6. Tape(d, N, P, T) /\ Tape(c, N, P, T)
    BY <1>3, <2>2, <2>4, <2>5, LaidTape
  <2>7. N \in Nat /\ P \in [0..N -> Nat] /\ P[N] = e
    BY <1>3, <2>2, <2>5, PosSteps
  <2>8. Sole(d)
    BY <1>2, <1>3, SoleIs DEF OneTrailer
  <2>9. Trailing(d, e)
    <3>1. \A i \in FileHeaderSize + 1..Len(d) : d[i] = d[i]
      OBVIOUS
    <3> QED BY <1>3, <2>2, <2>4, <2>8, LaidTrailing
  <2>10. Trailing(c, e)
    BY <1>3, <2>2, <2>4, <2>8, LaidTrailing
  <2>11. /\ Salvage(d).spans \in Seq(RecordSpan)
         /\ \E k \in 0..N : FirstWhole(d, N, P, k) /\ ReadOf(d, Salvage(d).spans) = T[k]
    BY <2>6, <2>7, <2>9, SalvageReads
  <2>12. /\ Salvage(c).spans \in Seq(RecordSpan)
         /\ \E k \in 0..N : FirstWhole(c, N, P, k) /\ ReadOf(d, Salvage(c).spans) = T[k]
    BY <2>4, <2>6, <2>7, <2>10, SalvageReads
  <2>13. PICK k \in 0..N : FirstWhole(d, N, P, k) /\ ReadOf(d, Salvage(d).spans) = T[k]
    BY <2>11
  <2>14. PICK j \in 0..N : FirstWhole(c, N, P, j) /\ ReadOf(d, Salvage(c).spans) = T[j]
    BY <2>12
  <2>15. j = k
    <3>1. \A i, m \in 0..N : i < m => P[i] < P[m]
      BY <2>6 DEF Tape
    <3> QED BY <1>3, <2>4, <2>7, <2>13, <2>14, <3>1, WholeUnique
  <2>16. EventsOf(d, Salvage(d)) = T[k] /\ EventsOf(d, Salvage(c)) = T[k]
    BY <2>11, <2>12, <2>13, <2>14, <2>15, EventsOfIs
  <2>17. DataOf(d, IndexRows(rows)) = T[k]
    <3>1. IndexRows(rows) = Index(SpansOf(rows)) /\ SpansOf(rows) \in Seq(RecordSpan)
      BY <1>3, SpansType
    <3>2. DataOf(d, IndexRows(rows)) = DataIn(d, SpansOf(rows))
      <4>1. Index(SpansOf(rows)).spans = SpansOf(rows)
        BY DEF Index
      <4> QED BY <3>1, <4>1, EventsOfIs
    <3>3. DataIn(d, SpansOf(rows)) = T[k]
      BY <1>3, <2>2, <2>4, <2>5, <2>13, CutData
    <3> QED BY <3>2, <3>3
  <2> QED BY <1>2, <2>3, <2>16, <2>17 DEF Recovered
<1> QED BY <1>4, <1>5

(* The cells of c behind the cells s.                                      *)
LEMMA AppendCells ==
  ASSUME NEW s \in Seq(Cell), NEW c \in Content
  PROVE  LET t == s \o Cells(c)
         IN  /\ t \in Seq(Cell) /\ Len(t) = Len(s) + Length(c) /\ Length(c) \in Nat \ {0}
             /\ \A i \in 1..Len(s) : t[i] = s[i]
             /\ \A i \in 1..Length(c) : t[Len(s) + i] = [of |-> c, at |-> i - 1]
             /\ Holds(t, Len(s), c)
<1>1. PICK new : new = Cells(c)
  OBVIOUS
<1>2. /\ Length(c) \in Nat \ {0} /\ new \in Seq(Cell) /\ Len(new) = Length(c)
      /\ \A i \in 1..Length(c) : new[i] = [of |-> c, at |-> i - 1]
  BY <1>1, CellsType
<1>3. /\ s \o new \in Seq(Cell) /\ Len(s \o new) = Len(s) + Len(new)
      /\ \A i \in 1..Len(s) : (s \o new)[i] = s[i]
      /\ \A j \in 1..Len(new) : (s \o new)[Len(s) + j] = new[j]
  <2>1. new \in Seq(Cell)
    BY <1>2
  <2> QED BY <2>1
<1>4. Holds(s \o Cells(c), Len(s), c)
  BY AppendedHolds
<1> QED BY <1>1, <1>2, <1>3, <1>4

(* A content held behind the header is held in whatever goes on the same.  *)
LEMMA HoldsKept ==
  ASSUME NEW s \in Seq(Cell), NEW t \in Seq(Cell), NEW p \in Nat, p >= FileHeaderSize,
         NEW c \in Content, Holds(s, p, c), Len(s) <= Len(t),
         \A i \in FileHeaderSize + 1..Len(s) : t[i] = s[i]
  PROVE  Holds(t, p, c)
<1>1. Length(c) \in Nat /\ Len(s) \in Nat /\ Len(t) \in Nat
  BY CellsType
<1>2. p + Length(c) <= Len(s) /\ \A i \in 1..Length(c) : s[p + i] = [of |-> c, at |-> i - 1]
  BY DEF Holds
<1>3. p + Length(c) <= Len(t)
  BY <1>1, <1>2
<1>4. ASSUME NEW i \in 1..Length(c) PROVE t[p + i] = [of |-> c, at |-> i - 1]
  <2>1. p + i \in FileHeaderSize + 1..Len(s)
    BY <1>1, <1>2 DEF FileHeaderSize
  <2> QED BY <1>2, <2>1
<1> QED BY <1>3, <1>4 DEF Holds

(* What create lays down: a header, and the dictionary behind it.          *)
LEMMA LaidHeader ==
  /\ FileHeader \in Seq(Cell) /\ Len(FileHeader) = FileHeaderSize
  /\ Laid(FileHeader, << >>, FileHeaderSize)
  /\ LET t == FileHeader \o Cells(DictRecord)
     IN  t \in Seq(Cell) /\ Len(t) = FirstData /\ Laid(t, << >>, FirstData)
<1>1. PICK a, b : a = HeaderFront(0) /\ b = TrailerPos(0)
  OBVIOUS
<1>2. /\ a \in Content /\ b \in Content /\ Length(a) = 1 /\ Length(b) = 1
      /\ a.kind = "front" /\ b.kind = "trailer_pos"
  <2>1. 0 \in Nat
    OBVIOUS
  <2>2. a \in Content /\ b \in Content
    BY <1>1, <2>1, ContentTypes
  <2> QED BY <1>1, <2>2 DEF HeaderFront, TrailerPos, Length, RecordHeaderSize
<1>3. PICK h : h = FileHeader
  OBVIOUS
<1>4. h \in Seq(Cell) /\ Len(h) = FileHeaderSize
  BY <1>3, FileHeaderShape
<1>5. h[1] = [of |-> a, at |-> 0] /\ h[2] = [of |-> b, at |-> 0]
  <2>1. PICK x : x = Cells(a)
    OBVIOUS
  <2>2. x \in Seq(Cell) /\ Len(x) = 1 /\ x[1] = [of |-> a, at |-> 0]
    <3>1. x \in Seq(Cell) /\ Len(x) = Length(a) /\ \A i \in 1..Length(a) : x[i] = [of |-> a, at |-> i - 1]
      BY <1>2, <2>1, CellsType
    <3>2. 1 \in 1..Length(a)
      BY <1>2
    <3>3. x[1] = [of |-> a, at |-> 1 - 1]
      BY <3>1, <3>2
    <3> QED BY <1>2, <3>1, <3>3
  <2>3. h = x \o Cells(b)
    BY <1>1, <1>3, <2>1 DEF FileHeader
  <2>4. /\ \A i \in 1..Len(x) : h[i] = x[i]
        /\ \A i \in 1..Length(b) : h[Len(x) + i] = [of |-> b, at |-> i - 1]
    BY <1>2, <2>2, <2>3, AppendCells
  <2>5. 1 \in 1..Len(x) /\ 1 \in 1..Length(b)
    BY <1>2, <2>2
  <2>6. h[1] = x[1] /\ h[Len(x) + 1] = [of |-> b, at |-> 1 - 1]
    BY <2>4, <2>5
  <2> QED BY <2>2, <2>6
<1>6. h[1].of.kind = "front" /\ h[2].of.kind = "trailer_pos"
  BY <1>2, <1>5
<1>7. Laid(h, << >>, FileHeaderSize)
  <2>1. Length(TrailerRecord(<< >>)) \in Nat
    <3>1. << >> \in Seq(IndexEntry)
      OBVIOUS
    <3>2. TrailerRecord(<< >>) \in Content
      BY <3>1, ContentTypes
    <3> QED BY <3>2, CellsType
  <2>2. Len(<< >>) = 0 /\ 1..0 = {} /\ 1..0 - 1 = {}
    OBVIOUS
  <2>3. FileHeaderSize + 1..Len(h) = {} /\ ~(Len(h) > FileHeaderSize)
    BY <1>4 DEF FileHeaderSize
  <2>4. ~(Len(h) > FileHeaderSize + Length(TrailerRecord(<< >>)))
    BY <1>4, <2>1 DEF FileHeaderSize
  <2>5. Len(h) >= FileHeaderSize /\ FileHeaderSize <= Len(h)
    BY <1>4 DEF FileHeaderSize
  <2> QED BY <1>6, <2>2, <2>3, <2>4, <2>5 DEF Laid
<1>8. PICK t : t = h \o Cells(DictRecord)
  OBVIOUS
<1>9. /\ t \in Seq(Cell) /\ Len(t) = Len(h) + Length(DictRecord) /\ Length(DictRecord) \in Nat \ {0}
      /\ \A i \in 1..Len(h) : t[i] = h[i]
      /\ Holds(t, Len(h), DictRecord)
  <2>1. DictRecord \in Content
    BY ContentTypes
  <2> QED BY <1>4, <1>8, <2>1, AppendCells
<1>10. Len(t) = FirstData
  BY <1>4, <1>9, FileAssumption
  DEF FirstData, Length, DictRecord, FileAssumption, RecordHeaderSize, FileHeaderSize
<1>11. Laid(t, << >>, FirstData)
  <2>1. Length(TrailerRecord(<< >>)) \in Nat
    <3>1. << >> \in Seq(IndexEntry)
      OBVIOUS
    <3>2. TrailerRecord(<< >>) \in Content
      BY <3>1, ContentTypes
    <3> QED BY <3>2, CellsType
  <2>2. Len(<< >>) = 0 /\ 1..0 = {} /\ 1..0 - 1 = {}
    OBVIOUS
  <2>3. Len(t) \in Nat
    BY <1>9
  <2>4. FirstData + 1..Len(t) = {} /\ ~(Len(t) > FirstData) /\ FirstData <= Len(t)
    BY <1>10, <2>3
  <2>5. ~(Len(t) > FirstData + Length(TrailerRecord(<< >>)))
    BY <1>10, <2>1, <2>3
  <2>6. Len(t) >= FileHeaderSize
    BY <1>4, <1>9 DEF FileHeaderSize
  <2>7. t[1].of.kind = "front" /\ t[2].of.kind = "trailer_pos"
    <3>1. 1 \in 1..Len(h) /\ 2 \in 1..Len(h)
      BY <1>4 DEF FileHeaderSize
    <3> QED BY <1>6, <1>9, <3>1
  <2>8. Holds(t, FileHeaderSize, DictRecord)
    BY <1>4, <1>9
  <2> QED BY <2>2, <2>4, <2>5, <2>6, <2>7, <2>8 DEF Laid
<1> QED BY <1>3, <1>4, <1>7, <1>8, <1>9, <1>10, <1>11

(* The rows once the record r has been written at p.                       *)
Listed(rows, p, r) ==
  Append(rows, [position |-> p, record_length |-> Length(r),
                event_count |-> EventCount(r), user_word |-> r.word])

(* A record appended where the records end, and its row.                   *)
LEMMA LaidRecord ==
  ASSUME NEW s \in Seq(Cell), NEW rows \in Seq(IndexEntry), NEW e \in Nat, Laid(s, rows, e),
         e = Len(s), FirstData <= e, NEW r \in Content, r.kind = "data",
         NEW more, more = Listed(rows, Len(s), r), NEW t, Follow(s, Cells(r), t)
  PROVE  /\ t \in Seq(Cell) /\ more \in Seq(IndexEntry) /\ Len(more) = Len(rows) + 1
         /\ Len(t) \in Nat /\ FirstData <= Len(t)
         /\ Laid(t, more, Len(t))
         /\ Follow(Told(s, rows)[Len(rows)], r.evs, Told(t, more)[Len(more)])
         /\ \A k \in 0..Len(rows) : Told(t, more)[k] = Told(s, rows)[k]
<1>1. PICK n, row : n = Len(rows)
        /\ row = [position |-> Len(s), record_length |-> Length(r),
                  event_count |-> EventCount(r), user_word |-> r.word]
  OBVIOUS
<1>2. /\ t \in Seq(Cell) /\ Len(t) = Len(s) + Length(r) /\ Length(r) \in Nat \ {0}
      /\ \A i \in 1..Len(s) : t[i] = s[i]
      /\ \A i \in 1..Length(r) : t[Len(s) + i] = [of |-> r, at |-> i - 1]
  BY AppendCells DEF Follow
<1>3. RowMatches(row, t)
  BY <1>1, NewRowMatches DEF Follow
<1>4. row \in IndexEntry /\ row.position = e /\ row.record_length = Length(r) /\ r.evs \in Seq(Event)
  <2>1. EventCount(r) \in Nat /\ r.word \in Nat /\ r.evs \in Seq(Event)
    BY DEF EventCount, Content
  <2> QED BY <1>1, <1>2, <2>1 DEF IndexEntry
<1>5. more = Append(rows, row)
  BY <1>1 DEF Listed
<1>6. /\ n \in Nat /\ more \in Seq(IndexEntry) /\ Len(more) = n + 1 /\ more[n + 1] = row
      /\ \A i \in 1..n : more[i] = rows[i]
  BY <1>1, <1>4, <1>5
<1>7. \A i \in 1..n : rows[i] \in IndexEntry /\ RowMatches(rows[i], s)
  BY <1>1 DEF Laid
<1>8. Len(s) <= Len(t) /\ \A i \in FileHeaderSize + 1..Len(s) : t[i] = s[i]
  BY <1>2 DEF FileHeaderSize
<1>9. \A i \in 1..n : RowMatches(rows[i], t)
  BY <1>2, <1>7, <1>8, RowSurvives
<1>10. \A i \in 1..Len(more) : RowMatches(more[i], t)
  <2> SUFFICES ASSUME NEW i \in 1..Len(more) PROVE RowMatches(more[i], t)
    OBVIOUS
  <2>1. i \in 1..n \/ i = n + 1
    BY <1>6
  <2> QED BY <1>3, <1>6, <1>9, <2>1
<1>11. rows # << >> => rows[1].position = FirstData /\ e = rows[n].position + rows[n].record_length
  <2>1. FileHeaderSize # e
    BY FileAssumption DEF FirstData, FileHeaderSize, RecordHeaderSize, FileAssumption
  <2> QED BY <1>1, <2>1 DEF Laid, EndOf
<1>12. /\ \A i \in 1..n - 1 : rows[i + 1].position = rows[i].position + rows[i].record_length
       /\ Holds(s, FileHeaderSize, DictRecord) /\ (rows = << >> => e = FirstData)
       /\ Len(s) >= FileHeaderSize /\ s[1].of.kind = "front" /\ s[2].of.kind = "trailer_pos"
  <2>1. FileHeaderSize # e
    BY FileAssumption DEF FirstData, FileHeaderSize, RecordHeaderSize, FileAssumption
  <2> QED BY <1>1, <2>1 DEF Laid
<1>13. \A i \in 1..Len(more) - 1 : more[i + 1].position = more[i].position + more[i].record_length
  <2> SUFFICES ASSUME NEW i \in 1..n
               PROVE  more[i + 1].position = more[i].position + more[i].record_length
    BY <1>6
  <2>1. CASE i = n
    <3>1. rows # << >> /\ n \in 1..n
      BY <1>1, <2>1
    <3>2. more[n + 1].position = e /\ more[n] = rows[n]
      BY <1>4, <1>6, <3>1
    <3> QED BY <1>11, <2>1, <3>1, <3>2
  <2>2. CASE i # n
    <3>1. i \in 1..n - 1 /\ i + 1 \in 1..n
      BY <1>6, <2>2
    <3> QED BY <1>6, <1>12, <3>1
  <2> QED BY <2>1, <2>2
<1>14. more # << >> /\ more[1].position = FirstData /\ Len(t) = EndOf(more)
  <2>1. more # << >>
    BY <1>6
  <2>2. Len(t) = EndOf(more)
    BY <1>2, <1>4, <1>6 DEF EndOf
  <2>3. CASE rows = << >>
    <3>1. n = 0
      BY <1>1, <2>3
    <3> QED BY <1>4, <1>6, <1>12, <2>1, <2>2, <2>3, <3>1
  <2>4. CASE rows # << >>
    <3>1. 1 \in 1..n
      BY <1>1, <1>6, <2>4
    <3> QED BY <1>6, <1>11, <2>1, <2>2, <2>4, <3>1
  <2> QED BY <2>3, <2>4
<1>15. Holds(t, FileHeaderSize, DictRecord)
  <2>1. DictRecord \in Content /\ FileHeaderSize \in Nat /\ FileHeaderSize >= FileHeaderSize
    BY ContentTypes DEF FileHeaderSize
  <2> QED BY <1>2, <1>8, <1>12, <2>1, HoldsKept
<1>16. t[1].of.kind = "front" /\ t[2].of.kind = "trailer_pos" /\ Len(t) >= FileHeaderSize
  <2>1. 1 \in 1..Len(s) /\ 2 \in 1..Len(s)
    BY <1>12 DEF FileHeaderSize
  <2>2. t[1] = s[1] /\ t[2] = s[2]
    BY <1>2, <2>1
  <2>3. Len(s) \in Nat
    OBVIOUS
  <2> QED BY <1>2, <1>12, <2>2, <2>3 DEF FileHeaderSize
<1>17. Len(t) \in Nat /\ FirstData <= Len(t) /\ FirstData \in Nat
  <2>1. FirstData \in Nat /\ Len(s) \in Nat
    BY FileAssumption DEF FirstData, FileHeaderSize, RecordHeaderSize, FileAssumption
  <2> QED BY <1>2, <2>1
<1>18. Laid(t, more, Len(t))
  <2>1. Len(t) + 1..Len(t) = {} /\ ~(Len(t) > Len(t)) /\ Len(t) <= Len(t)
    BY <1>17
  <2>2. ~(Len(t) > Len(t) + Length(TrailerRecord(more)))
    <3>1. TrailerRecord(more) \in Content
      BY <1>6, ContentTypes
    <3>2. Length(TrailerRecord(more)) \in Nat
      BY <3>1, CellsType
    <3> QED BY <1>17, <3>2
  <2> QED BY <1>10, <1>13, <1>14, <1>15, <1>16, <2>1, <2>2 DEF Laid
<1>19. PICK T, U : T = Told(s, rows) /\ U = Told(t, more)
  OBVIOUS
<1>20. /\ T \in [0..n -> Seq(Event)] /\ T[0] = << >>
       /\ \A k \in 0..n - 1 : Follow(T[k], s[rows[k + 1].position + 1].of.evs, T[k + 1])
  BY <1>1, <1>7, <1>19, ToldSteps
<1>21. /\ U[0] = << >>
       /\ \A k \in 0..n : Follow(U[k], t[more[k + 1].position + 1].of.evs, U[k + 1])
  <2>1. /\ Told(t, more)[0] = << >>
        /\ \A k \in 0..Len(more) - 1 :
             Follow(Told(t, more)[k], t[more[k + 1].position + 1].of.evs, Told(t, more)[k + 1])
    BY <1>2, <1>6, <1>10, ToldSteps
  <2>2. 0..Len(more) - 1 = 0..n
    BY <1>6
  <2> QED BY <1>19, <2>1, <2>2
<1> DEFINE S == {k \in Nat : k <= n => U[k] = T[k]}
<1>22. \A k \in 0..n : U[k] = T[k]
  <2>1. 0 \in S
    BY <1>20, <1>21
  <2>2. ASSUME NEW k \in Nat, k \in S PROVE k + 1 \in S
    <3> SUFFICES ASSUME k + 1 <= n PROVE U[k + 1] = T[k + 1]
      OBVIOUS
    <3>1. k \in 0..n - 1 /\ k \in 0..n /\ k + 1 \in 1..n /\ k <= n
      BY <1>6
    <3>2. PICK x : x = rows[k + 1]
      OBVIOUS
    <3>3. x \in IndexEntry /\ RowMatches(x, s) /\ more[k + 1] = x
      BY <1>6, <1>7, <3>1, <3>2
    <3>4. x.position \in Nat /\ x.position + 1 <= Len(s)
      BY <3>3, RowRecord
    <3>5. x.position + 1 \in 1..Len(s)
      BY <3>4
    <3>6. t[x.position + 1] = s[x.position + 1]
      BY <1>2, <3>5
    <3>7. PICK evs : evs = s[x.position + 1].of.evs
      OBVIOUS
    <3>8. Follow(T[k], evs, T[k + 1]) /\ Follow(U[k], evs, U[k + 1])
      BY <1>20, <1>21, <3>1, <3>2, <3>3, <3>6, <3>7
    <3>9. U[k] = T[k]
      BY <2>2, <3>1
    <3> QED BY <3>8, <3>9 DEF Follow
  <2>3. Nat \subseteq S
    <3> HIDE DEF S
    <3> QED BY <2>1, <2>2, Induction
  <2> QED BY <2>3
<1>23. Follow(T[n], r.evs, U[n + 1])
  <2>1. n \in 0..n
    BY <1>6
  <2>2. t[more[n + 1].position + 1].of = r
    <3>1. 1 \in 1..Length(r)
      BY <1>2
    <3>2. PICK p : p = Len(s)
      OBVIOUS
    <3>3. t[p + 1] = [of |-> r, at |-> 1 - 1]
      BY <1>2, <3>1, <3>2
    <3>4. t[p + 1].of = r
      BY <3>3
    <3>5. more[n + 1].position = p
      BY <1>4, <1>6, <3>2
    <3> QED BY <3>4, <3>5, Zenon
  <2>3. Follow(U[n], r.evs, U[n + 1])
    BY <1>21, <2>1, <2>2
  <2>4. U[n] = T[n]
    BY <1>22, <2>1
  <2> QED BY <2>3, <2>4
<1> QED BY <1>1, <1>2, <1>6, <1>17, <1>18, <1>19, <1>22, <1>23

(* A trailer appended: the records are as they were.                       *)
LEMMA LaidTrailer ==
  ASSUME NEW s \in Seq(Cell), NEW rows \in Seq(IndexEntry), NEW e \in Nat, Laid(s, rows, e),
         NEW t, t = s \o Cells(TrailerRecord(rows))
  PROVE  /\ t \in Seq(Cell) /\ Len(t) = Len(s) + Length(TrailerRecord(rows))
         /\ Length(TrailerRecord(rows)) \in Nat \ {0}
         /\ Laid(t, rows, e) /\ Holds(t, Len(s), TrailerRecord(rows))
         /\ e <= Len(s)
<1>1. PICK c : c = TrailerRecord(rows)
  OBVIOUS
<1>2. c \in Content
  BY <1>1, ContentTypes
<1>3. /\ t \in Seq(Cell) /\ Len(t) = Len(s) + Length(c) /\ Length(c) \in Nat \ {0}
      /\ \A i \in 1..Len(s) : t[i] = s[i]
      /\ \A i \in 1..Length(c) : t[Len(s) + i] = [of |-> c, at |-> i - 1]
      /\ Holds(t, Len(s), c)
  BY <1>1, <1>2, AppendCells
<1>4. Len(s) \in Nat /\ Len(s) <= Len(t) /\ \A i \in FileHeaderSize + 1..Len(s) : t[i] = s[i]
  <2>1. Len(s) \in Nat
    OBVIOUS
  <2> QED BY <1>3, <2>1 DEF FileHeaderSize
<1>5. /\ Len(s) >= FileHeaderSize /\ s[1].of.kind = "front" /\ s[2].of.kind = "trailer_pos"
      /\ e <= Len(s)
      /\ \A i \in e + 1..Len(s) : s[i].of = c
      /\ Len(s) > e => Holds(s, e, c)
      /\ Len(s) > e + Length(c) => s[e + Length(c) + 1].at = 0
  BY <1>1 DEF Laid
<1>6. e >= FileHeaderSize
  BY LaidPlaces
<1>7. \A i \in 1..Len(rows) : RowMatches(rows[i], t)
  <2>1. \A i \in 1..Len(rows) : rows[i] \in IndexEntry /\ RowMatches(rows[i], s)
    BY DEF Laid
  <2> QED BY <1>3, <1>4, <2>1, RowSurvives
<1>8. t[1].of.kind = "front" /\ t[2].of.kind = "trailer_pos" /\ Len(t) >= FileHeaderSize
  <2>1. 1 \in 1..Len(s) /\ 2 \in 1..Len(s)
    BY <1>4, <1>5 DEF FileHeaderSize
  <2>2. t[1] = s[1] /\ t[2] = s[2]
    BY <1>3, <2>1
  <2> QED BY <1>3, <1>4, <1>5, <2>2 DEF FileHeaderSize
<1>9. Holds(s, FileHeaderSize, DictRecord) => Holds(t, FileHeaderSize, DictRecord)
  <2>1. DictRecord \in Content /\ FileHeaderSize \in Nat /\ FileHeaderSize >= FileHeaderSize
    BY ContentTypes DEF FileHeaderSize
  <2> QED BY <1>3, <1>4, <2>1, HoldsKept
<1>10. \A i \in e + 1..Len(t) : t[i].of = c
  <2> SUFFICES ASSUME NEW i \in e + 1..Len(t) PROVE t[i].of = c
    OBVIOUS
  <2>1. CASE i <= Len(s)
    <3>1. i \in e + 1..Len(s) /\ i \in 1..Len(s)
      BY <1>4, <2>1
    <3> QED BY <1>3, <1>5, <3>1
  <2>2. CASE i > Len(s)
    <3>1. i - Len(s) \in 1..Length(c) /\ Len(s) + (i - Len(s)) = i
      BY <1>3, <1>4, <2>2
    <3>2. t[Len(s) + (i - Len(s))] = [of |-> c, at |-> (i - Len(s)) - 1]
      BY <1>3, <3>1
    <3> QED BY <3>1, <3>2
  <2> QED BY <1>4, <2>1, <2>2
<1>11. Holds(t, e, c)
  <2>1. CASE Len(s) > e
    BY <1>2, <1>3, <1>4, <1>5, <1>6, <2>1, HoldsKept
  <2>2. CASE Len(s) = e
    BY <1>3, <2>2
  <2> QED BY <1>4, <1>5, <2>1, <2>2
<1>12. Len(t) > e + Length(c) => t[e + Length(c) + 1].at = 0
  <2> SUFFICES ASSUME Len(t) > e + Length(c) PROVE t[e + Length(c) + 1].at = 0
    OBVIOUS
  <2>1. Len(s) > e
    BY <1>3, <1>4
  <2>2. e + Length(c) <= Len(s)
    BY <1>5, <2>1 DEF Holds
  <2>3. CASE Len(s) > e + Length(c)
    <3>1. e + Length(c) + 1 \in 1..Len(s)
      BY <1>3, <1>4, <2>3
    <3> QED BY <1>3, <1>5, <2>3, <3>1
  <2>4. CASE Len(s) = e + Length(c)
    <3>1. 1 \in 1..Length(c)
      BY <1>3
    <3>2. t[Len(s) + 1] = [of |-> c, at |-> 1 - 1]
      BY <1>3, <3>1
    <3>3. t[Len(s) + 1].at = 0
      BY <3>2
    <3> QED BY <2>4, <3>3
  <2> QED BY <1>3, <1>4, <2>2, <2>3, <2>4
<1>13. e <= Len(t)
  BY <1>3, <1>4, <1>5
<1>14. Laid(t, rows, e)
  BY <1>1, <1>7, <1>8, <1>9, <1>10, <1>11, <1>12, <1>13 DEF Laid
<1> QED BY <1>1, <1>3, <1>5, <1>14

(* Patching the header leaves what lies behind it.                         *)
LEMMA LaidPatched ==
  ASSUME NEW s \in Seq(Cell), NEW rows \in Seq(IndexEntry), NEW e \in Nat, Laid(s, rows, e),
         NEW t \in Seq(Cell), Len(t) = Len(s), \A i \in FileHeaderSize + 1..Len(s) : t[i] = s[i],
         t[1].of.kind = "front", t[2].of.kind = "trailer_pos"
  PROVE  Laid(t, rows, e)
<1>1. PICK c : c = TrailerRecord(rows)
  OBVIOUS
<1>2. c \in Content /\ Length(c) \in Nat \ {0}
  <2>1. c \in Content
    BY <1>1, ContentTypes
  <2> QED BY <2>1, CellsType
<1>3. Len(s) \in Nat /\ Len(s) <= Len(t)
  <2>1. Len(s) \in Nat
    OBVIOUS
  <2> QED BY <2>1
<1>4. /\ Len(s) >= FileHeaderSize
      /\ e <= Len(s)
      /\ \A i \in e + 1..Len(s) : s[i].of = c
      /\ Len(s) > e => Holds(s, e, c)
      /\ Len(s) > e + Length(c) => s[e + Length(c) + 1].at = 0
  BY <1>1 DEF Laid
<1>5. e >= FileHeaderSize
  BY LaidPlaces
<1>6. \A i \in 1..Len(rows) : RowMatches(rows[i], t)
  <2>1. \A i \in 1..Len(rows) : rows[i] \in IndexEntry /\ RowMatches(rows[i], s)
    BY DEF Laid
  <2> QED BY <1>3, <2>1, RowSurvives
<1>7. Holds(s, FileHeaderSize, DictRecord) => Holds(t, FileHeaderSize, DictRecord)
  <2>1. DictRecord \in Content /\ FileHeaderSize \in Nat /\ FileHeaderSize >= FileHeaderSize
    BY ContentTypes DEF FileHeaderSize
  <2> QED BY <1>3, <2>1, HoldsKept
<1>8. \A i \in e + 1..Len(t) : t[i].of = c
  <2> SUFFICES ASSUME NEW i \in e + 1..Len(t) PROVE t[i].of = c
    OBVIOUS
  <2>1. i \in FileHeaderSize + 1..Len(s) /\ i \in e + 1..Len(s)
    BY <1>3, <1>5 DEF FileHeaderSize
  <2> QED BY <1>4, <2>1
<1>9. Len(t) > e => Holds(t, e, c)
  BY <1>2, <1>3, <1>4, <1>5, HoldsKept
<1>10. Len(t) > e + Length(c) => t[e + Length(c) + 1].at = 0
  <2> SUFFICES ASSUME Len(s) > e + Length(c) PROVE t[e + Length(c) + 1].at = 0
    OBVIOUS
  <2>1. e + Length(c) + 1 \in FileHeaderSize + 1..Len(s)
    BY <1>2, <1>3, <1>5 DEF FileHeaderSize
  <2> QED BY <1>4, <2>1
<1>11. Len(t) >= FileHeaderSize /\ e <= Len(t)
  BY <1>4
<1> QED BY <1>1, <1>6, <1>7, <1>8, <1>9, <1>10, <1>11 DEF Laid

(***************************************************************************)
(* What the steps keep of this, and what they add to what is stored.       *)
(***************************************************************************)

(* A live, healthy writer between two operations.                          *)
LEMMA WholeFacts ==
  ASSUME RInv, ~damaged, pc \in Writing
  PROVE  /\ Stream \in Seq(Cell) /\ Len(Stream) \in Nat /\ cursor = Len(Stream)
         /\ index_entries \in Seq(IndexEntry)
         /\ \A i \in 1..Len(index_entries) : RowMatches(index_entries[i], Stream)
         /\ Stored = Told(Stream, index_entries)[Len(index_entries)]
         /\ Stored \in Seq(Event)
         /\ \E e \in Nat : Kept(e)
<1>1. TInv /\ Healthy
  BY DEF RInv, IInv
<1>2. /\ Stream \in Seq(Cell) /\ cursor = Len(Stream) /\ index_entries \in Seq(IndexEntry)
      /\ \A i \in 1..Len(index_entries) : RowMatches(index_entries[i], Stream)
  BY <1>1, HealthyFacts
<1>3. \E e \in Nat : Kept(e)
  BY DEF RInv, Whole, Writing
<1>4. Stored = Told(Stream, index_entries)[Len(index_entries)] /\ Stored \in Seq(Event)
  BY <1>1, <1>2, StoredIs
<1>5. Len(Stream) \in Nat
  BY <1>2
<1> QED BY <1>2, <1>3, <1>4, <1>5

(* Where the stream and the index stay, so does what is stored.            *)
LEMMA StoredKept ==
  ASSUME Stream' = Stream, index_entries' = index_entries
  PROVE  Stored' = Stored
BY DEF Stored

(* An operation that is refused.                                           *)
LEMMA WholeRefused ==
  ASSUME RInv, pc \in Writing, NEW new \in Seq(Cell), NEW o, Sound(file, new, o), Refused(o),
         pc' \in {"open", "flush_record", "drop_file"}, pc' = "open" => pc = "open", ~damaged'
  PROVE  Whole' /\ Stored' = Stored
<1>1. ~damaged /\ ~o.torn /\ o.res # "ok" /\ file' = o.file
      /\ UNCHANGED <<builder, index_entries, cursor>>
  BY DEF Refused
<1>2. Stream' = Stream
  <2>1. Aligned(file) /\ Stream = StreamOf(file)
    BY <1>1, HealthyFacts DEF RInv, IInv
  <2> QED BY <1>1, <2>1 DEF Sound, Stream, StreamOf
<1>3. PICK e \in Nat : Kept(e)
  BY <1>1, WholeFacts
<1>4. Laid(Stream, index_entries, e)' /\ (pc' = "open" \/ builder'.evs # << >> => e = Len(Stream') /\ FirstData <= e)
  BY <1>1, <1>2, <1>3 DEF Kept
<1>5. Kept(e)'
  BY <1>4 DEF Kept, Trailed
<1> QED BY <1>1, <1>2, <1>5, StoredKept DEF Whole

(* A record written is stored behind what was.                             *)
LEMMA WholeRecord ==
  ASSUME RInv, pc \in Writing, pc = "open" \/ builder.evs # << >>,
         NEW r \in Content, r.kind = "data", NEW o, Sound(file, Cells(r), o),
         Written(o), Recorded(r), pc' \in {"open", "trailer"}, ~damaged'
  PROVE  Whole' /\ Stored' = Stored \o r.evs
<1>1. ~damaged
  BY DEF Written
<1>2. /\ Stream \in Seq(Cell) /\ Len(Stream) \in Nat /\ cursor = Len(Stream)
      /\ index_entries \in Seq(IndexEntry)
      /\ Stored = Told(Stream, index_entries)[Len(index_entries)]
  BY <1>1, WholeFacts
<1>3. PICK e \in Nat : Kept(e)
  BY <1>1, WholeFacts
<1>4. Laid(Stream, index_entries, e) /\ e = Len(Stream) /\ FirstData <= e
  BY <1>3 DEF Kept
<1>5. Stream' = Stream \o Cells(r)
  <2>1. Cells(r) \in Seq(Cell)
    BY CellsType
  <2> QED BY <1>1, <2>1, OkWrite DEF RInv, IInv
<1>6. index_entries' = Append(index_entries,
        [position |-> Len(Stream), record_length |-> Length(r),
         event_count |-> EventCount(r), user_word |-> r.word])
  BY <1>2 DEF Recorded
<1>7. PICK s, rows, t, more :
        s = Stream /\ rows = index_entries /\ t = Stream' /\ more = index_entries'
  OBVIOUS
<1>8. /\ t \in Seq(Cell) /\ more \in Seq(IndexEntry) /\ Len(t) \in Nat /\ FirstData <= Len(t)
      /\ Laid(t, more, Len(t))
      /\ Follow(Told(s, rows)[Len(rows)], r.evs, Told(t, more)[Len(more)])
  <2>1. s \in Seq(Cell) /\ rows \in Seq(IndexEntry) /\ Laid(s, rows, e) /\ e = Len(s) /\ FirstData <= e
    BY <1>2, <1>4, <1>7
  <2>2. more = Listed(rows, Len(s), r)
    BY <1>6, <1>7, Zenon DEF Listed
  <2>3. Follow(s, Cells(r), t)
    BY <1>5, <1>7, Zenon DEF Follow
  <2> QED BY <2>1, <2>2, <2>3, LaidRecord
<1>9. \A i \in 1..Len(more) : RowMatches(more[i], t)
  BY <1>8 DEF Laid
<1>10. EventsOf(t, IndexRows(more)) = Told(t, more)[Len(more)]
  BY <1>8, <1>9, AllTold
<1>11. Stored' = EventsOf(t, IndexRows(more))
  BY <1>7 DEF Stored
<1>12. Follow(Stored, r.evs, Stored')
  BY <1>2, <1>7, <1>8, <1>10, <1>11
<1>13. Kept(Len(t))'
  BY <1>7, <1>8 DEF Kept, Trailed
<1>14. \E x \in Nat : Kept(x)'
  BY <1>8, <1>13
<1>15. Stored' = Stored \o r.evs
  BY <1>12 DEF Follow
<1> QED BY <1>14, <1>15 DEF Whole

(* The trailer handed over, behind whatever is there.                      *)
LEMMA WholeTrailer ==
  ASSUME RInv, pc = "trailer", NEW o, Sound(file, Cells(TrailerRecord(index_entries)), o),
         Written(o), cursor' = cursor + Length(TrailerRecord(index_entries)), pc' = "flush",
         UNCHANGED <<builder, index_entries>>, ~damaged'
  PROVE  Whole' /\ Stored' = Stored
<1>1. ~damaged /\ pc \in Writing
  BY DEF Written, Writing
<1>2. /\ Stream \in Seq(Cell) /\ Len(Stream) \in Nat /\ cursor = Len(Stream)
      /\ index_entries \in Seq(IndexEntry)
      /\ \A i \in 1..Len(index_entries) : RowMatches(index_entries[i], Stream)
      /\ Stored = Told(Stream, index_entries)[Len(index_entries)]
  BY <1>1, WholeFacts
<1>3. PICK e \in Nat : Kept(e)
  BY <1>1, WholeFacts
<1>4. Laid(Stream, index_entries, e)
  BY <1>3 DEF Kept
<1>5. Stream' = Stream \o Cells(TrailerRecord(index_entries))
  <2>1. Cells(TrailerRecord(index_entries)) \in Seq(Cell)
    BY <1>2, ContentTypes, CellsType
  <2> QED BY <1>1, <2>1, OkWrite DEF RInv, IInv
<1>6. PICK s, rows, t : s = Stream /\ rows = index_entries /\ t = Stream'
  OBVIOUS
<1>7. /\ t \in Seq(Cell) /\ Len(t) = Len(s) + Length(TrailerRecord(rows))
      /\ Length(TrailerRecord(rows)) \in Nat
      /\ Laid(t, rows, e) /\ Holds(t, Len(s), TrailerRecord(rows)) /\ e <= Len(s)
  BY <1>2, <1>4, <1>5, <1>6, LaidTrailer
<1>8. trailer_pos' = Len(s) /\ cursor' = Len(t)
  <2>1. trailer_pos' = cursor' - Length(TrailerRecord(rows))
    BY <1>6 DEF trailer_pos
  <2> QED BY <1>2, <1>6, <1>7, <2>1
<1>9. builder'.evs = << >>
  BY DEF RInv, IInv, Books, Finalizing
<1>10. Kept(e)'
  BY <1>6, <1>7, <1>8, <1>9 DEF Kept, Trailed
<1>11. Stored' = Stored
  <2>1. Len(s) \in Nat /\ Len(s) <= Len(t)
    BY <1>2, <1>6, <1>7
  <2>2. \A i \in FileHeaderSize + 1..Len(s) : t[i] = s[i]
    <3>1. TrailerRecord(rows) \in Content /\ s \in Seq(Cell) /\ t = s \o Cells(TrailerRecord(rows))
      BY <1>2, <1>5, <1>6, ContentTypes
    <3>2. \A i \in 1..Len(s) : t[i] = s[i]
      BY <3>1, AppendCells
    <3> QED BY <2>1, <3>2 DEF FileHeaderSize
  <2>3. /\ \A i \in 1..Len(rows) : RowMatches(rows[i], t)
        /\ Told(t, rows)[Len(rows)] = Told(s, rows)[Len(rows)]
    BY <1>2, <1>6, <1>7, <2>1, <2>2, ToldSame
  <2>4. EventsOf(t, IndexRows(rows)) = Told(t, rows)[Len(rows)]
    BY <1>2, <1>6, <1>7, <2>3, AllTold
  <2>5. Stored' = EventsOf(t, IndexRows(rows))
    BY <1>6 DEF Stored
  <2> QED BY <1>2, <1>6, <2>3, <2>4, <2>5
<1> QED BY <1>10, <1>11 DEF Whole

(* The trailer flushed: nothing is left in the buffer.                     *)
LEMMA WholeFlush ==
  ASSUME RInv, pc = "flush", NEW o, Sound(file, << >>, o), o.res = "ok" => Len(o.file.buf) = 0,
         Written(o), pc' = "patch_pos", UNCHANGED <<builder, index_entries, cursor>>, ~damaged'
  PROVE  Whole' /\ Stored' = Stored
<1>1. ~damaged /\ pc \in Writing /\ file' = o.file /\ o.res = "ok"
  BY DEF Written, Writing
<1>2. Stream' = Stream
  <2>1. Aligned(file) /\ Stream = StreamOf(file) /\ Stream \in Seq(Cell)
    BY <1>1, HealthyFacts DEF RInv, IInv
  <2>2. Stream \o << >> = Stream
    BY <2>1
  <2> QED BY <1>1, <2>1, <2>2 DEF Sound, Stream, StreamOf
<1>3. file'.buf = << >>
  <2>1. o.file.buf \in Seq(Cell)
    BY DEF Sound, FileType
  <2> QED BY <1>1, <2>1
<1>4. PICK e \in Nat : Kept(e)
  BY <1>1, WholeFacts
<1>5. /\ Laid(Stream, index_entries, e) /\ cursor = Len(Stream) /\ e <= trailer_pos
      /\ Holds(Stream, trailer_pos, TrailerRecord(index_entries))
      /\ builder.evs # << >> => e = Len(Stream) /\ FirstData <= e
  BY <1>4 DEF Kept, Trailed
<1>6. trailer_pos' = trailer_pos
  BY DEF trailer_pos
<1>7. Kept(e)'
  BY <1>2, <1>3, <1>5, <1>6 DEF Kept, Trailed
<1> QED BY <1>2, <1>7, StoredKept DEF Whole

(* A patch of the header.                                                  *)
LEMMA WholePatch ==
  ASSUME RInv, NEW at \in {FH_BIT_INFO, FH_TRAILER_POS}, NEW c \in Content,
         NEW next \in Patching, pc \in {"patch_pos", "patch_bit"}, Patch(at, c, next), ~damaged',
         at = FH_TRAILER_POS => c.kind = "trailer_pos" /\ c.word = trailer_pos,
         at = FH_BIT_INFO => pc = "patch_bit" /\ (file.disk[1].of.kind = "front" => c.kind = "front")
  PROVE  Whole' /\ Stored' = Stored
<1>1. /\ ~damaged /\ pc' = next /\ UNCHANGED <<index_entries, cursor>>
      /\ file'.disk \in Seq(Cell) /\ Len(file'.disk) = Len(file.disk)
      /\ \A i \in 1..Len(file.disk) :
           file'.disk[i] = IF i = at + 1 THEN [of |-> c, at |-> 0] ELSE file.disk[i]
  BY PatchInv DEF RInv
<1>2. UNCHANGED builder /\ file'.buf = file.buf
  <2>1. file \in [disk: Seq(Cell), pos: Nat, buf: Seq(Cell)]
    BY DEF RInv, IInv, TInv, TypeOK
  <2>2. CASE /\ file' = [file EXCEPT !.disk = Overwrite(@, at, Cells(c), 1), !.pos = at + 1]
             /\ UNCHANGED builder
    BY <2>1, <2>2
  <2>3. CASE damaged' = TRUE
    BY <2>3
  <2> QED BY <2>2, <2>3 DEF Patch
<1>3. PICK e \in Nat : Kept(e)
  BY <1>1 DEF RInv, Whole
<1>4. /\ Laid(Stream, index_entries, e) /\ cursor = Len(Stream) /\ e <= trailer_pos
      /\ Holds(Stream, trailer_pos, TrailerRecord(index_entries)) /\ file.buf = << >>
      /\ pc = "patch_bit" => Stream[FH_TRAILER_POS + 1].of.word = trailer_pos
  BY <1>3 DEF Kept, Trailed
<1>5. PICK s, t, rows : s = file.disk /\ t = file'.disk /\ rows = index_entries
  OBVIOUS
<1>6. s \in Seq(Cell) /\ t \in Seq(Cell) /\ rows \in Seq(IndexEntry) /\ Len(t) = Len(s)
  BY <1>1, <1>5 DEF RInv, IInv, TInv, TypeOK
<1>7. Stream = s /\ Stream' = t
  BY <1>2, <1>4, <1>5, <1>6 DEF Stream
<1>8. \A i \in 1..Len(s) : t[i] = IF i = at + 1 THEN [of |-> c, at |-> 0] ELSE s[i]
  BY <1>1, <1>5
<1>9. Laid(s, rows, e) /\ Len(s) >= FileHeaderSize /\ s[1].of.kind = "front" /\ s[2].of.kind = "trailer_pos"
  BY <1>4, <1>5, <1>7 DEF Laid
<1>10. \A i \in FileHeaderSize + 1..Len(s) : t[i] = s[i]
  <2> SUFFICES ASSUME NEW i \in FileHeaderSize + 1..Len(s) PROVE t[i] = s[i]
    OBVIOUS
  <2>1. i \in 1..Len(s) /\ i # at + 1
    BY <1>6 DEF FileHeaderSize, FH_BIT_INFO, FH_TRAILER_POS
  <2> QED BY <1>8, <2>1
<1>11. t[1].of.kind = "front" /\ t[2].of.kind = "trailer_pos"
  <2>1. 1 \in 1..Len(s) /\ 2 \in 1..Len(s)
    BY <1>6, <1>9 DEF FileHeaderSize
  <2>2. CASE at = FH_TRAILER_POS
    <3>1. t[1] = s[1] /\ t[2] = [of |-> c, at |-> 0]
      BY <1>8, <2>1, <2>2 DEF FH_TRAILER_POS
    <3>2. t[2].of = c
      BY <3>1
    <3> QED BY <1>9, <2>2, <3>1, <3>2
  <2>3. CASE at = FH_BIT_INFO
    <3>1. t[2] = s[2] /\ t[1] = [of |-> c, at |-> 0]
      BY <1>8, <2>1, <2>3 DEF FH_BIT_INFO
    <3>2. t[1].of = c
      BY <3>1
    <3> QED BY <1>5, <1>9, <2>3, <3>1, <3>2
  <2> QED BY <2>2, <2>3
<1>12. Laid(t, rows, e)
  BY <1>6, <1>9, <1>10, <1>11, LaidPatched
<1>13. trailer_pos' = trailer_pos /\ trailer_pos \in Nat /\ trailer_pos >= FileHeaderSize
  <2>1. Length(TrailerRecord(index_entries)) \in Int /\ cursor \in Int
    <3>1. TrailerRecord(index_entries) \in Content
      BY <1>5, <1>6, ContentTypes
    <3> QED BY <3>1, CellsType DEF RInv, IInv, TInv, TypeOK
  <2>2. trailer_pos \in Int
    BY <2>1 DEF trailer_pos
  <2>3. e >= FileHeaderSize
    BY <1>6, <1>9, LaidPlaces
  <2>4. trailer_pos' = trailer_pos
    BY <1>1 DEF trailer_pos
  <2> QED BY <1>4, <2>2, <2>3, <2>4 DEF FileHeaderSize
<1>14. Holds(t, trailer_pos, TrailerRecord(rows))
  <2>1. TrailerRecord(rows) \in Content
    BY <1>6, ContentTypes
  <2>2. Len(s) <= Len(t)
    BY <1>6
  <2>3. Holds(s, trailer_pos, TrailerRecord(rows))
    BY <1>4, <1>5, <1>7
  <2> QED BY <1>6, <1>10, <1>13, <2>1, <2>2, <2>3, HoldsKept
<1>15. t[FH_TRAILER_POS + 1].of.word = trailer_pos
  <2>1. FH_TRAILER_POS + 1 \in 1..Len(s)
    BY <1>6, <1>9 DEF FileHeaderSize, FH_TRAILER_POS
  <2>2. CASE at = FH_TRAILER_POS
    <3>1. t[FH_TRAILER_POS + 1] = [of |-> c, at |-> 0]
      BY <1>8, <2>1, <2>2
    <3>2. t[FH_TRAILER_POS + 1].of = c
      BY <3>1
    <3> QED BY <2>2, <3>2
  <2>3. CASE at = FH_BIT_INFO
    <3>1. FH_TRAILER_POS + 1 # at + 1
      BY <2>3 DEF FH_TRAILER_POS, FH_BIT_INFO
    <3>2. t[FH_TRAILER_POS + 1] = s[FH_TRAILER_POS + 1]
      BY <1>8, <2>1, <3>1
    <3> QED BY <1>4, <1>7, <2>3, <3>2
  <2> QED BY <2>2, <2>3
<1>16. builder.evs = << >>
  BY DEF RInv, IInv, Books, Finalizing
<1>17. Kept(e)'
  <2>1. Laid(Stream, index_entries, e)' /\ Holds(Stream', trailer_pos', TrailerRecord(index_entries'))
    BY <1>1, <1>5, <1>7, <1>12, <1>13, <1>14
  <2>2. cursor' = Len(Stream') /\ e <= trailer_pos' /\ file'.buf = << >>
    BY <1>1, <1>2, <1>4, <1>6, <1>7, <1>13
  <2>3. Stream'[FH_TRAILER_POS + 1].of.word = trailer_pos'
    BY <1>7, <1>13, <1>15
  <2>4. ~(pc' = "open" \/ builder'.evs # << >>)
    BY <1>1, <1>2, <1>16 DEF Patching
  <2> QED BY <2>1, <2>2, <2>3, <2>4 DEF Kept
<1>18. Stored' = Stored
  <2>1. \A i \in 1..Len(rows) : RowMatches(rows[i], s)
    BY <1>9 DEF Laid
  <2>2. Len(s) <= Len(t)
    BY <1>6
  <2>3. /\ \A i \in 1..Len(rows) : RowMatches(rows[i], t)
        /\ Told(t, rows)[Len(rows)] = Told(s, rows)[Len(rows)]
    BY <1>6, <1>10, <2>1, <2>2, ToldSame
  <2>4. /\ EventsOf(t, IndexRows(rows)) = Told(t, rows)[Len(rows)]
        /\ EventsOf(s, IndexRows(rows)) = Told(s, rows)[Len(rows)]
    BY <1>6, <2>1, <2>3, AllTold
  <2>5. Stored' = EventsOf(t, IndexRows(rows)) /\ Stored = EventsOf(s, IndexRows(rows))
    BY <1>1, <1>5, <1>7 DEF Stored
  <2> QED BY <2>3, <2>4, <2>5
<1> QED BY <1>17, <1>18 DEF Whole

(***************************************************************************)
(* A writer that is gone.                                                  *)
(***************************************************************************)

(* Salvage of a file that records begin finds the first of them.           *)
LEMMA SalvageFirst ==
  ASSUME NEW s \in Seq(Cell), NEW rows \in Seq(IndexEntry), NEW e \in Nat, Laid(s, rows, e),
         NEW d \in Seq(Cell), Extends(d, s)
  PROVE  \E k \in 0..Len(rows) : /\ k = 0 \/ Pos(rows, e)[k] <= Len(d)
                                 /\ DataOf(d, Salvage(d)) = Told(s, rows)[k]
<1>1. Len(d) <= Len(s) /\ \A i \in 1..Len(d) : d[i] = s[i]
  BY DEF Extends
<1>2. Cut(d, s)
  BY <1>1, Cuts
<1>3. PICK N, P, T : N = Len(rows) /\ P = Pos(rows, e) /\ T = Told(s, rows)
  OBVIOUS
<1>4. Tape(d, N, P, T)
  BY <1>2, <1>3, LaidTape
<1>5. /\ Salvage(d).spans \in Seq(RecordSpan)
      /\ \E k \in 0..N : (k = 0 \/ P[k] <= Len(d)) /\ DataIn(d, Salvage(d).spans) = T[k]
  BY <1>4, SalvageSees
<1>6. DataOf(d, Salvage(d)) = DataIn(d, Salvage(d).spans)
  BY <1>5, EventsOfIs
<1> QED BY <1>3, <1>5, <1>6

(* What salvage reads from d is told, as far as it goes.                   *)
Remains(d, told) ==
  DataOf(d, Salvage(d)) \in Seq(Event) /\ IsPrefix(DataOf(d, Salvage(d)), told)

(* A write that breaks off leaves the file short of what it was handed.    *)
LEMMA BrokenShort ==
  ASSUME NEW f \in FileType, Aligned(f), NEW new \in Seq(Cell), Len(new) > 0,
         NEW o, o \in WriteAll(f, new), o.res # "ok"
  PROVE  Len(o.file.disk) < Len(StreamOf(f)) + Len(new)
<1>1. /\ f.pos <= Len(f.disk) /\ Len(f.buf) \in Nat /\ Len(f.disk) \in Nat /\ Len(new) \in Nat \ {0}
      /\ f.pos = Len(f.disk) /\ Len(StreamOf(f)) = Len(f.disk) + Len(f.buf)
  BY DEF FileType, Aligned, StreamOf
<1>2. PICK g : g = MakeRoom(f, new)
  OBVIOUS
<1>3. /\ g \in FileType /\ g.pos <= Len(g.disk) /\ g.pos + Len(g.buf) = f.pos + Len(f.buf)
      /\ Len(new) >= BufCap => Len(g.buf) = 0
      /\ Aligned(g)
  BY <1>1, <1>2, MakeRoomShape
<1>4. o \in BrokenFlush(f) \/ (Len(new) >= BufCap /\ o \in BrokenDirect(g, new))
  <2>1. BufCap \in Nat
    BY WriterAssumption DEF WriterAssumption
  <2>2. ~(Len(new) < BufCap) => Len(new) >= BufCap
    BY <1>1, <2>1
  <2>3. \A x, y : Outcome("ok", x, y, FALSE).res = "ok"
    BY DEF Outcome
  <2> QED BY <1>2, <2>2, <2>3, Zenon DEF WriteAll
<1>5. CASE o \in BrokenFlush(f)
  <2>1. PICK r \in {"err", "kill"}, k \in 0..Len(f.buf) - 1 :
          o = Outcome(r, "flush", Drained(f, k), FALSE)
    BY <1>5, BrokenFlushCases
  <2>2. o.file = Drained(f, k)
    BY <2>1 DEF Outcome
  <2>3. k \in 0..Len(f.buf) /\ k < Len(f.buf) /\ k \in Nat
    BY <1>1
  <2>4. Drained(f, k).pos = f.pos + k /\ Aligned(Drained(f, k))
    BY <1>1, <2>3, DrainedShape
  <2>5. Len(Drained(f, k).disk) = f.pos + k
    BY <2>4 DEF Aligned
  <2>6. PICK a, b, c, n, z : /\ a = Len(f.disk) /\ b = Len(f.buf) /\ c = Len(StreamOf(f)) /\ n = Len(new)
                            /\ z = Len(Drained(f, k).disk)
    OBVIOUS
  <2>7. a \in Nat /\ b \in Nat /\ c = a + b /\ n \in Nat /\ n > 0 /\ z = a + k /\ k \in Nat /\ k < b
    BY <1>1, <2>3, <2>5, <2>6
  <2>8. z < c + n
    BY <2>7
  <2> QED BY <2>2, <2>6, <2>8
<1>6. CASE Len(new) >= BufCap /\ o \in BrokenDirect(g, new)
  <2>1. PICK r \in {"err", "kill"}, k \in 0..Len(new) - 1 :
          o = Outcome(r, "direct", Direct(g, new, k), k > 0)
    BY <1>6, BrokenDirectCases
  <2>2. o.file = Direct(g, new, k)
    BY <2>1 DEF Outcome
  <2>3. k \in 0..Len(new) /\ k < Len(new) /\ k \in Nat
    BY <1>1
  <2>4. Len(g.buf) = 0 /\ g.pos \in Nat
    BY <1>3, <1>6 DEF FileType
  <2>5. Direct(g, new, k).pos = g.pos + k /\ Aligned(Direct(g, new, k))
    BY <1>3, <2>3, <2>4, DirectShape
  <2>6. Len(Direct(g, new, k).disk) = g.pos + k
    BY <2>5 DEF Aligned
  <2>7. PICK a, b, c, n, z : /\ a = Len(f.disk) /\ b = Len(f.buf) /\ c = Len(StreamOf(f)) /\ n = Len(new)
                            /\ z = Len(Direct(g, new, k).disk)
    OBVIOUS
  <2>8. a \in Nat /\ b \in Nat /\ c = a + b /\ n \in Nat \ {0}
    BY <1>1, <2>7
  <2>9. g.pos = a + b
    <3>1. PICK x, y : x = g.pos /\ y = Len(g.buf)
      OBVIOUS
    <3>2. x + y = f.pos + Len(f.buf) /\ y = 0 /\ x \in Nat
      BY <1>3, <2>4, <3>1
    <3>3. x + y = a + b
      BY <1>1, <2>7, <3>2
    <3>4. x = a + b
      BY <3>2, <3>3
    <3> QED BY <3>1, <3>4
  <2>10. z = c + k /\ k \in Nat /\ k < n
    BY <2>3, <2>6, <2>7, <2>8, <2>9
  <2>11. z < c + n
    BY <2>8, <2>10
  <2> QED BY <2>2, <2>7, <2>11
<1> QED BY <1>4, <1>5, <1>6

(* Short of the end of a record, a disk holds a prefix of those before.    *)
LEMMA LeftShort ==
  ASSUME NEW s \in Seq(Cell), NEW rows \in Seq(IndexEntry), NEW e \in Nat, Laid(s, rows, e),
         e = Len(s), FirstData <= e, NEW r \in Content, r.kind = "data",
         NEW t, Follow(s, Cells(r), t), NEW d \in Seq(Cell), Extends(d, t),
         Len(d) < Len(s) + Length(r)
  PROVE  Remains(d, Told(s, rows)[Len(rows)])
<1>1. PICK more : more = Listed(rows, Len(s), r)
  OBVIOUS
<1>2. /\ t \in Seq(Cell) /\ more \in Seq(IndexEntry) /\ Len(more) = Len(rows) + 1
      /\ Len(t) \in Nat /\ FirstData <= Len(t)
      /\ Laid(t, more, Len(t))
      /\ Follow(Told(s, rows)[Len(rows)], r.evs, Told(t, more)[Len(more)])
      /\ \A k \in 0..Len(rows) : Told(t, more)[k] = Told(s, rows)[k]
  BY <1>1, LaidRecord
<1>3. Len(t) = Len(s) + Length(r)
  BY AppendCells DEF Follow
<1>4. PICK k \in 0..Len(more) : /\ k = 0 \/ Pos(more, Len(t))[k] <= Len(d)
                                /\ DataOf(d, Salvage(d)) = Told(t, more)[k]
  BY <1>2, SalvageFirst
<1>5. k \in 0..Len(rows)
  <2>1. Len(rows) \in Nat /\ Len(d) \in Nat
    OBVIOUS
  <2>2. k # Len(more)
    <3> SUFFICES ASSUME k = Len(more) PROVE FALSE
      OBVIOUS
    <3>1. Pos(more, Len(t))[k] = Len(t)
      BY <1>2, PosSteps
    <3>2. k # 0
      BY <1>2, <2>1
    <3>3. Len(t) <= Len(d) /\ Len(t) \in Nat /\ Len(d) < Len(t)
      BY <1>2, <1>3, <1>4, <3>1, <3>2
    <3> QED BY <2>1, <3>3
  <2> QED BY <1>2, <2>1, <2>2
<1>6. DataOf(d, Salvage(d)) = Told(s, rows)[k]
  BY <1>2, <1>4, <1>5
<1>7. \A i \in 1..Len(rows) : RowMatches(rows[i], s)
  BY DEF Laid
<1>8. Told(s, rows)[k] \in Seq(Event) /\ IsPrefix(Told(s, rows)[k], Told(s, rows)[Len(rows)])
  BY <1>5, <1>7, ToldPrefix
<1> QED BY <1>6, <1>8 DEF Remains

(* Killed while it writes a record, the writer leaves a prefix of what was *)
(* stored: of the record at hand some cell is missing.                     *)
LEMMA LeftRecord ==
  ASSUME RInv, ~damaged, pc \in Writing, pc = "open" \/ builder.evs # << >>,
         NEW r \in Content, r.kind = "data", NEW o, o \in WriteAll(file, Cells(r)), o.res # "ok",
         NEW d, d = o.file.disk
  PROVE  Remains(d, Stored)
<1>1. TInv /\ Healthy
  BY DEF RInv, IInv
<1>2. /\ Stream \in Seq(Cell) /\ index_entries \in Seq(IndexEntry)
      /\ Stored = Told(Stream, index_entries)[Len(index_entries)]
  BY WholeFacts
<1>3. PICK e \in Nat : Kept(e)
  BY WholeFacts
<1>4. Laid(Stream, index_entries, e) /\ e = Len(Stream) /\ FirstData <= e
  BY <1>3 DEF Kept
<1>5. file \in FileType /\ Aligned(file) /\ Stream = StreamOf(file)
  BY <1>1, HealthyFacts
<1>6. PICK new : new = Cells(r)
  OBVIOUS
<1>7. new \in Seq(Cell) /\ Len(new) = Length(r) /\ Len(new) > 0
  <2>1. new \in Seq(Cell) /\ Len(new) = Length(r) /\ Length(r) \in Nat \ {0}
    BY <1>6, CellsType
  <2> QED BY <2>1
<1>8. PICK s, rows : s = Stream /\ rows = index_entries
  OBVIOUS
<1>9. PICK t : t = s \o Cells(r) /\ Follow(s, Cells(r), t)
  BY DEF Follow
<1>10. o \in WriteAll(file, new)
  BY <1>6
<1>11. d \in Seq(Cell) /\ Extends(d, t)
  <2>1. Sound(file, new, o) /\ o.file.disk \in Seq(Cell)
    BY <1>1, <1>7, <1>10, WriteStep
  <2>2. Extends(o.file.disk, StreamOf(file) \o new)
    BY <1>5, <2>1 DEF Sound
  <2>3. t = StreamOf(file) \o new
    BY <1>5, <1>6, <1>8, <1>9, Zenon
  <2> QED BY <2>1, <2>2, <2>3, Zenon
<1>12. Len(d) < Len(s) + Length(r)
  <2>1. Len(o.file.disk) < Len(StreamOf(file)) + Len(new)
    BY <1>5, <1>7, <1>10, BrokenShort
  <2> QED BY <1>5, <1>7, <1>8, <2>1
<1>13. s \in Seq(Cell) /\ rows \in Seq(IndexEntry) /\ Laid(s, rows, e) /\ e = Len(s) /\ FirstData <= e
  BY <1>2, <1>4, <1>8
<1>14. Remains(d, Told(s, rows)[Len(rows)])
  BY <1>9, <1>11, <1>12, <1>13, LeftShort
<1> QED BY <1>2, <1>8, <1>14

(* Of a disk that what was handed over begins, a prefix of what is stored. *)
LEMMA LeftStream ==
  ASSUME NEW s \in Seq(Cell), NEW rows \in Seq(IndexEntry), NEW e \in Nat, Laid(s, rows, e),
         NEW d \in Seq(Cell), Extends(d, s)
  PROVE  Remains(d, Told(s, rows)[Len(rows)])
<1>1. PICK k \in 0..Len(rows) : DataOf(d, Salvage(d)) = Told(s, rows)[k]
  BY SalvageFirst
<1>2. \A i \in 1..Len(rows) : RowMatches(rows[i], s)
  BY DEF Laid
<1>3. Told(s, rows)[k] \in Seq(Event) /\ IsPrefix(Told(s, rows)[k], Told(s, rows)[Len(rows)])
  BY <1>2, ToldPrefix
<1> QED BY <1>1, <1>3 DEF Remains

(* Killed while it writes the trailer.                                     *)
LEMMA LeftTrailer ==
  ASSUME RInv, ~damaged, pc = "trailer",
         NEW o, Sound(file, Cells(TrailerRecord(index_entries)), o), NEW d, d = o.file.disk
  PROVE  Remains(d, Stored)
<1>1. TInv /\ Healthy /\ pc \in Writing
  BY DEF RInv, IInv, Writing
<1>2. /\ Stream \in Seq(Cell) /\ Len(Stream) \in Nat /\ index_entries \in Seq(IndexEntry)
      /\ \A i \in 1..Len(index_entries) : RowMatches(index_entries[i], Stream)
      /\ Stored = Told(Stream, index_entries)[Len(index_entries)]
  BY <1>1, WholeFacts
<1>3. PICK e \in Nat : Kept(e)
  BY <1>1, WholeFacts
<1>4. Laid(Stream, index_entries, e)
  BY <1>3 DEF Kept
<1>5. PICK s, rows : s = Stream /\ rows = index_entries
  OBVIOUS
<1>6. PICK t : t = s \o Cells(TrailerRecord(rows))
  OBVIOUS
<1>7. d \in Seq(Cell) /\ Extends(d, t)
  <2>1. file \in FileType /\ Aligned(file) /\ Stream = StreamOf(file)
    BY <1>1, HealthyFacts
  <2>2. o.file.disk \in Seq(Cell)
    BY DEF Sound, FileType
  <2> QED BY <1>5, <1>6, <2>1, <2>2 DEF Sound
<1>8. /\ s \in Seq(Cell) /\ rows \in Seq(IndexEntry) /\ Laid(s, rows, e) /\ Len(s) \in Nat
      /\ \A i \in 1..Len(rows) : RowMatches(rows[i], s)
  BY <1>2, <1>4, <1>5
<1>9. t \in Seq(Cell) /\ Laid(t, rows, e) /\ e <= Len(s) /\ Len(s) <= Len(t)
  <2>1. /\ t \in Seq(Cell) /\ Len(t) = Len(s) + Length(TrailerRecord(rows))
        /\ Length(TrailerRecord(rows)) \in Nat /\ Laid(t, rows, e) /\ e <= Len(s)
    BY <1>6, <1>8, LaidTrailer
  <2> QED BY <1>8, <2>1
<1>10. Remains(d, Told(t, rows)[Len(rows)])
  BY <1>7, <1>8, <1>9, LeftStream
<1>11. Told(t, rows)[Len(rows)] = Told(s, rows)[Len(rows)]
  <2>1. \A i \in FileHeaderSize + 1..Len(s) : t[i] = s[i]
    <3>1. TrailerRecord(rows) \in Content
      BY <1>8, ContentTypes
    <3>2. \A i \in 1..Len(s) : t[i] = s[i]
      BY <1>6, <1>8, <3>1, AppendCells
    <3> QED BY <1>8, <3>2 DEF FileHeaderSize
  <2> QED BY <1>8, <1>9, <2>1, ToldSame
<1> QED BY <1>2, <1>5, <1>10, <1>11

(* Killed in a flush.                                                      *)
LEMMA LeftFlush ==
  ASSUME RInv, ~damaged, pc \in Writing, NEW o, Sound(file, << >>, o), NEW d, d = o.file.disk
  PROVE  Remains(d, Stored)
<1>1. TInv /\ Healthy
  BY DEF RInv, IInv
<1>2. /\ Stream \in Seq(Cell) /\ index_entries \in Seq(IndexEntry)
      /\ Stored = Told(Stream, index_entries)[Len(index_entries)]
  BY WholeFacts
<1>3. PICK e \in Nat : Laid(Stream, index_entries, e)
  BY WholeFacts DEF Kept
<1>4. PICK s, rows : s = Stream /\ rows = index_entries
  OBVIOUS
<1>5. d \in Seq(Cell) /\ Extends(d, s)
  <2>1. file \in FileType /\ Aligned(file) /\ Stream = StreamOf(file)
    BY <1>1, HealthyFacts
  <2>2. o.file.disk \in Seq(Cell)
    BY DEF Sound, FileType
  <2>3. Stream \o << >> = Stream
    BY <1>2
  <2>4. Extends(o.file.disk, StreamOf(file) \o << >>)
    BY <2>1 DEF Sound
  <2> QED BY <1>4, <2>1, <2>2, <2>3, <2>4
<1> QED BY <1>2, <1>3, <1>4, <1>5, LeftStream

(* Killed between two operations.                                          *)
LEMMA LeftNow ==
  ASSUME RInv, ~damaged, pc \notin Done
  PROVE  Remains(file.disk, Stored)
<1>1. TInv /\ Healthy /\ Books
  BY DEF RInv, IInv
<1>2. CASE pc = "new"
  <2>1. file.disk = << >> /\ index_entries = << >> /\ file.buf = << >>
    BY <1>1, <1>2 DEF Books
  <2>2. PICK d : d = << >>
    OBVIOUS
  <2>3. DataOf(d, Salvage(d)) = << >>
    BY <2>2, SalvageNothing
  <2>4. Stream = d
    BY <2>1, <2>2 DEF Stream
  <2>5. Stored = EventsOf(d, IndexRows(d))
    BY <2>1, <2>2, <2>4 DEF Stored
  <2>6. d \in Seq(Cell) /\ d \in Seq(IndexEntry) /\ \A i \in 1..Len(d) : RowMatches(d[i], d)
    BY <2>2
  <2>7. Stored \in Seq(Event) /\ Stored = Told(d, d)[Len(d)]
    BY <2>5, <2>6, AllTold
  <2>8. Len(d) = 0 /\ 0 \in 0..Len(d)
    BY <2>2
  <2>9. Told(d, d)[0] = << >>
    BY <2>6, ToldSteps
  <2>10. Told(d, d)[0] \in Seq(Event) /\ IsPrefix(Told(d, d)[0], Told(d, d)[Len(d)])
    BY <2>6, <2>8, ToldPrefix
  <2> QED BY <2>1, <2>2, <2>3, <2>7, <2>9, <2>10 DEF Remains
<1>3. CASE pc # "new"
  <2>1. PICK e \in Nat : Laid(Stream, index_entries, e)
    BY <1>3 DEF RInv, Whole, Done, Kept
  <2>2. \A i \in 1..Len(index_entries) : RowMatches(index_entries[i], Stream)
    BY <2>1 DEF Laid
  <2>3. /\ Stream \in Seq(Cell) /\ index_entries \in Seq(IndexEntry)
        /\ Stored = Told(Stream, index_entries)[Len(index_entries)]
    BY <1>1, <2>2, StoredIs
  <2>4. file.disk \in Seq(Cell) /\ Extends(file.disk, Stream)
    BY <1>1, DiskBegins
  <2>5. PICK d, s, rows : d = file.disk /\ s = Stream /\ rows = index_entries
    OBVIOUS
  <2>6. Remains(d, Told(s, rows)[Len(rows)])
    BY <2>1, <2>3, <2>4, <2>5, LeftStream
  <2> QED BY <2>3, <2>5, <2>6
<1> QED BY <1>2, <1>3

(* Without rows nothing is stored.                                         *)
LEMMA StoredNone ==
  ASSUME NEW s \in Seq(Cell), NEW rows, rows = << >>
  PROVE  EventsOf(s, IndexRows(rows)) = << >> /\ Told(s, rows)[Len(rows)] = << >>
<1>1. rows \in Seq(IndexEntry) /\ Len(rows) = 0 /\ \A i \in 1..Len(rows) : RowMatches(rows[i], s)
  OBVIOUS
<1>2. Told(s, rows)[0] = << >>
  BY <1>1, ToldSteps
<1>3. EventsOf(s, IndexRows(rows)) = Told(s, rows)[Len(rows)]
  BY <1>1, AllTold
<1> QED BY <1>1, <1>2, <1>3

(***************************************************************************)
(* What a step does to the log, undamaged: events are taken, stored ahead  *)
(* of the next one or on their own, or kept as they are; the writer ends   *)
(* with everything stored, or is gone and leaves a prefix of it.           *)
(***************************************************************************)
Moves ==
  \/ pc \notin Done /\ pc' \notin Done
     /\ \/ Stored' = Stored /\ builder'.evs = builder.evs
        \/ \E e \in Event : Stored' = Stored /\ builder'.evs = Append(builder.evs, e)
        \/ \E e \in Event : Follow(Stored, builder.evs, Stored') /\ builder'.evs = <<e>>
        \/ Follow(Stored, builder.evs, Stored') /\ builder'.evs = << >>
        \/ \E b \in Batch : Follow(Stored, b.evs, Stored') /\ builder'.evs = builder.evs
  \/ pc \notin Done /\ pc' = "closed" /\ Stored' = Stored /\ builder.evs = << >> /\ builder'.evs = << >>
  \/ /\ pc \notin Done /\ pc' = "gone" /\ builder'.evs = << >>
     /\ Remains(file'.disk, Stored)

(* A step after which the writer is gone is one of those.                  *)
LEMMA MovesGone ==
  ASSUME pc \notin Done, NEW d, Gone(d), Remains(d, Stored)
  PROVE  Whole' /\ Moves
<1>1. pc' = "gone" /\ builder'.evs = << >> /\ file'.disk = d
  BY DEF Gone, EmptyBuilder
<1> QED BY <1>1 DEF Whole, Moves

(* Creating the file.                                                      *)
LEMMA WholeCreate ==
  ASSUME RInv, Create, ~damaged'
  PROVE  Whole' /\ Moves
<1>1. PICK f : f = [file EXCEPT !.buf = FileHeader]
  OBVIOUS
<1>2. /\ pc = "new" /\ index_entries = << >> /\ builder.evs = << >>
      /\ file = [disk |-> << >>, pos |-> 0, buf |-> << >>]
  BY DEF Create, RInv, IInv, Books
<1>3. /\ f = [disk |-> << >>, pos |-> 0, buf |-> FileHeader]
      /\ f \in FileType /\ f.pos <= Len(f.disk) /\ Aligned(f)
  <2>1. f = [disk |-> << >>, pos |-> 0, buf |-> FileHeader]
    BY <1>1, <1>2
  <2>2. << >> \in Seq(Cell) /\ Len(<< >>) = 0
    OBVIOUS
  <2>3. f.disk = << >> /\ f.pos = 0 /\ f.buf = FileHeader
    BY <2>1
  <2> QED BY <2>1, <2>2, <2>3, FileHeaderShape DEF FileType, Aligned
<1>4. StreamOf(f) = FileHeader
  BY <1>3, FileHeaderShape, ConcatEmptySeq DEF StreamOf
<1>5. Cells(DictRecord) \in Seq(Cell)
  BY ContentTypes, CellsType
<1>6. PICK o \in WriteAll(f, Cells(DictRecord)) :
         \/ /\ Written(o)
            /\ cursor' = FileHeaderSize + Length(DictRecord)
            /\ pc' = "open"
            /\ UNCHANGED <<builder, index_entries, finished, by>>
         \/ /\ o.res = "err"
            /\ file' = o.file
            /\ damaged' = (damaged \/ o.torn)
            /\ pc' = "flush_record"
            /\ UNCHANGED <<builder, index_entries, finished>>
         \/ Killed(o)
  BY <1>1 DEF Create
<1>7. Sound(f, Cells(DictRecord), o)
  BY <1>3, <1>5, <1>6, WriteAllSound
<1>8. PICK s, rows : s = FileHeader \o Cells(DictRecord) /\ rows = << >>
  OBVIOUS
<1>9. s \in Seq(Cell) /\ Len(s) = FirstData /\ Laid(s, rows, FirstData) /\ FirstData \in Nat
  <2>1. FirstData \in Nat
    BY FileAssumption DEF FirstData, FileHeaderSize, RecordHeaderSize, FileAssumption
  <2> QED BY <1>8, <2>1, LaidHeader
<1>10. PICK h : h = FileHeader
  OBVIOUS
<1>11. h \in Seq(Cell) /\ Laid(h, rows, FileHeaderSize) /\ FileHeaderSize \in Nat
  BY <1>8, <1>10, LaidHeader DEF FileHeaderSize
<1>12. Stored = << >>
  <2>1. Stream \in Seq(Cell)
    BY DiskBegins DEF RInv, IInv
  <2> QED BY <1>2, <2>1, StoredNone DEF Stored
<1>13. CASE Written(o) /\ pc' = "open" /\ UNCHANGED <<builder, index_entries>>
  <2>1. Stream' = s
    BY <1>3, <1>4, <1>7, <1>8, <1>13 DEF Sound, Written, Stream, StreamOf
  <2>2. index_entries' = rows /\ builder'.evs = << >>
    BY <1>2, <1>8, <1>13
  <2>3. Kept(FirstData)'
    BY <1>9, <1>13, <2>1, <2>2 DEF Kept, Trailed
  <2>4. Stored' = << >>
    BY <1>8, <1>9, <2>1, <2>2, StoredNone DEF Stored
  <2>5. Moves
    BY <1>2, <1>12, <1>13, <2>2, <2>4 DEF Moves, Done
  <2>6. Whole'
    BY <1>9, <2>3 DEF Whole
  <2> QED BY <2>5, <2>6
<1>14. CASE /\ o.res = "err" /\ file' = o.file /\ damaged' = (damaged \/ o.torn)
            /\ pc' = "flush_record" /\ UNCHANGED <<builder, index_entries>>
  <2>1. Stream' = h
    BY <1>3, <1>4, <1>7, <1>10, <1>14 DEF Sound, Stream, StreamOf
  <2>2. index_entries' = rows /\ builder'.evs = << >>
    BY <1>2, <1>8, <1>14
  <2>3. Kept(FileHeaderSize)'
    BY <1>11, <1>14, <2>1, <2>2 DEF Kept, Trailed
  <2>4. Stored' = << >>
    BY <1>8, <1>11, <2>1, <2>2, StoredNone DEF Stored
  <2>5. Moves
    BY <1>2, <1>12, <1>14, <2>2, <2>4 DEF Moves, Done
  <2>6. Whole'
    BY <1>11, <2>3 DEF Whole
  <2> QED BY <2>5, <2>6
<1>15. CASE Killed(o)
  <2>1. PICK d : d = o.file.disk
    OBVIOUS
  <2>2. Extends(d, s) /\ d \in Seq(Cell)
    BY <1>3, <1>4, <1>7, <1>8, <2>1 DEF Sound, FileType
  <2>3. rows \in Seq(IndexEntry)
    BY <1>8
  <2>4. Remains(d, Told(s, rows)[Len(rows)])
    BY <1>9, <2>2, <2>3, LeftStream
  <2>5. Told(s, rows)[Len(rows)] = << >>
    BY <1>8, <1>9, StoredNone
  <2>6. pc \notin Done /\ Gone(d)
    BY <1>2, <1>15, <2>1 DEF Killed, Done
  <2> QED BY <1>12, <2>4, <2>5, <2>6, MovesGone
<1> QED BY <1>6, <1>13, <1>14, <1>15

(* The last step: the file is closed as it is.                             *)
LEMMA WholeSeek ==
  ASSUME RInv, SeekEnd, ~damaged'
  PROVE  Whole' /\ Moves
<1>1. /\ pc = "seek_end" /\ pc' = "closed" /\ file'.disk = file.disk /\ file'.buf = file.buf
      /\ UNCHANGED <<builder, index_entries, cursor, damaged>>
  BY DEF SeekEnd, RInv, IInv, TInv, TypeOK
<1>2. PICK e \in Nat : Kept(e)
  BY <1>1 DEF RInv, Whole
<1>3. Stream' = Stream /\ trailer_pos' = trailer_pos
  BY <1>1 DEF Stream, trailer_pos
<1>4. builder.evs = << >>
  BY <1>1 DEF RInv, IInv, Books, Finalizing
<1>5. Kept(e)'
  BY <1>1, <1>2, <1>3, <1>4 DEF Kept, Trailed
<1>6. Stored' = Stored
  BY <1>1, <1>3, StoredKept
<1>7. Moves
  BY <1>1, <1>4, <1>6 DEF Moves, Done
<1> QED BY <1>5, <1>7 DEF Whole

(* Steps that leave the file and the index alone.                          *)
LEMMA WholeQuiet ==
  ASSUME RInv, UNCHANGED <<file, index_entries, cursor, damaged>>,
         \/ pc = "open" /\ pc' \in {"open", "flush_record"}
         \/ pc = "flush_record" /\ pc' = "trailer" /\ builder.evs = << >> /\ builder'.evs = << >>,
         ~damaged'
  PROVE  Whole' /\ Stored' = Stored
<1>1. Stream' = Stream
  BY DEF Stream
<1>2. PICK e \in Nat : Kept(e)
  BY DEF RInv, Whole
<1>3. Laid(Stream', index_entries', e)
  BY <1>1, <1>2 DEF Kept
<1>4. pc' = "open" \/ builder'.evs # << >> => e = Len(Stream') /\ FirstData <= e
  BY <1>1, <1>2 DEF Kept
<1>5. Kept(e)'
  BY <1>3, <1>4 DEF Kept, Trailed
<1> QED BY <1>1, <1>5, StoredKept DEF Whole

(* An operation that writes the record r, ahead of what is being built or  *)
(* instead of it.                                                          *)
LEMMA WholeWrite ==
  ASSUME RInv, ~damaged', pc \in Writing, pc = "open" \/ builder.evs # << >>,
         NEW r \in Content, r.kind = "data",
         NEW o, o \in WriteAll(file, Cells(r)),
         \/ Written(o) /\ Recorded(r) /\ pc' \in {"open", "trailer"}
         \/ Refused(o) /\ pc' \in {"open", "flush_record", "drop_file"} /\ (pc' = "open" => pc = "open")
         \/ Killed(o)
  PROVE  /\ Whole'
         /\ \/ Moves
            \/ Follow(Stored, r.evs, Stored') /\ o.res = "ok" /\ pc \notin Done /\ pc' \notin Done
<1>1. Cells(r) \in Seq(Cell)
  BY CellsType
<1>2. Sound(file, Cells(r), o) /\ pc \notin Done
  BY <1>1, WriteStep DEF RInv, IInv, Writing, Done
<1>3. CASE Written(o) /\ Recorded(r) /\ pc' \in {"open", "trailer"}
  <2>1. Whole' /\ Stored' = Stored \o r.evs
    BY <1>2, <1>3, WholeRecord
  <2>2. pc' \notin Done /\ o.res = "ok"
    BY <1>3 DEF Done, Written
  <2> QED BY <1>2, <1>3, <2>1, <2>2, Zenon DEF Follow
<1>4. CASE Refused(o) /\ pc' \in {"open", "flush_record", "drop_file"} /\ (pc' = "open" => pc = "open")
  <2>1. Whole' /\ Stored' = Stored
    BY <1>1, <1>2, <1>4, WholeRefused
  <2>2. builder' = builder /\ pc' \notin Done
    BY <1>4 DEF Refused, Done
  <2> QED BY <1>2, <2>1, <2>2 DEF Moves
<1>5. CASE Killed(o)
  <2>1. ~damaged /\ o.res # "ok" /\ Gone(o.file.disk)
    BY <1>5 DEF Killed, Gone
  <2>2. PICK d : d = o.file.disk
    OBVIOUS
  <2>3. Remains(d, Stored)
    BY <2>1, <2>2, LeftRecord
  <2> QED BY <1>2, <2>1, <2>2, <2>3, MovesGone
<1> QED BY <1>3, <1>4, <1>5

(* append_raw.                                                             *)
LEMMA WholeAppend ==
  ASSUME RInv, ~damaged', NEW e \in Event, AppendRaw(e)
  PROVE  Whole' /\ Moves
<1>1. pc = "open" /\ pc \in Writing /\ pc \notin Done
  BY DEF AppendRaw, Writing, Done
<1>2. Building \in Content /\ Building.kind = "data" /\ Building.evs = builder.evs
  BY BuildingType DEF RInv, IInv, TInv, Building, DataRecord
<1>3. CASE Overfull(e) /\ builder.evs # << >>
  <2>1. PICK r : r = Building
    OBVIOUS
  <2>2. PICK o \in WriteAll(file, Cells(r)) :
          \/ /\ Written(o) /\ Recorded(r) /\ builder' = AddEvent(Reset(builder), e)
             /\ pc' = pc
          \/ Refused(o) /\ pc' = pc
          \/ Killed(o)
    BY <1>3, <2>1 DEF AppendRaw
  <2>3. \/ Written(o) /\ Recorded(r) /\ pc' \in {"open", "trailer"}
        \/ Refused(o) /\ pc' \in {"open", "flush_record", "drop_file"} /\ (pc' = "open" => pc = "open")
        \/ Killed(o)
    BY <1>1, <2>2
  <2>4. /\ Whole'
        /\ \/ Moves
           \/ Follow(Stored, r.evs, Stored') /\ o.res = "ok" /\ pc \notin Done /\ pc' \notin Done
    BY <1>1, <1>2, <2>1, <2>3, WholeWrite
  <2>5. o.res = "ok" => builder'.evs = <<e>>
    BY <2>2 DEF AddEvent, Reset, Refused, Killed
  <2> QED BY <1>2, <2>1, <2>4, <2>5 DEF Moves
<1>4. CASE ~(Overfull(e) /\ builder.evs # << >>)
  <2>1. UNCHANGED <<file, index_entries, cursor, damaged, pc>> /\ builder' = AddEvent(builder, e)
    BY <1>4 DEF AppendRaw
  <2>2. Whole' /\ Stored' = Stored
    BY <1>1, <2>1, WholeQuiet
  <2>3. builder'.evs = Append(builder.evs, e)
    BY <2>1 DEF AddEvent
  <2> QED BY <1>1, <2>1, <2>2, <2>3 DEF Moves
<1> QED BY <1>3, <1>4

(* flush_record, called by the user.                                       *)
LEMMA WholeFlushRecord ==
  ASSUME RInv, ~damaged', FlushRecord
  PROVE  Whole' /\ Moves
<1>1. pc = "open" /\ pc \in Writing /\ pc \notin Done
  BY DEF FlushRecord, Writing, Done
<1>2. Building \in Content /\ Building.kind = "data" /\ Building.evs = builder.evs
  BY BuildingType DEF RInv, IInv, TInv, Building, DataRecord
<1>3. PICK r : r = Building
  OBVIOUS
<1>4. PICK o \in WriteAll(file, Cells(r)) :
        \/ Written(o) /\ Recorded(r) /\ builder' = Reset(builder) /\ pc' = pc
        \/ Refused(o) /\ pc' = pc
        \/ Killed(o)
  BY <1>3 DEF FlushRecord
<1>5. \/ Written(o) /\ Recorded(r) /\ pc' \in {"open", "trailer"}
      \/ Refused(o) /\ pc' \in {"open", "flush_record", "drop_file"} /\ (pc' = "open" => pc = "open")
      \/ Killed(o)
  BY <1>1, <1>4
<1>6. /\ Whole'
      /\ \/ Moves
         \/ Follow(Stored, r.evs, Stored') /\ o.res = "ok" /\ pc \notin Done /\ pc' \notin Done
  BY <1>1, <1>2, <1>3, <1>5, WholeWrite
<1>7. o.res = "ok" => builder'.evs = << >>
  BY <1>4 DEF Reset, Refused, Killed
<1> QED BY <1>2, <1>3, <1>6, <1>7 DEF Moves

(* write_record.                                                           *)
LEMMA WholeWriteRecord ==
  ASSUME RInv, ~damaged', NEW batch \in Batch, NEW w \in Word, WriteRecord(batch, w)
  PROVE  Whole' /\ Moves
<1>1. pc = "open" /\ pc \in Writing /\ pc \notin Done
  BY DEF WriteRecord, Writing, Done
<1>2. PICK r : r = DataRecord(batch.evs, batch.bytes, w)
  OBVIOUS
<1>3. r \in Content /\ r.kind = "data" /\ r.evs = batch.evs
  <2>1. batch.evs \in Seq(Event) /\ batch.bytes \in Nat /\ w \in Nat
    BY WriterAssumption, FileAssumption DEF WriterAssumption, FileAssumption
  <2> QED BY <1>2, <2>1, ContentTypes DEF DataRecord
<1>4. PICK o \in WriteAll(file, Cells(r)) :
        \/ Written(o) /\ Recorded(r) /\ builder' = builder /\ pc' = pc
        \/ Refused(o) /\ pc' = pc
        \/ Killed(o)
  BY <1>2 DEF WriteRecord
<1>5. \/ Written(o) /\ Recorded(r) /\ pc' \in {"open", "trailer"}
      \/ Refused(o) /\ pc' \in {"open", "flush_record", "drop_file"} /\ (pc' = "open" => pc = "open")
      \/ Killed(o)
  BY <1>1, <1>4
<1>6. /\ Whole'
      /\ \/ Moves
         \/ Follow(Stored, r.evs, Stored') /\ o.res = "ok" /\ pc \notin Done /\ pc' \notin Done
  BY <1>1, <1>3, <1>5, WholeWrite
<1>7. o.res = "ok" => builder' = builder
  BY <1>4 DEF Refused, Killed
<1> QED BY <1>3, <1>6, <1>7 DEF Moves

(* The first step of finalize.                                             *)
LEMMA WholeFinalizeRecord ==
  ASSUME RInv, ~damaged', FinalizeRecord
  PROVE  Whole' /\ Moves
<1>1. pc = "flush_record" /\ pc \in Writing /\ pc \notin Done
  BY DEF FinalizeRecord, Writing, Done
<1>2. CASE builder.evs = << >>
  <2>1. pc' = "trailer" /\ UNCHANGED <<file, builder, index_entries, cursor, damaged>>
    BY <1>2 DEF FinalizeRecord
  <2>2. Whole' /\ Stored' = Stored
    BY <1>1, <1>2, <2>1, WholeQuiet
  <2> QED BY <1>1, <2>1, <2>2 DEF Moves, Done
<1>3. CASE builder.evs # << >>
  <2>1. Building \in Content /\ Building.kind = "data" /\ Building.evs = builder.evs
    BY BuildingType DEF RInv, IInv, TInv, Building, DataRecord
  <2>2. PICK r : r = Building
    OBVIOUS
  <2>3. PICK o \in WriteAll(file, Cells(r)) :
          \/ Written(o) /\ Recorded(r) /\ builder' = Reset(builder) /\ pc' = "trailer"
          \/ Refused(o) /\ GiveUp
          \/ Killed(o)
    BY <1>3, <2>2 DEF FinalizeRecord
  <2>4. \/ Written(o) /\ Recorded(r) /\ pc' \in {"open", "trailer"}
        \/ Refused(o) /\ pc' \in {"open", "flush_record", "drop_file"} /\ (pc' = "open" => pc = "open")
        \/ Killed(o)
    BY <2>3 DEF GiveUp
  <2>5. /\ Whole'
        /\ \/ Moves
           \/ Follow(Stored, r.evs, Stored') /\ o.res = "ok" /\ pc \notin Done /\ pc' \notin Done
    BY <1>1, <1>3, <2>1, <2>2, <2>4, WholeWrite
  <2>6. o.res = "ok" => builder'.evs = << >>
    BY <2>3 DEF Reset, Refused, Killed
  <2> QED BY <2>1, <2>2, <2>5, <2>6 DEF Moves
<1> QED BY <1>2, <1>3

(* Writing the trailer.                                                    *)
LEMMA WholeFinalizeTrailer ==
  ASSUME RInv, ~damaged', FinalizeTrailer
  PROVE  Whole' /\ Moves
<1>1. pc = "trailer" /\ pc \in Writing /\ pc \notin Done
  BY DEF FinalizeTrailer, Writing, Done
<1>2. PICK o \in WriteAll(file, Cells(TrailerRecord(index_entries))) :
        \/ /\ Written(o)
           /\ cursor' = cursor + Length(TrailerRecord(index_entries))
           /\ pc' = "flush"
           /\ UNCHANGED <<builder, index_entries>>
        \/ Refused(o) /\ GiveUp
        \/ Killed(o)
  BY DEF FinalizeTrailer
<1>3. Cells(TrailerRecord(index_entries)) \in Seq(Cell)
  BY ContentTypes, CellsType DEF RInv, IInv, TInv, TypeOK
<1>4. Sound(file, Cells(TrailerRecord(index_entries)), o)
  BY <1>3, WriteStep DEF RInv, IInv
<1>5. CASE /\ Written(o)
           /\ cursor' = cursor + Length(TrailerRecord(index_entries))
           /\ pc' = "flush"
           /\ UNCHANGED <<builder, index_entries>>
  <2>1. Whole' /\ Stored' = Stored
    BY <1>1, <1>4, <1>5, WholeTrailer
  <2> QED BY <1>1, <1>5, <2>1 DEF Moves, Done
<1>6. CASE Refused(o) /\ GiveUp
  <2>1. pc' \in {"open", "flush_record", "drop_file"} /\ pc' # "open"
    BY <1>6 DEF GiveUp
  <2>2. Whole' /\ Stored' = Stored
    BY <1>1, <1>3, <1>4, <1>6, <2>1, WholeRefused
  <2> QED BY <1>1, <1>6, <2>1, <2>2 DEF Moves, Refused, Done
<1>7. CASE Killed(o)
  <2>1. ~damaged /\ Gone(o.file.disk)
    BY <1>7 DEF Killed, Gone
  <2>2. PICK d : d = o.file.disk
    OBVIOUS
  <2>3. Remains(d, Stored)
    BY <1>1, <1>4, <2>1, <2>2, LeftTrailer
  <2> QED BY <1>1, <2>1, <2>2, <2>3, MovesGone
<1> QED BY <1>2, <1>5, <1>6, <1>7

(* Flushing the trailer.                                                   *)
LEMMA WholeFinalizeFlush ==
  ASSUME RInv, ~damaged', FinalizeFlush
  PROVE  Whole' /\ Moves
<1>1. pc = "flush" /\ pc \in Writing /\ pc \notin Done
  BY DEF FinalizeFlush, Writing, Done
<1>2. PICK o \in Flush(file) :
        \/ Written(o) /\ pc' = "patch_pos" /\ UNCHANGED <<builder, index_entries, cursor>>
        \/ Refused(o) /\ GiveUp
        \/ Killed(o)
  BY DEF FinalizeFlush
<1>3. PICK new : new = << >>
  OBVIOUS
<1>4. Sound(file, << >>, o) /\ (o.res = "ok" => Len(o.file.buf) = 0)
  <2>1. file \in FileType /\ file.pos <= Len(file.disk)
    BY DEF RInv, IInv, TInv, TypeOK, FileType
  <2> QED BY <2>1, FlushSound
<1>5. CASE Written(o) /\ pc' = "patch_pos" /\ UNCHANGED <<builder, index_entries, cursor>>
  <2>1. Whole' /\ Stored' = Stored
    BY <1>1, <1>4, <1>5, WholeFlush
  <2> QED BY <1>1, <1>5, <2>1 DEF Moves, Done
<1>6. CASE Refused(o) /\ GiveUp
  <2>1. pc' \in {"open", "flush_record", "drop_file"} /\ pc' # "open"
    BY <1>6 DEF GiveUp
  <2>2. new \in Seq(Cell) /\ Sound(file, new, o)
    BY <1>3, <1>4
  <2>3. Whole' /\ Stored' = Stored
    BY <1>1, <1>6, <2>1, <2>2, WholeRefused
  <2> QED BY <1>1, <1>6, <2>1, <2>3 DEF Moves, Refused, Done
<1>7. CASE Killed(o)
  <2>1. ~damaged /\ Gone(o.file.disk)
    BY <1>7 DEF Killed, Gone
  <2>2. PICK d : d = o.file.disk
    OBVIOUS
  <2>3. Remains(d, Stored)
    BY <1>1, <1>4, <2>1, <2>2, LeftFlush
  <2> QED BY <1>1, <2>1, <2>2, <2>3, MovesGone
<1> QED BY <1>2, <1>5, <1>6, <1>7

(* The two patches.                                                        *)
LEMMA WholePatches ==
  ASSUME RInv, ~damaged', PatchTrailerPos \/ PatchBitInfo
  PROVE  Whole' /\ Moves
<1>1. /\ FH_TRAILER_POS \in {FH_BIT_INFO, FH_TRAILER_POS}
      /\ FH_BIT_INFO \in {FH_BIT_INFO, FH_TRAILER_POS}
      /\ FH_TRAILER_POS # FH_BIT_INFO
  BY DEF FH_TRAILER_POS, FH_BIT_INFO
<1>2. \A at, c, next : Patch(at, c, next) => UNCHANGED builder
  BY DEF Patch
<1>3. CASE PatchTrailerPos
  <2>1. PICK c, next : c = TrailerPos(trailer_pos) /\ next = "patch_bit"
    OBVIOUS
  <2>2. pc = "patch_pos" /\ Patch(FH_TRAILER_POS, c, next) /\ next \in Patching
    BY <1>3, <2>1 DEF PatchTrailerPos, Patching
  <2>3. trailer_pos \in Nat
    <3>1. /\ Length(TrailerRecord(index_entries)) \in Nat /\ cursor \in Nat
          /\ cursor >= Length(TrailerRecord(index_entries))
      BY <2>2, ContentTypes, CellsType DEF RInv, IInv, TInv, TypeOK
    <3> QED BY <3>1 DEF trailer_pos
  <2>4. c \in Content /\ c.kind = "trailer_pos" /\ c.word = trailer_pos
    BY <2>1, <2>3, ContentTypes DEF TrailerPos
  <2>5. Whole' /\ Stored' = Stored
    BY <1>1, <2>2, <2>4, WholePatch
  <2>6. pc' = next /\ builder' = builder
    <3>1. builder' = builder
      BY <1>2, <2>2
    <3> QED BY <2>2, <3>1, PatchInv, <1>1, <2>4 DEF RInv
  <2> QED BY <2>1, <2>2, <2>5, <2>6 DEF Moves, Done
<1>4. CASE PatchBitInfo
  <2>1. PICK front : front = file.disk[FH_BIT_INFO + 1].of
    OBVIOUS
  <2>2. PICK c, next : c = (IF front.kind = "front" THEN HeaderFront(1) ELSE front) /\ next = "seek_end"
    OBVIOUS
  <2>3. pc = "patch_bit" /\ Patch(FH_BIT_INFO, c, next) /\ next \in Patching
    BY <1>4, <2>1, <2>2 DEF PatchBitInfo, Patching
  <2>4. file.disk[1].of = front /\ front \in Content
    <3>1. file.disk \in Seq(Cell) /\ Len(file.disk) >= FileHeaderSize
      BY <2>3 DEF RInv, IInv, TInv, TypeOK
    <3>2. 1 \in 1..Len(file.disk)
      BY <3>1 DEF FileHeaderSize
    <3>3. file.disk[1] \in Cell
      BY <3>1, <3>2
    <3>4. file.disk[1].of \in Content
      BY <3>3 DEF Cell
    <3> QED BY <2>1, <3>4 DEF FH_BIT_INFO
  <2>5. c \in Content /\ (front.kind = "front" => c.kind = "front")
    <3>1. HeaderFront(1) \in Content /\ HeaderFront(1).kind = "front"
      BY ContentTypes DEF HeaderFront
    <3> QED BY <2>2, <2>4, <3>1
  <2>6. Whole' /\ Stored' = Stored
    BY <1>1, <2>3, <2>4, <2>5, WholePatch
  <2>7. pc' = next /\ builder' = builder
    <3>1. builder' = builder
      BY <1>2, <2>3
    <3> QED BY <2>3, <3>1, PatchInv, <1>1, <2>5 DEF RInv
  <2> QED BY <2>2, <2>3, <2>6, <2>7 DEF Moves, Done
<1> QED BY <1>3, <1>4

(* The BufWriter's own drop.                                               *)
LEMMA WholeDropFile ==
  ASSUME RInv, ~damaged', DropFile
  PROVE  Whole' /\ Moves
<1>1. pc = "drop_file" /\ pc \in Writing /\ pc \notin Done
  BY DEF DropFile, Writing, Done
<1>2. PICK o \in Flush(file) : Gone(o.file.disk)
  BY DEF DropFile
<1>3. Sound(file, << >>, o)
  <2>1. file \in FileType /\ file.pos <= Len(file.disk)
    BY DEF RInv, IInv, TInv, TypeOK, FileType
  <2> QED BY <2>1, FlushSound
<1>4. PICK d : d = o.file.disk
  OBVIOUS
<1>5. ~damaged
  BY <1>2 DEF Gone
<1>6. Remains(d, Stored)
  BY <1>1, <1>3, <1>4, <1>5, LeftFlush
<1> QED BY <1>1, <1>2, <1>4, <1>6, MovesGone

(* Killed between two operations.                                          *)
LEMMA WholeCrash ==
  ASSUME RInv, ~damaged', Crash
  PROVE  Whole' /\ Moves
<1>1. pc \notin Done /\ Gone(file.disk) /\ ~damaged
  BY DEF Crash, Gone
<1>2. PICK d : d = file.disk
  OBVIOUS
<1>3. Remains(d, Stored)
  BY <1>1, <1>2, LeftNow
<1> QED BY <1>1, <1>2, <1>3, MovesGone

(* Only seek_end completes the file, and only by closing it.               *)
LEMMA FinishedStep ==
  ASSUME RInv, [Next]_vars, finished'
  PROVE  pc' = "closed"
<1>0. finished => pc = "closed"
  BY DEF RInv
<1>1. pc \in Done => UNCHANGED vars
  BY DEF Next, Create, AppendRaw, FlushRecord, WriteRecord, SetUserWord, Finalize, FinalizeRecord,
         FinalizeTrailer, FinalizeFlush, PatchTrailerPos, PatchBitInfo, SeekEnd, DropFile, Crash, Done
<1>2. CASE pc \in Done
  BY <1>0, <1>1, <1>2 DEF vars
<1>3. CASE pc \notin Done
  <2>1. ~finished
    BY <1>0, <1>3 DEF Done
  <2>2. CASE SeekEnd
    BY <2>1, <2>2 DEF SeekEnd
  <2>3. CASE ~SeekEnd
    <3>1. \A o : Refused(o) \/ Killed(o) => finished' = finished
      BY DEF Refused, Killed, Gone
    <3>2. \A d : Gone(d) => finished' = finished
      BY DEF Gone
    <3>3. \A at, c, next : Patch(at, c, next) => finished' = finished
      BY DEF Patch
    <3>4. Create \/ FlushRecord \/ FinalizeRecord \/ FinalizeTrailer \/ FinalizeFlush
            => finished' = finished
      BY <3>1 DEF Create, FlushRecord, FinalizeRecord, FinalizeTrailer, FinalizeFlush
    <3>5. \A e \in Event : AppendRaw(e) => finished' = finished
      BY <3>1 DEF AppendRaw
    <3>6. \A b \in Batch, w \in Word : WriteRecord(b, w) => finished' = finished
      BY <3>1 DEF WriteRecord
    <3>7. /\ \A w \in Word : SetUserWord(w) => finished' = finished
          /\ \A who \in {"finish", "drop"} : Finalize(who) => finished' = finished
          /\ UNCHANGED vars => finished' = finished
      BY DEF SetUserWord, Finalize, vars
    <3>8. PatchTrailerPos \/ PatchBitInfo \/ DropFile \/ Crash => finished' = finished
      BY <3>2, <3>3 DEF PatchTrailerPos, PatchBitInfo, DropFile, Crash
    <3> QED BY <2>1, <2>3, <3>4, <3>5, <3>6, <3>7, <3>8 DEF Next
  <2> QED BY <2>2, <2>3
<1> QED BY <1>2, <1>3

(* Every step keeps the invariant, and undamaged does to the log what an   *)
(* event log may.                                                          *)
LEMMA WholeStep ==
  ASSUME RInv, [Next]_vars, ~damaged'
  PROVE  Whole' /\ (UNCHANGED vars \/ Moves)
<1>1. CASE Create
  BY <1>1, WholeCreate
<1>2. ASSUME NEW e \in Event, AppendRaw(e) PROVE Whole' /\ Moves
  BY <1>2, WholeAppend
<1>3. CASE FlushRecord
  BY <1>3, WholeFlushRecord
<1>4. ASSUME NEW batch \in Batch, NEW w \in Word, WriteRecord(batch, w) PROVE Whole' /\ Moves
  BY <1>4, WholeWriteRecord
<1>5. ASSUME NEW w \in Word, SetUserWord(w) PROVE Whole' /\ Moves
  <2>1. pc = "open" /\ UNCHANGED <<file, index_entries, cursor, pc, damaged>>
    BY <1>5 DEF SetUserWord
  <2>2. builder'.evs = builder.evs
    <3>1. builder \in [evs: Seq(Event), bytes: Nat, user_word: Word]
      BY DEF RInv, IInv, TInv, TypeOK
    <3> QED BY <1>5, <3>1 DEF SetUserWord
  <2>3. Whole' /\ Stored' = Stored
    BY <2>1, WholeQuiet
  <2> QED BY <2>1, <2>2, <2>3 DEF Moves, Done
<1>6. ASSUME NEW who \in {"finish", "drop"}, Finalize(who) PROVE Whole' /\ Moves
  <2>1. pc = "open" /\ pc' = "flush_record" /\ UNCHANGED <<file, builder, index_entries, cursor, damaged>>
    BY <1>6 DEF Finalize
  <2>2. Whole' /\ Stored' = Stored
    BY <2>1, WholeQuiet
  <2> QED BY <2>1, <2>2 DEF Moves, Done
<1>7. CASE FinalizeRecord
  BY <1>7, WholeFinalizeRecord
<1>8. CASE FinalizeTrailer
  BY <1>8, WholeFinalizeTrailer
<1>9. CASE FinalizeFlush
  BY <1>9, WholeFinalizeFlush
<1>10. CASE PatchTrailerPos \/ PatchBitInfo
  BY <1>10, WholePatches
<1>11. CASE SeekEnd
  BY <1>11, WholeSeek
<1>12. CASE DropFile
  BY <1>12, WholeDropFile
<1>13. CASE Crash
  BY <1>13, WholeCrash
<1>14. CASE UNCHANGED vars
  <2>1. UNCHANGED <<file, builder, index_entries, cursor, pc, damaged>>
    BY <1>14 DEF vars
  <2>2. Stream' = Stream /\ trailer_pos' = trailer_pos
    BY <2>1 DEF Stream, trailer_pos
  <2> QED BY <1>14, <2>1, <2>2 DEF RInv, Whole, Kept
<1> QED BY <1>1, <1>2, <1>3, <1>4, <1>5, <1>6, <1>7, <1>8, <1>9, <1>10, <1>11, <1>12, <1>13, <1>14
        DEF Next

(***************************************************************************)
(* The theorems.                                                           *)
(***************************************************************************)

(* The invariant holds when a writer is made.                              *)
LEMMA ReadInit == Init => RInv
<1> SUFFICES ASSUME Init PROVE RInv
  OBVIOUS
<1>1. IInv
  BY InvInit
<1>2. pc = "new" /\ finished = FALSE
  BY DEF Init
<1> QED BY <1>1, <1>2 DEF RInv, Whole

(* Every step keeps the invariant.                                         *)
LEMMA ReadStep == RInv /\ [Next]_vars => RInv'
<1> SUFFICES ASSUME RInv, [Next]_vars PROVE RInv'
  OBVIOUS
<1>1. IInv'
  BY InvStep DEF RInv
<1>2. Whole'
  <2>1. CASE ~damaged'
    BY <2>1, WholeStep
  <2>2. CASE damaged'
    BY <2>2 DEF Whole
  <2> QED BY <2>1, <2>2
<1>3. finished' => pc' = "closed"
  BY FinishedStep
<1> QED BY <1>1, <1>2, <1>3 DEF RInv

(* The invariant holds in every state.                                     *)
LEMMA ReadAlways == Spec => []RInv
  BY ReadInit, ReadStep, PTL DEF Spec

(* While the writer lives, whatever has failed by then short of a torn     *)
(* write, the data events that a normal open gets out of the file on disk  *)
(* so far are the first of those in the records handed over, in order:     *)
(* none is invented, skipped or moved (OpenReadsAPrefix).                  *)
THEOREM OpensAPrefix == Spec => []OpenReadsAPrefix
  BY ReadAlways, OpenPrefix, PTL

(* A file that was finished without damage opens by its trailer and holds  *)
(* every event of every record, with no condition on the dictionary        *)
(* (finish, FileIndex and open_inner).                                     *)
THEOREM FinishedOpensWhole ==
  Spec => [](finished /\ ~damaged =>
               Open(file.disk).ok /\ EventsOf(file.disk, Open(file.disk)) = Stored)
<1>1. RInv => (finished /\ ~damaged =>
                 Open(file.disk).ok /\ EventsOf(file.disk, Open(file.disk)) = Stored)
  BY FinishedOpens
<1> QED BY <1>1, ReadAlways, PTL

(* And it reads back as the same events by a scan that stops at the        *)
(* trailer and by salvage (FinishedReadsBack). The hypothesis is what lets *)
(* the code tell a dictionary record from data: salvage asks whether it    *)
(* yields schemas (inner.rs:130), so a dictionary record of tags alone     *)
(* must hold no event.                                                     *)
THEOREM ReadsBack == HasSchemas \/ DictEvents = 0 => (Spec => []FinishedReadsBack)
<1> SUFFICES ASSUME HasSchemas \/ DictEvents = 0 PROVE Spec => []FinishedReadsBack
  OBVIOUS
<1>1. RInv => FinishedReadsBack
  BY FinishedBack
<1> QED BY <1>1, ReadAlways, PTL

(* Stopped at any instant, the writer loses no record that was wholly on   *)
(* disk: salvage finds the events of every one of them, with or without    *)
(* the file header (SalvageFindsWholeRecords), under the same hypothesis.  *)
THEOREM SalvagesWholeRecords ==
  HasSchemas \/ DictEvents = 0 => (Spec => []SalvageFindsWholeRecords)
<1> SUFFICES ASSUME HasSchemas \/ DictEvents = 0 PROVE Spec => []SalvageFindsWholeRecords
  OBVIOUS
<1>1. RInv => SalvageFindsWholeRecords
  BY SalvageWhole
<1> QED BY <1>1, ReadAlways, PTL

(* The abstract state before and after a step.                             *)
LEMMA LogInit == Init => Log!Init
<1> SUFFICES ASSUME Init PROVE Log!Init
  OBVIOUS
<1>1. pc = "new" /\ index_entries = << >> /\ builder.evs = << >>
  BY DEF Init, EmptyBuilder
<1>2. Stored = << >>
  <2>1. Stream \in Seq(Cell)
    BY InvInit, DiskBegins DEF IInv
  <2> QED BY <1>1, <2>1, StoredNone DEF Stored
<1>3. (pc \notin Done) = TRUE
  BY <1>1 DEF Done
<1> QED BY <1>1, <1>2, <1>3 DEF Log!Init

(* Every undamaged step of the writer is a step of the log or leaves it as *)
(* it is.                                                                  *)
LEMMA LogStep ==
  RInv /\ ~damaged /\ (~damaged)' /\ [Next]_vars => [Log!Next]_(Log!vars)
<1> SUFFICES ASSUME RInv, ~damaged, ~damaged', [Next]_vars PROVE [Log!Next]_(Log!vars)
  OBVIOUS
<1>1. UNCHANGED vars \/ Moves
  BY WholeStep
<1>2. CASE UNCHANGED vars
  <2>1. UNCHANGED <<file, builder, index_entries, pc>>
    BY <1>2 DEF vars
  <2>2. Stored' = Stored
    BY <2>1, StoredKept DEF Stream
  <2> QED BY <2>1, <2>2 DEF Log!vars
<1>3. CASE pc \notin Done /\ pc' \notin Done
  <2>1. pc # "gone" /\ pc' # "gone"
    BY <1>3 DEF Done
  <2>2. CASE Stored' = Stored /\ builder'.evs = builder.evs
    BY <1>3, <2>1, <2>2 DEF Log!vars
  <2>3. ASSUME NEW e \in Event, Stored' = Stored /\ builder'.evs = Append(builder.evs, e)
        PROVE  Log!Next
    <3>1. Log!Append1(e)
      BY <1>3, <2>1, <2>3, Zenon DEF Log!Append1
    <3> QED BY <3>1 DEF Log!Next
  <2>4. ASSUME NEW e \in Event, Follow(Stored, builder.evs, Stored') /\ builder'.evs = <<e>>
        PROVE  Log!Next
    <3>1. Log!Append1(e)
      BY <1>3, <2>1, <2>4, Zenon DEF Log!Append1, Follow
    <3> QED BY <3>1 DEF Log!Next
  <2>5. CASE Follow(Stored, builder.evs, Stored') /\ builder'.evs = << >>
    <3>1. Log!Store
      BY <1>3, <2>1, <2>5, Zenon DEF Log!Store, Follow
    <3> QED BY <3>1 DEF Log!Next
  <2>6. ASSUME NEW b \in Batch, Follow(Stored, b.evs, Stored') /\ builder'.evs = builder.evs
        PROVE  Log!Next
    <3>1. Log!StoreBatch(b.evs)
      BY <1>3, <2>1, <2>6, Zenon DEF Log!StoreBatch, Follow
    <3> QED BY <3>1 DEF Log!Next
  <2> QED BY <1>1, <1>2, <1>3, <2>2, <2>3, <2>4, <2>5, <2>6 DEF Moves, Done
<1>4. pc \notin Done => Stored \in Seq(Event)
  <2>1. pc \notin Done => \A i \in 1..Len(index_entries) : RowMatches(index_entries[i], Stream)
    BY DEF RInv, IInv, Healthy
  <2> QED BY <2>1, StoredIs DEF RInv, IInv
<1>5. CASE /\ pc \notin Done /\ pc' = "closed" /\ Stored' = Stored
           /\ builder.evs = << >> /\ builder'.evs = << >>
  <2>1. pc # "gone" /\ pc' # "gone" /\ pc' \in Done
    BY <1>5 DEF Done
  <2>2. Stored \o << >> = Stored
    BY <1>5, <1>4
  <2>3. Log!Close
    BY <1>5, <2>1, <2>2, Zenon DEF Log!Close
  <2> QED BY <2>3 DEF Log!Next
<1>6. CASE /\ pc \notin Done /\ pc' = "gone" /\ builder'.evs = << >>
           /\ Remains(file'.disk, Stored)
  <2>1. pc # "gone" /\ pc' \in Done
    BY <1>6 DEF Done
  <2>2. Log!IsPrefix(DataOf(file'.disk, Salvage(file'.disk)), Stored \o builder.evs)
    <3>1. PICK x, y, z : x = DataOf(file'.disk, Salvage(file'.disk)) /\ y = Stored /\ z = builder.evs
      OBVIOUS
    <3>2. x \in Seq(Event) /\ IsPrefix(x, y)
      BY <1>6, <3>1 DEF Remains
    <3>3. y \in Seq(Event) /\ z \in Seq(Event)
      BY <1>6, <1>4, <3>1 DEF RInv, IInv, TInv, TypeOK
    <3>4. IsPrefix(x, y \o z)
      BY <3>2, <3>3, PrefixGrows
    <3>5. Log!IsPrefix(x, y \o z)
      BY <3>4 DEF IsPrefix, Log!IsPrefix
    <3> QED BY <3>1, <3>5, Zenon
  <2>3. Log!Lose
    BY <1>6, <2>1, <2>2, Zenon DEF Log!Lose
  <2> QED BY <2>3 DEF Log!Next
<1> QED BY <1>1, <1>2, <1>3, <1>5, <1>6 DEF Moves

(* The writer implements the event log (WritesAnEventLog), for every size  *)
(* of its buffer, record and event, as long as no write is torn over cells *)
(* that are already on disk.                                               *)
THEOREM RefinesEventLog == Spec /\ []~damaged => WritesAnEventLog
  BY LogInit, LogStep, ReadAlways, PTL DEF Spec, WritesAnEventLog

(* A write torn is one of those cells written directly, or a patch.        *)
LEMMA OnlyDirectTears ==
  ASSUME NEW f, NEW new, NEW o, o \in WriteAll(f, new) \cup Flush(f), o.kind = "flush"
  PROVE  o.torn = FALSE
<1>1. ASSUME o \in BrokenFlush(f) PROVE o.torn = FALSE
  BY <1>1, BrokenFlushCases DEF Outcome
<1>2. ASSUME NEW g, o \in BrokenDirect(g, new) PROVE FALSE
  <2>1. o.kind = "direct"
    BY <1>2, BrokenDirectCases DEF Outcome
  <2> QED BY <2>1
<1>3. \A r, k, g : Outcome(r, k, g, FALSE).torn = FALSE
  BY DEF Outcome
<1> QED BY <1>1, <1>2, <1>3, Zenon DEF WriteAll, Flush

(* With no faults but those of flushes, no step damages the file.          *)
LEMMA UnharmedStep ==
  FaultKinds \subseteq {"flush"} => (damaged = FALSE /\ [Next]_vars => damaged' = FALSE)
<1> SUFFICES ASSUME FaultKinds \subseteq {"flush"}, damaged = FALSE, [Next]_vars
             PROVE  damaged' = FALSE
  OBVIOUS
<1>1. ASSUME NEW f, NEW new, NEW o, o \in WriteAll(f, new) \cup Flush(f), o.kind \in FaultKinds,
             damaged' = (damaged \/ o.torn)
      PROVE  damaged' = FALSE
  <2>1. o.kind = "flush"
    BY <1>1
  <2>2. o.torn = FALSE
    BY <1>1, <2>1, OnlyDirectTears
  <2> QED BY <1>1, <2>2
<1>2. ASSUME NEW f, NEW new, NEW o, o \in WriteAll(f, new) \cup Flush(f),
             Written(o) \/ Refused(o) \/ Killed(o)
      PROVE  damaged' = FALSE
  <2>1. CASE Written(o) \/ Killed(o)
    BY <2>1 DEF Written, Killed, Gone
  <2>2. CASE Refused(o)
    BY <1>1, <1>2, <2>2 DEF Refused
  <2> QED BY <1>2, <2>1, <2>2
<1>3. \A at, c, next : Patch(at, c, next) => damaged' = FALSE
  BY DEF Patch
<1>4. CASE Create
  <2>1. PICK f : f = [file EXCEPT !.buf = FileHeader]
    OBVIOUS
  <2>2. PICK o \in WriteAll(f, Cells(DictRecord)) :
           \/ Written(o)
           \/ o.kind \in FaultKinds /\ damaged' = (damaged \/ o.torn)
           \/ Killed(o)
    BY <1>4, <2>1 DEF Create
  <2> QED BY <1>1, <1>2, <2>2
<1>5. ASSUME NEW e \in Event, AppendRaw(e) PROVE damaged' = FALSE
  BY <1>2, <1>5 DEF AppendRaw
<1>6. CASE FlushRecord
  BY <1>2, <1>6 DEF FlushRecord
<1>7. ASSUME NEW b \in Batch, NEW w \in Word, WriteRecord(b, w) PROVE damaged' = FALSE
  BY <1>2, <1>7 DEF WriteRecord
<1>8. CASE FinalizeRecord
  BY <1>2, <1>8 DEF FinalizeRecord
<1>9. CASE FinalizeTrailer
  BY <1>2, <1>9 DEF FinalizeTrailer
<1>10. CASE FinalizeFlush
  BY <1>2, <1>10 DEF FinalizeFlush
<1>11. CASE PatchTrailerPos \/ PatchBitInfo
  BY <1>3, <1>11 DEF PatchTrailerPos, PatchBitInfo
<1>12. CASE SeekEnd \/ DropFile \/ Crash \/ UNCHANGED vars
  BY <1>12 DEF SeekEnd, DropFile, Crash, Gone, vars
<1>13. /\ \A w \in Word : SetUserWord(w) => damaged' = FALSE
       /\ \A who \in {"finish", "drop"} : Finalize(who) => damaged' = FALSE
  BY DEF SetUserWord, Finalize
<1> QED BY <1>4, <1>5, <1>6, <1>7, <1>8, <1>9, <1>10, <1>11, <1>12, <1>13 DEF Next

(* When the only errors are those of flushes of the buffer, the writer     *)
(* implements the event log without a further condition: an error of a     *)
(* flush tears nothing that is told.                                       *)
THEOREM RefinesWithFlushFaults ==
  FaultKinds \subseteq {"flush"} => (Spec => WritesAnEventLog)
<1> SUFFICES ASSUME FaultKinds \subseteq {"flush"} PROVE Spec => WritesAnEventLog
  OBVIOUS
<1>1. Init => damaged = FALSE
  BY DEF Init
<1>2. damaged = FALSE /\ [Next]_vars => (damaged = FALSE)'
  BY UnharmedStep
<1>3. damaged = FALSE => ~damaged
  OBVIOUS
<1>4. Spec => []~damaged
  BY <1>1, <1>2, <1>3, PTL DEF Spec
<1> QED BY <1>4, RefinesEventLog, PTL
=============================================================================
