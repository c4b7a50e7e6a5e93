---------------------------- MODULE ChainProofs ----------------------------
(***************************************************************************)
(* Proofs about the numbering of a chain: its running totals, the binary   *)
(* search that resolves an event number, and that the two together find    *)
(* the event a count through the files finds.                              *)
(***************************************************************************)
EXTENDS Chain, ListProofs

(* The binary search, of a slice whose first k alone satisfy the           *)
(* predicate.                                                              *)
LEMMA PartitionPointIs ==
  ASSUME NEW n \in Nat, NEW p, DOMAIN p = 1..n, NEW k \in 0..n,
         \A i \in 1..n : p[i] <=> i <= k
  PROVE  PartitionPoint(p) = k
<1>1. {i \in DOMAIN p : p[i]} = 1..k
  OBVIOUS
<1>2. Cardinality(1..k) = k
  BY FS_Interval
<1> QED BY <1>1, <1>2 DEF PartitionPoint
-----------------------------------------------------------------------------
(* The counts the totals of the chain are made of.                         *)
EventCounts(fi) == [ri \in 1..Len(Files[fi]) |-> Files[fi][ri].event_count]
TotalCounts == [fi \in 1..Len(Files) |-> TotalEvents(fi)]

(* Chain assumption, spelled out: the files and records are finite         *)
(* sequences, numbered from 1.                                             *)
LEMMA FilesShape ==
  /\ Len(Files) \in Nat
  /\ DOMAIN Files = 1..Len(Files)
  /\ \A fi \in 1..Len(Files) :
       /\ Files[fi] \in Seq(Record)
       /\ Len(Files[fi]) \in Nat
       /\ DOMAIN Files[fi] = 1..Len(Files[fi])
       /\ \A ri \in 1..Len(Files[fi]) : Files[fi][ri] \in Record
<1>1. \A s \in Seq(Seq(Record)) : Len(s) \in Nat /\ DOMAIN s = 1..Len(s) /\ \A i \in 1..Len(s) : s[i] \in Seq(Record)
  OBVIOUS
<1>2. \A s \in Seq(Record) : Len(s) \in Nat /\ DOMAIN s = 1..Len(s) /\ \A i \in 1..Len(s) : s[i] \in Record
  OBVIOUS
<1> QED BY <1>1, <1>2, ChainAssumption

(* A record's count of events is a number.                                 *)
LEMMA EventCountNat ==
  ASSUME NEW fi \in 1..Len(Files), NEW ri \in 1..Len(Files[fi])
  PROVE  Files[fi][ri].event_count \in Nat
BY FilesShape DEF Record

(* So are all those of a file.                                             *)
LEMMA EventCountsType ==
  ASSUME NEW fi \in 1..Len(Files)
  PROVE  EventCounts(fi) \in [1..Len(Files[fi]) -> Nat]
BY FilesShape DEF EventCounts, Record

(* FileEventIndex: first of file fi is the running total of its records'   *)
(* event counts.                                                           *)
LEMMA FirstEventIsTotal ==
  ASSUME NEW fi \in 1..Len(Files)
  PROVE  IsTotal(FirstEvent[fi], EventCounts(fi), Len(Files[fi]))
<1> DEFINE n == Len(Files[fi])
           Counted(f) == f = [ri \in 1..n + 1 |->
                                IF ri = 1 THEN 0 ELSE f[ri - 1] + Files[fi][ri - 1].event_count]
<1>1. n \in Nat
  BY FilesShape
<1>2. \A f : IsTotal(f, EventCounts(fi), n) => Counted(f)
  <2> SUFFICES ASSUME NEW f, IsTotal(f, EventCounts(fi), n) PROVE Counted(f)
    OBVIOUS
  <2>1. \A ri \in 1..n + 1 : ri # 1 => ri - 1 \in 1..n
    BY <1>1
  <2>2. \A ri \in 1..n + 1 : ri # 1 => EventCounts(fi)[ri - 1] = Files[fi][ri - 1].event_count
    BY <2>1 DEF EventCounts
  <2> QED BY <2>2 DEF IsTotal
<1>3. \A f : Counted(f) => IsTotal(f, EventCounts(fi), n)
  <2> SUFFICES ASSUME NEW f, Counted(f) PROVE IsTotal(f, EventCounts(fi), n)
    OBVIOUS
  <2>1. \A ri \in 1..n + 1 : ri # 1 => ri - 1 \in 1..n
    BY <1>1
  <2>2. \A ri \in 1..n + 1 : ri # 1 => EventCounts(fi)[ri - 1] = Files[fi][ri - 1].event_count
    BY <2>1 DEF EventCounts
  <2> QED BY <2>2 DEF IsTotal
<1>4. FirstEvent[fi] = CHOOSE f : Counted(f)
  BY FilesShape DEF FirstEvent
<1>5. \E f : IsTotal(f, EventCounts(fi), n)
  BY <1>1, EventCountsType, TotalExists
<1> HIDE DEF Counted, n
<1>6. Counted(CHOOSE f : Counted(f))
  BY <1>2, <1>5
<1> QED BY <1>3, <1>4, <1>6 DEF n

(* The events of each file are a number.                                   *)
LEMMA TotalCountsType == TotalCounts \in [1..Len(Files) -> Nat]
<1> SUFFICES ASSUME NEW fi \in 1..Len(Files) PROVE TotalEvents(fi) \in Nat
  BY DEF TotalCounts
<1>1. Len(Files[fi]) \in Nat
  BY FilesShape
<1>2. FirstEvent[fi] \in [1..Len(Files[fi]) + 1 -> Nat]
  BY <1>1, EventCountsType, FirstEventIsTotal, TotalSteps
<1> QED BY <1>1, <1>2 DEF TotalEvents

(* from_inners: the offsets of the files are the running total of their    *)
(* events.                                                                 *)
LEMMA OffsetsAreTotal == IsTotal(file_event_offsets, TotalCounts, Len(Files))
<1> DEFINE n == Len(Files)
           Counted(f) == f = [fi \in 1..n + 1 |->
                                IF fi = 1 THEN 0 ELSE f[fi - 1] + TotalEvents(fi - 1)]
<1>1. n \in Nat
  BY FilesShape
<1>2. \A fi \in 1..n + 1 : fi # 1 => TotalCounts[fi - 1] = TotalEvents(fi - 1)
  <2>1. \A fi \in 1..n + 1 : fi # 1 => fi - 1 \in 1..n
    BY <1>1
  <2> QED BY <2>1 DEF TotalCounts
<1>3. \A f : IsTotal(f, TotalCounts, n) <=> Counted(f)
  BY <1>2 DEF IsTotal
<1>4. file_event_offsets = CHOOSE f : Counted(f)
  BY DEF file_event_offsets
<1>5. \E f : IsTotal(f, TotalCounts, n)
  BY <1>1, TotalCountsType, TotalExists
<1> HIDE DEF Counted, n
<1> QED BY <1>3, <1>4, <1>5 DEF n
-----------------------------------------------------------------------------
(* The index of a file, step by step.                                      *)
LEMMA FirstEventSteps ==
  ASSUME NEW fi \in 1..Len(Files)
  PROVE  /\ FirstEvent[fi] \in [1..Len(Files[fi]) + 1 -> Nat]
         /\ FirstEvent[fi][1] = 0
         /\ \A ri \in 1..Len(Files[fi]) :
              FirstEvent[fi][ri + 1] = FirstEvent[fi][ri] + Files[fi][ri].event_count
         /\ TotalEvents(fi) \in Nat
<1>1. Len(Files[fi]) \in Nat
  BY FilesShape
<1>2. /\ FirstEvent[fi] \in [1..Len(Files[fi]) + 1 -> Nat]
      /\ FirstEvent[fi][1] = 0
      /\ \A ri \in 1..Len(Files[fi]) :
           FirstEvent[fi][ri + 1] = FirstEvent[fi][ri] + EventCounts(fi)[ri]
  BY <1>1, EventCountsType, FirstEventIsTotal, TotalSteps
<1>3. TotalEvents(fi) \in Nat
  <2>1. Len(Files[fi]) + 1 \in 1..Len(Files[fi]) + 1
    BY <1>1
  <2> QED BY <1>2, <2>1 DEF TotalEvents
<1>4. \A ri \in 1..Len(Files[fi]) : EventCounts(fi)[ri] = Files[fi][ri].event_count
  BY DEF EventCounts
<1> QED BY <1>2, <1>3, <1>4

(* from_inners: each file begins where the one before ends.                *)
LEMMA OffsetSteps ==
  /\ file_event_offsets \in [1..Len(Files) + 1 -> Nat]
  /\ file_event_offsets[1] = 0
  /\ \A fi \in 1..Len(Files) :
       file_event_offsets[fi + 1] = file_event_offsets[fi] + TotalEvents(fi)
  /\ Total \in Nat
<1>1. Len(Files) \in Nat
  BY FilesShape
<1>2. /\ file_event_offsets \in [1..Len(Files) + 1 -> Nat]
      /\ file_event_offsets[1] = 0
      /\ \A fi \in 1..Len(Files) :
           file_event_offsets[fi + 1] = file_event_offsets[fi] + TotalCounts[fi]
  BY <1>1, TotalCountsType, OffsetsAreTotal, TotalSteps
<1> QED BY <1>1, <1>2 DEF TotalCounts, Total

(* An event number of a file is located in the one record it falls in.     *)
LEMMA LocateIs ==
  ASSUME NEW fi \in 1..Len(Files), NEW local \in Nat, local < TotalEvents(fi)
  PROVE  \E ri \in 1..Len(Files[fi]), k \in Nat :
           /\ k \in 1..Files[fi][ri].event_count
           /\ local + 1 = FirstEvent[fi][ri] + k
           /\ Locate(fi, local) = [file |-> fi, record |-> ri, event |-> k]
<1> DEFINE n == Len(Files[fi])
           first == FirstEvent[fi]
           counts == EventCounts(fi)
           p == [r \in DOMAIN Files[fi] |-> first[r] <= local]
<1>1. /\ n \in Nat /\ DOMAIN Files[fi] = 1..n /\ counts \in [1..n -> Nat]
      /\ IsTotal(first, counts, n) /\ local < first[n + 1]
  BY FilesShape, EventCountsType, FirstEventIsTotal DEF TotalEvents
<1>2. \A ri \in 1..n : counts[ri] = Files[fi][ri].event_count
  BY DEF EventCounts
<1>3. DOMAIN p = 1..n /\ \A i \in 1..n : p[i] <=> first[i] <= local
  BY <1>1
<1>4. TotalEvents(fi) \in Nat /\ ~(local >= TotalEvents(fi))
  BY FirstEventSteps
<1>5. Locate(fi, local) = [file |-> fi, record |-> PartitionPoint(p),
                           event |-> local - first[PartitionPoint(p)] + 1]
  BY <1>4 DEF Locate
<1> HIDE DEF n, first, counts, p
<1>6. PICK ri \in 1..n : /\ first[ri] <= local /\ local < first[ri] + counts[ri]
                         /\ \A i \in 1..n + 1 : first[i] <= local <=> i <= ri
  BY <1>1, Within
<1>7. first[ri] \in Nat /\ counts[ri] \in Nat
  <2>1. first \in [1..n + 1 -> Nat]
    BY <1>1, TotalSteps
  <2> QED BY <1>1, <2>1
<1>8. PartitionPoint(p) = ri
  <2>1. \A i \in 1..n : p[i] <=> i <= ri
    BY <1>1, <1>3, <1>6
  <2>2. ri \in 0..n
    BY <1>1
  <2> QED BY <1>1, <1>3, <2>1, <2>2, PartitionPointIs
<1> DEFINE k == local - first[ri] + 1
<1>9. k \in Nat /\ k \in 1..counts[ri] /\ local + 1 = first[ri] + k
  BY <1>6, <1>7
<1> HIDE DEF k
<1>10. Locate(fi, local) = [file |-> fi, record |-> ri, event |-> k]
  BY <1>5, <1>8 DEF k
<1> QED BY <1>2, <1>9, <1>10 DEF n, first

(* An event number is resolved to the one place whose number it is, and to *)
(* none past the end of the chain.                                         *)
LEMMA ResolveIs ==
  ASSUME NEW idx \in Nat
  PROVE  /\ idx >= Total => Resolve(idx) = Nowhere
         /\ idx < Total =>
              \E fi \in 1..Len(Files) : \E ri \in 1..Len(Files[fi]), k \in Nat :
                /\ k \in 1..Files[fi][ri].event_count
                /\ idx + 1 = file_event_offsets[fi] + FirstEvent[fi][ri] + k
                /\ Resolve(idx) = [file |-> fi, record |-> ri, event |-> k]
<1> DEFINE n == Len(Files)
           offset == file_event_offsets
           p == [f \in DOMAIN offset |-> offset[f] <= idx]
<1>1. n \in Nat /\ TotalCounts \in [1..n -> Nat] /\ IsTotal(offset, TotalCounts, n)
  BY FilesShape, TotalCountsType, OffsetsAreTotal
<1>2. offset \in [1..n + 1 -> Nat] /\ Total = offset[n + 1]
  BY OffsetSteps DEF Total
<1>3. DOMAIN p = 1..n + 1 /\ \A i \in 1..n + 1 : p[i] <=> offset[i] <= idx
  BY <1>2
<1>4. Resolve(idx) = IF PartitionPoint(p) > n THEN Nowhere
                     ELSE Locate(PartitionPoint(p), idx - offset[PartitionPoint(p)])
  BY DEF Resolve
<1> HIDE DEF n, offset, p
<1>5. ASSUME NEW k \in 1..n + 1, \A i \in 1..n + 1 : offset[i] <= idx <=> i <= k
      PROVE  PartitionPoint(p) = k
  <2>1. n + 1 \in Nat /\ k \in 0..n + 1
    BY <1>1
  <2>2. \A i \in 1..n + 1 : p[i] <=> i <= k
    BY <1>3, <1>5
  <2> QED BY <1>3, <2>1, <2>2, PartitionPointIs
<1>6. ASSUME idx >= Total PROVE Resolve(idx) = Nowhere
  <2>1. PICK k \in 1..n + 1 : \A i \in 1..n + 1 : offset[i] <= idx <=> i <= k
    BY <1>1, TotalsUpTo
  <2>2. k = n + 1
    <3>1. n + 1 \in 1..n + 1 /\ offset[n + 1] <= idx
      BY <1>1, <1>2, <1>6
    <3> QED BY <1>1, <2>1, <3>1
  <2>3. PartitionPoint(p) = n + 1
    BY <1>5, <2>1, <2>2
  <2> QED BY <1>1, <1>4, <2>3
<1>7. ASSUME idx < Total
      PROVE  \E fi \in 1..n : \E ri \in 1..Len(Files[fi]), k \in Nat :
               /\ k \in 1..Files[fi][ri].event_count
               /\ idx + 1 = offset[fi] + FirstEvent[fi][ri] + k
               /\ Resolve(idx) = [file |-> fi, record |-> ri, event |-> k]
  <2>1. PICK fi \in 1..n : /\ offset[fi] <= idx /\ idx < offset[fi] + TotalCounts[fi]
                           /\ \A i \in 1..n + 1 : offset[i] <= idx <=> i <= fi
    BY <1>1, <1>2, <1>7, Within
  <2>2. PartitionPoint(p) = fi
    BY <1>1, <1>5, <2>1
  <2> DEFINE local == idx - offset[fi]
  <2>3. Resolve(idx) = Locate(fi, local)
    BY <1>1, <1>4, <2>2
  <2>4. offset[fi] \in Nat /\ TotalCounts[fi] = TotalEvents(fi) /\ TotalEvents(fi) \in Nat
    BY <1>1, <1>2, FirstEventSteps DEF TotalCounts, n
  <2>5. local \in Nat /\ local < TotalEvents(fi) /\ idx = offset[fi] + local
    BY <2>1, <2>4
  <2> HIDE DEF local
  <2>6. PICK ri \in 1..Len(Files[fi]), k \in Nat :
           /\ k \in 1..Files[fi][ri].event_count
           /\ local + 1 = FirstEvent[fi][ri] + k
           /\ Locate(fi, local) = [file |-> fi, record |-> ri, event |-> k]
    BY <2>5, LocateIs DEF n
  <2>7. FirstEvent[fi][ri] \in Nat
    BY FirstEventSteps, FilesShape DEF n
  <2>8. local + 1 = FirstEvent[fi][ri] + k /\ k \in Nat
    BY <2>6
  <2>9. idx + 1 = offset[fi] + FirstEvent[fi][ri] + k
    <3> DEFINE a == offset[fi]
               b == FirstEvent[fi][ri]
    <3>5. a \in Nat /\ b \in Nat /\ local \in Nat /\ idx = a + local /\ local + 1 = b + k
      BY <2>4, <2>5, <2>7, <2>8
    <3> HIDE DEF a, b
    <3>6. idx + 1 = a + b + k
      BY <3>5
    <3> QED BY <3>6 DEF a, b
  <2> QED BY <2>3, <2>6, <2>9
<1> QED BY <1>6, <1>7 DEF n, offset
-----------------------------------------------------------------------------
(* The sequences AllRecords and Numbering lay one behind the other.        *)
RecordLists == [fi \in DOMAIN Files |-> [ri \in DOMAIN Files[fi] |-> <<fi, ri>>]]
RecordCounts == [fi \in 1..Len(Files) |-> Len(Files[fi])]

EventLists ==
  [i \in DOMAIN AllRecords |->
     [k \in 1..RecordAt(AllRecords[i][1], AllRecords[i][2]).event_count |->
        [file |-> AllRecords[i][1], record |-> AllRecords[i][2], event |-> k]]]
EventListCounts ==
  [i \in 1..Len(AllRecords) |-> RecordAt(AllRecords[i][1], AllRecords[i][2]).event_count]

APlace == [file: Nat, record: Nat, event: Nat]

(* Record ri of file fi is behind the ro[fi] records of the files before.  *)
RecordsBegin(ro) ==
  /\ IsTotal(ro, RecordCounts, Len(Files))
  /\ AllRecords \in Seq(Nat \X Nat)
  /\ Len(AllRecords) = ro[Len(Files) + 1]
  /\ \A fi \in 1..Len(Files) : \A ri \in 1..Len(Files[fi]) :
       AllRecords[ro[fi] + ri] = <<fi, ri>>

(* AllRecords lists the records of the chain file by file.                 *)
LEMMA AllRecordsAre == \E ro : RecordsBegin(ro)
<1> DEFINE n == Len(Files)
<1>1. n \in Nat /\ DOMAIN Files = 1..n
  BY FilesShape
<1>2. RecordCounts \in [1..n -> Nat]
  BY FilesShape DEF RecordCounts
<1>3. ASSUME NEW fi \in 1..n
      PROVE  /\ RecordLists[fi] = [ri \in 1..Len(Files[fi]) |-> <<fi, ri>>]
             /\ RecordLists[fi] \in Seq(Nat \X Nat)
             /\ Len(RecordLists[fi]) = Len(Files[fi])
  <2> DEFINE m == Len(Files[fi])
             s == [ri \in 1..m |-> <<fi, ri>>]
  <2>1. m \in Nat /\ DOMAIN Files[fi] = 1..m
    BY FilesShape
  <2>2. RecordLists[fi] = s
    BY <1>1, <2>1 DEF RecordLists
  <2> HIDE DEF m
  <2>3. \A ri \in 1..m : <<fi, ri>> \in Nat \X Nat
    BY <2>1
  <2>4. s \in Seq(Nat \X Nat) /\ Len(s) = m
    BY <2>1, <2>3
  <2> QED BY <2>2, <2>4 DEF m
<1>4. RecordLists \in [1..n -> Seq(Nat \X Nat)]
  BY <1>1, <1>3 DEF RecordLists
<1>5. RecordCounts = [fi \in 1..n |-> Len(RecordLists[fi])]
  BY <1>3 DEF RecordCounts
<1>6. PICK ro : IsTotal(ro, RecordCounts, n)
  BY <1>1, <1>2, TotalExists
<1>7. AllRecords = FlattenSeq(RecordLists)
  BY DEF AllRecords, RecordLists
<1>8. Places(AllRecords, RecordLists, ro, n, Nat \X Nat)
  <2> HIDE DEF n
  <2> QED BY <1>1, <1>4, <1>5, <1>6, <1>7, Flattened
<1>9. ASSUME NEW fi \in 1..n, NEW ri \in 1..Len(Files[fi])
      PROVE  AllRecords[ro[fi] + ri] = <<fi, ri>>
  <2>1. ri \in 1..Len(RecordLists[fi])
    BY <1>3
  <2>2. AllRecords[ro[fi] + ri] = RecordLists[fi][ri]
    BY <1>8, <2>1 DEF Places
  <2> QED BY <1>3, <2>2
<1> QED BY <1>6, <1>8, <1>9 DEF Places, RecordsBegin

(* The place of a record in the list of all records exists.                *)
LEMMA RecordsWithin ==
  ASSUME NEW ro, RecordsBegin(ro),
         NEW fi \in 1..Len(Files), NEW ri \in 1..Len(Files[fi])
  PROVE  ro[fi] + ri \in 1..Len(AllRecords)
<1> DEFINE n == Len(Files)
<1>1. /\ n \in Nat /\ RecordCounts \in [1..n -> Nat]
      /\ RecordCounts[fi] = Len(Files[fi]) /\ Len(Files[fi]) \in Nat
  BY FilesShape DEF RecordCounts
<1>2. IsTotal(ro, RecordCounts, n) /\ Len(AllRecords) = ro[n + 1]
  BY DEF RecordsBegin
<1>3. ro \in [1..n + 1 -> Nat] /\ ro[fi + 1] = ro[fi] + RecordCounts[fi]
  BY <1>1, <1>2, TotalSteps
<1>4. fi \in 1..n + 1 /\ fi + 1 \in 1..n + 1 /\ n + 1 \in 1..n + 1 /\ fi + 1 <= n + 1
  BY <1>1
<1>5. ro[fi + 1] <= ro[n + 1]
  BY <1>1, <1>2, <1>4, TotalMonotone
<1> DEFINE a == ro[fi]
           b == ro[fi + 1]
           l == Len(Files[fi])
           m == Len(AllRecords)
<1>6. a \in Nat /\ l \in Nat /\ b = a + l /\ b <= m /\ m \in Nat
  BY <1>1, <1>2, <1>3, <1>4, <1>5
<1>7. ri \in Nat /\ 1 <= ri /\ ri <= l
  BY <1>1
<1> HIDE DEF a, b, l, m
<1>8. a + ri \in 1..m
  BY <1>6, <1>7
<1> QED BY <1>8 DEF a, m

(* Every entry of AllRecords is a record of the chain, where its file      *)
(* begins and as far behind as it is in the file.                          *)
LEMMA RecordPlaces ==
  ASSUME NEW ro, RecordsBegin(ro), NEW i \in 1..Len(AllRecords)
  PROVE  \E fi \in 1..Len(Files) : \E ri \in 1..Len(Files[fi]) :
           i = ro[fi] + ri /\ AllRecords[i] = <<fi, ri>>
<1> DEFINE n == Len(Files)
<1>1. /\ IsTotal(ro, RecordCounts, n)
      /\ AllRecords \in Seq(Nat \X Nat)
      /\ Len(AllRecords) = ro[n + 1]
      /\ \A fi \in 1..n : \A ri \in 1..Len(Files[fi]) : AllRecords[ro[fi] + ri] = <<fi, ri>>
  BY DEF RecordsBegin
<1>2. n \in Nat /\ RecordCounts \in [1..n -> Nat] /\ \A fi \in 1..n : RecordCounts[fi] = Len(Files[fi])
  BY FilesShape DEF RecordCounts
<1>3. ro \in [1..n + 1 -> Nat]
  BY <1>1, <1>2, TotalSteps
<1>4. i - 1 \in Nat /\ i - 1 < ro[n + 1] /\ i \in Nat
  BY <1>1, <1>2, <1>3
<1>5. PICK fi \in 1..n : ro[fi] <= i - 1 /\ i - 1 < ro[fi] + RecordCounts[fi]
  <2> HIDE DEF n
  <2> QED BY <1>1, <1>2, <1>4, Within DEF n
<1>6. ro[fi] \in Nat /\ RecordCounts[fi] \in Nat
  BY <1>2, <1>3
<1> DEFINE ri == i - ro[fi]
<1>7. ri \in 1..RecordCounts[fi] /\ i = ro[fi] + ri
  BY ONLY <1>4, <1>5, <1>6
<1> HIDE DEF ri
<1>8. ri \in 1..Len(Files[fi])
  BY <1>2, <1>7
<1> QED BY <1>1, <1>7, <1>8

(* The entries of AllRecords, of no particular file.                       *)
LEMMA RecordsExist ==
  /\ AllRecords \in Seq(Nat \X Nat)
  /\ \A i \in 1..Len(AllRecords) :
       /\ AllRecords[i][1] \in 1..Len(Files)
       /\ AllRecords[i][2] \in 1..Len(Files[AllRecords[i][1]])
<1>1. PICK ro : RecordsBegin(ro)
  BY AllRecordsAre
<1>2. AllRecords \in Seq(Nat \X Nat)
  BY <1>1 DEF RecordsBegin
<1>3. \A i \in 1..Len(AllRecords) :
        \E fi \in 1..Len(Files) : \E ri \in 1..Len(Files[fi]) : AllRecords[i] = <<fi, ri>>
  BY <1>1, RecordPlaces
<1> QED BY <1>2, <1>3

(* The records of the chain are those of its files.                        *)
LEMMA RecordsOfFiles ==
  \A x : x \in ToSet(AllRecords) <=>
           \E fi \in 1..Len(Files) : \E ri \in 1..Len(Files[fi]) : x = <<fi, ri>>
<1>1. AllRecords \in Seq(Nat \X Nat) /\ DOMAIN AllRecords = 1..Len(AllRecords)
  BY RecordsExist
<1>2. ASSUME NEW i \in 1..Len(AllRecords)
      PROVE  \E fi \in 1..Len(Files) : \E ri \in 1..Len(Files[fi]) : AllRecords[i] = <<fi, ri>>
  <2>1. AllRecords[i] \in Nat \X Nat
    BY <1>1
  <2>2. AllRecords[i] = <<AllRecords[i][1], AllRecords[i][2]>>
    BY <2>1
  <2> QED BY <2>2, RecordsExist
<1>3. ASSUME NEW fi \in 1..Len(Files), NEW ri \in 1..Len(Files[fi])
      PROVE  \E i \in 1..Len(AllRecords) : AllRecords[i] = <<fi, ri>>
  <2>1. PICK ro : RecordsBegin(ro)
    BY AllRecordsAre
  <2>2. ro[fi] + ri \in 1..Len(AllRecords)
    BY <2>1, RecordsWithin
  <2>3. AllRecords[ro[fi] + ri] = <<fi, ri>>
    BY <2>1 DEF RecordsBegin
  <2> QED BY <2>2, <2>3
<1>4. \A x : x \in ToSet(AllRecords) <=> \E i \in 1..Len(AllRecords) : x = AllRecords[i]
  BY <1>1 DEF ToSet
<1>5. ASSUME NEW x, x \in ToSet(AllRecords)
      PROVE  \E fi \in 1..Len(Files) : \E ri \in 1..Len(Files[fi]) : x = <<fi, ri>>
  <2>1. PICK i \in 1..Len(AllRecords) : x = AllRecords[i]
    BY <1>4, <1>5
  <2> QED BY <1>2, <2>1
<1>6. ASSUME NEW x, NEW fi \in 1..Len(Files), NEW ri \in 1..Len(Files[fi]), x = <<fi, ri>>
      PROVE  x \in ToSet(AllRecords)
  <2>1. PICK i \in 1..Len(AllRecords) : AllRecords[i] = <<fi, ri>>
    BY <1>3
  <2> QED BY <1>4, <1>6, <2>1
<1> QED BY <1>5, <1>6

(* Counted through, the events before record ri of file fi are as many as  *)
(* the index of the file and the offsets of the files say.                 *)
LEMMA Aligned ==
  ASSUME NEW ro, RecordsBegin(ro),
         NEW no, IsTotal(no, EventListCounts, Len(AllRecords))
  PROVE  /\ no[Len(AllRecords) + 1] = Total
         /\ \A fi \in 1..Len(Files) : \A ri \in 1..Len(Files[fi]) :
              /\ ro[fi] + ri \in 1..Len(AllRecords)
              /\ no[ro[fi] + ri] = file_event_offsets[fi] + FirstEvent[fi][ri]
<1> DEFINE n == Len(Files)
           m == Len(AllRecords)
           offset == file_event_offsets
<1>0. /\ IsTotal(ro, RecordCounts, n) /\ m = ro[n + 1]
      /\ \A fi \in 1..n : \A ri \in 1..Len(Files[fi]) : AllRecords[ro[fi] + ri] = <<fi, ri>>
  BY DEF RecordsBegin
<1>1. /\ n \in Nat /\ RecordCounts \in [1..n -> Nat]
      /\ \A fi \in 1..n : RecordCounts[fi] = Len(Files[fi]) /\ Len(Files[fi]) \in Nat
  BY FilesShape DEF RecordCounts
<1>2. /\ ro \in [1..n + 1 -> Nat] /\ ro[1] = 0
      /\ \A fi \in 1..n : ro[fi + 1] = ro[fi] + RecordCounts[fi]
  BY <1>0, <1>1, TotalSteps
<1>3. m \in Nat /\ m = ro[n + 1]
  BY <1>0, <1>1, <1>2
<1>4. EventListCounts \in [1..m -> Nat]
  <2>1. \A i \in 1..m : RecordAt(AllRecords[i][1], AllRecords[i][2]).event_count \in Nat
    BY RecordsExist, FilesShape DEF Record, RecordAt
  <2> QED BY <2>1 DEF EventListCounts
<1>5. /\ no \in [1..m + 1 -> Nat] /\ no[1] = 0
      /\ \A i \in 1..m : no[i + 1] = no[i] + EventListCounts[i]
  BY <1>3, <1>4, TotalSteps
<1>6. /\ offset \in [1..n + 1 -> Nat] /\ offset[1] = 0
      /\ \A fi \in 1..n : offset[fi + 1] = offset[fi] + TotalEvents(fi)
      /\ Total = offset[n + 1]
  BY OffsetSteps DEF Total
<1>7. ASSUME NEW fi \in 1..n, NEW ri \in 1..Len(Files[fi])
      PROVE  /\ ro[fi] + ri \in 1..m
             /\ EventListCounts[ro[fi] + ri] = Files[fi][ri].event_count
  <2>5. ro[fi] + ri \in 1..m
    BY RecordsWithin
  <2>6. AllRecords[ro[fi] + ri] = <<fi, ri>>
    BY <1>0
  <2> QED BY <2>5, <2>6 DEF EventListCounts, RecordAt
<1>8. ASSUME NEW fi \in 1..n, no[ro[fi] + 1] = offset[fi]
      PROVE  \A d \in Nat : d <= Len(Files[fi]) =>
               no[ro[fi] + (d + 1)] = offset[fi] + FirstEvent[fi][d + 1]
  <2> DEFINE D == {d \in Nat : d <= Len(Files[fi]) =>
                     no[ro[fi] + (d + 1)] = offset[fi] + FirstEvent[fi][d + 1]}
  <2>1. /\ FirstEvent[fi] \in [1..Len(Files[fi]) + 1 -> Nat] /\ FirstEvent[fi][1] = 0
        /\ \A ri \in 1..Len(Files[fi]) :
             FirstEvent[fi][ri + 1] = FirstEvent[fi][ri] + Files[fi][ri].event_count
    BY FirstEventSteps
  <2>2. fi \in 1..n + 1 /\ ro[fi] \in Nat /\ offset[fi] \in Nat /\ Len(Files[fi]) \in Nat
    BY <1>1, <1>2, <1>6
  <2>3. 0 \in D
    BY <1>8, <2>1, <2>2
  <2>4. ASSUME NEW d \in Nat, d \in D PROVE d + 1 \in D
    <3> SUFFICES ASSUME d + 1 <= Len(Files[fi])
                 PROVE  no[ro[fi] + ((d + 1) + 1)] = offset[fi] + FirstEvent[fi][(d + 1) + 1]
      OBVIOUS
    <3> DEFINE ri == d + 1
               i == ro[fi] + ri
    <3>1. ri \in 1..Len(Files[fi])
      BY <2>2
    <3>2. no[i] = offset[fi] + FirstEvent[fi][ri]
      BY <2>2, <2>4
    <3>3. i \in 1..m /\ EventListCounts[i] = Files[fi][ri].event_count
      BY <1>7, <3>1
    <3>4. no[i + 1] = no[i] + EventListCounts[i]
      BY <1>5, <3>3
    <3>5. FirstEvent[fi][ri + 1] = FirstEvent[fi][ri] + Files[fi][ri].event_count
      BY <2>1, <3>1
    <3>6. FirstEvent[fi][ri] \in Nat /\ Files[fi][ri].event_count \in Nat
      <4>1. ri \in 1..Len(Files[fi]) + 1
        BY <2>2, <3>1
      <4>2. FirstEvent[fi][ri] \in Nat
        BY <2>1, <4>1
      <4>3. Files[fi][ri].event_count \in Nat
        BY <3>1, EventCountNat
      <4> QED BY <4>2, <4>3
    <3>7. ro[fi] + (ri + 1) = i + 1
      BY <2>2
    <3> DEFINE a == no[i]
               b == FirstEvent[fi][ri]
               c == Files[fi][ri].event_count
               o == offset[fi]
    <3>8. /\ no[i + 1] = a + c /\ a = o + b /\ FirstEvent[fi][ri + 1] = b + c
          /\ b \in Nat /\ c \in Nat /\ o \in Nat
      BY <2>2, <3>2, <3>3, <3>4, <3>5, <3>6
    <3> HIDE DEF a, b, c
    <3>9. no[i + 1] = o + FirstEvent[fi][ri + 1]
      BY <3>8
    <3> QED BY <3>7, <3>9
  <2> HIDE DEF D
  <2>5. Nat \subseteq D
    BY <2>3, <2>4, Induction
  <2> QED BY <2>5 DEF D
<1>9. \A e \in Nat : e <= n => no[ro[e + 1] + 1] = offset[e + 1]
  <2> DEFINE E == {e \in Nat : e <= n => no[ro[e + 1] + 1] = offset[e + 1]}
  <2>1. 0 \in E
    BY <1>2, <1>5, <1>6
  <2>2. ASSUME NEW e \in Nat, e \in E PROVE e + 1 \in E
    <3> SUFFICES ASSUME e + 1 <= n PROVE no[ro[(e + 1) + 1] + 1] = offset[(e + 1) + 1]
      OBVIOUS
    <3> DEFINE fi == e + 1
    <3>1. fi \in 1..n /\ no[ro[fi] + 1] = offset[fi]
      BY <1>1, <2>2
    <3> DEFINE d == Len(Files[fi])
    <3>2. d \in Nat
      BY <1>1, <3>1
    <3> HIDE DEF fi
    <3>3. no[ro[fi] + (d + 1)] = offset[fi] + FirstEvent[fi][d + 1]
      BY <1>8, <3>1, <3>2
    <3>4. ro[fi + 1] = ro[fi] + d /\ ro[fi] \in Nat /\ offset[fi + 1] = offset[fi] + FirstEvent[fi][d + 1]
      <4>1. fi \in 1..n + 1
        BY <1>1, <3>1
      <4>2. ro[fi + 1] = ro[fi] + d
        BY <1>1, <1>2, <3>1
      <4>3. offset[fi + 1] = offset[fi] + FirstEvent[fi][d + 1]
        BY <1>6, <3>1 DEF TotalEvents
      <4> QED BY <1>2, <4>1, <4>2, <4>3
    <3> HIDE DEF d
    <3>5. ro[fi + 1] + 1 = ro[fi] + (d + 1)
      BY <3>2, <3>4
    <3> QED BY <3>3, <3>4, <3>5 DEF fi
  <2> HIDE DEF E
  <2>3. Nat \subseteq E
    BY <2>1, <2>2, Induction
  <2> QED BY <2>3 DEF E
<1>10. no[m + 1] = Total
  BY <1>1, <1>3, <1>6, <1>9
<1>11. ASSUME NEW fi \in 1..n, NEW ri \in 1..Len(Files[fi])
       PROVE  no[ro[fi] + ri] = offset[fi] + FirstEvent[fi][ri]
  <2>1. fi - 1 \in Nat /\ fi - 1 <= n /\ (fi - 1) + 1 = fi
    BY <1>1
  <2>2. no[ro[fi] + 1] = offset[fi]
    BY <1>9, <2>1
  <2>3. ri - 1 \in Nat /\ ri - 1 <= Len(Files[fi]) /\ (ri - 1) + 1 = ri
    BY <1>1
  <2> QED BY <1>8, <2>2, <2>3
<1> QED BY <1>7, <1>10, <1>11

(* Numbering: as long as the total, and the event behind the k - 1 first   *)
(* events of record ri of file fi has the number the offsets give it.      *)
LEMMA NumberingIs ==
  /\ Numbering \in Seq(APlace)
  /\ Len(Numbering) = Total
  /\ \A fi \in 1..Len(Files) : \A ri \in 1..Len(Files[fi]) :
       \A k \in 1..Files[fi][ri].event_count :
         Numbering[file_event_offsets[fi] + FirstEvent[fi][ri] + k]
           = [file |-> fi, record |-> ri, event |-> k]
<1> DEFINE m == Len(AllRecords)
<1>0. PICK ro : RecordsBegin(ro)
  BY AllRecordsAre
<1>1. /\ AllRecords \in Seq(Nat \X Nat)
      /\ \A fi \in 1..Len(Files) : \A ri \in 1..Len(Files[fi]) :
           AllRecords[ro[fi] + ri] = <<fi, ri>>
  BY <1>0 DEF RecordsBegin
<1>2. m \in Nat /\ DOMAIN AllRecords = 1..m
  BY <1>1
<1>3. ASSUME NEW i \in 1..m
      PROVE  /\ EventListCounts[i] \in Nat
             /\ EventLists[i] = [k \in 1..EventListCounts[i] |->
                  [file |-> AllRecords[i][1], record |-> AllRecords[i][2], event |-> k]]
             /\ EventLists[i] \in Seq(APlace)
             /\ Len(EventLists[i]) = EventListCounts[i]
  <2> DEFINE fi == AllRecords[i][1]
             ri == AllRecords[i][2]
             count == EventListCounts[i]
             s == [k \in 1..count |-> [file |-> fi, record |-> ri, event |-> k]]
  <2>1. fi \in 1..Len(Files) /\ ri \in 1..Len(Files[fi])
    BY RecordsExist
  <2>2. fi \in Nat /\ ri \in Nat
    BY <2>1, FilesShape
  <2>3. count = RecordAt(fi, ri).event_count
    BY DEF EventListCounts
  <2>4. count \in Nat
    BY <2>1, <2>3, FilesShape DEF Record, RecordAt
  <2>5. EventLists[i] = s
    BY <1>2, <2>3 DEF EventLists
  <2> HIDE DEF count, fi, ri
  <2>6. \A k \in 1..count : [file |-> fi, record |-> ri, event |-> k] \in APlace
    BY <2>2, <2>4 DEF APlace
  <2>7. s \in Seq(APlace) /\ Len(s) = count
    BY <2>4, <2>6
  <2> QED BY <2>4, <2>5, <2>7 DEF count, fi, ri
<1>4. EventListCounts \in [1..m -> Nat] /\ EventLists \in [1..m -> Seq(APlace)]
  BY <1>2, <1>3 DEF EventListCounts, EventLists
<1>5. EventListCounts = [i \in 1..m |-> Len(EventLists[i])]
  BY <1>3 DEF EventListCounts
<1>6. PICK no : IsTotal(no, EventListCounts, m)
  BY <1>2, <1>4, TotalExists
<1>7. Numbering = FlattenSeq(EventLists)
  BY DEF Numbering, EventLists
<1>8. Places(Numbering, EventLists, no, m, APlace)
  <2> HIDE DEF m
  <2> QED BY <1>2, <1>4, <1>5, <1>6, <1>7, Flattened
<1>9. /\ no[m + 1] = Total
      /\ \A fi \in 1..Len(Files) : \A ri \in 1..Len(Files[fi]) :
           /\ ro[fi] + ri \in 1..m
           /\ no[ro[fi] + ri] = file_event_offsets[fi] + FirstEvent[fi][ri]
  BY <1>0, <1>6, Aligned
<1>10. ASSUME NEW fi \in 1..Len(Files), NEW ri \in 1..Len(Files[fi]),
              NEW k \in 1..Files[fi][ri].event_count
       PROVE  Numbering[file_event_offsets[fi] + FirstEvent[fi][ri] + k]
                = [file |-> fi, record |-> ri, event |-> k]
  <2> DEFINE i == ro[fi] + ri
  <2>1. i \in 1..m /\ no[i] = file_event_offsets[fi] + FirstEvent[fi][ri]
    BY <1>9
  <2>2. AllRecords[i] = <<fi, ri>>
    BY <1>1
  <2> HIDE DEF i
  <2>3. EventListCounts[i] = Files[fi][ri].event_count
    BY <2>1, <2>2 DEF EventListCounts, RecordAt
  <2>4. EventLists[i][k] = [file |-> fi, record |-> ri, event |-> k] /\ k \in 1..Len(EventLists[i])
    <3>1. /\ EventLists[i] = [j \in 1..EventListCounts[i] |->
                [file |-> AllRecords[i][1], record |-> AllRecords[i][2], event |-> j]]
          /\ Len(EventLists[i]) = EventListCounts[i]
      BY <1>3, <2>1
    <3>2. AllRecords[i][1] = fi /\ AllRecords[i][2] = ri /\ k \in 1..EventListCounts[i]
      BY <2>2, <2>3
    <3> QED BY <3>1, <3>2
  <2>5. Numbering[no[i] + k] = EventLists[i][k]
    BY <1>8, <2>1, <2>4 DEF Places
  <2> QED BY <2>1, <2>4, <2>5
<1> QED BY <1>8, <1>9, <1>10 DEF Places

(* event(idx) finds the event that a count through the files, record by    *)
(* record, gives the number idx, whatever files and records are empty; and *)
(* it finds none exactly when the chain has no more than idx events.       *)
THEOREM ResolvesByCounting ==
  /\ Len(Numbering) = Total
  /\ \A idx \in Nat :
       Resolve(idx) = IF idx < Total THEN Numbering[idx + 1] ELSE Nowhere
<1> SUFFICES ASSUME NEW idx \in Nat
             PROVE  Resolve(idx) = IF idx < Total THEN Numbering[idx + 1] ELSE Nowhere
  BY NumberingIs
<1>1. Total \in Nat
  BY OffsetSteps
<1>2. CASE idx < Total
  <2>1. PICK fi \in 1..Len(Files) : \E ri \in 1..Len(Files[fi]), k \in Nat :
          /\ k \in 1..Files[fi][ri].event_count
          /\ idx + 1 = file_event_offsets[fi] + FirstEvent[fi][ri] + k
          /\ Resolve(idx) = [file |-> fi, record |-> ri, event |-> k]
    BY <1>2, ResolveIs
  <2>2. PICK ri \in 1..Len(Files[fi]), k \in Nat :
          /\ k \in 1..Files[fi][ri].event_count
          /\ idx + 1 = file_event_offsets[fi] + FirstEvent[fi][ri] + k
          /\ Resolve(idx) = [file |-> fi, record |-> ri, event |-> k]
    BY <2>1
  <2>3. Numbering[file_event_offsets[fi] + FirstEvent[fi][ri] + k]
          = [file |-> fi, record |-> ri, event |-> k]
    BY <2>2, NumberingIs
  <2>4. Numbering[idx + 1] = Resolve(idx)
    BY <2>2, <2>3
  <2> QED BY <1>2, <2>4
<1>3. CASE ~(idx < Total)
  BY <1>1, <1>3, ResolveIs
<1> QED BY <1>2, <1>3
=============================================================================
