------------------------- MODULE ChainEventsProofs -------------------------
(***************************************************************************)
(* Proofs about the sequential iterator: its buffers are never written     *)
(* while an event shows them, one buffer is enough for a caller that keeps *)
(* nothing, and what it hands out is what was asked for, in order.         *)
(***************************************************************************)
EXTENDS ChainEvents, ChainProofs
-----------------------------------------------------------------------------
(***************************************************************************)
(* The inductive invariant.                                                *)
(***************************************************************************)
IsRecord(p) == \E fi \in 1..Len(Files) : \E ri \in 1..Len(Files[fi]) : p = <<fi, ri>>

(* The events of a record, as EventsOfCurrent counts those of the current. *)
EventsOf(c) == IF c = NoRecord THEN 0 ELSE Len(RecordAt(c.at[1], c.at[2]).passes)

(* The caller has room for what a call under way may hand out, so that an  *)
(* unused buffer is always left.                                           *)
RoomToHold ==
  /\ IsFiniteSet(held) /\ Cardinality(held) <= MaxHeld
  /\ calling => Cardinality(held) < MaxHeld /\ outcome = "running"

(* The current record is one of the chain's; while it has events to come,  *)
(* it is the last one begun in the file, and one that was asked for.       *)
OnRecord ==
  /\ current # NoRecord => IsRecord(current.at)
  /\ file # 0 => file = next_file /\ next_record <= Len(Files[file])
  /\ next_event < EventsOfCurrent =>
       /\ file # 0 /\ next_record # 0 /\ current.at = <<file, next_record>>
       /\ Readable(RecordAt(file, next_record))
       /\ Matches(RecordAt(file, next_record), record_tags)

(* The current buffer holds the current record; the one in scratch is      *)
(* nobody's.                                                               *)
BuffersApart ==
  /\ current.buffer # None => written[current.buffer] = current.at
  /\ scratch # None => ~Shared(scratch) /\ scratch # current.buffer

(* A buffer once allocated for the file is the current one or in scratch,  *)
(* unless the caller kept it or the file is done with.                     *)
BufferKept ==
  ~kept => \/ allocated = 0
           \/ allocated = 1 /\ (file = 0 \/ current.buffer # None \/ scratch # None)

IterInv ==
  /\ TypeOK /\ RoomToHold /\ OnRecord
  /\ BuffersApart /\ HeldEventsIntact /\ BufferKept

(* How far the iterator is: the number of the next event it comes to.      *)
Position ==
  IF file = 0 THEN file_event_offsets[next_file + 1]
  ELSE file_event_offsets[file]
         + (IF next_event < EventsOfCurrent THEN FirstEvent[file][next_record] + next_event
            ELSE FirstEvent[file][next_record + 1])

(* What was asked for and passed was visited once, and nothing else.       *)
VisitedSoFar ==
  outcome = "running" =>
    \A e \in EventNumbers : visited[e] = IF e \in Wanted /\ e < Position THEN 1 ELSE 0

-----------------------------------------------------------------------------
(* A record of the chain has a number of events.                           *)
LEMMA PassesShape ==
  ASSUME NEW p, IsRecord(p)
  PROVE  /\ p \in Nat \X Nat /\ p # <<0, 0>>
         /\ RecordAt(p[1], p[2]) \in Record
         /\ Len(RecordAt(p[1], p[2]).passes) \in Nat
         /\ \A k \in 1..Len(RecordAt(p[1], p[2]).passes) : RecordAt(p[1], p[2]).passes[k] \in BOOLEAN
<1>1. PICK fi \in 1..Len(Files) : \E ri \in 1..Len(Files[fi]) : p = <<fi, ri>>
  BY DEF IsRecord
<1>2. PICK ri \in 1..Len(Files[fi]) : p = <<fi, ri>>
  BY <1>1
<1>3. RecordAt(p[1], p[2]) \in Record
  BY <1>2, FilesShape DEF RecordAt
<1>4. ASSUME NEW r \in Record
      PROVE Len(r.passes) \in Nat /\ \A k \in 1..Len(r.passes) : r.passes[k] \in BOOLEAN
  <2>1. r.passes \in Seq(BOOLEAN)
    BY DEF Record
  <2> QED BY ONLY <2>1, SeqIsFunction
<1>5. fi \in Nat /\ ri \in Nat /\ fi # 0
  BY FilesShape
<1> QED BY <1>2, <1>3, <1>4, <1>5

(* The events of a current record are a number.                            *)
LEMMA EventsOfNat ==
  ASSUME NEW c, c # NoRecord => IsRecord(c.at)
  PROVE  EventsOf(c) \in Nat
BY PassesShape DEF EventsOf

(* A set with one element more.                                            *)
LEMMA OneMore ==
  ASSUME NEW S, NEW x, IsFiniteSet(S)
  PROVE  /\ IsFiniteSet(S \cup {x})
         /\ Cardinality(S) \in Nat /\ Cardinality(S \cup {x}) \in Nat
         /\ Cardinality(S \cup {x}) <= Cardinality(S) + 1
<1>1. Cardinality(S) \in Nat
  BY FS_CardinalityType
<1> QED BY <1>1, FS_AddElement

(* A caller with room leaves a buffer that neither an event, nor the       *)
(* current record, nor scratch has.                                        *)
LEMMA FreshIs ==
  ASSUME TypeOK, RoomToHold
  PROVE  Fresh \in Buffer /\ ~Shared(Fresh) /\ Fresh # current.buffer /\ Fresh # scratch
<1> DEFINE T == {h.buffer : h \in held}
           f == [h \in held |-> h.buffer]
           U == T \cup {current.buffer}
           V == U \cup {scratch}
<1>1. IsFiniteSet(held) /\ Cardinality(held) <= MaxHeld /\ Cardinality(held) \in Nat
  BY FS_CardinalityType DEF RoomToHold
<1>2. f \in Surjection(held, T)
  BY DEF Surjection
<1>3. IsFiniteSet(T) /\ Cardinality(T) <= Cardinality(held)
  BY <1>1, <1>2, FS_Surjection
<1> HIDE DEF T, f
<1>4. IsFiniteSet(U) /\ Cardinality(U) <= Cardinality(T) + 1 /\ Cardinality(U) \in Nat
      /\ Cardinality(T) \in Nat
  BY <1>3, OneMore
<1> HIDE DEF U
<1>5. IsFiniteSet(V) /\ Cardinality(V) <= Cardinality(U) + 1 /\ Cardinality(V) \in Nat
  BY <1>4, OneMore
<1>6. Cardinality(Buffer) = MaxHeld + 3
  BY FS_Interval, ChainEventsAssumption DEF Buffer
<1>7. ~(Buffer \subseteq V)
  <2>1. SUFFICES ASSUME Buffer \subseteq V PROVE FALSE
    OBVIOUS
  <2>2. Cardinality(Buffer) <= Cardinality(V)
    BY <1>5, <2>1, FS_Subset
  <2> HIDE DEF V
  <2> QED BY <1>1, <1>3, <1>4, <1>5, <1>6, <2>2, ChainEventsAssumption
<1>8. PICK b \in Buffer : b \notin V
  BY <1>7
<1>9. ~Shared(b) /\ b # current.buffer /\ b # scratch
  <2>1. b \notin T /\ b # current.buffer /\ b # scratch
    BY <1>8 DEF U
  <2>2. \A h \in held : h.buffer # b
    BY <2>1 DEF T
  <2> QED BY <2>1, <2>2 DEF Shared
<1> QED BY <1>9 DEF Fresh

(* The invariant holds at first, and every step keeps it.                  *)
LEMMA InitEstablishes == Init => IterInv
<1> SUFFICES ASSUME Init PROVE IterInv
  OBVIOUS
<1>0. Len(Files) \in Nat /\ Total \in Nat
  BY FilesShape, OffsetSteps
<1>1. EventsOfCurrent = 0
  BY DEF Init, EventsOfCurrent
<1>2. TypeOK
  <2>1. current \in [at: Nat \X Nat, buffer: Buffer \cup {None}] /\ next_event \in 0..EventsOfCurrent
    BY <1>1 DEF Init, NoRecord
  <2>2. /\ record_tags \in Filters /\ calling \in BOOLEAN /\ kept \in BOOLEAN
        /\ scratch \in Buffer \cup {None} /\ held = {}
        /\ outcome \in {"running", "ok", "err"} /\ allocated = 0
        /\ file = 0 /\ next_file = 0 /\ next_record = 0
    BY ZenonT(30) DEF Init
  <2>3. written \in [Buffer -> Nat \X Nat] /\ visited \in [EventNumbers -> Nat]
    BY DEF Init
  <2> QED BY <1>0, <2>1, <2>2, <2>3 DEF TypeOK
<1>3. RoomToHold
  BY FS_EmptySet, ChainEventsAssumption DEF Init, RoomToHold
<1> QED BY <1>1, <1>2, <1>3
      DEF Init, IterInv, OnRecord, BuffersApart, HeldEventsIntact, BufferKept, NoRecord, None

(* Asking for an event and dropping one change neither the record nor a    *)
(* buffer.                                                                 *)
LEMMA CallKeeps == ASSUME IterInv, Call PROVE IterInv'
<1>1. UNCHANGED <<record_tags, file, next_file, next_record, next_event, current, scratch, written,
                  held, visited, outcome, allocated, kept>> /\ calling' = TRUE
  BY DEF Call, iter
<1>2. TypeOK'
  BY <1>1 DEF IterInv, TypeOK, EventsOfCurrent
<1>3. RoomToHold'
  BY <1>1 DEF IterInv, RoomToHold, Call
<1> QED BY <1>1, <1>2, <1>3
      DEF IterInv, OnRecord, BuffersApart, HeldEventsIntact, BufferKept, Shared, EventsOfCurrent

(* Dropping an event only takes it from what is held.                      *)
LEMMA DropKeeps == ASSUME IterInv, DropEvent PROVE IterInv'
<1>1. UNCHANGED <<record_tags, calling, file, next_file, next_record, next_event, current, scratch,
                  written, visited, outcome, allocated, kept>>
  BY DEF DropEvent, iter
<1>2. PICK h \in held : held' = held \ {h}
  BY DEF DropEvent
<1>3. TypeOK'
  BY <1>1, <1>2 DEF IterInv, TypeOK, EventsOfCurrent
<1>4. RoomToHold'
  <2>1. IsFiniteSet(held') /\ Cardinality(held') = Cardinality(held) - 1 /\ Cardinality(held) \in Nat
    BY <1>2, FS_RemoveElement, FS_CardinalityType DEF IterInv, RoomToHold
  <2> QED BY <1>1, <2>1, ChainEventsAssumption DEF IterInv, RoomToHold
<1> QED BY <1>1, <1>2, <1>3, <1>4
      DEF IterInv, OnRecord, BuffersApart, HeldEventsIntact, BufferKept, Shared, EventsOfCurrent

(* A new EventIter begins without a record or a buffer.                    *)
LEMMA OpenNextKeeps == ASSUME IterInv, OpenNext PROVE IterInv'
<1>0. Len(Files) \in Nat /\ \A fi \in 1..Len(Files) : Len(Files[fi]) \in Nat
  BY FilesShape
<1>1. /\ UNCHANGED <<record_tags, written, held, visited, kept>>
      /\ next_record' = 0 /\ next_event' = 0 /\ current' = NoRecord /\ scratch' = None /\ allocated' = 0
      /\ \/ file' = next_file + 1 /\ next_file' = next_file + 1 /\ next_file < Len(Files)
            /\ UNCHANGED <<calling, outcome>>
         \/ file' = 0 /\ next_file' = next_file /\ calling' = FALSE /\ outcome' = "ok"
  BY DEF OpenNext
<1>2. EventsOfCurrent' = 0
  BY <1>1 DEF EventsOfCurrent
<1>3. TypeOK'
  <2>1. current' \in [at: Nat \X Nat, buffer: Buffer \cup {None}] /\ next_event' \in 0..EventsOfCurrent'
    BY <1>1, <1>2 DEF NoRecord
  <2>2. file' \in 0..Len(Files) /\ next_file' \in 0..Len(Files)
    BY <1>0, <1>1 DEF IterInv, TypeOK
  <2>3. outcome' \in {"running", "ok", "err"} /\ calling' \in BOOLEAN
    BY <1>1 DEF IterInv, TypeOK
  <2> QED BY <1>1, <2>1, <2>2, <2>3 DEF IterInv, TypeOK
<1>4. RoomToHold'
  BY <1>1 DEF IterInv, RoomToHold
<1>5. OnRecord'
  <2>1. next_file \in 0..Len(Files)
    BY DEF IterInv, TypeOK
  <2> QED BY <1>0, <1>1, <1>2, <2>1 DEF OnRecord
<1> QED BY <1>1, <1>3, <1>4, <1>5
      DEF IterInv, BuffersApart, HeldEventsIntact, BufferKept, NoRecord, None

(* One that is dropped leaves none.                                        *)
LEMMA EndFileKeeps == ASSUME IterInv, EndFile PROVE IterInv'
<1>0. Len(Files) \in Nat
  BY FilesShape
<1>1. /\ UNCHANGED <<record_tags, calling, next_file, written, held, visited, outcome, allocated, kept>>
      /\ next_record' = 0 /\ next_event' = 0 /\ current' = NoRecord /\ scratch' = None /\ file' = 0
  BY DEF EndFile
<1>2. EventsOfCurrent' = 0
  BY <1>1 DEF EventsOfCurrent
<1>3. TypeOK'
  <2>1. current' \in [at: Nat \X Nat, buffer: Buffer \cup {None}] /\ next_event' \in 0..EventsOfCurrent'
    BY <1>1, <1>2 DEF NoRecord
  <2> QED BY <1>0, <1>1, <2>1 DEF IterInv, TypeOK
<1>4. RoomToHold'
  BY <1>1 DEF IterInv, RoomToHold
<1> QED BY <1>1, <1>2, <1>3, <1>4
      DEF IterInv, OnRecord, BuffersApart, HeldEventsIntact, BufferKept, NoRecord, None

(* The record to come next is one of the file's.                           *)
LEMMA NextRecordIs ==
  ASSUME IterInv, Exhausted, next_record < Len(Files[file])
  PROVE  /\ file \in 1..Len(Files)
         /\ next_record + 1 \in 1..Len(Files[file])
         /\ IsRecord(<<file, next_record + 1>>)
<1>1. file \in 1..Len(Files)
  BY FilesShape DEF IterInv, TypeOK, Exhausted
<1>2. next_record \in Nat /\ Len(Files[file]) \in Nat
  BY <1>1, FilesShape DEF IterInv, TypeOK
<1> QED BY <1>1, <1>2 DEF IsRecord

(* Loading a record: whichever buffer it goes into shows no event of the   *)
(* caller's.                                                               *)
LEMMA LoadKeeps ==
  ASSUME IterInv, Exhausted, next_record < Len(Files[file]),
         next_record' = next_record + 1,
         Readable(RecordAt(file, next_record + 1)),
         Matches(RecordAt(file, next_record + 1), record_tags),
         Load(<<file, next_record + 1>>),
         UNCHANGED <<calling, outcome, record_tags, file, next_file, held, visited>>
  PROVE  IterInv'
<1> DEFINE at == <<file, next_record + 1>>
<1>0. /\ file \in 1..Len(Files) /\ next_record + 1 \in 1..Len(Files[file]) /\ IsRecord(at)
  BY NextRecordIs
<1>1. at \in Nat \X Nat /\ at # <<0, 0>>
  BY <1>0, PassesShape
<1>2. /\ next_event' = 0
      /\ kept' = (kept \/ (current.buffer # None /\ Shared(current.buffer)))
  BY DEF Load, Rewind
<1>3. /\ Recovered \in Buffer \cup {None}
      /\ Recovered # None => Recovered = current.buffer /\ ~Shared(Recovered)
      /\ ~kept' => (Recovered = None <=> current.buffer = None)
  BY <1>2 DEF Recovered, IterInv, TypeOK
<1>4. \/ /\ current' = [at |-> at, buffer |-> None]
         /\ scratch' = IF Recovered # None THEN Recovered ELSE scratch
         /\ UNCHANGED <<written, allocated>>
      \/ \E b \in Buffer :
           /\ ~Shared(b)
           /\ b # scratch'
           /\ scratch' \in {scratch, None}
           /\ ~kept' => \/ allocated' = allocated /\ (file = 0 \/ current.buffer # None \/ scratch # None)
                        \/ allocated' = allocated + 1 /\ current.buffer = None /\ scratch = None
           /\ allocated' \in {allocated, allocated + 1}
           /\ current' = [at |-> at, buffer |-> b]
           /\ written' = [written EXCEPT ![b] = at]
  <2>1. CASE RecordAt(at[1], at[2]).layout = "split"
    BY <2>1 DEF Load
  <2>2. CASE RecordAt(at[1], at[2]).layout # "split"
    <3>1. PICK b \in Buffer :
            /\ \/ /\ Recovered # None /\ b = Recovered
                  /\ UNCHANGED <<scratch, allocated>>
               \/ /\ Recovered = None /\ scratch # None /\ b = scratch
                  /\ scratch' = None
                  /\ UNCHANGED allocated
               \/ /\ Recovered = None /\ scratch = None /\ b = Fresh
                  /\ allocated' = allocated + 1
                  /\ UNCHANGED scratch
            /\ current' = [at |-> at, buffer |-> b]
            /\ written' = [written EXCEPT ![b] = at]
      BY <2>2 DEF Load
    <3>2. b # None
      BY ChainEventsAssumption DEF Buffer, None
    <3>3. CASE Recovered # None /\ b = Recovered /\ UNCHANGED <<scratch, allocated>>
      BY <1>3, <3>1, <3>2, <3>3 DEF IterInv, BuffersApart
    <3>4. CASE Recovered = None /\ scratch # None /\ b = scratch /\ scratch' = None /\ UNCHANGED allocated
      BY <1>3, <3>1, <3>2, <3>4 DEF IterInv, BuffersApart
    <3>5. CASE Recovered = None /\ scratch = None /\ b = Fresh /\ allocated' = allocated + 1 /\ UNCHANGED scratch
      <4>1. ~Shared(b)
        BY <3>5, FreshIs DEF IterInv
      <4> QED BY <1>3, <3>1, <3>2, <3>5, <4>1
    <3> QED BY <3>1, <3>3, <3>4, <3>5
  <2> QED BY <2>1, <2>2
<1>5. current' # NoRecord /\ current'.at = at /\ current' \in [at: Nat \X Nat, buffer: Buffer \cup {None}]
  BY <1>1, <1>4 DEF NoRecord
<1>6. EventsOfCurrent' \in Nat
  <2>1. EventsOf(current') \in Nat
    BY <1>0, <1>5, EventsOfNat
  <2> QED BY <2>1 DEF EventsOf, EventsOfCurrent
<1>7. TypeOK'
  <2>1. scratch' \in Buffer \cup {None} /\ written' \in [Buffer -> Nat \X Nat] /\ allocated' \in Nat
    <3>1. scratch \in Buffer \cup {None} /\ written \in [Buffer -> Nat \X Nat] /\ allocated \in Nat
      BY DEF IterInv, TypeOK
    <3> QED BY <1>1, <1>3, <1>4, <3>1
  <2>2. kept' \in BOOLEAN
    BY <1>2 DEF IterInv, TypeOK
  <2>3. next_event' \in 0..EventsOfCurrent'
    BY <1>2, <1>6
  <2>4. next_record' \in Nat
    BY DEF IterInv, TypeOK
  <2> QED BY <1>5, <2>1, <2>2, <2>3, <2>4 DEF IterInv, TypeOK
<1>8. RoomToHold'
  BY DEF IterInv, RoomToHold
<1>9. OnRecord'
  BY <1>0, <1>5, FilesShape DEF IterInv, OnRecord
<1>10. BuffersApart'
  <2>1. CASE current' = [at |-> at, buffer |-> None] /\ UNCHANGED written
             /\ scratch' = IF Recovered # None THEN Recovered ELSE scratch
    BY <1>3, <2>1 DEF IterInv, BuffersApart, Shared
  <2>2. ASSUME NEW b \in Buffer, ~Shared(b), b # scratch', scratch' \in {scratch, None},
               current' = [at |-> at, buffer |-> b], written' = [written EXCEPT ![b] = at]
        PROVE  BuffersApart'
    BY <2>2 DEF IterInv, BuffersApart, Shared, TypeOK
  <2> QED BY <1>4, <2>1, <2>2
<1>11. HeldEventsIntact'
  BY <1>4 DEF IterInv, HeldEventsIntact, Shared, TypeOK
<1>12. BufferKept'
  <2>1. SUFFICES ASSUME ~kept'
                 PROVE  \/ allocated' = 0
                        \/ allocated' = 1 /\ (current'.buffer # None \/ scratch' # None)
    BY DEF BufferKept
  <2>2. \/ allocated = 0
        \/ allocated = 1 /\ (current.buffer # None \/ scratch # None)
    <3>1. file # 0
      BY <1>0
    <3>2. ~kept
      BY <1>2, <2>1, Zenon
    <3> QED BY <3>1, <3>2 DEF IterInv, BufferKept
  <2>3. CASE current' = [at |-> at, buffer |-> None] /\ UNCHANGED allocated
             /\ scratch' = IF Recovered # None THEN Recovered ELSE scratch
    BY <1>3, <2>1, <2>2, <2>3
  <2>4. ASSUME NEW b \in Buffer, current' = [at |-> at, buffer |-> b],
               \/ allocated' = allocated
               \/ allocated' = allocated + 1 /\ current.buffer = None /\ scratch = None
        PROVE  \/ allocated' = 0
               \/ allocated' = 1 /\ (current'.buffer # None \/ scratch' # None)
    <3>1. b # None
      BY ChainEventsAssumption DEF Buffer, None
    <3> QED BY <2>2, <2>4, <3>1
  <2> QED BY <1>4, <2>1, <2>3, <2>4
<1> QED BY <1>7, <1>8, <1>9, <1>10, <1>11, <1>12 DEF IterInv

(* A record passed over or unreadable leaves the current one.              *)
LEMMA AdvanceKeeps == ASSUME IterInv, AdvanceRecord PROVE IterInv'
<1> DEFINE r == RecordAt(file, next_record + 1)
<1>0. /\ file \in 1..Len(Files) /\ next_record + 1 \in 1..Len(Files[file])
      /\ next_event >= EventsOfCurrent
  BY NextRecordIs DEF AdvanceRecord, Exhausted
<1>1. CASE r.header_ok /\ Matches(r, record_tags) /\ r.body_ok /\ Load(<<file, next_record + 1>>)
           /\ UNCHANGED <<calling, outcome>>
  BY <1>1, LoadKeeps DEF AdvanceRecord, Readable
<1>2. CASE /\ UNCHANGED <<next_event, current, scratch, written, allocated, kept>>
           /\ (UNCHANGED <<calling, outcome>> \/ (outcome' = "err" /\ calling' = FALSE))
  <2>1. UNCHANGED <<record_tags, file, next_file, held, visited>> /\ next_record' = next_record + 1
    BY DEF AdvanceRecord
  <2>2. EventsOfCurrent' = EventsOfCurrent
    BY <1>2 DEF EventsOfCurrent
  <2>3. TypeOK'
    <3>1. next_event' \in 0..EventsOfCurrent' /\ next_record' \in Nat
      BY <1>2, <2>1, <2>2 DEF IterInv, TypeOK
    <3>2. outcome' \in {"running", "ok", "err"} /\ calling' \in BOOLEAN
      BY <1>2 DEF IterInv, TypeOK
    <3> QED BY <1>2, <2>1, <3>1, <3>2 DEF IterInv, TypeOK
  <2>4. RoomToHold'
    BY <1>2, <2>1 DEF IterInv, RoomToHold
  <2>5. OnRecord'
    <3>1. ~(next_event < EventsOfCurrent)
      <4>1. EventsOfCurrent \in Nat
        BY EventsOfNat DEF EventsOfCurrent, EventsOf, IterInv, OnRecord
      <4>2. next_event \in Int
        BY DEF IterInv, TypeOK
      <4> QED BY <1>0, <4>1, <4>2
    <3> QED BY <1>0, <1>2, <2>1, <2>2, <3>1, FilesShape DEF IterInv, OnRecord
  <2> QED BY <1>2, <2>1, <2>3, <2>4, <2>5
        DEF IterInv, BuffersApart, HeldEventsIntact, BufferKept, Shared
<1> QED BY <1>1, <1>2 DEF AdvanceRecord

(* An event handed out shares the current buffer, which holds its record.  *)
LEMMA NextEventKeeps == ASSUME IterInv, NextEvent PROVE IterInv'
<1>1. /\ UNCHANGED <<record_tags, file, next_file, next_record, current, scratch, written, outcome,
                     allocated, kept>>
      /\ calling /\ next_event' = next_event + 1 /\ next_event < EventsOfCurrent
      /\ \/ /\ held' = held \cup {[at |-> current.at, event |-> next_event + 1, buffer |-> current.buffer]}
            /\ calling' = FALSE
            /\ visited' = [visited EXCEPT ![NumberOf(current.at, next_event + 1)] = @ + 1]
         \/ UNCHANGED <<calling, held, visited>>
  BY DEF NextEvent
<1>2. EventsOfCurrent' = EventsOfCurrent /\ EventsOfCurrent \in Nat
  BY <1>1, EventsOfNat DEF EventsOfCurrent, EventsOf, IterInv, OnRecord
<1>3. TypeOK'
  <2>1. next_event \in Nat /\ next_event' \in 0..EventsOfCurrent'
    BY <1>1, <1>2 DEF IterInv, TypeOK
  <2>2. held' \subseteq [at: Nat \X Nat, event: Nat, buffer: Buffer \cup {None}]
    <3>1. current \in [at: Nat \X Nat, buffer: Buffer \cup {None}]
      BY DEF IterInv, TypeOK
    <3>2. [at |-> current.at, event |-> next_event + 1, buffer |-> current.buffer]
            \in [at: Nat \X Nat, event: Nat, buffer: Buffer \cup {None}]
      BY <2>1, <3>1
    <3> QED BY <1>1, <3>2 DEF IterInv, TypeOK
  <2>3. visited' \in [EventNumbers -> Nat]
    <3>1. visited \in [EventNumbers -> Nat]
      BY DEF IterInv, TypeOK
    <3> DEFINE n == NumberOf(current.at, next_event + 1)
    <3>2. visited' = [visited EXCEPT ![n] = visited[n] + 1] \/ visited' = visited
      BY <1>1
    <3> HIDE DEF n
    <3>3. CASE n \in EventNumbers
      <4>1. visited[n] + 1 \in Nat
        BY <3>1, <3>3
      <4> QED BY <3>1, <3>2, <4>1
    <3>4. CASE n \notin EventNumbers
      BY <3>1, <3>2, <3>4
    <3> QED BY <3>3, <3>4
  <2>4. calling' \in BOOLEAN
    BY <1>1
  <2> QED BY <1>1, <2>1, <2>2, <2>3, <2>4 DEF IterInv, TypeOK
<1>4. RoomToHold'
  <2>1. IsFiniteSet(held) /\ Cardinality(held) < MaxHeld
    BY <1>1 DEF IterInv, RoomToHold
  <2>2. ASSUME NEW h PROVE IsFiniteSet(held \cup {h}) /\ Cardinality(held \cup {h}) <= MaxHeld
    <3>1. /\ IsFiniteSet(held \cup {h})
          /\ Cardinality(held) \in Nat /\ Cardinality(held \cup {h}) \in Nat
          /\ Cardinality(held \cup {h}) <= Cardinality(held) + 1
      BY <2>1, OneMore
    <3> QED BY <2>1, <3>1, ChainEventsAssumption
  <2> QED BY <1>1, <2>2 DEF IterInv, RoomToHold
<1>5. OnRecord'
  BY <1>1, <1>2 DEF IterInv, OnRecord, TypeOK
<1> DEFINE new == [at |-> current.at, event |-> next_event + 1, buffer |-> current.buffer]
<1>6. new.at = current.at /\ new.buffer = current.buffer /\ \A h \in held' : h \in held \/ h = new
  BY <1>1
<1> HIDE DEF new
<1>7. HeldEventsIntact'
  BY <1>1, <1>6 DEF IterInv, HeldEventsIntact, BuffersApart
<1>8. BuffersApart'
  BY <1>1, <1>6 DEF IterInv, BuffersApart, Shared
<1> QED BY <1>1, <1>3, <1>4, <1>5, <1>7, <1>8 DEF IterInv, BufferKept

(* A stuttering step changes nothing.                                      *)
LEMMA StutterKeeps == ASSUME IterInv, UNCHANGED vars PROVE IterInv'
BY DEF IterInv, TypeOK, RoomToHold, OnRecord, BuffersApart, HeldEventsIntact, BufferKept, Shared,
       EventsOfCurrent, vars, iter

(* So it holds throughout.                                                 *)
LEMMA IterInvAlways == Spec => []IterInv
<1>1. IterInv /\ [Next]_vars => IterInv'
  BY CallKeeps, DropKeeps, OpenNextKeeps, EndFileKeeps, AdvanceKeeps, NextEventKeeps, StutterKeeps
     DEF Next
<1> QED BY InitEstablishes, <1>1, PTL DEF Spec

(* The position in the current record never passes its end, and every      *)
(* buffer the iterator and the caller refer to exists.                     *)
THEOREM ChainEventsTypes == Spec => []TypeOK
<1>1. IterInv => TypeOK
  BY DEF IterInv
<1> QED BY <1>1, IterInvAlways, PTL

(* The buffer of an event the caller has keeps the record it was read      *)
(* from.                                                                   *)
THEOREM HeldEventsStayIntact == Spec => []HeldEventsIntact
<1>1. IterInv => HeldEventsIntact
  BY DEF IterInv
<1> QED BY <1>1, IterInvAlways, PTL

(* A caller that keeps nothing past its record makes the iterator allocate *)
(* at most one buffer per file.                                            *)
THEOREM OneBufferIsEnough == Spec => []OneBufferSteadyState
<1>1. IterInv => OneBufferSteadyState
  BY DEF IterInv, BufferKept, OneBufferSteadyState
<1> QED BY <1>1, IterInvAlways, PTL
-----------------------------------------------------------------------------
(***************************************************************************)
(* What is handed out, and in which order.                                 *)
(***************************************************************************)

(* The events of a record are numbered one after the other from the end of *)
(* the records before it, and all of them lie in the chain.                *)
LEMMA NumbersOfRecord ==
  ASSUME NEW fi \in 1..Len(Files), NEW ri \in 1..Len(Files[fi])
  PROVE  /\ file_event_offsets[fi] \in Nat
         /\ FirstEvent[fi][ri] \in Nat /\ FirstEvent[fi][ri + 1] \in Nat
         /\ RecordAt(fi, ri).event_count \in Nat
         /\ FirstEvent[fi][ri + 1] = FirstEvent[fi][ri] + RecordAt(fi, ri).event_count
         /\ file_event_offsets[fi] + FirstEvent[fi][ri + 1] <= Total
<1> DEFINE m == Len(Files[fi])
           n == Len(Files)
           first == FirstEvent[fi]
           offset == file_event_offsets
<1>1. n \in Nat /\ m \in Nat
  BY FilesShape
<1>2. /\ first \in [1..m + 1 -> Nat]
      /\ first[ri + 1] = first[ri] + RecordAt(fi, ri).event_count
      /\ TotalEvents(fi) = first[m + 1]
  BY FirstEventSteps DEF RecordAt, TotalEvents
<1>3. first[ri + 1] <= first[m + 1]
  <2>1. IsTotal(first, EventCounts(fi), m) /\ EventCounts(fi) \in [1..m -> Nat]
    BY FirstEventIsTotal, EventCountsType
  <2>2. ri + 1 \in 1..m + 1 /\ m + 1 \in 1..m + 1 /\ ri + 1 <= m + 1
    BY <1>1
  <2> QED BY ONLY <1>1, <2>1, <2>2, TotalMonotone
<1>4. offset \in [1..n + 1 -> Nat] /\ offset[fi + 1] = offset[fi] + TotalEvents(fi)
  BY OffsetSteps
<1>5. offset[fi + 1] <= offset[n + 1]
  <2>1. fi + 1 \in 1..n + 1 /\ n + 1 \in 1..n + 1 /\ fi + 1 <= n + 1
    BY <1>1
  <2> QED BY ONLY <1>1, <2>1, OffsetsAreTotal, TotalCountsType, TotalMonotone
<1>6. /\ offset[fi] \in Nat /\ offset[fi + 1] \in Nat /\ offset[n + 1] \in Nat
      /\ first[ri] \in Nat /\ first[ri + 1] \in Nat /\ first[m + 1] \in Nat
      /\ Total = offset[n + 1]
  <2>1. fi \in 1..n + 1 /\ fi + 1 \in 1..n + 1 /\ n + 1 \in 1..n + 1
    BY <1>1
  <2>2. ri \in 1..m + 1 /\ ri + 1 \in 1..m + 1 /\ m + 1 \in 1..m + 1
    BY <1>1
  <2> QED BY <1>2, <1>4, <2>1, <2>2 DEF Total
<1>7. RecordAt(fi, ri).event_count \in Nat
  BY EventCountNat DEF RecordAt
<1> HIDE DEF first, offset, m, n
<1>8. offset[fi] + first[ri + 1] <= Total
  BY <1>2, <1>3, <1>4, <1>5, <1>6
<1> QED BY <1>2, <1>6, <1>7, <1>8 DEF first, offset

(* An event is asked for when its record's tag is, and the filter lets it  *)
(* pass.                                                                   *)
LEMMA AskedIs ==
  ASSUME NEW fi \in 1..Len(Files), NEW ri \in 1..Len(Files[fi]), NEW tags,
         NEW e \in Nat, file_event_offsets[fi] + FirstEvent[fi][ri] <= e,
         e < file_event_offsets[fi] + FirstEvent[fi][ri + 1]
  PROVE  /\ e \in EventNumbers
         /\ Asked(e, tags) <=>
              /\ tags = {} \/ RecordAt(fi, ri).user_word \in tags
              /\ RecordAt(fi, ri).passes[e - (file_event_offsets[fi] + FirstEvent[fi][ri]) + 1]
<1> DEFINE base == file_event_offsets[fi] + FirstEvent[fi][ri]
           k == e - base + 1
<1>1. /\ base \in Nat /\ Total \in Nat
      /\ k \in 1..RecordAt(fi, ri).event_count /\ base + k = e + 1
      /\ e < Total
  <2> DEFINE a == file_event_offsets[fi]
             b == FirstEvent[fi][ri]
             c == FirstEvent[fi][ri + 1]
             count == RecordAt(fi, ri).event_count
  <2>1. /\ a \in Nat /\ b \in Nat /\ c \in Nat /\ count \in Nat /\ Total \in Nat
        /\ c = b + count /\ a + c <= Total /\ a + b <= e /\ e < a + c
    BY NumbersOfRecord, OffsetSteps
  <2> HIDE DEF a, b, c, count
  <2>2. /\ a + b \in Nat /\ e - (a + b) + 1 \in 1..count /\ (a + b) + (e - (a + b) + 1) = e + 1
        /\ e < Total
    BY <2>1
  <2> QED BY <2>1, <2>2 DEF a, b, count
<1>2. Numbering[base + k] = [file |-> fi, record |-> ri, event |-> k]
  BY <1>1, NumberingIs DEF RecordAt
<1>3. e \in EventNumbers
  BY <1>1 DEF EventNumbers
<1>4. Numbering[e + 1] = [file |-> fi, record |-> ri, event |-> k]
  BY <1>1, <1>2
<1> HIDE DEF k
<1> QED BY <1>3, <1>4 DEF Asked, k

(* How far the iterator is, a number.                                      *)
LEMMA PositionIs ==
  ASSUME IterInv
  PROVE  /\ Total \in Nat /\ EventsOfCurrent \in Nat /\ next_event \in Nat
         /\ file = 0 => Position = file_event_offsets[next_file + 1] /\ next_file + 1 \in 1..Len(Files) + 1
         /\ file # 0 =>
              /\ file \in 1..Len(Files)
              /\ next_record \in 0..Len(Files[file])
              /\ ~(next_event < EventsOfCurrent) =>
                   Position = file_event_offsets[file] + FirstEvent[file][next_record + 1]
              /\ next_event < EventsOfCurrent =>
                   /\ next_record \in 1..Len(Files[file])
                   /\ Position = file_event_offsets[file] + FirstEvent[file][next_record] + next_event
         /\ Position \in Nat
<1>1. EventsOfCurrent \in Nat /\ next_event \in Nat
  BY EventsOfNat DEF EventsOfCurrent, EventsOf, IterInv, OnRecord, TypeOK
<1>2. Total \in Nat /\ file_event_offsets \in [1..Len(Files) + 1 -> Nat] /\ Len(Files) \in Nat
  BY OffsetSteps, FilesShape
<1>3. CASE file = 0
  <2>1. next_file + 1 \in 1..Len(Files) + 1
    BY <1>2 DEF IterInv, TypeOK
  <2> QED BY <1>1, <1>2, <1>3, <2>1 DEF Position
<1>4. CASE file # 0
  <2>1. file \in 1..Len(Files)
    BY <1>2, <1>4 DEF IterInv, TypeOK
  <2>2. Len(Files[file]) \in Nat /\ FirstEvent[file] \in [1..Len(Files[file]) + 1 -> Nat]
    BY <2>1, FilesShape, FirstEventSteps
  <2>3. next_record \in 0..Len(Files[file])
    BY <1>4, <2>2 DEF IterInv, OnRecord, TypeOK
  <2>4. file_event_offsets[file] \in Nat
    <3>1. file \in 1..Len(Files) + 1
      BY <1>2, <2>1
    <3> QED BY <1>2, <3>1
  <2>5. CASE next_event < EventsOfCurrent
    <3>1. next_record # 0
      BY <2>5 DEF IterInv, OnRecord
    <3>2. next_record \in 1..Len(Files[file]) /\ next_record \in 1..Len(Files[file]) + 1
      BY <2>2, <2>3, <3>1
    <3>3. FirstEvent[file][next_record] \in Nat
      BY <2>2, <3>2
    <3>4. Position = file_event_offsets[file] + (FirstEvent[file][next_record] + next_event)
      BY <1>4, <2>5 DEF Position
    <3> QED BY <1>1, <1>2, <1>4, <2>1, <2>3, <2>4, <2>5, <3>2, <3>3, <3>4
  <2>6. CASE ~(next_event < EventsOfCurrent)
    <3>1. next_record + 1 \in 1..Len(Files[file]) + 1
      BY <2>2, <2>3
    <3>2. FirstEvent[file][next_record + 1] \in Nat
      BY <2>2, <3>1
    <3>3. Position = file_event_offsets[file] + FirstEvent[file][next_record + 1]
      BY <1>4, <2>6 DEF Position
    <3> QED BY <1>1, <1>2, <1>4, <2>1, <2>3, <2>4, <2>6, <3>2, <3>3
  <2> QED BY <2>5, <2>6
<1> QED BY <1>3, <1>4

(* A step that hands nothing out and passes nothing that was asked for.    *)
LEMMA NothingPassed ==
  ASSUME VisitedSoFar, UNCHANGED <<record_tags, visited, outcome>>,
         Position \in Nat, Position' \in Nat, Position <= Position',
         \A e \in EventNumbers : Position <= e /\ e < Position' => ~Asked(e, record_tags)
  PROVE  VisitedSoFar'
<1>1. Wanted' = Wanted
  BY DEF Wanted
<1>2. \A e \in EventNumbers : e \in Nat
  BY OffsetSteps DEF EventNumbers
<1>3. ASSUME NEW e \in EventNumbers
      PROVE  (e \in Wanted /\ e < Position) <=> (e \in Wanted /\ e < Position')
  BY <1>2 DEF Wanted
<1> QED BY <1>1, <1>3 DEF VisitedSoFar

(* The same of a step that passes nothing at all.                          *)
LEMMA StandsStill ==
  ASSUME VisitedSoFar, UNCHANGED <<record_tags, visited, outcome>>, Position' = Position
  PROVE  VisitedSoFar'
BY DEF VisitedSoFar, Wanted

(* From one file to the next, and past the end of the last.                *)
LEMMA OpenNextSteps ==
  ASSUME IterInv, VisitedSoFar, OpenNext
  PROVE  VisitedSoFar' /\ [Scan!Next]_(Scan!vars)
<1>0. Len(Files) \in Nat /\ Total \in Nat
  BY FilesShape, OffsetSteps
<1>1. file = 0 /\ calling /\ UNCHANGED <<record_tags, visited>>
  BY DEF OpenNext
<1>2. outcome = "running" /\ next_file \in 0..Len(Files)
  BY <1>1 DEF IterInv, RoomToHold, TypeOK
<1>3. Position = file_event_offsets[next_file + 1] /\ Position \in Nat
  BY <1>1, PositionIs
<1>4. Wanted' = Wanted /\ Unreadable' = Unreadable
  BY <1>1 DEF Wanted, Unreadable
<1>5. CASE next_file < Len(Files)
  <2>1. /\ file' = next_file + 1 /\ next_record' = 0 /\ next_event' = 0
        /\ current' = NoRecord /\ outcome' = outcome
    BY <1>5 DEF OpenNext
  <2>2. EventsOfCurrent' = 0
    BY <2>1 DEF EventsOfCurrent
  <2>3. next_file + 1 \in 1..Len(Files)
    BY <1>0, <1>2, <1>5
  <2>4. FirstEvent[next_file + 1][1] = 0
    BY <2>3, FirstEventSteps
  <2>5. next_file + 1 # 0
    BY <1>2
  <2>6. Position' = file_event_offsets[next_file + 1] + FirstEvent[next_file + 1][0 + 1]
    BY <2>1, <2>2, <2>5 DEF Position
  <2>7. Position' = Position
    BY <1>3, <2>4, <2>6
  <2> QED BY <1>1, <1>4, <2>1, <2>7, StandsStill DEF Scan!vars
<1>6. CASE ~(next_file < Len(Files))
  <2>1. outcome' = "ok"
    BY <1>6 DEF OpenNext
  <2>2. next_file = Len(Files)
    BY <1>0, <1>2, <1>6
  <2>3. Position = Total
    BY <1>3, <2>2 DEF Total
  <2>4. \A e \in Wanted : e \in EventNumbers /\ e < Total
    BY <1>0 DEF Wanted, EventNumbers
  <2>5. \A e \in Wanted : visited[e] = 1
    BY <1>2, <2>3, <2>4 DEF VisitedSoFar
  <2>6. Scan!Finish
    BY <1>1, <1>2, <1>4, <2>1, <2>5 DEF Scan!Finish
  <2> QED BY <2>1, <2>6 DEF VisitedSoFar, Scan!Next
<1> QED BY <1>5, <1>6

(* The end of a file is where the next begins.                             *)
LEMMA EndFileSteps ==
  ASSUME IterInv, VisitedSoFar, EndFile
  PROVE  VisitedSoFar' /\ UNCHANGED Scan!vars
<1>1. /\ UNCHANGED <<record_tags, visited, outcome, next_file>>
      /\ file # 0 /\ next_event >= EventsOfCurrent /\ next_record >= Len(Files[file]) /\ file' = 0
  BY DEF EndFile, Exhausted
<1>2. /\ file \in 1..Len(Files) /\ next_record \in 0..Len(Files[file])
      /\ EventsOfCurrent \in Nat /\ next_event \in Nat /\ Position \in Nat
  BY <1>1, PositionIs
<1>3. Position = file_event_offsets[file] + FirstEvent[file][next_record + 1]
  BY <1>1, <1>2, PositionIs
<1>4. next_record = Len(Files[file])
  BY <1>1, <1>2, FilesShape
<1>5. Position = file_event_offsets[file + 1]
  BY <1>2, <1>3, <1>4, OffsetSteps DEF TotalEvents
<1>6. next_file = file
  BY <1>1 DEF IterInv, OnRecord
<1>7. Position' = Position
  BY <1>1, <1>5, <1>6 DEF Position
<1>8. VisitedSoFar'
  BY <1>1, <1>7, StandsStill
<1> QED BY <1>1, <1>8 DEF Scan!vars, Wanted, Unreadable

(* A record is passed over, loaded or found unreadable.                    *)
LEMMA AdvanceSteps ==
  ASSUME IterInv, VisitedSoFar, AdvanceRecord, IndexesRight
  PROVE  VisitedSoFar' /\ [Scan!Next]_(Scan!vars)
<1> DEFINE ri == next_record + 1
           r == RecordAt(file, ri)
<1>0. /\ file \in 1..Len(Files) /\ ri \in 1..Len(Files[file]) /\ IsRecord(<<file, ri>>)
      /\ next_event >= EventsOfCurrent /\ file # 0 /\ outcome = "running"
  BY NextRecordIs, FilesShape DEF AdvanceRecord, Exhausted, IterInv, RoomToHold
<1>1. EventsOfCurrent \in Nat /\ next_event \in Nat /\ Position \in Nat
      /\ ~(next_event < EventsOfCurrent)
  BY <1>0, PositionIs
<1>2. Position = file_event_offsets[file] + FirstEvent[file][ri]
  BY <1>0, <1>1, PositionIs
<1>3. UNCHANGED <<record_tags, file, visited>> /\ next_record' = ri
  BY DEF AdvanceRecord
<1>4. Wanted' = Wanted /\ Unreadable' = Unreadable
  BY <1>3 DEF Wanted, Unreadable
<1>5. /\ file_event_offsets[file] \in Nat
      /\ FirstEvent[file][ri] \in Nat /\ FirstEvent[file][ri + 1] \in Nat
      /\ r.event_count \in Nat
      /\ FirstEvent[file][ri + 1] = FirstEvent[file][ri] + r.event_count
  BY <1>0, NumbersOfRecord
<1>6. CASE r.header_ok /\ ~Matches(r, record_tags) /\ UNCHANGED <<next_event, current, outcome>>
  <2>1. EventsOfCurrent' = EventsOfCurrent
    BY <1>6 DEF EventsOfCurrent
  <2>2. Position' = file_event_offsets[file] + FirstEvent[file][ri + 1]
    BY <1>0, <1>1, <1>3, <1>6, <2>1 DEF Position
  <2>3. Position' \in Nat /\ Position <= Position'
    BY <1>2, <1>5, <2>2
  <2>4. ASSUME NEW e \in EventNumbers, Position <= e, e < Position' PROVE ~Asked(e, record_tags)
    <3>1. e \in Nat
      BY OffsetSteps DEF EventNumbers
    <3>2. Asked(e, record_tags) => record_tags = {} \/ r.user_word \in record_tags
      BY <1>0, <1>2, <2>2, <2>4, <3>1, AskedIs
    <3> QED BY <1>6, <3>2 DEF Matches
  <2>5. VisitedSoFar'
    BY <1>1, <1>3, <1>6, <2>3, <2>4, NothingPassed
  <2> QED BY <1>3, <1>4, <1>6, <2>5 DEF Scan!vars
<1>7. CASE r.header_ok /\ r.body_ok /\ Load(<<file, ri>>) /\ UNCHANGED outcome
  <2>1. next_event' = 0 /\ current'.at = <<file, ri>>
    BY <1>7 DEF Load, Rewind
  <2>2. <<file, ri>> # <<0, 0>>
    BY <1>0
  <2>3. current' # NoRecord
    BY <2>1, <2>2 DEF NoRecord
  <2>4. EventsOfCurrent' = r.event_count
    <3>1. EventsOfCurrent' = Len(r.passes)
      BY <2>1, <2>3 DEF EventsOfCurrent
    <3>2. r.event_count = Len(r.passes)
      BY <1>0, <1>7 DEF IndexesRight, Readable
    <3> QED BY <3>1, <3>2
  <2>5. Position' = file_event_offsets[file] + (IF 0 < r.event_count THEN FirstEvent[file][ri] + 0
                                                ELSE FirstEvent[file][ri + 1])
    BY <1>0, <1>3, <2>1, <2>4 DEF Position
  <2>6. Position' = Position
    BY <1>2, <1>5, <2>5
  <2>7. VisitedSoFar'
    BY <1>3, <1>7, <2>6, StandsStill
  <2> QED BY <1>3, <1>4, <1>7, <2>7 DEF Scan!vars
<1>8. CASE (~r.header_ok \/ (Matches(r, record_tags) /\ ~r.body_ok)) /\ outcome' = "err"
  <2>1. Unreadable
    <3>1. <<file, ri>> \in ToSet(AllRecords)
      BY <1>0, RecordsOfFiles
    <3>2. PICK i \in DOMAIN AllRecords : AllRecords[i] = <<file, ri>>
      BY <3>1 DEF ToSet
    <3> QED BY <1>8, <3>2 DEF Unreadable
  <2>2. Scan!Fail
    BY <1>0, <1>3, <1>4, <1>8, <2>1 DEF Scan!Fail
  <2> QED BY <1>8, <2>2 DEF VisitedSoFar, Scan!Next
<1> QED BY <1>6, <1>7, <1>8 DEF AdvanceRecord

(* The next event of the record: it is the one the iterator is at.         *)
LEMMA NextEventSteps ==
  ASSUME IterInv, VisitedSoFar, NextEvent, IndexesRight
  PROVE  VisitedSoFar' /\ [Scan!Next]_(Scan!vars)
<1> DEFINE ri == next_record
           r == RecordAt(file, ri)
           k == next_event + 1
<1>1. /\ UNCHANGED <<record_tags, file, next_record, current, outcome>>
      /\ next_event' = k /\ next_event < EventsOfCurrent /\ calling /\ file # 0
  BY DEF NextEvent
<1>2. /\ file \in 1..Len(Files) /\ ri \in 1..Len(Files[file])
      /\ EventsOfCurrent \in Nat /\ next_event \in Nat /\ Position \in Nat /\ Total \in Nat
      /\ Position = file_event_offsets[file] + FirstEvent[file][ri] + next_event
  BY <1>1, PositionIs
<1>3. /\ current.at = <<file, ri>> /\ Readable(r) /\ Matches(r, record_tags)
  BY <1>1 DEF IterInv, OnRecord
<1>3a. RecordAt(current.at[1], current.at[2]) = r
  BY <1>3
<1>4. outcome = "running" /\ visited \in [EventNumbers -> Nat]
  BY <1>1 DEF IterInv, RoomToHold, TypeOK
<1>5. Wanted' = Wanted /\ Unreadable' = Unreadable /\ EventsOfCurrent' = EventsOfCurrent
  BY <1>1 DEF Wanted, Unreadable, EventsOfCurrent
<1>6. EventsOfCurrent = r.event_count
  <2>1. current # NoRecord
    BY <1>1, <1>2 DEF EventsOfCurrent
  <2>2. EventsOfCurrent = Len(r.passes)
    BY <1>3, <2>1 DEF EventsOfCurrent
  <2> QED BY <1>2, <1>3, <2>2 DEF IndexesRight
<1>7. /\ file_event_offsets[file] \in Nat
      /\ FirstEvent[file][ri] \in Nat /\ FirstEvent[file][ri + 1] \in Nat
      /\ r.event_count \in Nat
      /\ FirstEvent[file][ri + 1] = FirstEvent[file][ri] + r.event_count
  BY <1>2, NumbersOfRecord
<1>8. Position' = Position + 1
  <2>1. Position' = file_event_offsets[file]
                      + (IF k < EventsOfCurrent THEN FirstEvent[file][ri] + k
                         ELSE FirstEvent[file][ri + 1])
    BY <1>1, <1>5 DEF Position
  <2> DEFINE a == file_event_offsets[file]
             b == FirstEvent[file][ri]
             c == FirstEvent[file][ri + 1]
  <2>2. /\ Position' = a + (IF k < r.event_count THEN b + k ELSE c)
        /\ Position = a + b + next_event /\ c = b + r.event_count
        /\ a \in Nat /\ b \in Nat /\ r.event_count \in Nat
        /\ next_event \in Nat /\ next_event < r.event_count
    BY <1>1, <1>2, <1>6, <1>7, <2>1
  <2> HIDE DEF a, b, c, r
  <2> QED BY <2>2
<1>9. Position \in EventNumbers /\ (Position \in Wanted <=> r.passes[k])
  <2>1. /\ file_event_offsets[file] + FirstEvent[file][ri] <= Position
        /\ Position < file_event_offsets[file] + FirstEvent[file][ri + 1]
        /\ Position - (file_event_offsets[file] + FirstEvent[file][ri]) + 1 = k
    <3> DEFINE a == file_event_offsets[file]
               b == FirstEvent[file][ri]
               c == FirstEvent[file][ri + 1]
    <3>1. /\ Position = a + b + next_event /\ c = b + r.event_count
          /\ a \in Nat /\ b \in Nat /\ r.event_count \in Nat
          /\ next_event \in Nat /\ next_event < r.event_count
      BY <1>1, <1>2, <1>6, <1>7
    <3> HIDE DEF a, b, c, r
    <3>2. a + b <= Position /\ Position < a + c /\ Position - (a + b) + 1 = k
      BY <3>1
    <3> QED BY <3>2 DEF a, b, c
  <2>2. record_tags = {} \/ r.user_word \in record_tags
    BY <1>3 DEF Matches
  <2>3. Position \in EventNumbers /\
        (Asked(Position, record_tags) <=>
           (record_tags = {} \/ r.user_word \in record_tags) /\ r.passes[k])
    BY <1>2, <2>1, AskedIs
  <2> QED BY <2>2, <2>3 DEF Wanted
<1>10. NumberOf(current.at, k) = Position
  BY <1>2, <1>3, <1>7 DEF NumberOf
<1>11. \A e \in EventNumbers : e \in Nat
  BY <1>2 DEF EventNumbers
<1>12. CASE r.passes[k]
  <2>1. visited' = [visited EXCEPT ![Position] = visited[Position] + 1]
    BY <1>10, <1>12, <1>3a DEF NextEvent
  <2>2. visited[Position] = 0
    BY <1>2, <1>4, <1>9 DEF VisitedSoFar
  <2>3. \A d \in Wanted : d < Position => visited[d] = 1
    BY <1>4 DEF VisitedSoFar, Wanted
  <2>4. visited' = [visited EXCEPT ![Position] = 1]
    BY <2>1, <2>2
  <2>5. Scan!Visit(Position)
    BY <1>1, <1>4, <1>5, <2>2, <2>3, <2>4 DEF Scan!Visit
  <2>6. VisitedSoFar'
    <3>1. ASSUME NEW e \in EventNumbers
          PROVE  visited'[e] = IF e \in Wanted /\ e < Position + 1 THEN 1 ELSE 0
      <4>1. CASE e = Position
        BY <1>2, <1>4, <1>9, <1>12, <2>4, <4>1
      <4>2. CASE e # Position
        <5>1. e < Position + 1 <=> e < Position
          BY <1>2, <1>11, <4>2
        <5>2. visited'[e] = visited[e]
          BY <1>4, <2>4, <4>2
        <5> QED BY <1>4, <5>1, <5>2 DEF VisitedSoFar
      <4> QED BY <4>1, <4>2
    <3> QED BY <1>5, <1>8, <3>1 DEF VisitedSoFar
  <2> QED BY <1>9, <1>12, <2>5, <2>6 DEF Scan!Next
<1>13. CASE ~r.passes[k]
  <2>1. visited' = visited
    BY <1>13, <1>3a DEF NextEvent
  <2>2. ~Asked(Position, record_tags)
    BY <1>9, <1>13 DEF Wanted
  <2>3. \A e \in EventNumbers : Position <= e /\ e < Position + 1 => e = Position
    BY <1>2, <1>11
  <2>4. VisitedSoFar'
    <3>1. Position' \in Nat /\ Position <= Position'
      BY <1>2, <1>8
    <3>2. \A e \in EventNumbers : Position <= e /\ e < Position' => ~Asked(e, record_tags)
      BY <1>8, <2>2, <2>3
    <3> QED BY <1>1, <1>2, <2>1, <3>1, <3>2, NothingPassed
  <2> QED BY <1>1, <1>5, <2>1, <2>4 DEF Scan!vars
<1> QED BY <1>12, <1>13

(* At first nothing was visited.                                           *)
LEMMA InitVisits == Init => VisitedSoFar /\ Scan!Init
<1> SUFFICES ASSUME Init PROVE VisitedSoFar /\ Scan!Init
  OBVIOUS
<1>1. Position = 0
  BY OffsetSteps DEF Init, Position
<1>2. outcome = "running" /\ visited = [e \in EventNumbers |-> 0]
  BY DEF Init
<1>3. \A e \in EventNumbers : ~(e < 0)
  BY OffsetSteps DEF EventNumbers
<1> QED BY <1>1, <1>2, <1>3 DEF VisitedSoFar, Scan!Init

(* The caller's own steps hand nothing out.                                *)
LEMMA CallerSteps ==
  ASSUME VisitedSoFar, Call \/ DropEvent \/ UNCHANGED vars
  PROVE  VisitedSoFar' /\ UNCHANGED Scan!vars
<1>1. UNCHANGED <<record_tags, file, next_file, next_record, next_event, current, visited, outcome>>
  BY DEF Call, DropEvent, vars, iter
<1> QED BY <1>1 DEF VisitedSoFar, Position, EventsOfCurrent, Wanted, Scan!vars, Unreadable

(* The iterator implements an ordered scan: every event asked for is handed *)
(* out once and in the order of the chain, and it ends well only after the  *)
(* last; provided the index of each file counts its readable records right. *)
THEOREM IteratorHandsOutInOrder ==
  ASSUME IndexesRight
  PROVE  Spec => HandsOutInOrder
<1>1. Init => VisitedSoFar /\ Scan!Init
  BY InitVisits
<1>2. IterInv /\ VisitedSoFar /\ [Next]_vars => VisitedSoFar' /\ [Scan!Next]_(Scan!vars)
  BY OpenNextSteps, EndFileSteps, AdvanceSteps, NextEventSteps, CallerSteps DEF Next
<1> QED BY <1>1, <1>2, IterInvAlways, PTL DEF Spec, HandsOutInOrder
=============================================================================
