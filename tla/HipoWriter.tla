----------------------------- MODULE HipoWriter -----------------------------
(***************************************************************************)
(* The life of one Writer: events are collected in a record builder, full  *)
(* records go through a buffered file, and finalisation writes the trailer *)
(* and then patches the file header, one system call at a time.  A write   *)
(* can fail part way, and the process can be killed anywhere.              *)
(*                                                                         *)
(* The writer is used by one thread (every operation takes &mut self), so  *)
(* an operation that touches the file once is one action; finalisation,    *)
(* which is several file operations, is an action for each.                *)
(***************************************************************************)
EXTENDS HipoFile

CONSTANTS
  BufCap,             \* capacity of the BufWriter, in cells
  max_record_events,  \* WriterOptions
  max_record_bytes,   \* WriterOptions, in cells
  Batch,              \* prebuilt records: their events and the cells those take
  FaultKinds,         \* the file operations that may fail
  MaxFaults,          \* bound: failures in one behaviour
  MaxRecords          \* bound: records after which the caller appends no more

ASSUME WriterAssumption ==
  /\ BufCap \in Nat /\ BufCap > FileHeaderSize
  /\ max_record_events \in Nat
  /\ max_record_bytes \in Nat
  /\ Batch \subseteq [evs: Seq(Event), bytes: Nat]
  /\ FaultKinds \subseteq {"flush", "direct", "patch"}
  /\ MaxFaults \in Nat
  /\ MaxRecords \in Nat

VARIABLES
  file,           \* the BufWriter and its file: disk cells, file offset, buffer
  builder,        \* the record under construction, and its sticky user word
  index_entries,  \* a row for each record written
  cursor,         \* where the writer believes the next record goes
  finished,       \* finalisation completed
  pc,             \* the operation in progress, "open" between operations
  by,             \* who runs the finalisation: finish or drop
  faults,         \* failures so far
  damaged         \* history: a failure left file offset and cursor apart

vars == <<file, builder, index_entries, cursor, finished, pc, by, faults, damaged>>

Finalizing == {"flush_record", "trailer", "flush", "patch_pos", "patch_bit", "seek_end"}
Done       == {"closed", "gone"}

EmptyBuilder == [evs |-> << >>, bytes |-> 0, user_word |-> 0]

TypeOK ==
  /\ file \in [disk: Seq(Cell), pos: Nat, buf: Seq(Cell)]
  /\ builder \in [evs: Seq(Event), bytes: Nat, user_word: Word]
  /\ index_entries \in Seq(IndexEntry)
  /\ cursor \in Nat
  /\ finished \in BOOLEAN
  /\ pc \in {"new", "open", "drop_file"} \cup Finalizing \cup Done
  /\ by \in {"finish", "drop"}
  /\ faults \in Nat
  /\ damaged \in BOOLEAN

(***************************************************************************)
(* The buffered file (std::io::BufWriter over File).  Each operation is    *)
(* the set of its outcomes: "ok", "err" after some cells, and "kill", the  *)
(* process dying after some cells.  torn marks the failures that move the  *)
(* file offset past bytes the caller was not told about.                   *)
(***************************************************************************)
Outcome(res, kind, f, torn) == [res |-> res, kind |-> kind, file |-> f, torn |-> torn]

(* Mutant of Drained: the file offset stays.                               *)
DrainedInPlace(f, k) ==
  [disk |-> Overwrite(f.disk, f.pos, f.buf, k),
   pos  |-> f.pos,
   buf  |-> SubSeq(f.buf, k + 1, Len(f.buf))]

(* The first k buffered cells reach the file; the rest stay buffered.      *)
Drained(f, k) ==
  [disk |-> Overwrite(f.disk, f.pos, f.buf, k),
   pos  |-> f.pos + k,
   buf  |-> SubSeq(f.buf, k + 1, Len(f.buf))]

Direct(f, new, k) ==
  [disk |-> Overwrite(f.disk, f.pos, new, k), pos |-> f.pos + k, buf |-> f.buf]

BrokenFlush(f) ==
  {Outcome(r, "flush", Drained(f, k), FALSE) : r \in {"err", "kill"}, k \in 0..Len(f.buf) - 1}

Flush(f) == {Outcome("ok", "flush", Drained(f, Len(f.buf)), FALSE)} \cup BrokenFlush(f)

(* write_all: small writes are buffered, after making room when they do    *)
(* not fit; one as large as the buffer goes to the file directly.          *)
Full(f, new)     == Len(new) > BufCap - Len(f.buf)

(* Mutant of MakeRoom: a large write overtakes what is buffered.           *)
NoRoomMade(f, new) == f

MakeRoom(f, new) == IF Full(f, new) THEN Drained(f, Len(f.buf)) ELSE f

Buffered(f, new) == [disk |-> f.disk, pos |-> f.pos, buf |-> f.buf \o new]

BrokenDirect(f, new) ==
  {Outcome(r, "direct", Direct(f, new, k), k > 0) : r \in {"err", "kill"}, k \in 0..Len(new) - 1}

WriteAll(f, new) ==
  (IF Full(f, new) THEN BrokenFlush(f) ELSE {})
  \cup
  IF Len(new) < BufCap
  THEN {Outcome("ok", "buffer", Buffered(MakeRoom(f, new), new), FALSE)}
  ELSE {Outcome("ok", "direct", Direct(MakeRoom(f, new), new, Len(new)), FALSE)}
       \cup BrokenDirect(MakeRoom(f, new), new)

(* What has been handed to the BufWriter, on disk or not.                  *)
Stream == file.disk \o file.buf

(***************************************************************************)
(* How an operation ends, by the outcome of its write.                     *)
(***************************************************************************)
Written(o) == o.res = "ok" /\ file' = o.file /\ UNCHANGED <<faults, damaged>>

(* An error: the operation returns it, having recorded nothing.            *)
Refused(o) ==
  /\ o.res = "err"
  /\ o.kind \in FaultKinds
  /\ faults < MaxFaults
  /\ file' = o.file
  /\ faults' = faults + 1
  /\ damaged' = (damaged \/ o.torn)
  /\ UNCHANGED <<builder, index_entries, cursor, finished>>

(* The writer is gone unfinished, and with it everything but the disk.     *)
Gone(disk) ==
  /\ file' = [disk |-> disk, pos |-> 0, buf |-> << >>]
  /\ builder' = EmptyBuilder
  /\ index_entries' = << >>
  /\ cursor' = 0
  /\ pc' = "gone"
  /\ UNCHANGED <<finished, by, faults, damaged>>

Killed(o) == o.res = "kill" /\ Gone(o.file.disk)

(* Mutants of Recorded: the row's position taken one record too early, and *)
(* taken after the cursor has moved.                                       *)
RecordedTooEarly(r) ==
  /\ cursor' = cursor + Length(r)
  /\ index_entries' = Append(index_entries,
       [position |-> cursor - Length(r), record_length |-> Length(r),
        event_count |-> EventCount(r), user_word |-> r.word])
RecordedTooLate(r) ==
  /\ cursor' = cursor + Length(r)
  /\ index_entries' = Append(index_entries,
       [position |-> cursor', record_length |-> Length(r),
        event_count |-> EventCount(r), user_word |-> r.word])

(* write_record's bookkeeping once the bytes of r are handed over.         *)
Recorded(r) ==
  /\ cursor' = cursor + Length(r)
  /\ index_entries' = Append(index_entries,
       [position |-> cursor, record_length |-> Length(r),
        event_count |-> EventCount(r), user_word |-> r.word])

(* The record flush_record builds.                                         *)
Building == DataRecord(builder.evs, builder.bytes, builder.user_word)

(* Mutant of Reset: the events stay.                                       *)
ResetKeepsEvents(b) == [evs |-> b.evs, bytes |-> 0, user_word |-> b.user_word]

(* RecordBuilder::reset: the user words survive it.                        *)
Reset(b) == [evs |-> << >>, bytes |-> 0, user_word |-> b.user_word]

AddEvent(b, e) ==
  [evs |-> Append(b.evs, e), bytes |-> b.bytes + EventLen[e], user_word |-> b.user_word]

(* Mutant of Overfull: the index words are not counted.                    *)
OverfullData(e) ==
  \/ Len(builder.evs) >= max_record_events
  \/ builder.evs # << >> /\ builder.bytes + EventLen[e] > max_record_bytes

(* append_raw's guard: the event would overfill the record being built.    *)
Overfull(e) ==
  \/ Len(builder.evs) >= max_record_events
  \/ /\ builder.evs # << >>
     /\ Len(builder.evs) + builder.bytes + EventLen[e] > max_record_bytes
-----------------------------------------------------------------------------
Init ==
  /\ file = [disk |-> << >>, pos |-> 0, buf |-> << >>]
  /\ builder = EmptyBuilder
  /\ index_entries = << >>
  /\ cursor = 0
  /\ finished = FALSE
  /\ pc = "new"
  /\ by = "finish"
  /\ faults = 0
  /\ damaged = FALSE

(* create_inner: the file was just truncated; the header is always small   *)
(* enough to be buffered, the dictionary may not be.  When its write fails *)
(* the half-built writer is dropped, and dropping finalises.               *)
Create ==
  /\ pc = "new"
  /\ LET f == [file EXCEPT !.buf = FileHeader]
     IN  \E o \in WriteAll(f, Cells(DictRecord)) :
           \/ /\ Written(o)
              /\ cursor' = FileHeaderSize + Length(DictRecord)
              /\ pc' = "open"
              /\ UNCHANGED <<builder, index_entries, finished, by>>
           \/ /\ o.res = "err" /\ o.kind \in FaultKinds /\ faults < MaxFaults
              /\ file' = o.file
              /\ faults' = faults + 1
              /\ damaged' = (damaged \/ o.torn)
              /\ cursor' = FileHeaderSize
              /\ pc' = "flush_record"
              /\ by' = "drop"
              /\ UNCHANGED <<builder, index_entries, finished>>
           \/ Killed(o)

(* append_raw: the record being built is flushed first when the event      *)
(* would overfill it; if that flush fails the event is not taken.          *)
AppendRaw(e) ==
  /\ pc = "open"
  /\ Len(index_entries) < MaxRecords
  /\ IF Overfull(e) /\ builder.evs # << >>
     THEN \E o \in WriteAll(file, Cells(Building)) :
            \/ /\ Written(o) /\ Recorded(Building)
               /\ builder' = AddEvent(Reset(builder), e)
               /\ UNCHANGED <<finished, pc, by>>
            \/ Refused(o) /\ UNCHANGED <<pc, by>>
            \/ Killed(o)
     ELSE /\ builder' = AddEvent(builder, e)
          /\ UNCHANGED <<file, index_entries, cursor, finished, pc, by, faults, damaged>>

(* flush_record, called by the user.                                       *)
FlushRecord ==
  /\ pc = "open"
  /\ builder.evs # << >>
  /\ Len(index_entries) < MaxRecords
  /\ \E o \in WriteAll(file, Cells(Building)) :
       \/ /\ Written(o) /\ Recorded(Building)
          /\ builder' = Reset(builder)
          /\ UNCHANGED <<finished, pc, by>>
       \/ Refused(o) /\ UNCHANGED <<pc, by>>
       \/ Killed(o)

(* write_record with a prebuilt record: it goes to the file at once, ahead *)
(* of whatever the builder holds.                                          *)
WriteRecord(batch, word) ==
  /\ pc = "open"
  /\ Len(index_entries) < MaxRecords
  /\ LET r == DataRecord(batch.evs, batch.bytes, word)
     IN  \E o \in WriteAll(file, Cells(r)) :
           \/ Written(o) /\ Recorded(r) /\ UNCHANGED <<builder, finished, pc, by>>
           \/ Refused(o) /\ UNCHANGED <<pc, by>>
           \/ Killed(o)

SetUserWord(w) ==
  /\ pc = "open"
  /\ builder' = [builder EXCEPT !.user_word = w]
  /\ UNCHANGED <<file, index_entries, cursor, finished, pc, by, faults, damaged>>

(* finish consumes the writer; letting it go out of scope drops it.        *)
Finalize(who) ==
  /\ pc = "open"
  /\ by' = who
  /\ pc' = "flush_record"
  /\ UNCHANGED <<file, builder, index_entries, cursor, finished, faults, damaged>>

(* Mutant of GiveUp: the writer is left as it was.                         *)
Reopens == pc' = "open" /\ UNCHANGED by

(* A step of finalize failed.  finish returns the error and drops the      *)
(* writer, whose Drop runs finalize again from its first step; a failing   *)
(* Drop leaves only the BufWriter's own drop.                              *)
GiveUp ==
  /\ by' = "drop"
  /\ pc' = IF by = "finish" THEN "flush_record" ELSE "drop_file"

FinalizeRecord ==
  /\ pc = "flush_record"
  /\ IF builder.evs = << >>
     THEN pc' = "trailer"
          /\ UNCHANGED <<file, builder, index_entries, cursor, finished, by, faults, damaged>>
     ELSE \E o \in WriteAll(file, Cells(Building)) :
            \/ /\ Written(o) /\ Recorded(Building)
               /\ builder' = Reset(builder)
               /\ pc' = "trailer"
               /\ UNCHANGED <<finished, by>>
            \/ Refused(o) /\ GiveUp
            \/ Killed(o)

(* write_trailer up to file.flush(): the trailer is handed over and the    *)
(* cursor moves past it.                                                   *)
FinalizeTrailer ==
  /\ pc = "trailer"
  /\ LET r == TrailerRecord(index_entries)
     IN  \E o \in WriteAll(file, Cells(r)) :
           \/ /\ Written(o)
              /\ cursor' = cursor + Length(r)
              /\ pc' = "flush"
              /\ UNCHANGED <<builder, index_entries, finished, by>>
           \/ Refused(o) /\ GiveUp
           \/ Killed(o)

FinalizeFlush ==
  /\ pc = "flush"
  /\ \E o \in Flush(file) :
       \/ /\ Written(o)
          /\ pc' = "patch_pos"
          /\ UNCHANGED <<builder, index_entries, cursor, finished, by>>
       \/ Refused(o) /\ GiveUp
       \/ Killed(o)

(* Mutant of trailer_pos: taken once the trailer is written.               *)
trailer_end == cursor

(* The trailer_pos local of write_trailer: the cursor before the trailer.  *)
trailer_pos == cursor - Length(TrailerRecord(index_entries))

(* A write over one cell of the header: when it fails the seek before it   *)
(* has already moved the file offset there.                                *)
Patch(at, content, next) ==
  \/ /\ file' = [file EXCEPT !.disk = Overwrite(@, at, Cells(content), 1), !.pos = at + 1]
     /\ pc' = next
     /\ UNCHANGED <<builder, index_entries, cursor, finished, by, faults, damaged>>
  \/ /\ "patch" \in FaultKinds /\ faults < MaxFaults
     /\ file' = [file EXCEPT !.pos = at]
     /\ faults' = faults + 1
     /\ damaged' = TRUE
     /\ GiveUp
     /\ UNCHANGED <<builder, index_entries, cursor, finished>>

PatchTrailerPos ==
  pc = "patch_pos" /\ Patch(FH_TRAILER_POS, TrailerPos(trailer_pos), "patch_bit")

(* The read-modify-write of bit_info.  Where the front of the header has   *)
(* been overwritten it turns one byte of something else.                   *)
PatchBitInfo ==
  /\ pc = "patch_bit"
  /\ LET front == file.disk[FH_BIT_INFO + 1].of
     IN  Patch(FH_BIT_INFO, IF front.kind = "front" THEN HeaderFront(1) ELSE front, "seek_end")

(* seek(End(0)), the last flush (nothing is buffered) and finished = true. *)
(* A seek that fails leaves the offset in the header, behind bit_info.     *)
SeekEnd ==
  /\ pc = "seek_end"
  /\ \/ /\ file' = [file EXCEPT !.pos = Len(file.disk)]
        /\ finished' = TRUE
        /\ pc' = "closed"
        /\ UNCHANGED <<builder, index_entries, cursor, by, faults, damaged>>
     \/ /\ "patch" \in FaultKinds /\ faults < MaxFaults
        /\ faults' = faults + 1
        /\ damaged' = TRUE
        /\ GiveUp
        /\ UNCHANGED <<file, builder, index_entries, cursor, finished>>

(* BufWriter's own drop: one more attempt at what is still buffered, whose *)
(* failure nobody hears of.                                                *)
DropFile ==
  /\ pc = "drop_file"
  /\ \E o \in Flush(file) :
       /\ o.res = "err" => "flush" \in FaultKinds
       /\ Gone(o.file.disk)

(* The process is killed between two operations, or waiting in one.        *)
Crash == pc \notin Done /\ Gone(file.disk)

Next ==
  \/ Create
  \/ \E e \in Event : AppendRaw(e)
  \/ FlushRecord
  \/ \E batch \in Batch, w \in Word : WriteRecord(batch, w)
  \/ \E w \in Word : SetUserWord(w)
  \/ \E who \in {"finish", "drop"} : Finalize(who)
  \/ FinalizeRecord
  \/ FinalizeTrailer
  \/ FinalizeFlush
  \/ PatchTrailerPos
  \/ PatchBitInfo
  \/ SeekEnd
  \/ DropFile
  \/ Crash

(***************************************************************************)
(* Properties.  A write that failed half way, or a failed patch, leaves    *)
(* the file offset where the writer does not expect it (damaged); what     *)
(* holds up to then is stated here, what follows in HipoRecovery.          *)
(***************************************************************************)

(* The data record row e stands for, as it was handed to the file.         *)
RecordOf(e, cells) == cells[e.position + 1].of

RowMatches(e, cells) ==
  LET r == RecordOf(e, cells)
  IN  /\ e.position >= FirstData
      /\ e.position + RecordHeaderSize <= Len(cells)
      /\ r.kind = "data"
      /\ Holds(cells, e.position, r)
      /\ e.record_length = Length(r)
      /\ e.event_count = Len(r.evs)
      /\ e.user_word = r.word

(* Each index row describes the record that really lies at its position,   *)
(* in what has been handed to the file; records lie back to back, and the  *)
(* next goes where the cursor says.                                        *)
IndexMatchesStream ==
  ~damaged /\ pc \notin Done =>
    /\ \A i \in DOMAIN index_entries : RowMatches(index_entries[i], Stream)
    /\ \A i \in 1..Len(index_entries) - 1 :
         index_entries[i + 1].position = index_entries[i].position + index_entries[i].record_length
    /\ pc = "open" => cursor = Len(Stream)

(* The header on disk names a trailer only once the whole trailer, and     *)
(* every record it lists, is on disk - at every instant a crash can strike.*)
HeaderNamesTrailer ==
  LET tp == file.disk[FH_TRAILER_POS + 1].of.word
      t  == file.disk[tp + 1].of
  IN  ~damaged /\ Len(file.disk) >= FileHeaderSize /\ tp # 0 =>
        /\ tp + RecordHeaderSize <= Len(file.disk)
        /\ t.kind = "trailer"
        /\ Holds(file.disk, tp, t)
        /\ \A i \in DOMAIN t.rows : RowMatches(t.rows[i], file.disk)

(* A record holds at most max_record_events events (one when that is 0),   *)
(* and unless a single event is larger its payload exceeds                 *)
(* max_record_bytes by no more than the index word of its last event,      *)
(* which append_raw's estimate leaves out.                                 *)
BuilderWithinLimits ==
  /\ Len(builder.evs) <= IF max_record_events = 0 THEN 1 ELSE max_record_events
  /\ Len(builder.evs) > 1 => Len(builder.evs) + builder.bytes <= max_record_bytes + 1

(* Once on disk, the dictionary and the records are never written over.    *)
RecordsNeverOverwritten ==
  [][ ~damaged' =>
        \A i \in FileHeaderSize + 1..Len(file.disk) :
          i <= Len(file'.disk) /\ file'.disk[i] = file.disk[i] ]_vars

(* Finalisation, begun by finish or by drop, ends however often it fails.  *)
FinalizeEnds == (pc \in Finalizing \cup {"drop_file"}) ~> (pc \in Done)
-----------------------------------------------------------------------------
(* The caller may stop calling, but an operation that has begun runs to    *)
(* its end: nothing in it waits.                                           *)
Fairness ==
  WF_vars(Create \/ FinalizeRecord \/ FinalizeTrailer \/ FinalizeFlush
            \/ PatchTrailerPos \/ PatchBitInfo \/ SeekEnd \/ DropFile)

Spec == Init /\ [][Next]_vars /\ Fairness
=============================================================================
