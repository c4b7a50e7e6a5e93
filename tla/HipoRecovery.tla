---------------------------- MODULE HipoRecovery ----------------------------
(***************************************************************************)
(* Writer and reader together: what a reader gets out of the cells a       *)
(* writer left on disk, finished, dropped or killed at any instant, and    *)
(* that the writer so observed is the event log of EventLog.               *)
(***************************************************************************)
EXTENDS HipoWriter, HipoReader

IndexRows(rows) ==
  Index([i \in DOMAIN rows |->
           Span(rows[i].position, rows[i].record_length, rows[i].event_count)])

(* What salvage reads back from the disk.                                  *)
Recovered == EventsOf(file.disk, Salvage(file.disk))

(* The events of the records written, read where the index says they are.  *)
Stored == EventsOf(Stream, IndexRows(index_entries))

(* A finalisation that is repeated after its flush failed writes a second  *)
(* trailer behind the first, which no scan knows for what it is.           *)
OneTrailer ==
  Cardinality({p \in DOMAIN file.disk :
                 file.disk[p].of.kind = "trailer" /\ file.disk[p].at = 0}) <= 1

(* The abstract state: while the writer lives, the records handed to the   *)
(* file and the record being built; once it is gone, what the disk holds.  *)
Log == INSTANCE EventLog
         WITH stored  <- IF pc = "gone" THEN DataOf(file.disk, Salvage(file.disk)) ELSE Stored,
              pending <- builder.evs,
              open    <- pc \notin Done,
              Batch   <- {b.evs : b \in Batch}

(* The writer, with its file, its buffer and its crashes, is an event log: *)
(* events are stored in append order, a crash leaves a prefix of them, a   *)
(* failed flush loses none.                                                *)
WritesAnEventLog == Log!Init /\ [][Log!Next]_(Log!vars)

(* A file that finish completed reads back whole: by its trailer, by the   *)
(* scan the reader falls back to when the trailer is unusable, and by      *)
(* salvage, each giving exactly the events accepted.                       *)
FinishedReadsBack ==
  finished /\ ~damaged =>
    LET d == file.disk IN
    /\ Open(d).ok
    /\ EventsOf(d, Open(d)) = Stored
    /\ OneTrailer =>
         /\ EventsOf(d, ScanIndex(d, FirstData, HeaderTrailerPos(d), FALSE)) = Stored
         /\ Salvage(d).ok /\ Recovered = Stored

(* Killed at this instant, the writer loses no record that was wholly on   *)
(* disk: salvage finds every one of them, even with the file header gone.  *)
SalvageFindsWholeRecords ==
  LET d      == file.disk
      noHead == [i \in DOMAIN d |->
                   IF i <= FileHeaderSize THEN [of |-> DictRecord, at |-> 1] ELSE d[i]]
  IN  ~damaged /\ pc \notin Done /\ OneTrailer =>
        /\ DataOf(d, IndexRows(index_entries)) = Recovered
        /\ EventsOf(d, Salvage(noHead)) = Recovered

(* Whatever a normal open hands out of the file a live writer has left on  *)
(* disk so far, less what it cannot read and what is no data, is a prefix  *)
(* of the events accepted.                                                 *)
OpenReadsAPrefix ==
  ~damaged /\ pc \notin Done =>
    IsPrefix(DataOf(file.disk, Open(file.disk)), Stored)

(* finish is said to be "the place finalisation errors surface", the call  *)
(* that "produces a complete file": when it reports none, the file opens   *)
(* and holds every record written, whatever call failed before.            *)
FinishCompletesTheFile ==
  finished /\ by = "finish" =>
    Open(file.disk).ok /\ EventsOf(file.disk, Open(file.disk)) = Stored
=============================================================================
