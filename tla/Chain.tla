------------------------------- MODULE Chain -------------------------------
(***************************************************************************)
(* A chain of files as its readers see it once the files are open: the     *)
(* index of every file, the global numbering of events laid over them, the *)
(* way an event number is resolved to a place, and the list of records a   *)
(* scan goes through.  The files are constants here; what changes while a  *)
(* chain is used is in ChainTags, ChainScan and ChainEvents.               *)
(***************************************************************************)
EXTENDS Integers, FiniteSets, SequencesExt

CONSTANT
  Files   \* the files in input order, each the sequence of its index's records

(* A record: the events its index row announces, for each event it really  *)
(* holds whether the filter lets it pass, the user word of its header,     *)
(* whether its header and the rest of it can be read, and its layout:      *)
(* uncompressed, compressed as one blob, or split by bank or column.       *)
Record == [event_count: Nat, passes: Seq(BOOLEAN), user_word: Nat,
           header_ok: BOOLEAN, body_ok: BOOLEAN, layout: {"plain", "blob", "split"}]

ASSUME ChainAssumption == Files \in Seq(Seq(Record))

RecordAt(fi, ri) == Files[fi][ri]

Readable(r) == r.header_ok /\ r.body_ok

(* The index of every file announces what its readable records hold, as    *)
(* the index of a file the writer finished does: theorems that rest on it  *)
(* say so.                                                                 *)
IndexesRight ==
  \A fi \in 1..Len(Files) : \A ri \in 1..Len(Files[fi]) :
    Readable(RecordAt(fi, ri)) => RecordAt(fi, ri).event_count = Len(RecordAt(fi, ri).passes)

(* FileEventIndex::push: the events before record ri of file fi; one past  *)
(* the last record it is the total.                                        *)
FirstEvent ==
  [fi \in DOMAIN Files |->
     LET first[ri \in 1..Len(Files[fi]) + 1] ==
           IF ri = 1 THEN 0 ELSE first[ri - 1] + Files[fi][ri - 1].event_count
     IN  first]

TotalEvents(fi) == FirstEvent[fi][Len(Files[fi]) + 1]

(* from_inners: the events in the files before file fi, and their total.   *)
file_event_offsets ==
  LET offset[fi \in 1..Len(Files) + 1] ==
        IF fi = 1 THEN 0 ELSE offset[fi - 1] + TotalEvents(fi - 1)
  IN  offset

Total == file_event_offsets[Len(Files) + 1]

(* slice::partition_point, of a slice that begins with all that satisfy a  *)
(* predicate: satisfied says of each whether it does.                      *)
PartitionPoint(satisfied) == Cardinality({i \in DOMAIN satisfied : satisfied[i]})

Nowhere == [file |-> 0, record |-> 0, event |-> 0]

(* FileEventIndex::locate, for an event number of the file.                *)
Locate(fi, local) ==
  LET ri == PartitionPoint([r \in DOMAIN Files[fi] |-> FirstEvent[fi][r] <= local])
  IN  IF local >= TotalEvents(fi) THEN Nowhere
      ELSE [file |-> fi, record |-> ri, event |-> local - FirstEvent[fi][ri] + 1]

(* The place of event idx of the chain; Nowhere when there is none.        *)
Resolve(idx) ==
  LET fi == PartitionPoint([f \in DOMAIN file_event_offsets |-> file_event_offsets[f] <= idx])
  IN  IF fi > Len(Files) THEN Nowhere ELSE Locate(fi, idx - file_event_offsets[fi])

(* The records of the chain, file by file.                                 *)
AllRecords ==
  FlattenSeq([fi \in DOMAIN Files |-> [ri \in DOMAIN Files[fi] |-> <<fi, ri>>]])

(* build_tasks: the records whose user word is one of the record tags, all *)
(* of them when no tag is asked for.  A header that cannot be read does    *)
(* not match.                                                              *)
Matches(r, record_tags) ==
  record_tags = {} \/ (r.header_ok /\ r.user_word \in record_tags)

BuildTasks(record_tags) ==
  FlattenSeq([i \in DOMAIN AllRecords |->
    IF Matches(RecordAt(AllRecords[i][1], AllRecords[i][2]), record_tags) THEN <<AllRecords[i]>> ELSE << >>])

(* What the numbering is meant to be, event by event: the reference the    *)
(* definitions above are checked against.                                  *)
Numbering ==
  FlattenSeq([i \in DOMAIN AllRecords |->
    LET fi == AllRecords[i][1] ri == AllRecords[i][2]
    IN  [k \in 1..RecordAt(fi, ri).event_count |-> [file |-> fi, record |-> ri, event |-> k]]])
=============================================================================
