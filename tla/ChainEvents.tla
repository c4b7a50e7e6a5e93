---------------------------- MODULE ChainEvents ----------------------------
(***************************************************************************)
(* Chain::events: the sequential iterator over a chain.  It loads one      *)
(* record at a time into a buffer which the events it hands out share, and *)
(* which it takes back for the next record once nobody holds one of them.  *)
(* The caller keeps and drops events as it pleases, on any thread, while   *)
(* the iterator runs.                                                      *)
(***************************************************************************)
EXTENDS Chain

CONSTANTS
  Filters,  \* what record tags may be asked for; the empty set asks for all
  MaxHeld   \* bound: events the caller keeps at once

ASSUME ChainEventsAssumption ==
  /\ Filters \subseteq SUBSET Nat
  /\ MaxHeld \in Nat

(* The payload buffers: as many as can be in use at once, and one more.    *)
Buffer == 1..MaxHeld + 3

(* No buffer: what a record of a split layout is kept in, an allocation of *)
(* its own that nothing ever writes again.                                 *)
None == 0

VARIABLES
  record_tags, \* the record tags asked for, fixed
  calling,     \* next() is running
  file,        \* the file the iterator is in, 0 before the first and between two
  next_file,   \* files begun
  next_record, \* EventIter: records of the file begun
  next_event,  \* EventIter: events of the current record passed
  current,     \* EventIter: the current record, its place and its buffer
  scratch,     \* EventIter: a buffer recovered and not yet used
  written,     \* what each buffer holds: the place of a record
  held,        \* the events the caller has: the place and the buffer of each
  visited,     \* history: how often each event was handed out
  outcome,     \* "running", then "ok" or "err"
  allocated,   \* history: buffers allocated for the current file
  kept         \* history: the caller kept an event past its record

vars == <<record_tags, calling, file, next_file, next_record, next_event, current, scratch,
          written, held, visited, outcome, allocated, kept>>

iter == <<next_record, next_event, current, scratch>>

NoRecord == [at |-> <<0, 0>>, buffer |-> None]

EventNumbers == 0..Total - 1
NumberOf(at, k) == file_event_offsets[at[1]] + FirstEvent[at[1]][at[2]] + k - 1

EventsOfCurrent ==
  IF current = NoRecord THEN 0 ELSE Len(RecordAt(current.at[1], current.at[2]).passes)

TypeOK ==
  /\ record_tags \in Filters
  /\ calling \in BOOLEAN
  /\ file \in 0..Len(Files) /\ next_file \in 0..Len(Files)
  /\ next_record \in Nat
  /\ next_event \in 0..EventsOfCurrent
  /\ current \in [at: Nat \X Nat, buffer: Buffer \cup {None}]
  /\ scratch \in Buffer \cup {None}
  /\ written \in [Buffer -> Nat \X Nat]
  /\ held \subseteq [at: Nat \X Nat, event: Nat, buffer: Buffer \cup {None}]
  /\ visited \in [EventNumbers -> Nat]
  /\ outcome \in {"running", "ok", "err"}
  /\ allocated \in Nat
  /\ kept \in BOOLEAN

Init ==
  /\ record_tags \in Filters
  /\ calling = FALSE
  /\ file = 0 /\ next_file = 0
  /\ next_record = 0 /\ next_event = 0
  /\ current = NoRecord
  /\ scratch = None
  /\ written = [b \in Buffer |-> <<0, 0>>]
  /\ held = {}
  /\ visited = [e \in EventNumbers |-> 0]
  /\ outcome = "running"
  /\ allocated = 0
  /\ kept = FALSE

(* Arc::try_unwrap: the iterator's is the only reference to the buffer.    *)
Shared(b) == \E h \in held : h.buffer = b

(* Allocating takes a buffer nothing refers to.                            *)
Fresh == CHOOSE b \in Buffer : ~Shared(b) /\ b # current.buffer /\ b # scratch

(* The caller asks for the next event.                                     *)
Call ==
  /\ ~calling
  /\ outcome = "running"
  /\ Cardinality(held) < MaxHeld
  /\ calling' = TRUE
  /\ UNCHANGED <<record_tags, file, next_file, iter, written, held, visited, outcome, allocated, kept>>

(* The caller drops an event, whatever the iterator is doing.              *)
DropEvent ==
  /\ \E h \in held : held' = held \ {h}
  /\ UNCHANGED <<record_tags, calling, file, next_file, iter, written, visited, outcome, allocated, kept>>

(* open_next: a new EventIter for the next file, or the end of the chain.  *)
OpenNext ==
  /\ calling /\ file = 0
  /\ IF next_file < Len(Files)
     THEN /\ file' = next_file + 1
          /\ next_file' = next_file + 1
          /\ UNCHANGED <<calling, outcome>>
     ELSE /\ outcome' = "ok"
          /\ calling' = FALSE
          /\ UNCHANGED <<file, next_file>>
  /\ next_record' = 0 /\ next_event' = 0
  /\ current' = NoRecord
  /\ scratch' = None
  /\ allocated' = 0
  /\ UNCHANGED <<record_tags, written, held, visited, kept>>

(* Mutants of Exhausted: one event early, one late.                        *)
ExhaustedEarly == calling /\ file # 0 /\ next_event + 1 >= EventsOfCurrent
ExhaustedLate  == calling /\ file # 0 /\ next_event > EventsOfCurrent

Exhausted == calling /\ file # 0 /\ next_event >= EventsOfCurrent

(* The last record of the file is behind: the EventIter is dropped.        *)
EndFile ==
  /\ Exhausted
  /\ next_record >= Len(Files[file])
  /\ file' = 0
  /\ next_record' = 0 /\ next_event' = 0
  /\ current' = NoRecord
  /\ scratch' = None
  /\ UNCHANGED <<record_tags, calling, next_file, written, held, visited, outcome, allocated, kept>>

(* Mutants of Recovered: taken back though shared, never taken back.       *)
RecoveredShared == current.buffer
RecoveredNever  == None

(* What becomes of the old record's buffer when another is loaded: the     *)
(* iterator has it back unless an event still shares it.                   *)
Recovered ==
  IF current.buffer # None /\ ~Shared(current.buffer) THEN current.buffer ELSE None

(* Mutant of Rewind: the position in the old record is kept.               *)
KeepPosition == next_event' = next_event

Rewind == next_event' = 0

(* The record is loaded; a record of the one-blob layout goes into the     *)
(* buffer just recovered, else the one in scratch, else a new one.         *)
Load(at) ==
  /\ Rewind
  /\ kept' = (kept \/ (current.buffer # None /\ Shared(current.buffer)))
  /\ IF RecordAt(at[1], at[2]).layout = "split"
     THEN /\ current' = [at |-> at, buffer |-> None]
          /\ scratch' = IF Recovered # None THEN Recovered ELSE scratch
          /\ UNCHANGED <<written, allocated>>
     ELSE \E b \in Buffer :
            /\ \/ /\ Recovered # None /\ b = Recovered
                  /\ UNCHANGED <<scratch, allocated>>
               \/ /\ Recovered = None /\ scratch # None /\ b = scratch
                  /\ scratch' = None
                  /\ UNCHANGED allocated
               \/ /\ Recovered = None /\ scratch = None /\ b = Fresh
                  /\ allocated' = allocated + 1
                  /\ UNCHANGED scratch
            /\ current' = [at |-> at, buffer |-> b]
            /\ written' = [written EXCEPT ![b] = at]

(* advance_record, one turn of its loop: a record whose tag does not match *)
(* is skipped on the strength of its header; one that cannot be read ends  *)
(* the iteration with an error.                                            *)
AdvanceRecord ==
  /\ Exhausted
  /\ next_record < Len(Files[file])
  /\ next_record' = next_record + 1
  /\ LET at == <<file, next_record + 1>>
         r  == RecordAt(file, next_record + 1)
     IN  \/ /\ r.header_ok
            /\ ~Matches(r, record_tags)
            /\ UNCHANGED <<calling, next_event, current, scratch, written, outcome, allocated, kept>>
         \/ /\ r.header_ok
            /\ Matches(r, record_tags)
            /\ r.body_ok
            /\ Load(at)
            /\ UNCHANGED <<calling, outcome>>
         \/ /\ ~r.header_ok \/ (Matches(r, record_tags) /\ ~r.body_ok)
            /\ outcome' = "err"
            /\ calling' = FALSE
            /\ UNCHANGED <<next_event, current, scratch, written, allocated, kept>>
  /\ UNCHANGED <<record_tags, file, next_file, held, visited>>

(* The next event of the current record: handed out, unless the filter     *)
(* turns it down.                                                          *)
NextEvent ==
  /\ calling /\ file # 0
  /\ next_event < EventsOfCurrent
  /\ next_event' = next_event + 1
  /\ IF RecordAt(current.at[1], current.at[2]).passes[next_event + 1]
     THEN /\ held' = held \cup {[at |-> current.at, event |-> next_event + 1,
                                 buffer |-> current.buffer]}
          /\ visited' = [visited EXCEPT ![NumberOf(current.at, next_event + 1)] = @ + 1]
          /\ calling' = FALSE
     ELSE UNCHANGED <<calling, held, visited>>
  /\ UNCHANGED <<record_tags, file, next_file, next_record, current, scratch, written, outcome,
                 allocated, kept>>

Next == Call \/ DropEvent \/ OpenNext \/ EndFile \/ AdvanceRecord \/ NextEvent

(* A call that has begun runs on; whether to call and what to drop is the  *)
(* caller's affair.                                                        *)
Fairness == WF_vars(OpenNext \/ EndFile \/ AdvanceRecord \/ NextEvent)

Spec == Init /\ [][Next]_vars /\ Fairness
-----------------------------------------------------------------------------
(* What is asked for, told from the numbering of events: those whose record *)
(* has one of the tags and that the filter lets pass.                      *)
Asked(g, tags) ==
  LET p == Numbering[g + 1]
      r == RecordAt(p.file, p.record)
  IN  (tags = {} \/ r.user_word \in tags) /\ r.passes[p.event]

Wanted == {g \in EventNumbers : Asked(g, record_tags)}

Unreadable ==
  \E i \in DOMAIN AllRecords :
    LET r == RecordAt(AllRecords[i][1], AllRecords[i][2])
    IN  ~r.header_ok \/ (~r.body_ok /\ Matches(r, record_tags))

Scan == INSTANCE EventScan WITH Ordered <- TRUE, wanted <- Wanted, unreadable <- Unreadable

(* Every event asked for is handed out once and in the order of the chain, *)
(* over empty records and empty files; the iteration ends well only after  *)
(* the last of them, and with an error only at something unreadable.       *)
HandsOutInOrder == Scan!Init /\ [][Scan!Next]_(Scan!vars)

(* An event in the caller's hands keeps showing the record it was read     *)
(* from, though the iterator has gone on and recycles its buffers.         *)
HeldEventsIntact ==
  \A h \in held : h.buffer # None => written[h.buffer] = h.at

(* A caller that keeps no event past its record costs one buffer per file, *)
(* however many records there are and of whatever layouts.                 *)
OneBufferSteadyState == ~kept => allocated <= 1

(* Every call of next returns, however much it has to skip.                *)
NextReturns == calling ~> ~calling
=============================================================================
