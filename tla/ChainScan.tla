----------------------------- MODULE ChainScan -----------------------------
(***************************************************************************)
(* One scan of a chain: for_each, for_each_ranges, par_fold and            *)
(* read_columns, on one thread or on several.  The list of records is made *)
(* first, by reading their headers; workers then take records from it and  *)
(* visit their events.                                                     *)
(***************************************************************************)
EXTENDS Chain

CONSTANTS
  Request,     \* the scans that may be asked for
  MaxThreads   \* bound: workers of a scan

(* A scan visits the events of the records whose tag is in record_tags (of *)
(* all of them when that is empty): the events in ranges (lo is in a range,*)
(* hi is not), or all of them, as for_each does and read_columns without a *)
(* range.                                                                  *)
ASSUME ChainScanAssumption ==
  /\ Request \subseteq [kind: {"for_each", "ranges", "columns"}, record_tags: SUBSET Nat,
                        ranges: Seq([lo: Nat, hi: Nat]), threads: 1..MaxThreads]
  /\ \A r \in Request :
       /\ r.kind = "columns" => Len(r.ranges) <= 1
       /\ r.kind = "for_each" => r.ranges = << >>
  /\ MaxThreads \in Nat

VARIABLES
  request,         \* what is asked, fixed
  tasks,           \* the records to go through, by their places in AllRecords,
                   \* each with the ranges that touch it, fixed
  todo,            \* those no worker has taken
  at,              \* the record of each worker, 0 when it has none
  next_event,      \* the event of its record each worker comes to next
  visits,          \* for each record, the events f has been called with
  local_in,        \* each worker's counts, for the record it is in
  local_out,
  events_in,       \* the shared atomics
  events_yielded,
  failed,          \* a worker met a record it could not read
  outcome          \* "running", "ok" or "err"

vars == <<request, tasks, todo, at, next_event, visits, local_in, local_out,
          events_in, events_yielded, failed, outcome>>

Worker == 1..MaxThreads
(***************************************************************************)
(* The events in a request's ranges (for_each_ranges).                     *)
(***************************************************************************)
LowOf(a, b) == IF a < b THEN a ELSE b
HighOf(a, b) == IF a > b THEN a ELSE b

(* Clamped to the chain; the empty and the inverted are dropped.  (A range *)
(* given twice merges with itself, so they are a set.)                     *)
Clamped(ranges) ==
  {r \in {[lo |-> LowOf(ranges[i].lo, Total), hi |-> LowOf(ranges[i].hi, Total)] :
            i \in DOMAIN ranges} : r.lo < r.hi}

Before(r, s) == r.lo < s.lo \/ (r.lo = s.lo /\ r.hi < s.hi)

(* Mutant of Sorted: the last one first.                                   *)
Unsorted(S) == CHOOSE s \in [1..Cardinality(S) -> S] :
                 \A i, j \in DOMAIN s : i < j => Before(s[j], s[i])

Sorted(S) == CHOOSE s \in [1..Cardinality(S) -> S] :
               \A i, j \in DOMAIN s : i < j => Before(s[i], s[j])

(* Each merged into the one before when they meet.                         *)
MergeInto(done, r) ==
  LET n == Len(done)
  IN  IF n # 0 /\ r.lo <= done[n].hi
      THEN [done EXCEPT ![n] = [lo |-> @.lo, hi |-> HighOf(@.hi, r.hi)]]
      ELSE Append(done, r)

Merged(ranges) ==
  LET wanted == Sorted(Clamped(ranges))
      merged[n \in 0..Len(wanted)] ==
        IF n = 0 THEN << >> ELSE MergeInto(merged[n - 1], wanted[n])
  IN  merged[Len(wanted)]

(* The record at a place in AllRecords, and where it begins and ends in    *)
(* the numbering of the chain.                                             *)
RecordOf(i) == RecordAt(AllRecords[i][1], AllRecords[i][2])

RecStart(i) == file_event_offsets[AllRecords[i][1]] + FirstEvent[AllRecords[i][1]][AllRecords[i][2]]

(* Mutant of RecEnd: the last event's number, not the one after it.        *)
RecLast(i) == RecStart(i) + RecordOf(i).event_count - 1

RecEnd(i) == RecStart(i) + RecordOf(i).event_count

(* The merged ranges that touch a record: a slice found by two searches.   *)
Window(i, ranges) ==
  LET merged == Merged(ranges)
      ended  == [k \in DOMAIN merged |-> merged[k].hi <= RecStart(i)]
      begun  == [k \in DOMAIN merged |-> merged[k].lo < RecEnd(i)]
  IN  SubSeq(merged, PartitionPoint(ended) + 1, PartitionPoint(begun))

InRanges(ranges, g) == \E i \in DOMAIN ranges : ranges[i].lo <= g /\ g < ranges[i].hi

(* The tasks of a scan: the records with a matching tag, for a scan by     *)
(* ranges only those that some of them touch, which the task remembers.    *)
RangesFor(i, r) == IF r.kind = "ranges" THEN Window(i, r.ranges) ELSE r.ranges

Touched(r) ==
  {i \in DOMAIN AllRecords : /\ Matches(RecordOf(i), r.record_tags)
                             /\ r.kind = "ranges" => RangesFor(i, r) # << >>}

TasksOf(r) == [i \in Touched(r) |-> RangesFor(i, r)]

(* Mutant of Holds: the whole record.                                      *)
HoldsWhole(i, k) == TRUE

(* EventWindow::holds and in_range, for event k of record i.               *)
Holds(i, k) == request.ranges # << >> => InRanges(tasks[i], RecStart(i) + k - 1)

(* read_columns passes over a record outside the range without reading it. *)
PassedOver(i) ==
  /\ request.kind = "columns"
  /\ request.ranges # << >>
  /\ RecEnd(i) <= request.ranges[1].lo \/ RecStart(i) >= request.ranges[1].hi
-----------------------------------------------------------------------------
Init ==
  /\ request \in Request
  /\ tasks = TasksOf(request)
  /\ todo = DOMAIN tasks
  /\ at = [w \in Worker |-> 0]
  /\ next_event = [w \in Worker |-> 1]
  /\ visits = [i \in DOMAIN AllRecords |-> << >>]
  /\ local_in = [w \in Worker |-> 0]
  /\ local_out = [w \in Worker |-> 0]
  /\ events_in = 0
  /\ events_yielded = 0
  /\ failed = FALSE
  /\ outcome = "running"

RecordIn(w) == RecordOf(at[w])

(* Mutant of Taken: the task is left where another worker finds it.        *)
LeftBehind(i) == todo

Taken(i) == todo \ {i}

(* Mutant of AllIdle: waits for the tasks an error leaves undone.          *)
AllDone == todo = {} /\ \A w \in Worker : at[w] = 0

AllIdle == \A w \in Worker : at[w] = 0

(* On one thread, and in fold: the records in order, up to the first error. *)
NextInOrder(i) == ~failed /\ \A j \in todo : i <= j

(* A worker takes a record and reads it.  Several take them in any order,  *)
(* and may take more before they learn of an error.                        *)
Take(w) ==
  /\ outcome = "running"
  /\ w <= request.threads
  /\ at[w] = 0
  /\ \E i \in todo :
       /\ request.threads = 1 => NextInOrder(i)
       /\ todo' = Taken(i)
       /\ \/ /\ ~PassedOver(i)
             /\ Readable(RecordOf(i))
             /\ at' = [at EXCEPT ![w] = i]
             /\ next_event' = [next_event EXCEPT ![w] = 1]
             /\ local_in' = [local_in EXCEPT ![w] = 0]
             /\ local_out' = [local_out EXCEPT ![w] = 0]
             /\ UNCHANGED failed
          \/ /\ ~PassedOver(i)
             /\ ~Readable(RecordOf(i))
             /\ failed' = TRUE
             /\ UNCHANGED <<at, next_event, local_in, local_out>>
          \/ /\ PassedOver(i)
             /\ UNCHANGED <<at, next_event, local_in, local_out, failed>>
  /\ UNCHANGED <<request, tasks, visits, events_in, events_yielded, outcome>>

(* The next event of its record: outside the request it is not counted,    *)
(* turned down by the filter it is counted, else f is called with it.      *)
VisitEvent(w) ==
  /\ at[w] # 0
  /\ next_event[w] <= Len(RecordIn(w).passes)
  /\ LET k == next_event[w]
         inside == Holds(at[w], k)
         passes == inside /\ RecordIn(w).passes[k]
     IN  /\ next_event' = [next_event EXCEPT ![w] = k + 1]
         /\ local_in' = IF inside THEN [local_in EXCEPT ![w] = @ + 1] ELSE local_in
         /\ local_out' = IF passes THEN [local_out EXCEPT ![w] = @ + 1] ELSE local_out
         /\ visits' = IF passes THEN [visits EXCEPT ![at[w]] = Append(@, k)] ELSE visits
  /\ UNCHANGED <<request, tasks, todo, at, events_in, events_yielded, failed, outcome>>

(* The record is done: its counts go to the shared ones, which             *)
(* read_columns does not keep.                                             *)
EndRecord(w) ==
  /\ at[w] # 0
  /\ next_event[w] > Len(RecordIn(w).passes)
  /\ IF request.kind = "columns"
     THEN UNCHANGED <<events_in, events_yielded>>
     ELSE /\ events_in' = events_in + local_in[w]
          /\ events_yielded' = events_yielded + local_out[w]
  /\ at' = [at EXCEPT ![w] = 0]
  /\ next_event' = [next_event EXCEPT ![w] = 1]
  /\ local_in' = [local_in EXCEPT ![w] = 0]
  /\ local_out' = [local_out EXCEPT ![w] = 0]
  /\ UNCHANGED <<request, tasks, todo, visits, failed, outcome>>

(* All workers are idle: the scan returns.                                 *)
Join ==
  /\ outcome = "running"
  /\ AllIdle
  /\ \/ failed /\ outcome' = "err"
     \/ ~failed /\ todo = {} /\ outcome' = "ok"
  /\ UNCHANGED <<request, tasks, todo, at, next_event, visits, local_in, local_out,
                 events_in, events_yielded, failed>>

Next ==
  \/ \E w \in Worker : Take(w) \/ VisitEvent(w) \/ EndRecord(w)
  \/ Join

(* Every worker that has work goes on with it, and the pool waits for all  *)
(* of them: none of the steps waits for anything else.                     *)
Fairness ==
  /\ \A w \in Worker : WF_vars(Take(w) \/ VisitEvent(w) \/ EndRecord(w))
  /\ WF_vars(Join)

Spec == Init /\ [][Next]_vars /\ Fairness
-----------------------------------------------------------------------------
TypeOK ==
  /\ request \in Request
  /\ tasks \in [DOMAIN tasks -> Seq([lo: Nat, hi: Nat])] /\ DOMAIN tasks \subseteq DOMAIN AllRecords
  /\ todo \subseteq DOMAIN tasks
  /\ at \in [Worker -> {0} \cup (DOMAIN tasks \ todo)]
  /\ next_event \in [Worker -> Nat \ {0}]
  /\ visits \in [DOMAIN AllRecords -> Seq(Nat)]
  /\ local_in \in [Worker -> Nat] /\ local_out \in [Worker -> Nat]
  /\ events_in \in Nat /\ events_yielded \in Nat
  /\ failed \in BOOLEAN
  /\ outcome \in {"running", "ok", "err"}

(* What is asked for, told from the numbering of events and not from the   *)
(* index: the events, by number, whose record has one of the tags, that    *)
(* are in a range and that the filter lets pass.                           *)
InRequest(r, g) ==
  LET p == Numbering[g + 1]
  IN  /\ r.record_tags = {} \/ RecordAt(p.file, p.record).user_word \in r.record_tags
      /\ r.kind = "ranges" \/ r.ranges # << >> => InRanges(r.ranges, g)

Passes(g) ==
  LET p == Numbering[g + 1] IN RecordAt(p.file, p.record).passes[p.event]

Counted == [r \in Request |-> {g \in 0..Total - 1 : InRequest(r, g)}]
Wanted  == [r \in Request |-> {g \in Counted[r] : Passes(g)}]

(* The events visited, by number, put together record by record, and how   *)
(* often each was.                                                         *)
VisitedIn(i) == [j \in DOMAIN visits[i] |-> RecStart(i) + visits[i][j] - 1]
Chunks == FlattenSeq([i \in DOMAIN AllRecords |-> VisitedIn(i)])
Visited == [g \in 0..Total - 1 |-> Cardinality({a \in DOMAIN Chunks : Chunks[a] = g})]

(* A record whose header cannot be read matches no tag: what follows from  *)
(* the properties below being true rests on there being none where a tag   *)
(* is asked for (NeverShort is about what happens otherwise).              *)
TagsReadable ==
  \A r \in Request : r.record_tags # {} =>
    \A i \in DOMAIN AllRecords : RecordOf(i).header_ok

Unreadable ==
  \E i \in DOMAIN AllRecords :
    ~RecordOf(i).header_ok \/ (~RecordOf(i).body_ok /\ Matches(RecordOf(i), request.record_tags))

Scan == INSTANCE EventScan
          WITH Ordered <- FALSE, wanted <- Wanted[request], unreadable <- Unreadable,
               visited <- Visited

(* However the records fall to the workers, each event asked for is        *)
(* visited once, no other ever is, the scan succeeds only when all have    *)
(* been, and fails only over a record that cannot be read.                 *)
VisitsEachEventOnce == Scan!Init /\ [][Scan!Next]_(Scan!vars)

(* Put together record by record, what was visited is in the order of the  *)
(* chain, and in the end it is all that was asked for (read_columns        *)
(* returns it that way); on one thread it is visited in that order too:    *)
(* nothing asked for is missing before the last event visited.             *)
ChunksInOrder ==
  /\ \A a, b \in DOMAIN Chunks : a < b => Chunks[a] < Chunks[b]
  /\ ToSet(Chunks) \subseteq Wanted[request]
  /\ outcome = "ok" => ToSet(Chunks) = Wanted[request]
  /\ request.threads = 1 =>
       \A d \in Wanted[request] : \A e \in ToSet(Chunks) : d < e => d \in ToSet(Chunks)

(* The statistics returned tell what was done: every event in the request  *)
(* counted, and every visit.                                               *)
CountersAgree ==
  outcome = "ok" /\ request.kind # "columns" =>
    /\ events_in = Cardinality(Counted[request])
    /\ events_yielded = Len(Chunks)

(* The scan ends.                                                          *)
ScanEnds == <>(outcome # "running")

(* read_columns: "a corrupt record aborts with Err - never a short or      *)
(* misaligned result".                                                     *)
NeverShort ==
  request.kind = "columns" /\ outcome = "ok" => ToSet(Chunks) = Wanted[request]
=============================================================================
