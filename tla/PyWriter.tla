----------------------------- MODULE PyWriter -----------------------------
(***************************************************************************)
(* The Python binding's writer.  Batches of events are given to extend,    *)
(* for a new file or to decorate the events of another (update): each      *)
(* source event is copied and the batch's row attached to it.  A call may  *)
(* fail half way and is not undone; the caller gives the batch again.      *)
(* close takes the Rust writer out and finishes it; the Python wrapper     *)
(* calls it again only if it raised.  Any call that finds no writer makes  *)
(* one, and so truncates the file.                                         *)
(***************************************************************************)
EXTENDS Rewrite

CONSTANTS
  AddedBank,    \* the id of the bank that is added
  MaxBatch,     \* events of a batch: a bound of the model
  MaxGiven,     \* events given for a new file: a bound of the model
  MaxFailures,  \* extends that fail half way: a bound of the model
  MaxCloses     \* closes that get as far as the file: a bound of the model

(* The source of an update is opened without a filter.                     *)
ASSUME PyWriterAssumption ==
  /\ {MaxBatch, MaxGiven, MaxFailures, MaxCloses} \subseteq Nat
  /\ \A p \in Programs : p.kind = "update" => ~IsActive(p.filter)

VARIABLES
  built,          \* there is a Rust writer; output is what was handed to it, or to the last
  events_written, \* the events of the extends that returned
  finished,       \* close has returned
  failures,       \* the extends that failed half way
  left,           \* history: the events these left in the file
  closes,         \* the closes that got as far as the file
  rebuilt         \* history: a writer was made after a close took one

python == <<built, events_written, finished, failures, left, closes, rebuilt>>
vars == <<rewriting, python>>

Init ==
  /\ RewriteInit
  /\ built = FALSE /\ events_written = 0 /\ finished = FALSE
  /\ failures = 0 /\ left = 0 /\ closes = 0 /\ rebuilt = FALSE

PyRuns  == outcome = "running" /\ program.kind \in {"update", "create"}
Updates == program.kind = "update"

-----------------------------------------------------------------------------
(* The row given for the k-th event, and its tag, if tags are given.       *)
Row(k) == [id |-> AddedBank, header_size |-> 0, data |-> << <<k>> >>]
Given(k) == {0 - k}

(* One event as it is appended: of the source its tag and its structures,  *)
(* then the row; a tag that is given replaces the source's.                *)
Decorated(at, k) ==
  [tag |-> IF program.tags THEN Given(k) ELSE BytesAt(at).tag,
   structures |-> Append(BytesAt(at).structures, Row(k))]

Fresh(k) == [tag |-> IF program.tags THEN Given(k) ELSE {}, structures |-> <<Row(k)>>]

(* The next n events of the source can be had.                             *)
CanRead(n) ==
  Updates => n <= Len(ahead) /\ \A k \in 1..n : ahead[k].event # Unreadable

(* ensure_writer: Writer::create, which truncates.                         *)
Begun == IF built THEN output ELSE << >>

(* The first n events of a batch, the rows going on from those accepted.   *)
Batch(n) ==
  [k \in 1..n |-> IF Updates THEN Decorated(ahead[k], events_written + k) ELSE Fresh(events_written + k)]

(* extend's checks, before anything is done.                               *)
Fits(n) ==
  /\ ~finished
  /\ events_written + n <= IF Updates THEN Numbers!Total ELSE MaxGiven

Extend(n) ==
  /\ PyRuns /\ Fits(n) /\ CanRead(n)
  /\ output' = Begun \o Batch(n)
  /\ ahead' = IF Updates THEN SubSeq(ahead, n + 1, Len(ahead)) ELSE ahead
  /\ events_written' = events_written + n
  /\ built' = TRUE /\ rebuilt' = (rebuilt \/ (~built /\ closes > 0))
  /\ UNCHANGED <<storage, handles, build, program, dropped, outcome, finished, failures, left, closes>>

(* The source has no event for the row after the n-th, which ends it; or   *)
(* it has, and then the bank is too large or cannot be appended.           *)
ExtendFails(n) ==
  /\ PyRuns /\ Fits(n + 1) /\ CanRead(n) /\ failures < MaxFailures
  /\ output' = Begun \o Batch(n)
  /\ ahead' = IF Updates /\ CanRead(n + 1) THEN SubSeq(ahead, n + 2, Len(ahead)) ELSE << >>
  /\ failures' = failures + 1 /\ left' = left + n
  /\ built' = TRUE /\ rebuilt' = (rebuilt \/ (~built /\ closes > 0))
  /\ UNCHANGED <<storage, handles, build, program, dropped, outcome, events_written, finished, closes>>

(* close: a decorated file has to have all the source's events.            *)
(* Mutant of Covered: no more than there are.                              *)
CoveredAtMost == Updates => events_written <= Numbers!Total
Covered == Updates => events_written = Numbers!Total

Close(finishes) ==
  /\ PyRuns /\ closes < MaxCloses
  /\ program.wrapped => ~finished
  /\ finished \/ Covered
  /\ output' = Begun
  /\ built' = FALSE /\ rebuilt' = (rebuilt \/ (~built /\ closes > 0))
  /\ finished' = (finished \/ finishes)
  /\ closes' = closes + 1
  /\ UNCHANGED <<storage, handles, build, program, ahead, dropped, outcome, events_written, failures, left>>

Next ==
  \/ RewriteNext /\ UNCHANGED python
  \/ \E n \in 0..MaxBatch : Extend(n) \/ (n < MaxBatch /\ ExtendFails(n))
  \/ \E finishes \in BOOLEAN : Close(finishes)

Spec == Init /\ [][Next]_vars

-----------------------------------------------------------------------------
TypeOK ==
  /\ RewriteTypeOK
  /\ events_written \in Nat /\ left \in Nat /\ closes \in 0..MaxCloses
  /\ built \in BOOLEAN /\ finished \in BOOLEAN /\ rebuilt \in BOOLEAN
  /\ built => ~finished

RowOf(event) == Last(event.structures).data[1][1]

(* The rows 1 to n are there, in order.                                    *)
HasInOrder(events, n) ==
  \E at \in [1..n -> DOMAIN events] :
    /\ \A k \in 1..n : RowOf(events[at[k]]) = k
    /\ \A k \in 1..n - 1 : at[k] < at[k + 1]

WantedOf(g) == [ExpectedCopy([kind |-> "skim"], g) EXCEPT
                  !.tag = IF program.tags THEN Given(g + 1) ELSE @,
                  !.structures = Append(@, Row(g + 1))]

(* A decorated file that close has finished, the first time it was called, *)
(* has each event of the source once, in order, and the k-th with the k-th *)
(* row: an extend that fails half way has used up source events, and       *)
(* however it is repeated the file cannot then be closed (Writer.extend,   *)
(* Writer.close).                                                          *)
UpdateIsAligned ==
  finished /\ ~rebuilt /\ Updates =>
    /\ Len(output) = Numbers!Total
    /\ \A k \in 1..Numbers!Total : output[k] = Decorated(Numbers!Resolve(k - 1), k)

(* A new file that close has finished, the first time it was called, has   *)
(* every row accepted, in order, but also those a failed extend left,      *)
(* before it was repeated (Writer.extend, Writer.close).                   *)
NewFileHoldsTheRows ==
  finished /\ ~rebuilt /\ ~Updates =>
    /\ Len(output) = events_written + left
    /\ HasInOrder(output, events_written)

(* What close finishes is what the extends that returned were given,       *)
(* however many failed half way and were repeated (Writer.extend,          *)
(* Writer.close).                                                          *)
ClosesWhatWasExtended == UpdateIsAligned /\ NewFileHoldsTheRows

(* The events of a decorated file are the source's as they were written,   *)
(* each with its own row behind it.                                        *)
UpdateHoldsTheSource ==
  finished /\ ~rebuilt /\ Updates =>
    \A k \in DOMAIN output : Agrees(Numbers!Resolve(k - 1), output[k], WantedOf(k - 1))

(* What a program copies from a chain to a new file, by a skim or by an    *)
(* update, reads there as what was written (skim_with, skim_tagged,         *)
(* Writer.extend).                                                         *)
CopiesHoldTheSource == SkimWritesWhatPassed /\ UpdateHoldsTheSource
=============================================================================
