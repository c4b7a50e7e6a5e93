------------------------------ MODULE EventLog ------------------------------
(***************************************************************************)
(* What a writer promises its caller, with no file in it: events appended  *)
(* one by one are pending until they are stored, are stored in the order   *)
(* they were appended, and once stored stay stored.  A crash may lose the  *)
(* pending events and the last of the stored ones (those the process had   *)
(* not handed to the operating system), never one in the middle.           *)
(***************************************************************************)
EXTENDS Naturals, SequencesExt

CONSTANTS
  Event,      \* the events a caller may append
  Batch       \* the prebuilt batches (sequences of events) a caller may store

VARIABLES
  stored,     \* the events in flushed records, in file order
  pending,    \* the events accepted since
  open        \* FALSE once the writer is gone

vars == <<stored, pending, open>>

Init == stored = << >> /\ pending = << >> /\ open = TRUE

(* An event is accepted, after storing what was pending or without.        *)
Append1(e) ==
  /\ open
  /\ \/ stored' = stored /\ pending' = Append(pending, e)
     \/ stored' = stored \o pending /\ pending' = <<e>>
  /\ UNCHANGED open

(* What is pending is stored.                                              *)
Store ==
  /\ open
  /\ stored' = stored \o pending
  /\ pending' = << >>
  /\ UNCHANGED open

(* A prebuilt batch is stored at once, ahead of what is pending.           *)
StoreBatch(evs) == open /\ stored' = stored \o evs /\ UNCHANGED <<pending, open>>

(* The writer ends having stored everything it accepted.                   *)
Close == open /\ stored' = stored \o pending /\ pending' = << >> /\ open' = FALSE

(* The writer is killed, or gives up: a prefix of what it accepted is left.*)
Lose ==
  /\ open
  /\ IsPrefix(stored', stored \o pending)
  /\ pending' = << >>
  /\ open' = FALSE

Next ==
  \/ \E e \in Event : Append1(e)
  \/ \E evs \in Batch : StoreBatch(evs)
  \/ Store
  \/ Close
  \/ Lose

Spec == Init /\ [][Next]_vars
=============================================================================
