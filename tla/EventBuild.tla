----------------------------- MODULE EventBuild -----------------------------
(***************************************************************************)
(* Writing events: a closure is handed an event to fill, it attaches banks *)
(* row by row, and the event is appended when it returns.  The column      *)
(* buffers of the banks and the buffer of the event outlive the closure    *)
(* and are used again.  A bank may be left unfinished, its error passed on *)
(* or ignored, and the closure may panic.  A call that is refused (an      *)
(* unknown bank or column, a value of another type or length, a row that   *)
(* is not there) changes nothing and is no step.                           *)
(***************************************************************************)
EXTENDS Naturals, SequencesExt

CONSTANTS
  Schemas,    \* the banks of the writer's dictionary
  Values,     \* the values columns may be set to
  Tags,       \* the event tags that may be given, the default one not among them
  MaxData,    \* the bytes of data a bank may have (2^24 - 1 in the code)
  MaxRows,    \* rows of a bank: a bound of the model
  MaxBanks,   \* structures of the events: a bound of the model
  MaxEvents   \* closures run: a bound of the model

(* A schema is the id of a bank and its columns, each with its type, the   *)
(* elements of a row and the bytes they take; a value has a type and a     *)
(* number of elements.                                                     *)
ASSUME EventBuildAssumption ==
  /\ \A schema \in Schemas : \A c \in DOMAIN schema.cols : schema.cols[c].width \in Nat
  /\ {MaxData, MaxRows, MaxBanks, MaxEvents} \subseteq Nat

VARIABLES
  pool,     \* the sets of column buffers free to be used (the writer's, or the closure's while it runs)
  builder,  \* the event's structures and its tag
  bank,     \* the bank being filled, or NoBank
  running,  \* a closure is running
  closures, \* the closures that were run
  written,  \* the events appended
  rows,     \* what was set in the bank being filled, row by row
  asked,    \* what the running closure was told is in its event
  expected  \* and what was in those of the closures that returned Ok

build == <<pool, builder, bank, running, closures, written, rows, asked, expected>>

Zero       == [ty |-> "zero", length |-> 0]
NoTag      == 0
NoBank     == [schema |-> << >>, pooled |-> FALSE, columns |-> << >>, rows |-> 0]
EmptyEvent == [structures |-> << >>, tag |-> NoTag]

Columns(schema) == DOMAIN schema.cols

(* A structure of the event: a bank's columns one after the other.         *)
Structure(b) == [id |-> b.schema.id, rows |-> b.rows, columns |-> b.columns]

BuildInit ==
  /\ pool = << >> /\ builder = EmptyEvent /\ bank = NoBank
  /\ running = FALSE /\ closures = 0
  /\ written = << >> /\ rows = << >> /\ asked = EmptyEvent /\ expected = << >>

-----------------------------------------------------------------------------
(* BankBuilder::with_buffers: cut to the columns of the schema, cleared,   *)
(* and filled up with new ones.                                            *)
(* Mutant: they are not cleared.                                           *)
WithBuffersKept(schema, buffers) ==
  [schema |-> schema, pooled |-> TRUE, rows |-> 0,
   columns |-> [c \in Columns(schema) |-> IF c \in DOMAIN buffers THEN buffers[c] ELSE << >>]]

WithBuffers(schema, buffers) ==
  LET kept == SubSeq(buffers, 1, IF Len(buffers) < Len(schema.cols) THEN Len(buffers) ELSE Len(schema.cols))
      cleared == [c \in DOMAIN kept |-> << >>]
  IN  [schema |-> schema, pooled |-> TRUE, rows |-> 0,
       columns |-> [c \in Columns(schema) |-> IF c \in DOMAIN cleared THEN cleared[c] ELSE << >>]]

(* BankBuilder::new, for a bank that is built outside the closure's event. *)
NewBank(schema) ==
  [schema |-> schema, pooled |-> FALSE, rows |-> 0, columns |-> [c \in Columns(schema) |-> << >>]]

(* push_row: zeros, in every column.                                       *)
PushRow(b) ==
  [b EXCEPT !.rows = b.rows + 1,
            !.columns = [c \in DOMAIN b.columns |-> Append(b.columns[c], Zero)]]

Suits(value, column) == value.ty = column.ty /\ value.length = column.length

DataSize(b) ==
  FoldLeft(LAMBDA size, c : size + Len(b.columns[c]) * b.schema.cols[c].width, 0,
           [c \in DOMAIN b.columns |-> c])

-----------------------------------------------------------------------------
(* Writer::event, up to the closure: what is left in the builder goes.     *)
Begin ==
  /\ ~running /\ closures < MaxEvents
  /\ running' = TRUE /\ closures' = closures + 1
  /\ builder' = EmptyEvent /\ asked' = EmptyEvent
  /\ UNCHANGED <<pool, bank, written, rows, expected>>

(* EventWriter::with_tag.                                                  *)
WithTag(tag) ==
  /\ running /\ bank = NoBank
  /\ builder' = [builder EXCEPT !.tag = tag]
  /\ asked' = [asked EXCEPT !.tag = tag]
  /\ UNCHANGED <<pool, bank, running, closures, written, rows, expected>>

(* The structures there are, counted for the bound.                        *)
Structures ==
  FoldLeft(LAMBDA n, event : n + Len(event.structures), Len(builder.structures), written)

(* EventWriter::bank, up to its closure: a set of buffers, if one is free. *)
(* Mutant of Popped: the set stays where it is.                            *)
PoppedNot(sets) == sets
Popped(sets) == IF sets = << >> THEN << >> ELSE Front(sets)

OpenBank(schema) ==
  /\ running /\ bank = NoBank /\ Structures < MaxBanks
  /\ bank' = WithBuffers(schema, IF pool = << >> THEN << >> ELSE Last(pool))
  /\ pool' = Popped(pool)
  /\ rows' = << >>
  /\ UNCHANGED <<builder, running, closures, written, asked, expected>>

(* A BankBuilder of the closure's own.                                     *)
OpenOwn(schema) ==
  /\ running /\ bank = NoBank /\ Structures < MaxBanks
  /\ bank' = NewBank(schema)
  /\ rows' = << >>
  /\ UNCHANGED <<pool, builder, running, closures, written, asked, expected>>

(* BankWriter::row and push_rows, BankBuilder::push_row.                   *)
AddRow ==
  /\ bank # NoBank /\ bank.rows < MaxRows
  /\ bank' = PushRow(bank)
  /\ rows' = Append(rows, [c \in DOMAIN bank.columns |-> Zero])
  /\ UNCHANGED <<pool, builder, running, closures, written, asked, expected>>

(* RowWriter::set, of the last row; BankBuilder's set_array_at and its     *)
(* like, of any row.                                                       *)
SetCell(row, c, value) ==
  /\ bank # NoBank /\ row \in 1..bank.rows /\ c \in DOMAIN bank.columns
  /\ bank.pooled => row = bank.rows
  /\ Suits(value, bank.schema.cols[c])
  /\ bank' = [bank EXCEPT !.columns[c][row] = value]
  /\ rows' = [rows EXCEPT ![row][c] = value]
  /\ UNCHANGED <<pool, builder, running, closures, written, asked, expected>>

(* The bank's closure returns, filled says whether Ok; or the builder is   *)
(* added, or dropped.  A bank too large is an error before anything of it  *)
(* is written.  The buffers of the pool go back to it whatever happens.    *)
CloseBank(filled) ==
  /\ bank # NoBank
  /\ IF filled /\ DataSize(bank) <= MaxData
     THEN /\ builder' = [builder EXCEPT !.structures = Append(@, Structure(bank))]
          /\ asked' = [asked EXCEPT !.structures = Append(@, [id |-> bank.schema.id, rows |-> rows])]
     ELSE UNCHANGED <<builder, asked>>
  /\ pool' = IF bank.pooled THEN Append(pool, bank.columns) ELSE pool
  /\ bank' = NoBank /\ rows' = << >>
  /\ UNCHANGED <<running, closures, written, expected>>

(* The event's closure returns.  If Ok the event is appended, which may    *)
(* fail.                                                                   *)
Return(assembled, appends) ==
  /\ running /\ bank = NoBank
  /\ running' = FALSE
  /\ IF assembled /\ appends
     THEN written' = Append(written, builder) /\ expected' = Append(expected, asked)
     ELSE UNCHANGED <<written, expected>>
  /\ asked' = EmptyEvent
  /\ UNCHANGED <<pool, builder, bank, closures, rows>>

(* The closure panics and the caller catches it: what was taken out of the *)
(* writer is gone, its places hold new ones.                               *)
Panic ==
  /\ running
  /\ running' = FALSE
  /\ pool' = << >> /\ builder' = EmptyEvent /\ bank' = NoBank
  /\ rows' = << >> /\ asked' = EmptyEvent
  /\ UNCHANGED <<closures, written, expected>>

Filling ==
  \/ \E schema \in Schemas : OpenBank(schema) \/ OpenOwn(schema)
  \/ AddRow
  \/ \E row \in 1..MaxRows, value \in Values : \E c \in DOMAIN bank.columns : SetCell(row, c, value)
  \/ \E filled \in BOOLEAN : CloseBank(filled)
  \/ \E tag \in Tags : WithTag(tag)

BuildNext ==
  \/ Begin
  \/ Filling
  \/ \E assembled, appends \in BOOLEAN : Return(assembled, appends)
  \/ Panic

-----------------------------------------------------------------------------
(* A set of buffers is in the pool or in the bank being filled, and there  *)
(* is at most one.                                                         *)
BuildTypeOK ==
  /\ running \in BOOLEAN /\ closures \in 0..MaxEvents
  /\ Len(pool) + (IF bank.pooled THEN 1 ELSE 0) <= 1
  /\ bank # NoBank => running /\ DOMAIN bank.columns = Columns(bank.schema)

(* A structure holds the rows it was asked for: every column as many cells *)
(* as there are rows, and in each what was set there, or zero.             *)
Holds(structure, ask) ==
  /\ structure.id = ask.id /\ structure.rows = Len(ask.rows)
  /\ \A c \in DOMAIN structure.columns :
       /\ Len(structure.columns[c]) = structure.rows
       /\ \A row \in 1..structure.rows : structure.columns[c][row] = ask.rows[row][c]

HoldsAll(event, ask) ==
  /\ event.tag = ask.tag
  /\ Len(event.structures) = Len(ask.structures)
  /\ \A k \in DOMAIN event.structures : Holds(event.structures[k], ask.structures[k])

(* The events appended are those whose closures returned Ok, in order;     *)
(* each has its own tag and exactly the banks that were completed in it,   *)
(* with what was set and zeros elsewhere (Writer::event).  Nothing comes   *)
(* from the event or the bank that used the buffers before, from a bank    *)
(* given up half way, or from a closure that returned an error or          *)
(* panicked.                                                               *)
EventsAsAssembled ==
  /\ Len(written) = Len(expected)
  /\ \A n \in DOMAIN written : HoldsAll(written[n], expected[n])
=============================================================================
