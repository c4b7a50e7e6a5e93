---------------------------- MODULE EventHandle ----------------------------
(***************************************************************************)
(* An event in the caller's hands: banks and cells asked for by name, in   *)
(* any order.  The handle keeps where it found the bank it was last asked  *)
(* for, and which of its columns, and answers from there when it is asked  *)
(* for the same again.  OwnedEvent knows the bank it keeps by its id,      *)
(* EventCtx by its name.                                                   *)
(***************************************************************************)
EXTENDS ChainFiles

CONSTANTS
  OwnDicts,  \* dictionaries, as lists of schemas, a caller may give a handle
  Asks       \* what may be asked: a bank, and perhaps a column and a row of it

(* In the schemas of this module columns have names.                       *)
NamesColumns(schema) == IsSequence(schema.names) /\ Len(schema.names) = Len(schema.cols)

ASSUME EventHandleAssumption ==
  /\ \A a \in Asks : a.kind \in {"bank", "get", "has"}
  /\ \A adds \in OwnDicts : IsSequence(adds) /\ \A schema \in ToSet(adds) : NamesColumns(schema)
  /\ \A input \in Inputs : \A f \in ToSet(input) : \A schema \in ToSet(f.adds) : NamesColumns(schema)

VARIABLES
  handle,   \* the event: where it is, its dictionary, its kind, and what it keeps
  answered  \* the last thing asked, and the answer

handles == <<handle, answered>>

NoHandle == [at |-> Numbers!Nowhere, dict |-> EmptyDict, kind |-> "none", kept |-> << >>]
NoAnswer == [ask |-> << >>, answer |-> << >>]
Default  == << >>   \* of a cell
NoEntry  == 0       \* of the columns: none resolved yet

HandleInit == handle = NoHandle /\ answered = NoAnswer

-----------------------------------------------------------------------------
(* A bank by a schema: its rows and columns, or none.                      *)
None == [rows |-> 0, cols |-> << >>]

Whole(schema) == [id |-> schema.id, schema |-> schema.cols, cols |-> [c \in DOMAIN schema.cols |-> c]]

Record(h) == RecordAt(h.at)
Events(h) == EventsAt(h.at)

Has(h, schema) ==
  LET at == Split!BankIndex(Record(h).split, schema.id)
  IN  IF Record(h).layout = "blob" THEN schema.id \in Split!BanksOf(Events(h)[h.at.event].structures)
      ELSE at # {} /\ h.at.event \in Record(h).split.banks[CHOOSE b \in at : TRUE].present

OrNone(bank) == IF bank = Split!Broken THEN None ELSE bank

(* resolve_and_cache, try_bank_for: the bank if the event has it; a stream *)
(* that does not inflate and bytes that are no whole rows are none.        *)
Resolved(h, schema) ==
  IF Has(h, schema)
  THEN OrNone(Split!EventBank(Record(h), Events(h), h.at.event, Whole(schema)))
  ELSE None

(* Where it is: of an event that is one run of bytes, which structure; of  *)
(* a split one, which bank of the record.                                  *)
LocOf(h, schema) ==
  IF Record(h).layout = "blob"
  THEN CHOOSE k \in DOMAIN Events(h)[h.at.event].structures :
         /\ Events(h)[h.at.event].structures[k].id = schema.id
         /\ \A j \in 1..k - 1 : Events(h)[h.at.event].structures[j].id # schema.id
  ELSE CHOOSE b \in Split!BankIndex(Record(h).split, schema.id) : TRUE

(* rebuild: the bank at a place kept, by a schema.                         *)
Rebuilt(h, schema, loc) ==
  LET rec == Record(h)
      opaque == rec.layout = "by_bank" \/ Split!IsOpaque(rec.split.banks[loc])
  IN  OrNone(CASE rec.layout = "blob" ->
                    Split!Contiguous(Whole(schema), Events(h)[h.at.event].structures[loc].data)
               [] rec.layout # "blob" /\ opaque ->
                    Split!WholeBank(rec, loc, h.at.event, Whole(schema))
               [] OTHER -> Split!ColumnarBank(rec, loc, h.at.event, Whole(schema)))

Kept(h) == h.kept[1]

(* The schema of the bank kept, if it is the one asked for.                *)
(* Mutant of KeptFor: an OwnedEvent takes any bank it keeps.               *)
KeptForAny(h, name) ==
  IF h.kept = << >> THEN << >>
  ELSE IF h.kind = "owned" THEN <<GetById(h.dict, Kept(h).id)>>
  ELSE IF Kept(h).name = name THEN <<Get(h.dict, name)>> ELSE << >>

KeptFor(h, name) ==
  CASE h.kept = << >> -> << >>
    [] h.kept # << >> /\ h.kind = "owned" ->
         IF GetById(h.dict, Kept(h).id).name = name THEN <<GetById(h.dict, Kept(h).id)>> ELSE << >>
    [] OTHER -> IF Kept(h).name = name THEN <<Get(h.dict, name)>> ELSE << >>

(* OwnedEvent::bank, EventCtx::try_bank: the bank, its schema, and what    *)
(* the handle keeps afterwards.                                            *)
Looked(h, name, schema, bank) ==
  [bank |-> bank, schema |-> schema,
   kept |-> IF bank = None THEN h.kept
            ELSE <<[id |-> schema.id, name |-> name, loc |-> LocOf(h, schema), col |-> NoEntry]>>]

BankOf(h, name) ==
  LET hit == KeptFor(h, name)
  IN  IF hit # << >>
      THEN [bank |-> Rebuilt(h, hit[1], Kept(h).loc), schema |-> hit[1], kept |-> h.kept]
      ELSE IF name \in DOMAIN h.dict.by_name
      THEN Looked(h, name, Get(h.dict, name), Resolved(h, Get(h.dict, name)))
      ELSE [bank |-> None, schema |-> Absent, kept |-> h.kept]

(* column_index: the last column of a name.                                *)
ColumnIndex(schema, column) == Max({k \in DOMAIN schema.names : schema.names[k] = column})

(* get: a cell of a column, by the column kept if it is that one.          *)
Same(h, kept, schema) == IF h.kind = "owned" THEN kept.id = schema.id ELSE kept.name = schema.name

Reuses(h, kept, schema, column) ==
  /\ kept # << >> /\ kept[1].col \in DOMAIN schema.names
  /\ Same(h, kept[1], schema) /\ schema.names[kept[1].col] = column

ColumnOf(h, kept, schema, column) ==
  IF Reuses(h, kept, schema, column) THEN kept[1].col ELSE ColumnIndex(schema, column)

CellAt(bytes, row, width) ==
  IF row * width > Len(bytes) THEN Default ELSE SubSeq(bytes, (row - 1) * width + 1, row * width)

CellOf(got, row, c) ==
  [answer |-> IF row > got.bank.rows THEN Default
              ELSE CellAt(got.bank.cols[c], row, got.schema.cols[c].size * got.schema.cols[c].length),
   kept |-> IF got.kept = << >> THEN << >> ELSE <<[got.kept[1] EXCEPT !.col = c]>>]

Cell(h, ask, got) ==
  IF got.bank = None \/ ask.column \notin ToSet(got.schema.names)
  THEN [answer |-> Default, kept |-> got.kept]
  ELSE CellOf(got, ask.row, ColumnOf(h, got.kept, got.schema, ask.column))

(* What an ask comes to.                                                   *)
HasNamed(h, name) == name \in DOMAIN h.dict.by_name /\ Has(h, Get(h.dict, name))

AnswerFrom(h, ask, got) ==
  CASE ask.kind = "bank" -> [answer |-> got.bank, kept |-> got.kept]
    [] ask.kind = "get"  -> Cell(h, ask, got)
    [] OTHER -> [answer |-> HasNamed(h, ask.bank), kept |-> h.kept]

Answer(h, ask) == AnswerFrom(h, ask, BankOf(h, ask.bank))

-----------------------------------------------------------------------------
(* Chain::event and the iterators, with the chain's dictionary or the      *)
(* file's; OwnedEvent::new and to_owned_with, with the caller's.           *)
Hold(g, d, kind) ==
  /\ phase = "open" /\ g < Numbers!Total
  /\ RecordAt(Numbers!Resolve(g)).readable
  /\ handle = NoHandle
  /\ handle' = [at |-> Numbers!Resolve(g), dict |-> d, kind |-> kind, kept |-> << >>]
  /\ UNCHANGED <<storage, answered>>

Ask(ask) ==
  /\ handle # NoHandle
  /\ \E result \in {Answer(handle, ask)} :
       /\ answered' = [ask |-> ask, answer |-> result.answer]
       /\ handle' = [handle EXCEPT !.kept = result.kept]
  /\ UNCHANGED storage

HandleNext ==
  \/ \E g \in 0..Numbers!Total - 1, kind \in {"owned", "ctx"} :
       \E d \in {dict, FileDict(Numbers!Resolve(g).file)} \cup {DictOf(adds) : adds \in OwnDicts} :
         Hold(g, d, kind)
  \/ \E ask \in Asks : Ask(ask)

-----------------------------------------------------------------------------
HandleTypeOK ==
  /\ handle.kind \in {"none", "owned", "ctx"} /\ Len(handle.kept) <= 1
  /\ \A k \in ToSet(handle.kept) :
       Record(handle).layout # "blob" => k.loc \in DOMAIN Record(handle).split.banks

(* A handle answers as one that was never asked anything would, whatever   *)
(* was asked before (OwnedEvent::bank and get, EventCtx::try_bank and get, *)
(* over every layout), by dictionaries with two names for one id too.  Not *)
(* so an OwnedEvent by one with two ids for one name, as try_add leaves it *)
(* when a bank is declared with another's id and then again with its own.  *)
HandleAnswersAfresh ==
  answered # NoAnswer =>
    answered.answer = Answer([handle EXCEPT !.kept = << >>], answered.ask).answer
=============================================================================
