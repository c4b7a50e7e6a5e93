------------------------------ MODULE Rewrite ------------------------------
(***************************************************************************)
(* Programs over an opened chain: one that copies its events into a new    *)
(* file, whole, cut down to some banks or with new tags; one that holds an *)
(* event and asks it for banks and cells; one that writes events of its    *)
(* own.  What becomes of the events handed to the writer is the matter of  *)
(* HipoWriter and SplitReads; the Python programs are PyWriter's.          *)
(***************************************************************************)
EXTENDS EventHandle, EventBuild

CONSTANT Programs  \* the programs that may be run

(* A pattern is the set of the bank names it matches.  A program that tags *)
(* gives an event the one tag if it has a bank and the other if not.       *)
ASSUME RewriteAssumption ==
  \A p \in Programs :
    p.kind \in {"skim", "skim_banks", "skim_tagged", "look", "assemble", "update", "create"}

VARIABLES
  program,  \* the program that runs, or NoProgram
  ahead,    \* what the iterator has yet to hand out: events, or the error of a record
  output,   \* the events handed to the writer
  dropped,  \* the structures left out (SkimSummary::dropped_structures)
  outcome   \* "none", "running", "ok", "err" or "refused"

copying == <<program, ahead, output, dropped, outcome>>
rewriting == <<storage, handles, build, copying>>

NoProgram == [kind |-> "none"]
Skims  == {"skim", "skim_banks", "skim_tagged"}
Copies == Skims \cup {"update"}

RewriteInit ==
  /\ StorageInit /\ HandleInit /\ BuildInit
  /\ program = NoProgram /\ ahead = << >> /\ output = << >> /\ dropped = 0
  /\ outcome = "none"

Storage == StorageNext /\ UNCHANGED <<handles, build, copying>>

-----------------------------------------------------------------------------
(* BankPatterns::resolve: each pattern matches a bank of the dictionary.   *)
Matches(patterns, name) == \E k \in DOMAIN patterns : name \in patterns[k]
Resolves(patterns, d) ==
  patterns # << >> /\ \A k \in DOMAIN patterns : patterns[k] \cap DOMAIN d.by_name # {}
KeptIds(patterns) == {schema.id : schema \in {s \in ToSet(dict.schemas) : Matches(patterns, s.name)}}

(* Chain::events: the events of the records that are wanted, those that    *)
(* pass the filter; a record that cannot be read is an error.              *)
Unreadable == 0
Only(s, I) == FlattenSeq([i \in DOMAIN s |-> IF i \in I THEN <<s[i]>> ELSE << >>])

EventsOf(t, filter) ==
  LET at == [e \in DOMAIN EventsAt(t) |-> [t EXCEPT !.event = e]]
  IN  IF ~RecordAt(t).readable THEN <<[t EXCEPT !.event = Unreadable]>>
      ELSE Only(at, {e \in DOMAIN at : Passes(t, e, filter, FileDict(t.file))})

Ahead(filter) ==
  LET tasks == Numbers!BuildTasks(filter.record_tags)
  IN  FlattenSeq([k \in DOMAIN tasks |->
                    EventsOf([file |-> tasks[k][1], record |-> tasks[k][2], event |-> 0], filter)])

(* skim, skim_banks_with, skim_tagged, before their loops: the filter the  *)
(* chain was given names banks it has, the patterns too.  A program that   *)
(* assembles its own events reads none, and is run where there are none.   *)
Start(p) ==
  /\ phase = "open" /\ outcome = "none"
  /\ (p.kind \in {"assemble", "create"}) = (files = << >>)
  /\ program' = p
  /\ IF Validates(p.filter, dict) /\ (p.kind = "skim_banks" => Resolves(p.patterns, dict))
     THEN outcome' = "running" /\ ahead' = IF p.kind \in Copies THEN Ahead(p.filter) ELSE << >>
     ELSE outcome' = "refused" /\ UNCHANGED ahead
  /\ UNCHANGED <<storage, handles, build, output, dropped>>

(* What is copied of an event: its bytes; its header and the structures    *)
(* that are kept; or its bytes with another tag.                           *)
BytesAt(at)      == Split!EventBytes(RecordAt(at), EventsAt(at), at.event)
StructuresAt(at) == Split!Structures(RecordAt(at), EventsAt(at), at.event)

(* Mutant of Projected: a bank without rows is left out.                   *)
ProjectedNonEmpty(at, ids) ==
  LET all == StructuresAt(at)
  IN  Only(all, {k \in DOMAIN all : all[k].id \in ids /\ all[k].data # << >>})

Projected(at, ids) ==
  LET all == StructuresAt(at)
  IN  Only(all, {k \in DOMAIN all : all[k].id \in ids})

Retag(p, at) ==
  LET d == FileDict(at.file)
  IN  IF /\ p.classify \in DOMAIN d.by_name
         /\ Get(d, p.classify).id \in BanksIn(RecordAt(at), EventsAt(at), at.event)
      THEN p.tags[1] ELSE p.tags[2]

Copied(p, at) ==
  CASE p.kind = "skim"        -> BytesAt(at)
    [] p.kind = "skim_tagged" -> [BytesAt(at) EXCEPT !.tag = Retag(p, at)]
    [] OTHER -> [BytesAt(at) EXCEPT !.structures = Projected(at, KeptIds(p.patterns))]

(* One event; the writer may fail to append it.  An error of either side   *)
(* ends the copy, and the writer that is dropped finishes its file.        *)
Copy(appends) ==
  /\ outcome = "running" /\ program.kind \in Skims /\ ahead # << >>
  /\ LET at == Head(ahead)
     IN  IF at.event = Unreadable \/ ~appends
         THEN outcome' = "err" /\ UNCHANGED <<ahead, output, dropped>>
         ELSE /\ output' = Append(output, Copied(program, at))
              /\ dropped' = IF program.kind # "skim_banks" THEN dropped
                            ELSE dropped + Len(StructuresAt(at)) - Len(Projected(at, KeptIds(program.patterns)))
              /\ ahead' = Tail(ahead)
              /\ UNCHANGED outcome
  /\ UNCHANGED <<storage, handles, build, program>>

Finish(finishes) ==
  /\ outcome = "running" /\ program.kind \in Skims /\ ahead = << >>
  /\ outcome' = IF finishes THEN "ok" ELSE "err"
  /\ UNCHANGED <<storage, handles, build, program, ahead, output, dropped>>

Look ==
  /\ outcome = "running" /\ program.kind = "look" /\ HandleNext
  /\ UNCHANGED <<build, copying>>

Assemble ==
  /\ outcome = "running" /\ program.kind = "assemble" /\ BuildNext
  /\ UNCHANGED <<storage, handles, copying>>

RewriteNext ==
  \/ Storage
  \/ \E p \in Programs : Start(p)
  \/ \E appends \in BOOLEAN : Copy(appends)
  \/ \E finishes \in BOOLEAN : Finish(finishes)
  \/ Look
  \/ Assemble

-----------------------------------------------------------------------------
RewriteTypeOK ==
  /\ StorageTypeOK /\ HandleTypeOK /\ BuildTypeOK
  /\ program \in Programs \cup {NoProgram}
  /\ dropped \in Nat
  /\ outcome \in {"none", "running", "ok", "err", "refused"}

(***************************************************************************)
(* What a copy is meant to hold, from what was written.                    *)
(***************************************************************************)
Surviving(filter) ==
  LET Wanted(g) ==
        LET at == Numbers!Resolve(g) IN
        /\ filter.record_tags = {} \/ files[at.file].records[at.record].user_word \in filter.record_tags
        /\ Check(Bind(filter, FileDict(at.file)), EventNumbered(g).tag,
                 Split!BanksOf(EventNumbered(g).structures))
  IN  SelectSeq([n \in 1..Numbers!Total |-> n - 1], Wanted)

(* A split record has the structures of an event by their ids.             *)
InRecordOrder(at, structures) ==
  IF RecordAt(at).layout = "blob" THEN structures
  ELSE SortSeq(structures, LAMBDA s, t : s.id < t.id)

ExpectedCopy(p, g) ==
  LET at     == Numbers!Resolve(g)
      event  == EventNumbered(g)
      wanted == IF p.kind = "skim_banks" THEN SelectSeq(event.structures, LAMBDA s : s.id \in KeptIds(p.patterns))
                ELSE event.structures
  IN  [tag |-> IF p.kind = "skim_tagged"
               THEN p.tags[IF Split!Found(event.structures, Get(FileDict(at.file), p.classify).id) # << >>
                           THEN 1 ELSE 2]
               ELSE event.tag,
       structures |-> InRecordOrder(at, wanted)]

Outline(structures) ==
  [k \in DOMAIN structures |-> <<structures[k].id, structures[k].header_size, Len(structures[k].data)>>]

IsPrefixOf(s, t) == Len(s) <= Len(t) /\ s = SubSeq(t, 1, Len(s))

Intact(at) == DamageAt(at.file, at.record) \subseteq {"none"}

Agrees(at, copy, wanted) ==
  /\ copy.tag = wanted.tag
  /\ CASE Intact(at) -> copy = wanted
       [] ~Intact(at) /\ program.kind = "skim_banks" ->
            IsPrefixOf(Outline(copy.structures), Outline(wanted.structures))
       [] OTHER -> Outline(copy.structures) = Outline(wanted.structures)

IsACopyOf(wanted) ==
  /\ Len(output) <= Len(wanted)
  /\ outcome = "ok" => Len(output) = Len(wanted)
  /\ \A k \in DOMAIN output :
       Agrees(Numbers!Resolve(wanted[k]), output[k], ExpectedCopy(program, wanted[k]))
  /\ Damages = {} /\ program.kind = "skim_banks" =>
       dropped = Split!SumOf([k \in DOMAIN output |->
                   Len(EventNumbered(wanted[k]).structures) - Len(output[k].structures)])

(* skim, skim_banks and skim_tagged hand the writer the events that pass   *)
(* the filter, in the chain's order, each with its tag, or the one given,  *)
(* and with its structures, or those kept, also a bank without rows.  Ok   *)
(* means that all are there; an error leaves the first of them in a file   *)
(* that is finished all the same.  Of a record with a damaged stream the   *)
(* structures copied are in outline what they were, and Ok says nothing of *)
(* their data; skim_banks ends an event there at the first it cannot read. *)
SkimWritesWhatPassed ==
  program.kind \in Skims /\ outcome \in {"running", "ok", "err"} =>
    IsACopyOf(Surviving(program.filter))
=============================================================================
