----------------------------- MODULE BulkReads -----------------------------
(***************************************************************************)
(* The calls that read a whole chain at once: columns of a range or of     *)
(* listed events, tags, occupancy, the sweep of one column, and events()   *)
(* to compare them with.  Files are written, each with its own dictionary  *)
(* and its own layouts, storage may damage one record, the chain is        *)
(* opened, and one call goes through the records: workers turn them into   *)
(* chunks in any order and the chunks are put together in the chain's.     *)
(***************************************************************************)
EXTENDS ChainFiles

CONSTANT Calls  \* the calls that may be made

(* A call: its kind, the filter the chain has, the range asked for         *)
(* (absent: everything), the entries listed, and the banks selected by     *)
(* name with the columns of each, none for all.                            *)
ASSUME BulkReadsAssumption ==
  \A c \in Calls :
    /\ c.kind \in {"columns", "entries", "tags", "occupancy", "sweep", "events"}
    /\ c.kind \in {"columns", "entries"} => c.selection # << >>
    /\ c.kind = "sweep" => Len(c.selection) = 1 /\ Len(c.selection[1].cols) = 1
    /\ Len(c.range) <= 1

VARIABLES
  call,     \* the call being made, an element of Calls, or NoCall
  tasks,    \* the records it goes through, and for entries what of them
  todo,     \* the tasks nobody has taken
  chunks,   \* what each task taken came to
  outcome,  \* "none", "running", then "ok", "err" or "refused"
  answer    \* what the call returns

calling == <<call, tasks, todo, chunks, outcome, answer>>
vars == <<storage, calling>>

NoCall == [kind |-> "none"]
All == << >>   \* the range of a call without one

Init ==
  /\ StorageInit
  /\ call = NoCall
  /\ tasks = << >> /\ todo = {} /\ chunks = << >>
  /\ outcome = "none" /\ answer = << >>

Storage == StorageNext /\ UNCHANGED calling

-----------------------------------------------------------------------------
(* What is asked.                                                          *)
(* build_plan: one entry for each bank selected.                           *)
Plan(selection) ==
  [k \in DOMAIN selection |->
     LET schema == Get(dict, selection[k].bank)
     IN  [id |-> schema.id, schema |-> schema.cols,
          cols |-> IF selection[k].cols = << >> THEN [c \in DOMAIN schema.cols |-> c]
                   ELSE selection[k].cols]]

Plans(selection) ==
  \A k \in DOMAIN selection :
    /\ selection[k].bank \in DOMAIN dict.by_name
    /\ ToSet(selection[k].cols) \subseteq DOMAIN Get(dict, selection[k].bank).cols

Accepts(c) ==
  /\ Validates(c.filter, dict)
  /\ c.kind \in {"columns", "entries", "sweep"} => Plans(c.selection)
  /\ c.kind = "sweep" => ~IsActive(c.filter)

InRange(range, g) == range # All => range[1].lo <= g /\ g < range[1].hi

(* A record outside the range is passed over without being read.           *)
PassedOver(t, range) ==
  range # All /\ (RecStart(t.file, t.record) + CountOf(t.file, t.record) <= range[1].lo
                  \/ RecStart(t.file, t.record) >= range[1].hi)

(* read_columns_at: the listed entries that exist, each with its place in  *)
(* the list, by the record they are in, records in order.                  *)
Slots(entries, t) ==
  LET In(slot) == LET at == Numbers!Resolve(entries[slot]) IN <<at.file, at.record>> = t
  IN  SelectSeq([slot \in DOMAIN entries |-> slot], In)

Groups(entries) ==
  LET met == SelectSeq(Numbers!AllRecords, LAMBDA t : Slots(entries, t) # << >>)
  IN  [k \in DOMAIN met |-> [file |-> met[k][1], record |-> met[k][2],
                             slots |-> Slots(entries, met[k])]]

(* All in one record, or nowhere: they are asked for one by one.           *)
Replays(c) == c.kind = "entries" /\ Len(Groups(c.entries)) <= 1

(* The list is not ascending, or not all there: the chunks are per entry   *)
(* and are put back in the order of the list.                              *)
PerEntry(entries) ==
  \/ \E k \in DOMAIN entries : Numbers!Resolve(entries[k]) = Numbers!Nowhere
  \/ \E k \in 2..Len(entries) : entries[k - 1] > entries[k]

TasksOf(c) ==
  LET Whole(ts) == [k \in DOMAIN ts |-> [file |-> ts[k][1], record |-> ts[k][2], slots |-> << >>]]
  IN CASE Replays(c) -> <<[file |-> 0, record |-> 0, slots |-> [k \in DOMAIN c.entries |-> k]]>>
       [] c.kind = "entries" /\ ~Replays(c) -> Groups(c.entries)
       [] c.kind = "sweep" -> Whole(Numbers!AllRecords)
       [] c.kind = "occupancy" /\ dict.schemas = << >> -> << >>
       [] OTHER -> Whole(Numbers!BuildTasks(c.filter.record_tags))

-----------------------------------------------------------------------------
(* OwnedEvent::bank of Chain::event: an error is no bank, and so no rows.  *)
OwnedBank(g, p) ==
  LET at == Numbers!Resolve(g)
      Bank == Split!EventBank(stored[at.file][at.record], EventsAt(at), at.event, p)
  IN  CASE at = Numbers!Nowhere -> Split!NoRows(p)
        [] at # Numbers!Nowhere /\ ~stored[at.file][at.record].readable -> Split!NoRows(p)
        [] OTHER -> IF Bank = Split!Broken THEN Split!NoRows(p) ELSE Bank

-----------------------------------------------------------------------------
(* Going through one record.                                               *)
(* The events of a record that are in the range and pass the filter, as    *)
(* the chain's dictionary or, for events(), the file's understands it.     *)
Kept(t, c) ==
  LET Wanted(e) ==
        /\ InRange(c.range, RecStart(t.file, t.record) + e - 1)
        /\ Passes(t, e, c.filter, IF c.kind = "events" THEN FileDict(t.file) ELSE dict)
  IN  SelectSeq([e \in DOMAIN EventsAt(t) |-> e], Wanted)

Ok(value) == [ok |-> TRUE, value |-> value]
Err == [ok |-> FALSE, value |-> << >>]

(* BankChunk::push_event, for each bank of the plan and event in turn.     *)
ChunkOf(plan, banks) ==
  [p \in DOMAIN plan |->
     [row_counts |-> [k \in DOMAIN banks |-> banks[k][p].rows],
      columns |-> [c \in DOMAIN plan[p].cols |->
                     FlattenSeq([k \in DOMAIN banks |-> banks[k][p].cols[c]])]]]

ScanEvents(t, plan, events) ==
  LET banks == [k \in DOMAIN events |-> [p \in DOMAIN plan |->
                  Split!ScanBank(RecordAt(t), EventsAt(t), events[k], plan[p])]]
  IN  IF \E k \in DOMAIN banks, p \in DOMAIN plan : banks[k][p] = Split!Broken THEN Err
      ELSE Ok(ChunkOf(plan, banks))

(* process_record_entries: a chunk for each entry, or one for them all,    *)
(* under the place of the first.                                           *)
EntryChunks(t, plan, entries) ==
  LET Local(slot) == Numbers!Resolve(entries[slot]).event
      Each(slots) == ScanEvents(t, plan, [k \in DOMAIN slots |-> Local(slots[k])])
      parts == IF PerEntry(entries) THEN [k \in DOMAIN t.slots |-> <<t.slots[k]>>] ELSE <<t.slots>>
  IN  IF \E k \in DOMAIN parts : ~Each(parts[k]).ok THEN Err
      ELSE Ok([k \in DOMAIN parts |-> [slot |-> parts[k][1], chunk |-> Each(parts[k]).value]])

(* Occupancy of a record: for each schema of the chain, the bytes of it in *)
(* each event there, taken from the directory when there is one.           *)
ExtentsOf(t, id, e) ==
  LET at == Split!BankIndex(RecordAt(t).split, id)
      found == Split!Found(EventsAt(t)[e].structures, id)
      bank == RecordAt(t).split.banks[CHOOSE b \in at : TRUE]
  IN  CASE RecordAt(t).layout = "blob" -> [k \in DOMAIN found |-> Len(found[k].data)]
        [] RecordAt(t).layout # "blob" /\ at # {} ->
             IF e \in bank.present THEN <<bank.sizes[e]>> ELSE << >>
        [] OTHER -> << >>

NoTally == [events |-> 0, total_rows |-> 0, max_rows |-> 0]

Note(tally, rows) ==
  IF rows = 0 THEN tally
  ELSE [events |-> tally.events + 1, total_rows |-> tally.total_rows + rows,
        max_rows |-> IF rows > tally.max_rows THEN rows ELSE tally.max_rows]

TallyOf(rows) == FoldLeft(Note, NoTally, rows)

Tally(t, events) ==
  [scanned |-> Len(events),
   banks |-> [s \in DOMAIN dict.schemas |->
     LET id == dict.schemas[s].id
         extents == FlattenSeq([k \in DOMAIN events |-> ExtentsOf(t, id, events[k])])
     IN  TallyOf([k \in DOMAIN extents |-> extents[k] \div Split!RowSize(id)])]]

MergeTallies(a, b) ==
  [scanned |-> a.scanned + b.scanned,
   banks |-> [s \in DOMAIN a.banks |->
     [events |-> a.banks[s].events + b.banks[s].events,
      total_rows |-> a.banks[s].total_rows + b.banks[s].total_rows,
      max_rows |-> IF a.banks[s].max_rows > b.banks[s].max_rows THEN a.banks[s].max_rows
                   ELSE b.banks[s].max_rows]]]

(* for_each_column: the column of one record, in one piece when its bank   *)
(* is split by column, event by event otherwise; an event whose bank is no *)
(* whole number of rows is passed over.                                    *)
Sweep(t, p) ==
  LET rec == RecordAt(t)
      at == Split!BankIndex(rec.split, p.id)
      b == CHOOSE k \in at : TRUE
      Visit(bank) == IF bank = Split!Broken THEN << >> ELSE bank.cols[1]
      present == SelectSeq([e \in DOMAIN EventsAt(t) |-> e], LAMBDA e : e \in rec.split.banks[b].present)
  IN  CASE rec.layout = "blob" ->
             Ok(FlattenSeq([e \in DOMAIN EventsAt(t) |-> Visit(Split!BlobBank(EventsAt(t), e, p))]))
        [] rec.layout # "blob" /\ at = {} -> Ok(<< >>)
        [] rec.layout = "per_column" /\ at # {} /\ ~Split!IsOpaque(rec.split.banks[b]) ->
             IF p.cols[1] \notin DOMAIN rec.split.banks[b].streams THEN Ok(<< >>)
             ELSE IF Split!StreamBytes(rec, b, p.cols[1]) = Split!Failed THEN Err
             ELSE Ok(Split!StreamBytes(rec, b, p.cols[1]))
        [] OTHER ->
             IF Split!StreamBytes(rec, b, 1) = Split!Failed THEN Err
             ELSE Ok(FlattenSeq([k \in DOMAIN present |-> Visit(Split!WholeBank(rec, b, present[k], p))]))

(* What a task comes to.                                                   *)
Process(t, c) ==
  LET plan == IF c.kind \in {"columns", "entries", "sweep"} THEN Plan(c.selection) ELSE << >>
      kept == Kept(t, c)
  IN  CASE Replays(c) ->
             Ok(<<[slot |-> 1, chunk |->
               ChunkOf(plan, [k \in DOMAIN c.entries |-> [p \in DOMAIN plan |->
                                OwnedBank(c.entries[k], plan[p])]])]>>)
        [] ~Replays(c) /\ c.kind \in {"columns", "tags", "occupancy"} /\ PassedOver(t, c.range) ->
             Ok(CASE c.kind = "columns" -> ChunkOf(plan, << >>)
                  [] c.kind = "tags" -> << >>
                  [] OTHER -> Tally(t, << >>))
        [] ~Replays(c) /\ ~(c.kind \in {"columns", "tags", "occupancy"} /\ PassedOver(t, c.range)) ->
             IF ~RecordAt(t).readable THEN Err
             ELSE CASE c.kind = "columns" -> ScanEvents(t, plan, kept)
                    [] c.kind = "entries" -> EntryChunks(t, plan, c.entries)
                    [] c.kind = "tags" ->
                         Ok([k \in DOMAIN kept |-> TagOf(RecordAt(t), EventsAt(t), kept[k])])
                    [] c.kind = "occupancy" -> Ok(Tally(t, kept))
                    [] c.kind = "sweep" -> Sweep(t, plan[1])
                    [] OTHER -> Ok([k \in DOMAIN kept |-> RecStart(t.file, t.record) + kept[k] - 1])

(***************************************************************************)
(* Putting the chunks together.                                            *)
(***************************************************************************)
Merge(plan, parts) ==
  LET Counts(p) == FlattenSeq([k \in DOMAIN parts |-> parts[k][p].row_counts])
  IN  [p \in DOMAIN plan |->
         [offsets |-> [n \in 1..Len(Counts(p)) + 1 |-> Split!SumBefore(Counts(p), n)],
          columns |-> [c \in DOMAIN plan[p].cols |->
                         FlattenSeq([k \in DOMAIN parts |-> parts[k][p].columns[c]])]]]

(* merge_chunks refuses columns that are not as long as the rows say.      *)
Sound(plan, buffers) ==
  \A p \in DOMAIN plan : \A c \in DOMAIN plan[p].cols :
    Len(buffers[p].columns[c]) = Last(buffers[p].offsets) * Split!Width(plan[p].id, plan[p].cols[c])

(* Mutant of Scattered: an entry that is nowhere adds no row at all.       *)
ScatteredShort(plan, entries, parts) ==
  LET placed == SelectSeq([slot \in DOMAIN entries |-> slot],
                          LAMBDA slot : \E k \in DOMAIN parts : parts[k].slot = slot)
  IN  [n \in DOMAIN placed |->
         parts[CHOOSE k \in DOMAIN parts : parts[k].slot = placed[n]].chunk]

(* Each entry's chunk back in its place; one that is nowhere is an event   *)
(* without rows.                                                           *)
Scattered(plan, entries, parts) ==
  [slot \in DOMAIN entries |->
     IF \E k \in DOMAIN parts : parts[k].slot = slot
     THEN parts[CHOOSE k \in DOMAIN parts : parts[k].slot = slot].chunk
     ELSE ChunkOf(plan, << [p \in DOMAIN plan |-> Split!NoRows(plan[p])] >>)]

Buffers(c, parts) ==
  LET plan == Plan(c.selection)
      flat == FlattenSeq(parts)
  IN  CASE c.kind = "columns" -> Merge(plan, parts)
        [] c.kind = "entries" /\ PerEntry(c.entries) /\ ~Replays(c) ->
             Merge(plan, Scattered(plan, c.entries, flat))
        [] OTHER -> Merge(plan, [k \in DOMAIN flat |-> flat[k].chunk])

Collected(c, parts) ==
  IF c.kind \in {"columns", "entries"} THEN Buffers(c, parts)
  ELSE IF c.kind = "occupancy"
       THEN FoldLeft(MergeTallies, [scanned |-> 0, banks |-> [s \in DOMAIN dict.schemas |-> NoTally]], parts)
  ELSE FlattenSeq(parts)

-----------------------------------------------------------------------------
Ask(c) ==
  /\ phase = "open" /\ outcome = "none"
  /\ call' = c
  /\ IF Accepts(c)
     THEN /\ tasks' = TasksOf(c)
          /\ todo' = DOMAIN TasksOf(c)
          /\ chunks' = [i \in DOMAIN TasksOf(c) |-> Err]
          /\ outcome' = "running"
     ELSE outcome' = "refused" /\ UNCHANGED <<tasks, todo, chunks>>
  /\ UNCHANGED <<storage, answer>>

Taken == DOMAIN tasks \ todo
Failed == \E i \in Taken : ~chunks[i].ok

(* One thread, and the two calls that have no threads, take the records in *)
(* order and stop at the first error; several take them in any order, and  *)
(* may take more before they learn of one.                                 *)
Sequential == call.threads = 1 \/ call.kind \in {"sweep", "events"}

(* Mutant of Placed: a chunk is pushed where it comes to be done.          *)
PlacedBehind(i, chunk) == Append(chunks, chunk)

Placed(i, chunk) == [chunks EXCEPT ![i] = chunk]

Take(i) ==
  /\ outcome = "running" /\ i \in todo
  /\ Sequential => ~Failed /\ \A j \in todo : i <= j
  /\ todo' = todo \ {i}
  /\ chunks' = Placed(i, Process(tasks[i], call))
  /\ UNCHANGED <<storage, call, tasks, outcome, answer>>

Collect ==
  /\ outcome = "running"
  /\ \/ /\ Failed
        /\ outcome' = "err" /\ UNCHANGED answer
     \/ /\ todo = {} /\ ~Failed
        /\ LET result == Collected(call, [i \in DOMAIN tasks |-> chunks[i].value])
           IN  IF call.kind \in {"columns", "entries"} /\ ~Sound(Plan(call.selection), result)
               THEN outcome' = "err" /\ UNCHANGED answer
               ELSE outcome' = "ok" /\ answer' = result
  /\ UNCHANGED <<storage, call, tasks, todo, chunks>>

Next ==
  \/ Storage
  \/ \E c \in Calls : Ask(c)
  \/ \E i \in todo : Take(i)
  \/ Collect

Spec == Init /\ [][Next]_vars

-----------------------------------------------------------------------------
TypeOK ==
  /\ StorageTypeOK
  /\ call \in Calls \cup {NoCall}
  /\ todo \subseteq DOMAIN tasks /\ DOMAIN chunks = DOMAIN tasks
  /\ \A i \in DOMAIN chunks : chunks[i].ok \in BOOLEAN
  /\ outcome \in {"none", "running", "ok", "err", "refused"}

(***************************************************************************)
(* What the calls are meant to return, event by event from what was        *)
(* written, whatever the layouts.                                          *)
(***************************************************************************)
Satisfies(bound, g) ==
  Check(bound, EventNumbered(g).tag, Split!BanksOf(EventNumbered(g).structures))

(* The events a scan of the chain is to visit, in order.                   *)
Surviving(c) ==
  LET Wanted(g) ==
        LET at == Numbers!Resolve(g)
            word == files[at.file].records[at.record].user_word
        IN  /\ InRange(c.range, g)
            /\ c.filter.record_tags = {} \/ word \in c.filter.record_tags
            /\ Satisfies(Bind(c.filter, dict), g)
  IN  SelectSeq([n \in 1..Numbers!Total |-> n - 1], Wanted)

WrittenBanks(listed, plan) ==
  [k \in DOMAIN listed |-> [p \in DOMAIN plan |-> WrittenBank(listed[k], plan[p])]]

WrittenRows(wanted, id) ==
  FlattenSeq([k \in DOMAIN wanted |->
    LET found == Split!Found(EventNumbered(wanted[k]).structures, id)
    IN  [i \in DOMAIN found |-> Len(found[i].data) \div Split!RowSize(id)]])

ExpectedOf(c, plan, wanted) ==
  CASE c.kind \in {"columns", "entries"} ->
         Merge(plan, <<ChunkOf(plan, WrittenBanks(IF c.kind = "entries" THEN c.entries ELSE wanted, plan))>>)
    [] c.kind = "tags" -> [k \in DOMAIN wanted |-> EventNumbered(wanted[k]).tag]
    [] c.kind = "occupancy" ->
         [scanned |-> Len(wanted),
          banks |-> [s \in DOMAIN dict.schemas |-> TallyOf(WrittenRows(wanted, dict.schemas[s].id))]]
    [] c.kind = "sweep" ->
         FlattenSeq([k \in DOMAIN wanted |-> WrittenBank(wanted[k], plan[1]).cols[1]])
    [] OTHER -> wanted

Expected(c) == ExpectedOf(c, Plan(c.selection), Surviving(c))

(* A bank asked for is kept opaque in a per-column record: read_columns    *)
(* and the grouped read_columns_at read it as if it were not.              *)
MeetsOpaque ==
  /\ call.kind = "columns" \/ (call.kind = "entries" /\ ~Replays(call))
  /\ \E fi \in DOMAIN stored : \E ri \in DOMAIN stored[fi] :
       LET rec == stored[fi][ri] IN
       /\ rec.layout = "per_column"
       /\ \E b \in DOMAIN rec.split.banks, k \in DOMAIN call.selection :
            /\ Split!IsOpaque(rec.split.banks[b])
            /\ rec.split.banks[b].id = Get(dict, call.selection[k].bank).id

Offsets(buffers) == [p \in DOMAIN buffers |-> buffers[p].offsets]

RowsAt(buffer, k) == buffer.offsets[k + 1] - buffer.offsets[k]

AsExpected(c, got, expected) ==
  CASE Damages = {} \/ c.kind \in {"tags", "occupancy"} -> got = expected
    [] Damages # {} /\ Replays(c) ->
         \A p \in DOMAIN got, k \in DOMAIN c.entries :
           RowsAt(got[p], k) \in {0, RowsAt(expected[p], k)}
    [] OTHER -> IF "changed" \notin Damages THEN got = expected
                ELSE IF c.kind = "sweep" THEN Len(got) = Len(expected)
                ELSE Offsets(got) = Offsets(expected)

(* A call may fail: for damage, for a bank that is no whole number of rows *)
(* or for an opaque bank it cannot read.                                   *)
HasAReason ==
  \/ Damages # {}
  \/ MeetsOpaque
  \/ \E g \in 0..Numbers!Total - 1 : \E s \in ToSet(EventNumbered(g).structures) :
       s.id \in DOMAIN dict.by_id /\ Len(s.data) % Split!RowSize(s.id) # 0

(* A call that returns Ok on an intact chain returns what was written,     *)
(* event by event and in the chain's order or the caller's, whatever the   *)
(* layouts, the filter, the grouping by record and the workers' order      *)
(* (read_columns, read_columns_at, event_tags, bank_occupancy,             *)
(* for_each_column).  With damage, Ok still means that nothing is missing: *)
(* tags and counts need no stream; columns are right but for bytes that    *)
(* inflate to others, and then still cut at the right places.  Only        *)
(* entries replayed one by one (read_columns_at within one record) may     *)
(* come back without rows, each right or empty.  And a call fails only for *)
(* a reason.                                                               *)
BulkIsEventByEvent ==
  /\ outcome = "ok" /\ call.kind # "events" /\ ~MeetsOpaque =>
       AsExpected(call, answer, Expected(call))
  /\ outcome = "err" => HasAReason

(* events() resolves the filter by each file's dictionary, the scans by    *)
(* the chain's.  It hands out the events a scan visits, except that a file *)
(* that does not declare a required bank yields none.                      *)
EventsMatchScans ==
  outcome = "ok" /\ call.kind = "events" =>
    answer = SelectSeq(Expected(call), LAMBDA g :
               call.filter.require \subseteq DOMAIN FileDict(Numbers!Resolve(g).file).by_name)

(* columns.rs, of the bulk reads: every layout "is reduced to the same     *)
(* primitive".                                                             *)
UniformAcrossLayouts ==
  outcome = "ok" /\ call.kind = "columns" /\ Damages = {} => answer = Expected(call)
=============================================================================
