# oxihipo: a TLA+ verification project

oxihipo reads and writes HIPO files, the record-oriented event format of the
CLAS12 experiment.  This directory models the parts of the Rust crate (`src/`)
whose correctness depends on the order of things: a writer that can fail or be
killed between any two calls to its file, a reader that must make sense of what
is left, threads that share a one-record cache, workers that share a scan,
an iterator that recycles a buffer its caller may still be looking at, records
split into streams that each reader inflates when it first needs them, calls that read
a whole chain of files with dictionaries of their own, programs that copy a chain into
a new file, and the Python writer on top of it all.

Every definition is translated from the source; `PROJECT.json` ("map") names the
lines each one stands for.

## 1. Inventory

| component | source | state | operations | what is hard |
|---|---|---|---|---|
| Writer | `write/writer.rs` | the `BufWriter`, the record builder, `index_entries`, `cursor`, `finished` | `create`, `append_raw`, `flush_record`, `write_record`, `set_user_word_1`, `finish`, `Drop` | each file operation may fail after some bytes; the process may be killed; finalisation runs twice (finish, then Drop) |
| Record builder | `write/record.rs` | event bytes and lengths, sticky user words | `add_event`, `build_record_bytes`, `reset` | limits at the boundary; state that survives a reset; three layouts |
| Opening, index, salvage | `read/inner.rs`, `wire/event_index.rs` | per file: dictionary, index of record spans | `from_source`, `salvage_from_source`, scanning, trailer | files that are cut, damaged or unfinished |
| Chain numbering | `read/chain.rs`, `wire/event_index.rs` | offsets of files and records | `event_count`, `locate`, `build_tasks` | empty files and records in binary searches |
| Random access, in-place tags | `read/chain.rs` | the one-slot `record_cache`, the tags on disk | `event`, `set_event_tag(s)` | the lock is dropped between look-up and store; a batch that fails half way; a cache that goes stale |
| Scans | `read/chain.rs`, `read/columns.rs` | task list, workers, shared counters | `for_each`, `for_each_ranges`, `par_fold`, `read_columns` | records taken in any order, errors that cancel, overlapping ranges |
| Sequential iterator | `read/iter.rs`, `read/chain.rs`, `event/owned.rs` | current record, its shared payload, a scratch buffer | `next_result`, dropping an `OwnedEvent` | buffers reused while the caller, on any thread, holds events |
| Dictionaries and their union | `schema/dict.rs`, `schema/types.rs`, `read/chain.rs` | schemas in order, an index by name, one by id | `try_add`, `add`, `get`, `get_by_id`, `union_dict` | one id for two banks, one name for two; a schema replaced |
| Filter | `read/filter.rs` | required banks, tags, mask, the ids it is bound to | `validate`, `bind`, `check` | bound to the chain's dictionary or to a file's |
| Columns | `read/columns.rs` | plan, chunks, buffers | `read_columns`, `read_columns_at`, `event_tags`, `for_each_column` | putting chunks together; repeated and unordered entries; three layouts and an opaque bank |
| Occupancy | `read/occupancy.rs` | per-bank tallies | `bank_occupancy` | counted from three layouts, merged from workers |
| Skim | `read/chain.rs` | an iterator feeding a writer | `skim`, `skim_banks`, `skim_tagged` | an error half way leaves a valid-looking file |
| Event handles | `event/owned.rs`, `event/ctx.rs` | the bank and the column last found | `bank`, `get`, `has` | answers from what was kept, by id or by name, under any dictionary |
| Building events | `event/build.rs`, `write/bank.rs`, `write/row.rs`, `write/writer.rs` | the pool of buffers, the event being filled | `event`, `bank`, `row`, `set` | closures that return an error, give a bank up or panic; buffers used again |
| Split records | `wire/by_bank.rs`, `wire/per_column.rs`, `write/record.rs`, `event/owned.rs`, `event/bank.rs` | a slot per stream, set once (`OnceLock`) | `build_*_record_bytes`, `parse`, `bank_stream`, `column_stream`, `OwnedEvent::bytes`, `Bank::col_bytes` | two threads inflating one stream; events without a bank, or with rows that are not whole; a damaged stream; a bank twice in an event |
| Wire headers | `wire/*.rs` | none | parse, write | lengths and bit fields |
| Compression, tags registry, schema text, typed access, errors, sources | `compress.rs`, `tag.rs`, `schema/`, `event/`, `error.rs`, `read/source.rs` | none shared | pure functions | bytes and text |
| Python binding | `py/` | the Rust writer or none, `events_written`, `finished`, the source's iterator; in the wrapper `_summary` | `extend`, `close`; conversions | a batch that fails half way and is given again; close called twice |

How they meet.  A `Writer` drives a record builder and a `BufWriter<File>`; what
reaches the disk is all a reader has.  `FileInner` opens one file and builds its
index; a `Chain` lays a global numbering over the indexes of many.  All reading
goes through the chain: `event(idx)` (with a cache that threads share),
`events()` (its own buffers, shared with the events it returns), and the scans
(workers from a thread pool).  `set_event_tags` writes into files the chain may be
reading.  The skims read with `events()` and hand each event to a `Writer`; the
Python writer does the same when it decorates a file, an event per row it is given.

What makes each correct: the writer's disk holds the events appended, in order, at any
instant; a reader gives back what is there and says so when it cannot; every way of
reading a chain (one event, an iterator, a scan, columns, counts) gives the same answer
as counting its events through one by one; a copy holds what was to be copied.

## 2. Modules

    HipoFile                what a file is made of
      HipoWriter            the writer, BufWriter, faults and crashes
      HipoReader            opening, scanning, salvage
        HipoRecovery        writer and reader together; refines EventLog
          HipoRecoveryProofs  types; index, header, append-only disk, limits;
                            what is read back; the refinement
          MCHipoRecovery
    EventLog                what a writer promises (abstract)
    Chain                   numbering, look-up, task list
      ChainProofs           the look-up finds what a count finds
      ChainTags             event() and set_event_tags() by threads
        ChainTagsProofs     answers, batches, types
      ChainScan             scans by workers; refines EventScan
        ChainScanProofs     ranges, order, statistics, the refinement
      ChainEvents           the sequential iterator; refines EventScan
        ChainEventsProofs   buffers, the refinement
    EventScan               what any scan promises (abstract)
    SplitRecord             a record split by bank or by column (functions)
    SplitDirectory          its directory as bytes: tables, checks, reads (functions)
      SplitReads            one such record, written, damaged, read by threads
        SplitReadsProofs    byte-stream-split; the directory; what a built record holds;
                            borrowed streams; what reads answer, damaged or not
    ListProofs              lemmas on lists, running totals, folds and induction, for all the proofs
    BankReads               one bank of one event, from a record of any layout (functions)
    ChainDict               dictionaries, their union, the filter (functions)
      ChainFiles            files with dictionaries and layouts of their own, opened
        BulkReads           one call over the whole chain
          MCBulkReads
        EventHandle         an event asked for banks and cells
    EventBuild              events assembled by closures
          Rewrite           EventHandle + EventBuild: skims and other programs
            PyWriter        the Python writer's extend and close
              PyWriterProofs  the union of dictionaries, handles, events assembled,
                            new files and updates
              MCRewrite

**HipoFile** A file is a sequence of *cells*; a cell names the content it is
part of (file header front, `trailer_position`, dictionary, data or trailer record)
and its place in it.  That is enough to see overwriting, truncation, gaps and
records that are partly there, and leaves bytes out.  The file header is two cells
because the writer patches two fields of it with two system calls.

**HipoWriter** `file` is the `BufWriter` (disk, file offset, buffer), with std's
rules for when a write is buffered, when the buffer is drained first, and when a
write goes past the buffer.  Each file operation is a set of outcomes: success,
an error after some of the cells (kind `flush` or `direct`), or the process
killed after some of the cells.  `builder`, `index_entries`, `cursor`, `finished`
are the fields of `Writer`; `pc` is the operation in progress.  Operations are
atomic as far as one file operation; `finalize` is one action per file operation,
followed by a second round when `finish` fails and `Drop` tries again (`GiveUp`).
`damaged` is a history variable: a failure left the file offset where the
writer's `cursor` is not (a direct write that failed half way, a header patch
that failed after its seek, or the seek back to the end that follows the patches;
the last two are the fault kind `patch`).

**HipoReader** The opening of a file as functions of its cells: `TrailerIndex`,
`ScanIndex` (normal and salvage), `Open` with its fallback, `Salvage` with its
search for a first record and its trailer rule.  The loop of `build_index_by_scanning`
is a `Walk` (an offset and the index so far) that takes a `Turn` per record; every turn
passes a cell, so there are at most as many as cells.

**HipoRecovery** evaluates the reader on the disk of the writer in every state,
and states that the writer implements **EventLog**: events pending, then stored in
order, never lost by a failed flush, cut to a prefix by a crash.

**Chain** The files are constants; a record knows how many events its index row
announces, which of those it holds pass the filter, whether its header and its
body can be read, and its layout.  `Resolve` and `Locate` are the two
`partition_point`s of the code; `Numbering` is what they are checked against,
the events counted one by one.

**ChainTags** `event()` takes the lock twice, so it is three actions: the look-up
(`Event`, the whole call on a hit), `ReadRecord` outside the lock, and
`StoreRecord`.  `set_event_tags` is resolution (`SetEventTags`), opening and layouts
(`OpenLayouts`), and one `PatchTag` per target.

**ChainScan** `TasksOf` gives the records to go through, by their places in the chain,
each with the window of ranges it meets: the ranges are sorted (`Sorted`), merged
(`Merged`), and two searches per record find the first and the last it touches
(`RangesFor`).  Workers `Take` a task (in order when there is one thread), `VisitEvent`,
and `EndRecord`, which adds their counts to the shared ones; `Join` returns.  In
**EventScan** what is asked for is a set of event numbers, and `visited` says how often
each was visited.

**ChainEvents** `next_result` as steps: open the next file, load the next record
(recovering the last one's buffer with `Arc::try_unwrap` unless an event shares it),
pass or hand out an event.  The caller drops events between any two steps.

**SplitRecord** The two split layouts as functions, with a byte as a cell that says
which event, structure and place it is from, so that any byte out of place shows.
`BuildRecord` is the walk over the events (`WalkBank`: the bytes of every structure
found, the size of the last), the sorted `Descriptors`, the split into
`ColumnStream`s or one opaque stream (`Columnar` decides), and byte-stream-split with
checksums (`StoredStream`).  `Parses` is what the directory is refused for.
`EventStreams`/`SynthesizeEvent` and `ColumnStreams`/`ReadColumn` are the two ways of
reading: which streams each asks for, in order, and what it makes of those it got.

**SplitReads** gives this a life: `Build`, `Damage` (external), `Parse`, and reads by
threads.  A read asks for its streams one by one; each is a `Hit`, or a `Miss`, then
`InflateStream` outside any lock, then `Set`, the `OnceLock::set` that the first wins
and the `get` that follows it.  `got` is what the thread borrows of each slot, with
who set it: that is how a replaced slot would be seen.

**SplitDirectory** The directory's tables as the writer lays them down (`Offsets`), the
reader's two checks (`AdmitsLength` before inflating, `HoldsTables` after), whether
there is room for header sizes (`HasHeaderSizes`, which only the length tells), and
every element read (`StaysInside`, `LiesApart`).  `usize` is a constant, `MaxUsize`, and
`decompress` may fall short of the length declared by up to `DecompressSlack`.
`SplitReads!Damage` may change that length in storage.

**BankReads** How one bank of one event is read: by a scan (`ScanBank`), which decides by
the record's layout, and by an event (`EventBank`), which also asks whether the bank is
opaque; the event as bytes, and as the walk over its structures, which ends at the first
stream that does not inflate.

**ChainDict** `TryAdd`, `Get`, `GetById` over the two indexes; `UnionDict` as the code's
fold over the files, with its two refusals (`Contradicts`); `Bind`, `TagMatches`,
`Check` of the filter, where a name the dictionary has not makes it unsatisfiable.

**ChainFiles** `files` is what is to be written, `stored` the records on the disk, in the
form `SplitRecord!BuildRecord` gives them, `dict` the chain's dictionary.  `WriteFile`
writes the next file, by that file's dictionary (`Written`; `Split` is the same functions
under the chain's).  `DamageRecord` may make one record unreadable, or one of its
streams; `OpenChain` opens or refuses.  Modules above take these three as one action,
`Storage`.

**BulkReads** One call: `Ask` makes the plan and the tasks; workers `Take` a task, whose
chunk (`Process`) is put among the `done` ones; `Collect` merges them, in the chain's
order (`Merge`) or scattered back to the entries asked for (`Scattered`).  An error
anywhere ends the call.  `Sequential` calls (`for_each_column`, `events()`, tags on one
thread) go through in order.  `Expected` is the reference: the events numbered
through, those that pass, the bank of each as it was written.

**EventBuild** `Begin`/`Return` are `Writer::event` around its closure, `OpenBank`/`CloseBank`
are `EventWriter::bank` around the inner one; between them rows are added and cells set.
A bank's buffers come from `pool` and are its columns while it is filled; what is in
them from last time is what `PushRow` must hide.  `asked` and `rows` are histories of
what the closures asked for.

**EventHandle** `handle.kept` is the locator (bank, place, column) the event keeps.
`OwnedEvent` knows the bank kept by its id and asks the dictionary for the name,
`EventCtx` by the name: `KeptFor` has both.

**Rewrite** One program at a time over an opened chain.  `ahead` is what the iterator has
yet to hand out; a copy takes the head, copies it whole, projected (`Projected`) or
with a tag by whether it has a bank, and appends it to `output`.  An unreadable record
ends the copy with an error, and the writer's `Drop` finishes the file: `output` stays.
Lists are picked from with `Only`, which is laid end to end of single elements, because
the proofs can see through that (4).
An append that fails is `HipoWriter`'s matter.

**PyWriter** `built` says whether there is a Rust writer; `ensure_writer` makes one, which
truncates (`Begun`).  `Extend` is the whole call; `ExtendFails(n)` is the call that
fails after `n` events, which stay in the file while `events_written` does not move and
the source's iterator has.  `Close` with `wrapped` is the Python class's, which asks the
compiled one no more once it has a summary; without it, the compiled class's, which may
be called again.

## 3. Runs

| run | asks | states |
|---|---|---|
| `writer` | Is the file right at every instant, and does it read back? `IndexMatchesStream`, `HeaderNamesTrailer`, `BuilderWithinLimits`, `RecordsNeverOverwritten` about the writer; `FinishedReadsBack`, `OpenReadsAPrefix`, `SalvageFindsWholeRecords` about what a reader makes of its disk; `WritesAnEventLog` is the refinement | 50 873 |
| `writer_faults` | Does finalisation end when any file operation may fail, twice? `FinalizeEnds` | 3 710 |
| `finish_after_error` | violated: `FinishCompletesTheFile` | |
| `chain_tags` | Threads reading and retagging: `EventIsTheOneAsked`, `BatchAppliesInOrder`, `OnlyValidBatchesWrite` | 49 300 |
| `stale_tag` | violated: `VisibleAtOnce` | |
| `scan` | Every kind of scan, one worker or two: `VisitsEachEventOnce` (refinement), `ChunksInOrder`, `CountersAgree`, `ScanEnds` | 3 694 |
| `short_read` | violated: `NeverShort` | |
| `events` | The iterator and its buffers: `HandsOutInOrder` (refinement), `HeldEventsIntact`, `OneBufferSteadyState`, `NextReturns` | 3 500 |
| `split` | A split record from writing to reading, its directory's length or a stream damaged: `AcceptedAsWritten`, `ReadsAreTheEvents`, `DamageKeepsTheShape`, `ChecksumCatchesDamage`, `BorrowsStayValid`, `InflatesOnlyWhatIsRead` | 699 094 |
| `bulk` | Does a call over the whole chain return what its events, read one by one, hold? `BulkIsEventByEvent`; does `events()` hand out what a scan visits? `EventsMatchScans`; does a chain that opens decode each file as that file declares? `UnionDecodesAsDeclared` | 96 031 |
| `opaque_columns` | violated: `UniformAcrossLayouts` | |
| `rewrite` | Programs over a chain: `CopiesHoldTheSource` (`SkimWritesWhatPassed`, `UpdateHoldsTheSource`) for the skims and the Python writer's updates; `HandleAnswersAfresh` for an event asked in any order; `EventsAsAssembled` for closures that fail or panic; `ClosesWhatWasExtended` (`UpdateIsAligned`, `NewFileHoldsTheRows`) for the Python writer | 84 157 |

Each passing run also checks the type invariant of its module.  The four violated
properties are statements of the repository's own docs and comments that the code does
not keep; `PROJECT.json` ("findings") quotes each.

* `finish_after_error`: after a write that failed half way past the buffer, the
  writer goes on with a `cursor` that is behind the file; `finish` says Ok and the
  file does not read back.
* `stale_tag`: `event()` returns a cached tag after `set_event_tags` changed it.
* `short_read`: `read_columns` with a record tag skips a record whose header cannot
  be read, and says Ok.
* `opaque_columns`: `read_columns` reads a bank that a per-column record keeps opaque as
  if it were split, so that its columns depend on the layout, and says Ok.

### What the properties leave out on purpose

Some properties have a condition because the code does not keep the stronger statement:

* `BulkIsEventByEvent` asks nothing where `read_columns` meets an opaque bank
  (`opaque_columns`), and allows the entries that `read_columns_at` replays within one
  record to come back without rows when the record is damaged.
* `SkimWritesWhatPassed` allows `skim_banks` to end an event at a by-bank stream that
  does not inflate, and any copy of a damaged record to have other data.
* `ReadsAreTheEvents` and `DamageKeepsTheShape` are about records whose events have no
  bank twice and give a bank one header size (`HeadersAgree`): the directory keeps the
  largest, as "in practice it is constant per bank" (`record.rs:434-435`).  Header sizes
  may be lost when the directory is cut.
* `HandleAnswersAfresh` is run with dictionaries in which no id leads to a schema that
  has another one (for the other case see the disagreements below); two names for one id
  are among them.
* `UpdateIsAligned`, `UpdateHoldsTheSource` and `NewFileHoldsTheRows` are about a file
  whose writer was made once (`~rebuilt`); in a new file the events a failed `extend`
  left stay, and are counted (`left`).
* `EventsMatchScans` excepts the files that do not declare a required bank.
* Some theorems about the iterator and scans suppose what the runs' chains satisfy:
  `IndexesRight`, that the index announces as many events as each readable record holds
  (the index of a finished file does, and opening does not look into the records to
  check it), and `TagsReadable`, that headers can be read where a record tag is asked
  for (a scan passes over a record whose header it cannot read: `short_read`).

### Disagreements noticed without a run of their own

* A writer killed after the trailer is flushed and before the header names it: an
  ordinary open scans, and takes the trailer for a record of data (`inner.rs:145-146`
  says the normal path never meets it).  `OpenReadsAPrefix` allows that one phantom.
* Salvage takes a dictionary record without schemas for data (`inner.rs:125-130`).
* An event with the same bank twice shifts that bank in all later events of a per-column
  record; by bank, the reader refuses the record (`record.rs:438`, `by_bank.rs:420`).
* `website/docs/rust/writing.md:172-173` calls a batch of `set_event_tags`
  all-or-nothing, while a write that fails on the way leaves the tags written before
  it.  `BatchAppliesInOrder` is what holds: the tags written are the first ones of the
  batch, each once.
* `Chain::skim` says it stops with an error at the first corrupt record
  (`chain.rs:779-780`); for a split record a damaged stream gives zeros, or with
  `skim_banks` fewer banks, and Ok.  `event.rs:254-255` says the iterator has ruled
  such a stream out; it checks nothing.  `skim_tagged` would panic on an event shorter
  than its header.
* `filter.rs:16-17` says names a dictionary has not are dropped; `bind` makes the filter
  unsatisfiable.
* `owned.rs:268-269` says the fast path of `OwnedEvent::bank` checks the kept id by name.
  The name compared is that of the schema the id leads to, and `try_add` of a bank again
  (`dict.rs:58-66`) leaves the id it had leading to its new schema.  With a dictionary in
  which A was declared, then B with A's id, then B with its own, an event asked for A and
  then for B takes A's bytes for B's (`owned.rs:276`); `EventCtx` compares the name it was
  asked for.  With that dictionary in `OwnDicts`, TLC finds `HandleAnswersAfresh` violated.
* A `Writer` accepts a dictionary with two names for one id; `Chain::open` refuses the
  file it writes.  `Dict::try_add` of a name again leaves the replaced schema's id
  pointing at the new one.  The index's `MISSING` is `u16::MAX`, so the 65,536th schema
  cannot be found by id.  `inner.rs:439` uses `Dict::add`, though `dict.rs` says every
  parsing path uses `try_add`.
* `chain.rs:1609-1615` says of `for_each_ranges` that sorting is load bearing and merging
  only an optimisation.  The code relies on both: the slice of a record starts at
  `partition_point` over the *ends* of the ranges, and sorting by start orders the ends
  only once no range lies inside another.  Unmerged, with (0,10), (1,2), (3,4), the
  search for a record that starts at 5 passes over (0,10) and finds nothing.
  `WindowsLoseNothing` is proved from the ranges being sorted and apart.
* `decompress` returns Ok with an output short by up to 64 KiB, so `from_directory`'s own
  checks are what keeps its reads inside; a directory cut by its declared length loses
  the header sizes without an error.
* Python: `close` is called idempotent (`lib.rs:959-960`, `__init__.py:2093`).  On the
  compiled class a second `close`, or one retried after it failed, makes a new writer,
  truncates the file and returns Ok with no events; the wrapper guards against the first
  only, and for an update then replaces the source by the empty file.  `_summary` is set
  before `os.replace`, so a replace that fails is never tried again.  An update of which
  one `extend` failed half way can never be closed; a new file keeps the events of the
  failed call.  Automatic item numbers stop at 255, so two banks then share an id
  (`lib.rs:710`, `__init__.py:2065`, "unique").  The reader's `Chain.__exit__` calls
  `_abort`, which uses the Writer's attributes.

### Bounds, and why they are enough

* `writer`: events of one and two cells, at most two events or three cells a
  record, a buffer of four: records smaller than, equal to and larger than the
  room left and the buffer itself all occur, so all paths of `write_all` are taken;
  two records, the smallest number for which contiguity, order and a second index
  row mean anything; two failing flushes, so that `finish` fails and its `Drop`
  fails too.  `MaxRecords` bounds appending, `MaxFaults` the failures.
* `writer_faults`: one event, one record, no prebuilt ones: the faults are what
  varies, two of any kind.
* `chain_tags`: two threads, three calls, one fault, two tags; five events over three
  files with an empty file, an empty record, a compressed record, and an index row
  that announces an event its record does not hold.  Three calls are what a
  lost update of the cache needs: two misses that race, and a hit.
* `scan`: six events in three files, one of them empty, one record empty, one that
  cannot be decoded; ranges that overlap, touch, nest, are inverted, and reach
  past the end.
* `split`: three inputs of two or three events between them hold every case of a bank:
  present, absent, empty, in an order other than the directory's, without a schema,
  composite, and not a whole number of rows; a schema of two columns with two-byte
  elements and an array.  Two threads and two reads (`MaxReads`) are what a race on a
  slot needs.  At most one stream is damaged, before the parse: its bytes inflate to
  others, or do not inflate.  Whether splitting compresses better, and whether a
  checksum is there (0 counts as none), is chosen freely, once for the record;
  a hash that collides is left out.
  Or the directory is declared one byte longer, or shorter by one, by its header sizes
  and by one more (into the tables).  `DecompressSlack` is 3 bytes (64 KiB in the code):
  a declared length may pass the first check and the bytes inflated still lack a table,
  which the second must see.  `MaxUsize` is not reached: overflow of the sums is for the
  theorems.
* `events`: the caller holds up to four events (`MaxHeld`), more than a record has;
  three record-tag filters.

Deadlock is not checked: the caller of every one of these may stop calling, and
bounded histories end.
* `bulk`: two files of six events over three records, in every combination of the three
  layouts for those whose banks are whole rows.  Banks present, absent, empty, of two
  rows, in either order; an event without the bank between two with it; a bank the
  second file has and does not declare, or declares after another schema of that name;
  one that is no whole number of rows; three ways two files contradict each other.  At
  most one record is damaged, whole or in one stream.  Two workers are what any order
  of chunks needs.  Entries repeated, unordered, past the end, within one record and
  over several; ranges that cut records; filters by bank, by record tag, by event tag
  and by mask.  `MaxSchemas` 4 is one more than a file here declares.
* `rewrite`: four events in two files, one of which lacks a declaration the other has; at
  most one record or stream damaged.  Events are asked six things in any order, under
  the file's dictionary, the chain's, and one with two names for one id.  Events are
  built from two schemas with at most two rows a bank, two banks, two events: a buffer
  is used for another bank of another shape, within an event and in the next.  These
  and the Python writer's new files need no chain and are run on the empty one only.
  Batches of up to two events (`MaxBatch`), three given for a new file (`MaxGiven`), two
  failures (`MaxFailures`): one more than a retry needs, so a retry may fail as well;
  two closes (`MaxCloses`).

### Fairness

Operations that have begun run to their end: nothing in the writer, the iterator or
a worker waits for anybody, they return or fail.  So weak fairness is on the steps of
an operation in progress (`HipoWriter`, `ChainEvents`), and on each worker and the
join (`ChainScan`: rayon runs every task, and waits for all).  Calls, drops of
events and crashes are the environment's and have no fairness.

## 4. Proofs

Assumptions are those named in the modules.  About values: events have at least one cell,
the buffer is larger than the file header (a `BufWriter` has 8 KiB or more, the header
56 bytes) (`FileAssumption`, `WriterAssumption`), no thread is called "none"
(`SplitReadsAssumption`), a schema's columns have a size and a length of at least one
(`SplitRecordAssumption`), a bank has a column (`ChainFilesAssumption`), and the source of
an update has no filter (`PyWriterAssumption`: the Python class opens it so).  The rest
give the constants their types: `Files` is any sequence of sequences of records
(`ChainAssumption`), the requests of a scan any ranges, tags and number of threads
(`ChainScanAssumption`), the batches of tags any (`ChainTagsAssumption`), the events of a
split record any (`SplitReadsAssumption`), and so on.  The theorems hold for every value of
these: any files, however many of them or of their records are empty or unreadable, any
number of threads, faults, calls and events held.

### The writer

All in HipoRecoveryProofs.

* `TypeCorrect`: `Spec => []TypeOK`.  `TypeOK` alone is not
  inductive: that a row's fields are natural numbers needs `trailer_pos` to be one
  (`cursor` is no less than the trailer's length once it is written), and the header
  patches need the header to be on disk.  `TInv` adds these.
* `IndexCorrect`, `HeaderCorrect`, `RecordsKept`, `LimitsKept`, all from the inductive
  invariant `IInv == TInv /\ Books /\ Healthy /\ Named`:
  - `Books`, damaged or not: index rows are contiguous, the cursor follows the last,
    the builder is empty once its record is written;
  - `Healthy`, while undamaged: the file offset is at the end of the disk, so that
    disk and buffer together are the stream, the cursor is its length, every row
    describes the record at its position, and a trailer handed over lies at
    `trailer_pos`;
  - `Named`: from the first patch on, through a crash too, the header names a whole
    trailer or none.

  Why `Named` is kept apart: a crash empties the writer, and what it leaves must be
  known from the disk alone.  The argument for the steps is two lemmas: rows that
  match a stream match any longer one (`RowSurvives`), and draining the buffer
  changes the disk but not the stream.

### Reading back

What a reader makes of the writer's disk, also in HipoRecoveryProofs, for any sizes of
events, records and buffer, any faults and a crash at any instant.

* `OpensAPrefix`: `Spec => []OpenReadsAPrefix`.  `FinishedOpensWhole`: a file finished
  undamaged opens by its trailer and holds every event.
* `ReadsBack` (`[]FinishedReadsBack`) and `SalvagesWholeRecords`
  (`[]SalvageFindsWholeRecords`) need `HasSchemas \/ DictEvents = 0`: salvage takes a
  dictionary record that yields no schemas for data (`inner.rs:130`), so such a record
  hold no event.  One with only a tag registry or a configuration holds some, and is
  the case the code gets wrong (`hazards`).
* `RefinesEventLog`: `Spec /\ []~damaged => WritesAnEventLog`, and
  `RefinesWithFlushFaults`: when what fails is flushes of the buffer
  (`FaultKinds \subseteq {"flush"}`, as in the run), the writer implements EventLog
  with no further hypothesis.  A torn direct write breaks it: that is the finding
  `finish_after_error`.

The inductive invariant is `RInv == IInv /\ Whole /\ (finished => pc = "closed")`.
`IInv` says where each row's record is; a scan trusts no row, so one must know also that
nothing else in the file looks like a record.  `Whole` is that: there is an offset `e`
(`Kept`) up to which the stream is header, dictionary and one record per row, back to
back, and behind which there are trailers only (`Laid`).  It has to speak of several
trailers, as a `finish` that failed in its flush is followed by `Drop`'s, and of their
being cut: the buffer goes to the disk in any number of parts.

The argument has two halves, which do not know of one another.
- The reader, of a file as cells.  A `Tape` is a file of which the first records are
  known and that may end anywhere.  `TurnSees` and `TurnReads` say what one turn of the
  loop makes of it; by induction over the turns (`ScanSees`, `ScanReads`) a scan indexes
  the records that are there, then at most the one that is cut (a normal open) or none
  (salvage).  The search for a first record (`StartIs`) and the trailer's rows
  (`TrailerReads`, `OpenIs`) come to the same.
- The writer.  A disk is the stream cut somewhere (`DiskCuts`), so it is a tape
  (`LaidTape`), and `CutData` says how many of its records are whole.  One lemma per
  action shows that `Whole` is kept (`WholeStep`).

For the refinement each step is one of EventLog's actions or a stutter (`LogStep`); those
that only move cells leave the stored events alone (`StoredKept`), and the crash and the closing of the file compare the disk's prefix with the log's
(`MovesGone`).

### The chain

* `ResolvesByCounting` (ChainProofs): the binary searches over the running totals of files
  and of records (`Resolve`) find, for every event number, the event that counting them
  one by one (`Numbering`) has there, and nothing past the last.  An empty record or file
  makes two totals equal, and the search must take the last of them: the proof is that
  the place found is the only one whose total is no more than the number while the next
  total is more (`Places`).
* ChainTagsProofs, for any threads.  `ChainTagsTypes`, and `EventsAreTheOnesAsked`, from
  `ReadInv`: the cache's key is the record it holds; what it holds, and what a thread
  between reading and storing holds, is all of a record of the chain with tags it has
  had; and what a thread has read from disk, it has read during its call.  The look-up
  and the store take the lock one after the other, so between them the cache may have
  gone from any record to any other; the invariant does not mention which it was.
  `BatchesApplyInOrder` adds `InOrder`: the disk is the one the batch found with its
  first `patched` updates applied, while nobody else writes.
  `OnlyValidBatchesTouchTheDisk` is an action property: the one step that writes is
  taken by a thread whose targets have all been found (`BatchesChecked`).
* ChainEventsProofs.  `ChainEventsTypes`, `HeldEventsStayIntact` and `OneBufferIsEnough`,
  from `IterInv`: a buffer in scratch is no event's and not the current record's
  (`BuffersApart`), so that writing it disturbs nobody; the buffer allocated for a file
  stays current or in scratch while the caller keeps nothing (`BufferKept`); and one
  buffer is always free (`RoomToHold`, which counts).
  `IteratorHandsOutInOrder` is the refinement of EventScan, step by step: `Position` is
  the number of the next event in every state, between records and between files too,
  and `VisitedSoFar` that what was asked for below it has been visited once and nothing
  else.  It supposes `IndexesRight`.
* ChainScanProofs, for any workers.  `WindowsLoseNothing`: for any ranges and any record,
  an event of the record is in the window found for it just when it is in a range asked
  for.  `ChainScanTypes` supposes nothing of the files.  The inductive invariant is
  `ScanInv`: each record begun is with one worker at most (`AtWork`), what has been
  visited of a record is what passes of the events gone through (`VisitsAre`), a scan has
  failed just when a record that fails was taken (`Outcomes`), and on one thread the
  records are taken in order (`InOrder`).
  From it, under `IndexesRight` and `TagsReadable`: `ScansPutTogetherInOrder`, as the
  numbers of one record's visits ascend and end before the next record's begin;
  `WorkersVisitEachEventOnce`, the refinement of EventScan, where a visit maps to the
  visit of an event not visited yet; and `ScanStatisticsAgree`, with `Counts`: the
  shared counts are those of the records done, each worker's those of its record so far.

None of these goes by induction over a sequence, which is not to be had here.  What the
code accumulates (running totals, lists laid end to end, the ranges sorted in and merged
one by one) is written as a recursive function of how many have been taken in; a lemma
says what such a function does at its next number, and the induction is over sets of
numbers: the least one for which a claim fails (`Least`) cannot be.

### Split records

All in SplitReadsProofs.

* `ByteSplitLosesNothing`: `ByteUnsplit(ByteSplit(s, w), w) = s` for any
  sequence and any width.  A place in a table of `n` rows of `w` is a quotient and a
  remainder; turning the table and turning it back is the identity on places
  (`TurnedAndBack`), and the rest is that the places stay inside.
* `ReadsStayInside`: for any counts, layout and number of bytes, a
  directory that passes `HoldsTables` has every element the reader looks up inside its
  bytes.  A table's element is a row and a place in it (`RowMajor`, and `BitInRow` for
  the presence bits, eight to a byte), and the tables lie one after the other
  (`Offsets`).
* `ReadsLieApart`: no two of those elements share a byte.  A table's
  elements are a stride apart (`Table`), and tables that end where the next begins can be
  joined one after the other (`TablesJoin`).
* `WrittenIsAccepted`: what the writer lays down passes the reader's
  checks of its length and is seen to hold header sizes, if the tables fit a `usize` and
  only a per-column record carries encodings, as the code has it.
* For any events, dictionary, number of threads, reads and damage:
  - `BorrowsCorrect`, from `IInv`: a slot somebody borrows is set, nobody borrows before
    the record is open, and a copy waiting to be set bears its thread's name, so is not
    the empty slot (`"none" \notin Threads`).  Then `Set` on a set slot changes nothing,
    and on an empty one disturbs nobody.
  - `SplitReadsTypes`, `InflatesNoMore` and `DamageIsCaught`, from `IInv /\ SInv`: the
    record is what `RecordIs` says of its events, whatever was damaged; the streams a
    thread has and those it has still to ask for are those its read needs
    (`ThreadIs`); what is in a slot, borrowed or about to be set is what the stream
    inflates to; and a slot that is set was asked for by a read that began.  That two
    threads may inflate the same stream is harmless for just this reason: they get the
    same bytes.
  - `ReadsReturnWhatWasWritten` and `DamageStaysThere` add `HInv`: the header sizes are
    those written or, once the directory is cut, none; and one stream at most is damaged.
  - `WritesAreAccepted` adds `AInv`: a record refused with its directory as written had a
    bank twice in an event, and one that is open holds its tables.  Its step is `Parse`,
    and there `BuiltParses`: the sizes of a bank's events fill its bytes (`SizesFill`),
    the lengths of its columns are its rows at their widths (`ColumnsFill`), and the ids
    ascend.  The hypothesis `DirectoryFits`, that the directory's length is a `usize`, is
    one the writer meets by holding those bytes in a `Vec`; the model's directory is its
    counts, which no memory bounds.

  The argument that reads give back what was written has three layers.  In a built
  record, the bytes of event `e` in a bank's stream start at the running
  total of the sizes before it (`BlockIs`), because the walk appends one structure per
  event (`NoDuplicates`); the columns of a block tile it (`ColumnsTile`); and as a
  column's share of every row is the same, totals of rows scale to totals of bytes
  (`TotalsScale`), so the place `bank_byte_offset` gives, divided by the row size and
  multiplied by the column's width, is where the event's rows of that column start.  In a
  stream that was read (`Remains`), each such slice is as written, or missing, or
  garbage.  Put together (`EventDataIs`), the slices are the data of the event; and the
  banks an event is assembled from, listed by the directory, are those it has, listed
  by their numbers (`BanksOfEvent`): two ascending listings of one set are the same
  (`ListsSame`).

### Programs over a chain

All in PyWriterProofs, for any chains, dictionaries, layouts and damage.

* `DictionariesUnite`: `StorageSpec => []UnionDecodesAsDeclared`.  `TryAdd` keeps a
  dictionary's lists in step (`InOrder`: by name there is every schema, at its place)
  and, unless a name is replaced, its ids true (`KeepsIds`).  A file's dictionary is read
  back from its schemas, in which names are distinct already.  The union, schema by
  schema (`UnionOf`, a function of how many have been taken in), has those taken in and
  no others, and an owner for each id that is the name by_id leads to; what makes it
  refuse is two schemas that contradict, or the limit.
* `HandlesAnswerAfresh`: `Spec => []HandleAnswersAfresh`.  `HandleIs` says of what a
  handle keeps that its place is where its id is found in this event; so answering from
  there is answering by any schema with that id.  Two hypotheses.  `NothingReplaced`: in
  a dictionary the caller gives, an id leads to a schema with that id; section 3 says
  what happens otherwise (disagreements).  The chain's dictionary and the files' have it (they are read
  back or united).  `ColumnsDistinct`: no schema has two columns of one name, since a
  kept column that suits another schema with the same id may be the first of the two.
* `BuffersNeverMultiply` and `EventsHoldWhatWasAsked`: `Spec => []BuildTypeOK` and
  `Spec => []EventsAsAssembled`.  One step of the programs, `Assemble`, is of EventBuild,
  and every other leaves its variables unchanged (`BuildSteps`).  The invariant is `BInv`:
  the bank being filled shows what was set in it, row by row (`Shows`); the event under
  way holds what was asked for, while its closure runs; and so does every event appended.
  Nothing is assumed of what buffers from the pool contain: a bank that takes them is,
  cell by cell, a new one (`BuffersAreCleared`).
* `WriterTypes`: `Spec => []TypeOK`.  What a handle keeps is a place its record has, or it
  would not have been found (`KeptInv`; without hypotheses, since a replaced schema may
  make an answer wrong but not the place); once a chain is open nothing of it changes
  (`StaysOpen`).  What is ahead of a program is events of the chain and errors
  (`ProgramInv`), so a skim leaves out no more structures than an event has: those a
  record hands out are a sequence, the banks of a split record being numbered
  (`BanksNumbered`, `StructuresListed`), and what is projected is some of them.
* `NewFilesHoldTheRows`: `Spec => []NewFileHoldsTheRows`, from `PyInv` (before the first
  call nothing has been accepted; a writer made after a close is remembered) and
  `NewFileInv`: rows accepted are in the file in order, and appending leaves them where
  they are (`MoreInOrder`).
* `UpdatesAreAligned`: `Spec => []UpdateIsAligned`.  `UpdateInv`: while no extend has
  failed, the first `events_written` of the source's events are behind the iterator, were
  readable, and are the file, each with its row; once one has failed the iterator is
  further than the rows accepted, or at its end, so that fewer rows than events can ever
  be accepted (`UpdateOf`), and `close` refuses.  What the iterator hands out without a
  filter is the chain's numbering up to the first error (`AheadIs`): the numbering is
  laid end to end of the records' events, the iterator of what each record gives, and
  two such listings agree up to the first place where their parts differ (`SameUpTo`).
* `ClosedFilesHoldWhatWasExtended`: `Spec => []ClosesWhatWasExtended`, from the last two.

### Only model-checked

Liveness (`FinalizeEnds`, `ScanEnds`, `NextReturns`), which rests on what is enabled.
What whole-chain calls return (BulkReads): their merging and scattering are folds in the
order of the chain over reads of any layout.  `CopiesHoldTheSource`
says what an event reads as in three layouts, by a dictionary other than the one it was
written by; for one record under one dictionary that is proved
(`ReadsReturnWhatWasWritten`), across dictionaries it is not.
`SelectSeq`, which the references of BulkReads and of the skims are written with, has a
recursive definition the prover does not see through.  `TypeOK` of BulkReads.

## 5. Not modelled, and why

Bytes and text: the codecs, byte order, bit fields, the numbers a column's bytes stand
for, composite banks' formats, schema and pattern text, the tag registry, file names and
globs; pure functions without shared state, tested by example and by
`tests/proptests.rs`.  Reads of the writer's file by another process while it is being
written, except as a crash at that instant.

In the writer: `set_user_word_2` (as word 1), encoding that fails, lengths that wrap.
In the file: a cut inside a record header (one cell here); the scan's check that the
index array of a record can hold its `event_count`, which every record the writer makes
meets with equality, so that only a changed header could fail it.  In a split record: counts or
sizes damaged inside the directory beyond what the parse checks; a bank whose composite
header or data type differs from event to event (the code takes one for all and says it
is constant in practice).  Of columns: `read_column_typed`, `column_values` and the
listings of the index, which add a conversion to what is modelled.  Of skims:
`dangling_refs`, a report on names.  Of the Python binding: declaring schemas and
numbering them, the wrapper's abort, the conversions, and the drivers in `_parallel.py`
and `_dask.py`, which start processes that each open a chain of their own; a call that
is refused before it changes anything is no step.

## 6. Plan

1. Proofs: that an event reads as it was written across dictionaries
   (`CopiesHoldTheSource`), from the lemmas about one record; then the calls of
   BulkReads.
2. `SplitReads`: damaged counts inside the directory.
3. The writer under the skims: `Rewrite`'s output given to `HipoWriter`, so that an
   append that fails is one of the ways a copy ends.
4. The Python wrapper's abort and in-place replace, with crashes between them.
