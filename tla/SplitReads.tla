----------------------------- MODULE SplitReads -----------------------------
(***************************************************************************)
(* One record of a split layout from its writing to its reading: it is     *)
(* built from events, storage may damage one of its streams or the length  *)
(* of its directory, it is parsed, and then threads share it.  A stream is *)
(* inflated by the first read that needs it and kept in a slot that is set *)
(* once; two threads may inflate the same one, and then the second's copy  *)
(* is dropped.                                                             *)
(***************************************************************************)
EXTENDS SplitRecord, SplitDirectory, FiniteSets

CONSTANTS
  Threads,
  Inputs,    \* what a record may be built from: sequences of events
  Layouts,   \* among "by_bank" and "per_column"
  MaxReads   \* bound: reads begun

ASSUME SplitReadsAssumption ==
  /\ "none" \notin Threads
  /\ Layouts \subseteq {"by_bank", "per_column"}
  /\ MaxReads \in Nat
  /\ Inputs \subseteq Seq([tag: Nat, structures: Seq([id: Nat, header_size: Nat, data: Seq(Cell)])])

VARIABLES
  layout, encodings, \* Compression: the layout, and per-stream encodings on or off
  events,    \* the events the record is built from
  phase,     \* "new", "stored", then "open" or "rejected"
  declared,  \* the length the section declares its directory to have
  record,    \* the record, on the disk and then in memory
  slots,     \* bank_data, stream_data: what each stream inflated to, and who set it
  reads,     \* the read each thread is in
  pc,        \* where each thread is in it
  todo,      \* the streams it has still to ask for
  got,       \* the streams it has, as it borrows them
  out,       \* the copy it has inflated and not yet set
  answer,    \* what the read returned
  begun      \* history: the reads begun

vars == <<layout, encodings, events, phase, declared, record, slots, reads, pc, todo, got, out, answer, begun>>

stored == <<layout, encodings, events, phase, declared, record>>

Unset == [bytes |-> << >>, by |-> "none"]
NoRead == [kind |-> "none", event |-> 0, id |-> 0, col |-> 0]
NoAnswer == [tag |-> 0, structures |-> << >>, bytes |-> << >>]

StreamAt(s) == record.banks[s[1]].streams[s[2]]

(* The reads there are: an event as a whole, or one column of a bank in it. *)
Reads ==
  [kind: {"bytes"}, event: DOMAIN events, id: {0}, col: {0}]
  \cup UNION {[kind: {"column"}, event: DOMAIN events, id: {id}, col: DOMAIN Dict[id]]
              : id \in DOMAIN Dict}

TypeOK ==
  /\ layout \in Layouts /\ encodings \in BOOLEAN
  /\ events \in Inputs
  /\ phase \in {"new", "stored", "open", "rejected"}
  /\ declared \in Nat
  /\ phase = "open" => DOMAIN slots = StreamsOf(record)
  /\ \A s \in DOMAIN slots : slots[s].by \in Threads \cup {"none"}
  /\ reads \in [Threads -> Reads \cup {NoRead}]
  /\ pc \in [Threads -> {"idle", "get", "inflate", "set", "done"}]
  /\ \A t \in Threads : /\ ToSet(todo[t]) \subseteq DOMAIN slots
                        /\ DOMAIN got[t] \subseteq DOMAIN slots
                        /\ out[t].by \in {t, "none"}
  /\ begun \in Seq(Reads) /\ Len(begun) <= MaxReads

Init ==
  /\ layout \in Layouts
  /\ encodings \in IF layout = "per_column" THEN BOOLEAN ELSE {FALSE}
  /\ events \in Inputs
  /\ phase = "new"
  /\ declared = 0
  /\ record = [event_tags |-> << >>, banks |-> << >>]
  /\ slots = << >>
  /\ reads = [t \in Threads |-> NoRead]
  /\ pc = [t \in Threads |-> "idle"]
  /\ todo = [t \in Threads |-> << >>]
  /\ got = [t \in Threads |-> << >>]
  /\ out = [t \in Threads |-> Unset]
  /\ answer = [t \in Threads |-> NoAnswer]
  /\ begun = << >>

-----------------------------------------------------------------------------
(* The directory of a record, by its counts.                               *)
DirectoryOf(rec) ==
  [layout |-> layout, encoded |-> encodings, num_banks |-> Len(rec.banks),
   event_count |-> Len(rec.event_tags),
   num_streams |-> SumOf([b \in DOMAIN rec.banks |-> Len(rec.banks[b].streams)])]

DirectoryIntact == declared = WrittenLen(DirectoryOf(record))

(* The record is built and stored.  smaller and checksum are what the      *)
(* compressor and the hash make of the bytes: either may happen.           *)
Build(smaller, checksum) ==
  /\ phase = "new"
  /\ ~encodings => ~smaller /\ checksum = 0
  /\ record' = BuildRecord(events, layout, encodings, smaller, checksum)
  /\ declared' = WrittenLen(DirectoryOf(record'))
  /\ phase' = "stored"
  /\ UNCHANGED <<layout, encodings, events, slots, reads, pc, todo, got, out, answer, begun>>

Undamaged == DirectoryIntact /\ \A s \in StreamsOf(record) : StreamAt(s).damage = "none"

(* External: storage damages the bytes of one stream, or the length the    *)
(* section declares its directory to have.                                 *)
Damage(b, c, how) ==
  /\ phase = "stored" /\ Undamaged
  /\ record.banks[b].streams[c].size > 0
  /\ record' = [record EXCEPT !.banks[b].streams[c].damage = how]
  /\ UNCHANGED <<layout, encodings, events, phase, declared, slots, reads, pc, todo, got, out, answer, begun>>

DamageLength(len) ==
  /\ phase = "stored" /\ Undamaged /\ len \in Nat /\ len # declared
  /\ declared' = len
  /\ UNCHANGED <<layout, encodings, events, phase, record, slots, reads, pc, todo, got, out, answer, begun>>

(* Mutant of Parse: one slot for a bank, however many columns it has.      *)
ParseOneSlotPerBank ==
  /\ phase = "stored"
  /\ Parses(record, layout)
  /\ phase' = "open"
  /\ slots' = [s \in (DOMAIN record.banks) \X {1} |-> Unset]
  /\ UNCHANGED <<layout, encodings, events, declared, record, reads, pc, todo, got, out, answer, begun>>

(* The bytes the directory inflates to: what was written, cut to the       *)
(* length declared.                                                        *)
Inflated == InflatedLen(declared, WrittenLen(DirectoryOf(record)))

AcceptsDirectory ==
  LET d == DirectoryOf(record)
  IN  AdmitsLength(d, declared) /\ ~Underflows(declared, WrittenLen(d)) /\ HoldsTables(d, Inflated)

(* A directory too short for the header sizes has them all zero.           *)
Parsed ==
  IF HasHeaderSizes(DirectoryOf(record), Inflated) THEN record
  ELSE [record EXCEPT !.banks = [b \in DOMAIN record.banks |->
                                   [record.banks[b] EXCEPT !.header_size = 0]]]

(* ByBankRecord::parse, PerColumnRecord::parse: nothing is inflated.       *)
Parse ==
  /\ phase = "stored"
  /\ \/ /\ AcceptsDirectory /\ Parses(record, layout)
        /\ phase' = "open"
        /\ record' = Parsed
        /\ slots' = [s \in StreamsOf(record) |-> Unset]
     \/ /\ ~AcceptsDirectory \/ ~Parses(record, layout)
        /\ phase' = "rejected"
        /\ UNCHANGED <<record, slots>>
  /\ UNCHANGED <<layout, encodings, events, declared, reads, pc, todo, got, out, answer, begun>>

-----------------------------------------------------------------------------
Asked(r) ==
  IF r.kind = "bytes" THEN EventStreams(record, r.event)
  ELSE ColumnStreams(record, r.event, r.id, r.col)

Begin(t, r) ==
  /\ phase = "open" /\ pc[t] = "idle" /\ Len(begun) < MaxReads
  /\ reads' = [reads EXCEPT ![t] = r]
  /\ todo' = [todo EXCEPT ![t] = Asked(r)]
  /\ pc' = [pc EXCEPT ![t] = "get"]
  /\ begun' = Append(begun, r)
  /\ UNCHANGED <<stored, slots, got, out, answer>>

With(boxes, s, box) == [k \in DOMAIN boxes \cup {s} |-> IF k = s THEN box ELSE boxes[k]]

(* bank_stream, column_stream: borrow what the slot holds.                 *)
Borrow(t, box) ==
  /\ got' = [got EXCEPT ![t] = With(@, Head(todo[t]), box)]
  /\ todo' = [todo EXCEPT ![t] = Tail(@)]
  /\ pc' = [pc EXCEPT ![t] = "get"]

Hit(t) ==
  /\ pc[t] = "get" /\ todo[t] # << >>
  /\ slots[Head(todo[t])] # Unset
  /\ Borrow(t, slots[Head(todo[t])])
  /\ UNCHANGED <<stored, slots, reads, out, answer, begun>>

Miss(t) ==
  /\ pc[t] = "get" /\ todo[t] # << >>
  /\ slots[Head(todo[t])] = Unset
  /\ pc' = [pc EXCEPT ![t] = "inflate"]
  /\ UNCHANGED <<stored, slots, reads, todo, got, out, answer, begun>>

(* The slot stays empty when the stream does not inflate.                  *)
InflateStream(t) ==
  /\ pc[t] = "inflate"
  /\ LET bytes == Inflate(StreamAt(Head(todo[t])), layout) IN
     \/ /\ bytes = Failed
        /\ Borrow(t, [bytes |-> Failed, by |-> t])
        /\ UNCHANGED out
     \/ /\ bytes # Failed
        /\ out' = [out EXCEPT ![t] = [bytes |-> bytes, by |-> t]]
        /\ pc' = [pc EXCEPT ![t] = "set"]
        /\ UNCHANGED <<todo, got>>
  /\ UNCHANGED <<stored, slots, reads, answer, begun>>

(* Mutant of SetSlot: the last to arrive stays.                            *)
SetSlotAlways(s, box) == [slots EXCEPT ![s] = box]

(* OnceLock::set: the first to arrive, and get: whatever is there now.     *)
SetSlot(s, box) == IF slots[s] = Unset THEN [slots EXCEPT ![s] = box] ELSE slots

Set(t) ==
  /\ pc[t] = "set"
  /\ slots' = SetSlot(Head(todo[t]), out[t])
  /\ Borrow(t, slots'[Head(todo[t])])
  /\ out' = [out EXCEPT ![t] = Unset]
  /\ UNCHANGED <<stored, reads, answer, begun>>

BytesOf(boxes) == [s \in DOMAIN boxes |-> boxes[s].bytes]

Answer(t) ==
  /\ pc[t] = "get" /\ todo[t] = << >>
  /\ LET r == reads[t]  bytes == BytesOf(got[t]) IN
     answer' = [answer EXCEPT ![t] =
       IF r.kind = "bytes"
       THEN [NoAnswer EXCEPT !.tag = SynthesizeEvent(record, r.event, bytes).tag,
                             !.structures = SynthesizeEvent(record, r.event, bytes).structures]
       ELSE [NoAnswer EXCEPT !.bytes = ReadColumn(record, r.event, r.id, r.col, bytes)]]
  /\ pc' = [pc EXCEPT ![t] = "done"]
  /\ UNCHANGED <<stored, slots, reads, todo, got, out, begun>>

(* The caller is done with the answer, and with what it borrowed.          *)
Drop(t) ==
  /\ pc[t] = "done"
  /\ reads' = [reads EXCEPT ![t] = NoRead]
  /\ got' = [got EXCEPT ![t] = << >>]
  /\ answer' = [answer EXCEPT ![t] = NoAnswer]
  /\ pc' = [pc EXCEPT ![t] = "idle"]
  /\ UNCHANGED <<stored, slots, todo, out, begun>>

Next ==
  \/ \E smaller \in BOOLEAN, checksum \in {0, 1} : Build(smaller, checksum)
  \/ \E s \in StreamsOf(record), how \in {"garbled", "undecodable"} : Damage(s[1], s[2], how)
  \/ \E short \in {1, Len(record.banks), Len(record.banks) + 1} : DamageLength(declared - short)
  \/ DamageLength(declared + 1)
  \/ Parse
  \/ \E t \in Threads, r \in Reads : Begin(t, r)
  \/ \E t \in Threads : Hit(t) \/ Miss(t) \/ InflateStream(t) \/ Set(t) \/ Answer(t) \/ Drop(t)

Spec == Init /\ [][Next]_vars

-----------------------------------------------------------------------------
(* What the events say, read from the events themselves.                   *)
Duplicated(e) ==
  \E j, k \in DOMAIN events[e].structures :
    j # k /\ events[e].structures[j].id = events[e].structures[k].id

NoDuplicates == \A e \in DOMAIN events : ~Duplicated(e)

(* One header size describes a bank across the events of a record: only    *)
(* then is what the directory keeps of it each event's own.                *)
HeadersAgree ==
  \A d, e \in DOMAIN events :
    \A j \in DOMAIN events[d].structures, k \in DOMAIN events[e].structures :
      events[d].structures[j].id = events[e].structures[k].id =>
        events[d].structures[j].header_size = events[e].structures[k].header_size

EventAsWritten(e) ==
  LET ids == Ascending(BanksOf(events[e].structures))
  IN  [NoAnswer EXCEPT !.tag = events[e].tag,
                       !.structures = [k \in DOMAIN ids |-> Found(events[e].structures, ids[k])[1]]]

ColumnAsWritten(r) ==
  LET found == Found(events[r.event].structures, r.id) IN
  [NoAnswer EXCEPT !.bytes =
     IF found = << >> THEN NoBank ELSE ContiguousColumn(r.id, found[1].data, r.col)]

AsWritten(r) == IF r.kind = "bytes" THEN EventAsWritten(r.event) ELSE ColumnAsWritten(r)

Answered == {t \in Threads : pc[t] = "done"}

(* The header size of a bank: the largest its structures were given.       *)
HeaderSizeWritten(id) ==
  Max({s.header_size : s \in {t \in UNION {ToSet(events[e].structures) : e \in DOMAIN events} : t.id = id}})

(* A record of events with no bank twice is accepted by the reader.  Of a  *)
(* directory declared longer or shorter than it was written the reader     *)
(* refuses what lacks a table, reads no byte outside it and none twice,    *)
(* and can lose nothing but the header sizes, and those of all the banks.  *)
AcceptedAsWritten ==
  /\ phase = "rejected" /\ DirectoryIntact => ~NoDuplicates
  /\ phase = "open" /\ begun = << >> =>
       /\ StaysInside(DirectoryOf(record), Inflated)
       /\ LiesApart(DirectoryOf(record), Inflated)
       /\ \/ \A b \in DOMAIN record.banks :
               record.banks[b].header_size = HeaderSizeWritten(record.banks[b].id)
          \/ ~DirectoryIntact /\ \A b \in DOMAIN record.banks : record.banks[b].header_size = 0

(* Every read whose streams storage has left alone returns what was        *)
(* written, whichever threads inflated what and whichever was first: an    *)
(* event as a whole, its banks in their order, or a column of a bank,      *)
(* whether the record was split by bank, by column or not at all.          *)
ReadsAreTheEvents ==
  NoDuplicates /\ HeadersAgree /\ DirectoryIntact =>
    \A t \in Answered :
      (\A s \in DOMAIN got[t] : StreamAt(s).damage = "none") => answer[t] = AsWritten(reads[t])

(* Damage to one stream stays there: the event read as a whole has its     *)
(* banks at their sizes, and a cell that is not the one written is zero or *)
(* came out of the damaged stream.  Only a directory cut short loses       *)
(* header sizes, and then no data.                                         *)
DamageKeepsTheShape ==
  NoDuplicates /\ HeadersAgree =>
    \A t \in Answered : reads[t].kind = "bytes" =>
      LET want == EventAsWritten(reads[t].event)
          have == answer[t]
      IN /\ have.tag = want.tag
         /\ Len(have.structures) = Len(want.structures)
         /\ \A k \in DOMAIN want.structures :
              /\ have.structures[k].id = want.structures[k].id
              /\ \/ have.structures[k].header_size = want.structures[k].header_size
                 \/ ~DirectoryIntact /\ have.structures[k].header_size = 0
              /\ Len(have.structures[k].data) = Len(want.structures[k].data)
              /\ \A p \in DOMAIN want.structures[k].data :
                   \/ have.structures[k].data[p] = want.structures[k].data[p]
                   \/ have.structures[k].data[p] \in {Zero, Garbage}
         /\ Cardinality({k \in DOMAIN want.structures :
              have.structures[k].data # want.structures[k].data}) <= 1

(* With checksums, what storage changed is never handed out as data.       *)
ChecksumCatchesDamage ==
  \A t \in Answered :
    (\A s \in DOMAIN got[t] : StreamAt(s).size > 0 => StreamAt(s).checksum # 0) =>
      /\ \A k \in DOMAIN answer[t].structures : Garbage \notin ToSet(answer[t].structures[k].data)
      /\ Garbage \notin ToSet(answer[t].bytes)

(* What a thread has borrowed of a stream is what its slot still holds: a  *)
(* second thread's copy never takes the place of one in use.               *)
BorrowsStayValid ==
  \A t \in Threads : \A s \in DOMAIN got[t] \cap DOMAIN slots :
    got[t][s].bytes # Failed => got[t][s] = slots[s]

(* A stream is inflated only when a read has needed it: an event of one    *)
(* bank leaves the others compressed, a column the other columns.          *)
InflatesOnlyWhatIsRead ==
  \A s \in DOMAIN slots : slots[s] # Unset =>
    \E i \in DOMAIN begun :
      /\ \E k \in DOMAIN events[begun[i].event].structures :
           events[begun[i].event].structures[k].id = record.banks[s[1]].id
      /\ begun[i].kind = "column" =>
           /\ begun[i].id = record.banks[s[1]].id
           /\ record.banks[s[1]].num_cols # 0 => begun[i].col = s[2]
=============================================================================
