----------------------------- MODULE ChainTags -----------------------------
(***************************************************************************)
(* Random access and in-place tags: threads that share a chain call        *)
(* event(idx), which goes through the one-record cache, and                *)
(* set_event_tags, which patches the tags on disk.  The cache's lock is    *)
(* held for the look-up and for the insertion, never in between; the disk  *)
(* is shared with no lock at all.                                          *)
(***************************************************************************)
EXTENDS Chain

CONSTANTS
  Thread,      \* the callers
  Tag,         \* the values of an event's tag
  Updates,     \* the batches a caller may pass: sequences of [index, tag]
  MaxCalls,    \* bound: calls made in one behaviour
  MaxFaults    \* bound: reads and writes of the disk that fail

ASSUME ChainTagsAssumption ==
  /\ 0 \in Tag
  /\ \A u \in Updates : u \in Seq([index: Nat, tag: Tag])
  /\ MaxCalls \in Nat
  /\ MaxFaults \in Nat

VARIABLES
  disk,     \* disk[fi][ri]: the tags of the events of that record
  cache,    \* record_cache: the record last decoded, with the key it is under
  pc,       \* the step each thread is at
  arg,      \* the argument of its call: an event number, or a batch
  decoded,  \* the record it has just read and decoded
  patched,  \* how many targets of its batch it has written
  answer,   \* what its last call returned
  calls,    \* calls made so far
  faults,   \* failures so far
  since,    \* history: the tags its event has had on disk since the call
  had,      \* history: the tags each event has ever had on disk
  base      \* history: the disk at the call, until another batch writes

vars == <<disk, cache, pc, arg, decoded, patched, answer, calls, faults, since, had, base>>

(* An event of the chain, and the events a record really holds.            *)
EventsIn(fi, ri) ==
  {[file |-> fi, record |-> ri, event |-> k] : k \in 1..Len(RecordAt(fi, ri).passes)}
Place == UNION {EventsIn(t[1], t[2]) : t \in ToSet(AllRecords)}

RecordOf(at) == RecordAt(at.file, at.record)

(* read_record_into and the decode: what the record's events are now.      *)
Decode(at) ==
  [of   |-> <<at.file, at.record>>,
   tags |-> [k \in DOMAIN RecordOf(at).passes |-> disk[[at EXCEPT !.event = k]]]]

Nothing == [of |-> <<0, 0>>, tags |-> << >>]
NoBase  == << >>

Answer(kind, at, tag, hit) == [kind |-> kind, at |-> at, tag |-> tag, hit |-> hit]
Plain(kind) == Answer(kind, Nowhere, 0, FALSE)

NoArg == [idx |-> 0, updates |-> << >>]

DecodedRecord == [of: Nat \X Nat, tags: Seq(Tag)]

TypeOK ==
  /\ disk \in [Place -> Tag]
  /\ cache \in [key: Nat \X Nat, decoded: DecodedRecord]
  /\ pc \in [Thread -> {"idle", "read", "store", "open", "patch"}]
  /\ decoded \in [Thread -> DecodedRecord]
  /\ patched \in [Thread -> Nat]
  /\ calls \in 0..MaxCalls
  /\ faults \in 0..MaxFaults
  /\ had \in [Place -> SUBSET Tag]
  /\ \A t \in Thread :
       /\ arg[t].updates \in Updates \cup {<< >>}
       /\ answer[t].kind \in {"none", "event", "absent", "ok", "refused", "failed"}
       /\ answer[t].at \in Place \cup {Nowhere}
       /\ since[t] \subseteq Tag
       /\ base[t] = NoBase \/ base[t] \in [Place -> Tag]

Init ==
  /\ disk = [p \in Place |-> 0]
  /\ cache = [key |-> <<0, 0>>, decoded |-> Nothing]
  /\ pc = [t \in Thread |-> "idle"]
  /\ arg = [t \in Thread |-> NoArg]
  /\ decoded = [t \in Thread |-> Nothing]
  /\ patched = [t \in Thread |-> 0]
  /\ answer = [t \in Thread |-> Plain("none")]
  /\ calls = 0
  /\ faults = 0
  /\ since = [t \in Thread |-> {}]
  /\ had = [p \in Place |-> {0}]
  /\ base = [t \in Thread |-> NoBase]

Call(t, a) ==
  /\ pc[t] = "idle"
  /\ calls < MaxCalls
  /\ calls' = calls + 1
  /\ arg' = [arg EXCEPT ![t] = a]
  /\ UNCHANGED <<disk, cache, had>>

Return(t, ans) == pc' = [pc EXCEPT ![t] = "idle"] /\ answer' = [answer EXCEPT ![t] = ans]

GoTo(t, step) ==
  pc' = [pc EXCEPT ![t] = step] /\ answer' = [answer EXCEPT ![t] = Plain("none")]

Fault == faults < MaxFaults /\ faults' = faults + 1

(***************************************************************************)
(* event(idx)                                                              *)
(***************************************************************************)

(* Mutant of EventOf: file and record swapped.                             *)
EventOfSwapped(d, at, hit) ==
  IF at.event \in DOMAIN d.tags
  THEN Answer("event", [file |-> d.of[2], record |-> d.of[1], event |-> at.event],
              d.tags[at.event], hit)
  ELSE Plain("absent")

(* The event of decoded record d that at names, if d has that many.        *)
EventOf(d, at, hit) ==
  IF at.event \in DOMAIN d.tags
  THEN Answer("event", [file |-> d.of[1], record |-> d.of[2], event |-> at.event],
              d.tags[at.event], hit)
  ELSE Plain("absent")

(* Mutant of Hit: the key without the file.                                *)
HitAnyFile(at) == cache.key[2] = at.record

Hit(at) == cache.key = <<at.file, at.record>>

(* Up to the end of the look-up.  A hit needs nothing more of what is      *)
(* shared, so the call is over.                                            *)
Event(t, idx) ==
  /\ Call(t, [idx |-> idx, updates |-> << >>])
  /\ LET at == Resolve(idx)
     IN  /\ since' = [since EXCEPT ![t] = IF at \in Place THEN {disk[at]} ELSE {}]
         /\ IF at = Nowhere THEN Return(t, Plain("absent"))
            ELSE IF Hit(at) THEN Return(t, EventOf(cache.decoded, at, TRUE))
            ELSE GoTo(t, "read")
  /\ base' = [base EXCEPT ![t] = NoBase]
  /\ UNCHANGED <<decoded, patched, faults>>

(* A miss reads and decodes the record, outside the lock.                  *)
ReadRecord(t) ==
  /\ pc[t] = "read"
  /\ LET at == Resolve(arg[t].idx)
     IN  \/ /\ Readable(RecordOf(at))
            /\ decoded' = [decoded EXCEPT ![t] = Decode(at)]
            /\ GoTo(t, "store")
            /\ UNCHANGED faults
         \/ /\ ~Readable(RecordOf(at))
            /\ Return(t, Plain("absent"))
            /\ UNCHANGED <<decoded, faults>>
         \/ Fault /\ Return(t, Plain("absent")) /\ UNCHANGED decoded
  /\ UNCHANGED <<disk, cache, arg, patched, calls, since, had, base>>

(* The insertion: the last writer wins, and the event handed out is the    *)
(* caller's own copy whatever the slot holds by then.                      *)
StoreRecord(t) ==
  /\ pc[t] = "store"
  /\ LET at == Resolve(arg[t].idx)
     IN  /\ cache' = [key |-> <<at.file, at.record>>, decoded |-> decoded[t]]
         /\ Return(t, EventOf(decoded[t], at, FALSE))
  /\ decoded' = [decoded EXCEPT ![t] = Nothing]
  /\ UNCHANGED <<disk, arg, patched, calls, faults, since, had, base>>

(***************************************************************************)
(* set_event_tags(updates)                                                 *)
(***************************************************************************)
Targets(updates) == [i \in DOMAIN updates |-> Resolve(updates[i].index)]

(* Pass 0: every update is resolved, or the batch is refused.              *)
SetEventTags(t, updates) ==
  /\ Call(t, [idx |-> 0, updates |-> updates])
  /\ IF \E i \in DOMAIN updates : Targets(updates)[i] = Nowhere
     THEN Return(t, Plain("refused"))
     ELSE IF updates = << >> THEN Return(t, Plain("ok")) ELSE GoTo(t, "open")
  /\ base' = [base EXCEPT ![t] = disk]
  /\ patched' = [patched EXCEPT ![t] = 0]
  /\ since' = [since EXCEPT ![t] = {}]
  /\ UNCHANGED <<decoded, faults>>

(* Mutant of Patchable: no look at the layout.                             *)
PatchableAnyLayout(r) == Readable(r)

(* read_record_layout accepts the record: read, and not compressed.        *)
Patchable(r) == Readable(r) /\ r.layout = "plain"

(* Mutant of NextUpdate: from the last update to the first.                *)
LastUpdateFirst(t) == Len(arg[t].updates) - patched[t]

NextUpdate(t) == patched[t] + 1

(* Pass 1: each file is opened for writing, the layout of each record read *)
(* (it never changes); a compressed record refuses the batch.              *)
OpenLayouts(t) ==
  /\ pc[t] = "open"
  /\ LET records == {RecordOf(Targets(arg[t].updates)[i]) : i \in DOMAIN arg[t].updates}
     IN  \/ /\ \A r \in records : Patchable(r)
            /\ GoTo(t, "patch")
            /\ UNCHANGED faults
         \/ /\ \E r \in records : ~Patchable(r)
            /\ Return(t, Plain("refused"))
            /\ UNCHANGED faults
         \/ Fault /\ Return(t, Plain("refused"))
  /\ UNCHANGED <<disk, cache, arg, decoded, patched, calls, since, had, base>>

(* Pass 2, one target: its place is computed from the layout, its magic    *)
(* checked, its tag written.                                               *)
PatchTag(t) ==
  /\ pc[t] = "patch"
  /\ LET i   == NextUpdate(t)
         at  == Targets(arg[t].updates)[i]
         tag == arg[t].updates[i].tag
     IN  \/ /\ at \in Place
            /\ disk' = [disk EXCEPT ![at] = tag]
            /\ had' = [had EXCEPT ![at] = @ \cup {tag}]
            /\ since' = [u \in Thread |->
                 IF pc[u] \in {"read", "store"} /\ Resolve(arg[u].idx) = at
                 THEN since[u] \cup {tag} ELSE since[u]]
            /\ base' = [u \in Thread |-> IF u = t THEN base[u] ELSE NoBase]
            /\ patched' = [patched EXCEPT ![t] = @ + 1]
            /\ IF patched[t] + 1 = Len(arg[t].updates) THEN Return(t, Plain("ok")) ELSE GoTo(t, "patch")
            /\ UNCHANGED faults
         \/ /\ \/ at \notin Place /\ UNCHANGED faults
               \/ Fault
            /\ Return(t, Plain("failed"))
            /\ UNCHANGED <<disk, patched, since, had, base>>
  /\ UNCHANGED <<cache, arg, decoded, calls>>

Next ==
  \E t \in Thread :
    \/ \E idx \in 0..Total : Event(t, idx)
    \/ ReadRecord(t)
    \/ StoreRecord(t)
    \/ \E updates \in Updates : SetEventTags(t, updates)
    \/ OpenLayouts(t)
    \/ PatchTag(t)

Spec == Init /\ [][Next]_vars
-----------------------------------------------------------------------------
(* event(idx) returns event idx of the chain counted through, whatever     *)
(* other threads do to the cache in the meantime, with a tag the event has *)
(* had (one it had while the call ran, when it was read from the disk),    *)
(* and nothing only when there is no such event or it cannot be read.      *)
EventIsTheOneAsked ==
  \A t \in Thread :
    LET idx == arg[t].idx
    IN  /\ answer[t].kind = "event" =>
             /\ idx < Total /\ answer[t].at = Numbering[idx + 1]
             /\ answer[t].tag \in had[answer[t].at]
             /\ ~answer[t].hit => answer[t].tag \in since[t]
        /\ answer[t].kind = "absent" /\ faults = 0 =>
             \/ idx >= Total
             \/ ~Readable(RecordOf(Numbering[idx + 1]))
             \/ Numbering[idx + 1] \notin Place

(* The disk after the first n updates of a batch.                          *)
Applied(d, updates, n) ==
  [p \in DOMAIN d |->
     LET hits == {i \in 1..n : Targets(updates)[i] = p}
     IN  IF hits = {} THEN d[p] ELSE updates[Max(hits)].tag]

(* Left alone, a batch writes its updates in order and nothing else: all   *)
(* of them when it succeeds, none when it is refused, a first part of them *)
(* when it fails on the way.                                               *)
BatchAppliesInOrder ==
  \A t \in Thread :
    base[t] # NoBase =>
      /\ disk = Applied(base[t], arg[t].updates, patched[t])
      /\ answer[t].kind = "ok"      => patched[t] = Len(arg[t].updates)
      /\ answer[t].kind = "refused" => patched[t] = 0
      /\ answer[t].kind = "failed"  => patched[t] < Len(arg[t].updates)

(* A batch with an update out of range, or in a compressed record, writes  *)
(* nothing at all: every update is validated before the first is written.  *)
OnlyValidBatchesWrite ==
  [][ disk' # disk =>
        \E t \in Thread :
          /\ pc[t] = "patch"
          /\ \A i \in DOMAIN arg[t].updates :
               /\ arg[t].updates[i].index < Total
               /\ RecordOf(Numbering[arg[t].updates[i].index + 1]).layout = "plain" ]_vars

(* set_event_tag promises that "the change is visible to later reads       *)
(* (through this or a fresh Chain) immediately - records are streamed      *)
(* fresh on every read": event() returns a tag the event had on disk       *)
(* while the call ran.                                                     *)
VisibleAtOnce ==
  \A t \in Thread : answer[t].kind = "event" => answer[t].tag \in since[t]
=============================================================================
