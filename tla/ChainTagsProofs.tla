-------------------------- MODULE ChainTagsProofs --------------------------
(***************************************************************************)
(* Proofs about ChainTags, for any files, any threads and any batches: a   *)
(* look-up answers the event asked for whatever the cache went through, a  *)
(* batch applies its updates in order, and only a batch all of whose       *)
(* updates are valid writes.                                               *)
(***************************************************************************)
EXTENDS ChainTags, ChainProofs

(* Every update of every batch a caller passes.                            *)
Batch == Updates \cup {<< >>}

(* TypeOK, with the types of what it leaves out because nothing is said of *)
(* it: the arguments and the answers.                                      *)
Types ==
  /\ TypeOK
  /\ arg \in [Thread -> [idx: Nat, updates: Batch]]
  /\ answer \in [Thread -> [kind: {"none", "event", "absent", "ok", "refused", "failed"},
                            at: Place \cup {Nowhere}, tag: Tag, hit: BOOLEAN]]
  /\ since \in [Thread -> SUBSET Tag]
  /\ base \in [Thread -> [Place -> Tag] \cup {NoBase}]

(* d is a record of the chain, with all the events it really holds and     *)
(* tags they have had, h; or nothing has been decoded.                     *)
Decodes(d, h) ==
  \/ d = Nothing
  \/ /\ d.of[1] \in 1..Len(Files)
     /\ d.of[2] \in 1..Len(Files[d.of[1]])
     /\ DOMAIN d.tags = DOMAIN RecordAt(d.of[1], d.of[2]).passes
     /\ \A k \in DOMAIN d.tags :
          d.tags[k] \in h[[file |-> d.of[1], record |-> d.of[2], event |-> k]]

Asked(t) == Resolve(arg[t].idx)

(* What the cache and the threads inside event() hold.                     *)
CacheHonest == cache.decoded.of = cache.key /\ Decodes(cache.decoded, had)

DiskHad == \A p \in Place : disk[p] \in had[p]

ReadsHonest ==
  \A t \in Thread :
    /\ pc[t] \in {"read", "store"} => arg[t].idx < Total
    /\ pc[t] = "read" /\ Asked(t) \in Place => disk[Asked(t)] \in since[t]
    /\ pc[t] = "store" =>
         /\ decoded[t].of = <<Asked(t).file, Asked(t).record>>
         /\ Decodes(decoded[t], had)
         /\ Asked(t).event \in DOMAIN decoded[t].tags =>
              decoded[t].tags[Asked(t).event] \in since[t]

(* What a thread inside set_event_tags has made sure of.                   *)
BatchesChecked ==
  \A t \in Thread :
    /\ pc[t] \in {"open", "patch"} =>
         \A i \in DOMAIN arg[t].updates : Targets(arg[t].updates)[i] # Nowhere
    /\ pc[t] = "patch" =>
         \A i \in DOMAIN arg[t].updates : Patchable(RecordOf(Targets(arg[t].updates)[i]))
    /\ pc[t] = "open" => patched[t] = 0
    /\ pc[t] \in {"open", "patch"} => patched[t] < Len(arg[t].updates)

(* EventIsTheOneAsked of one answer, a, to a call for event idx, where h   *)
(* are the tags each event has had, s those the event has had during the   *)
(* call and n the failures.                                                *)
AnswerRight(a, idx, h, s, n) ==
  /\ a.kind = "event" =>
       /\ idx < Total /\ a.at = Numbering[idx + 1]
       /\ a.tag \in h[a.at]
       /\ ~a.hit => a.tag \in s
  /\ a.kind = "absent" /\ n = 0 =>
       \/ idx >= Total
       \/ ~Readable(RecordOf(Numbering[idx + 1]))
       \/ Numbering[idx + 1] \notin Place

AnswersRight == \A t \in Thread : AnswerRight(answer[t], arg[t].idx, had, since[t], faults)

ReadInv == Types /\ CacheHonest /\ DiskHad /\ ReadsHonest /\ BatchesChecked /\ AnswersRight
-----------------------------------------------------------------------------
(***************************************************************************)
(* Places.                                                                 *)
(***************************************************************************)

(* The events of the chain are those of the records of its files.          *)
LEMMA PlaceIs ==
  \A p : p \in Place <=>
    /\ p \in APlace
    /\ p.file \in 1..Len(Files)
    /\ p.record \in 1..Len(Files[p.file])
    /\ p.event \in 1..Len(Files[p.file][p.record].passes)
<1>1. \A p : p \in Place <=> \E x \in ToSet(AllRecords) : p \in EventsIn(x[1], x[2])
  BY DEF Place
<1>2. \A p : p \in Place <=>
        \E fi \in 1..Len(Files) : \E ri \in 1..Len(Files[fi]) : p \in EventsIn(fi, ri)
  <2>1. ASSUME NEW p, NEW x \in ToSet(AllRecords), p \in EventsIn(x[1], x[2])
        PROVE  \E fi \in 1..Len(Files) : \E ri \in 1..Len(Files[fi]) : p \in EventsIn(fi, ri)
    <3>1. PICK fi \in 1..Len(Files) : \E ri \in 1..Len(Files[fi]) : x = <<fi, ri>>
      BY RecordsOfFiles
    <3> QED BY <2>1, <3>1
  <2>2. ASSUME NEW p, NEW fi \in 1..Len(Files), NEW ri \in 1..Len(Files[fi]), p \in EventsIn(fi, ri)
        PROVE  p \in Place
    <3>1. <<fi, ri>> \in ToSet(AllRecords)
      BY RecordsOfFiles
    <3>2. <<fi, ri>>[1] = fi /\ <<fi, ri>>[2] = ri
      OBVIOUS
    <3> QED BY <1>1, <2>2, <3>1, <3>2
  <2> QED BY <1>1, <2>1, <2>2
<1>3. \A fi \in 1..Len(Files) : fi \in Nat /\ \A ri \in 1..Len(Files[fi]) : ri \in Nat
  BY FilesShape
<1>4. ASSUME NEW fi \in 1..Len(Files), NEW ri \in 1..Len(Files[fi])
      PROVE  /\ Files[fi][ri].passes \in Seq(BOOLEAN)
             /\ \A p : p \in EventsIn(fi, ri) <=>
                  \E k \in 1..Len(Files[fi][ri].passes) : p = [file |-> fi, record |-> ri, event |-> k]
  BY FilesShape DEF Record, EventsIn, RecordAt
<1>5. \A fi \in 1..Len(Files) : \A ri \in 1..Len(Files[fi]) :
        \A k \in 1..Len(Files[fi][ri].passes) : k \in Nat
  BY <1>4
<1> SUFFICES ASSUME NEW p
             PROVE  p \in Place <=>
                      /\ p \in APlace
                      /\ p.file \in 1..Len(Files)
                      /\ p.record \in 1..Len(Files[p.file])
                      /\ p.event \in 1..Len(Files[p.file][p.record].passes)
  OBVIOUS
<1>6. ASSUME p \in Place
      PROVE  /\ p \in APlace
             /\ p.file \in 1..Len(Files)
             /\ p.record \in 1..Len(Files[p.file])
             /\ p.event \in 1..Len(Files[p.file][p.record].passes)
  <2>1. PICK fi \in 1..Len(Files) : \E ri \in 1..Len(Files[fi]) : p \in EventsIn(fi, ri)
    BY <1>2, <1>6
  <2>2. PICK ri \in 1..Len(Files[fi]) : p \in EventsIn(fi, ri)
    BY <2>1
  <2>3. PICK k \in 1..Len(Files[fi][ri].passes) : p = [file |-> fi, record |-> ri, event |-> k]
    BY <1>4, <2>2
  <2> QED BY <1>3, <1>5, <2>3 DEF APlace
<1>7. ASSUME p \in APlace, p.file \in 1..Len(Files), p.record \in 1..Len(Files[p.file]),
             p.event \in 1..Len(Files[p.file][p.record].passes)
      PROVE  p \in Place
  <2>1. p = [file |-> p.file, record |-> p.record, event |-> p.event]
    BY <1>7 DEF APlace
  <2>2. p \in EventsIn(p.file, p.record)
    BY <1>4, <1>7, <2>1
  <2> QED BY <1>2, <1>7, <2>2
<1> QED BY <1>6, <1>7

(* An event number is resolved to an event of a record of the chain that   *)
(* the record may not really hold, or to nothing.                          *)
LEMMA ResolvedPlace ==
  ASSUME NEW idx \in Nat
  PROVE  /\ idx < Total =>
              /\ Resolve(idx) \in APlace
              /\ Resolve(idx).file \in 1..Len(Files)
              /\ Resolve(idx).record \in 1..Len(Files[Resolve(idx).file])
              /\ Resolve(idx).event \in Nat \ {0}
              /\ Resolve(idx) # Nowhere
              /\ Resolve(idx) = Numbering[idx + 1]
         /\ idx >= Total => Resolve(idx) = Nowhere
<1>1. Total \in Nat
  BY OffsetSteps
<1>2. CASE idx < Total
  <2>1. PICK fi \in 1..Len(Files) : \E ri \in 1..Len(Files[fi]), k \in Nat :
          /\ k \in 1..Files[fi][ri].event_count
          /\ idx + 1 = file_event_offsets[fi] + FirstEvent[fi][ri] + k
          /\ Resolve(idx) = [file |-> fi, record |-> ri, event |-> k]
    BY <1>2, ResolveIs
  <2>2. PICK ri \in 1..Len(Files[fi]), k \in Nat :
          /\ k \in 1..Files[fi][ri].event_count
          /\ Resolve(idx) = [file |-> fi, record |-> ri, event |-> k]
    BY <2>1
  <2>3. fi \in Nat \ {0} /\ ri \in Nat \ {0} /\ k \in Nat \ {0}
    BY <2>2, FilesShape, EventCountNat
  <2>4. Resolve(idx) = Numbering[idx + 1]
    BY <1>2, ResolvesByCounting
  <2> QED BY <1>1, <1>2, <2>2, <2>3, <2>4 DEF APlace, Nowhere
<1>3. CASE ~(idx < Total)
  BY <1>1, <1>3, ResolveIs
<1> QED BY <1>2, <1>3

(* The answer of a resolution that fails is no place.                      *)
LEMMA NowhereIsNoPlace == Nowhere \notin Place
BY PlaceIs DEF Nowhere

(* A place with another event of the same record.                          *)
LEMMA WithEvent ==
  ASSUME NEW at \in APlace, NEW k
  PROVE  [at EXCEPT !.event = k] = [file |-> at.file, record |-> at.record, event |-> k]
BY DEF APlace

(* The events of a record, one by one.                                     *)
LEMMA PlacesOfRecord ==
  ASSUME NEW at \in APlace, at.file \in 1..Len(Files), at.record \in 1..Len(Files[at.file])
  PROVE  /\ RecordOf(at) = Files[at.file][at.record]
         /\ RecordOf(at).passes \in Seq(BOOLEAN)
         /\ DOMAIN RecordOf(at).passes = 1..Len(RecordOf(at).passes)
         /\ Len(RecordOf(at).passes) \in Nat
         /\ at \in Place <=> at.event \in DOMAIN RecordOf(at).passes
         /\ \A k \in DOMAIN RecordOf(at).passes :
              [file |-> at.file, record |-> at.record, event |-> k] \in Place
<1>1. RecordOf(at) = Files[at.file][at.record]
  BY DEF RecordOf, RecordAt
<1>2. RecordOf(at).passes \in Seq(BOOLEAN)
  BY <1>1, FilesShape DEF Record
<1>3. DOMAIN RecordOf(at).passes = 1..Len(RecordOf(at).passes) /\ Len(RecordOf(at).passes) \in Nat
  BY <1>2
<1>4. at \in Place <=> at.event \in DOMAIN RecordOf(at).passes
  BY <1>1, <1>3, PlaceIs
<1>5. ASSUME NEW k \in DOMAIN RecordOf(at).passes
      PROVE  [file |-> at.file, record |-> at.record, event |-> k] \in Place
  <2> DEFINE q == [file |-> at.file, record |-> at.record, event |-> k]
  <2>1. k \in Nat /\ k \in 1..Len(Files[at.file][at.record].passes)
    BY <1>1, <1>3
  <2>2. q \in APlace /\ q.file = at.file /\ q.record = at.record /\ q.event = k
    BY <2>1 DEF APlace
  <2> HIDE DEF q
  <2>3. q \in Place
    BY <2>1, <2>2, PlaceIs
  <2> QED BY <2>3 DEF q
<1> QED BY <1>1, <1>2, <1>3, <1>4, <1>5
-----------------------------------------------------------------------------
(***************************************************************************)
(* What a look-up answers.                                                 *)
(***************************************************************************)

(* What was decoded stays honest when events are given more tags.          *)
LEMMA DecodesMore ==
  ASSUME NEW d \in DecodedRecord, NEW h, NEW h2, \A p \in Place : h[p] \subseteq h2[p], Decodes(d, h)
  PROVE  Decodes(d, h2)
<1>1. CASE d = Nothing
  BY <1>1 DEF Decodes
<1>2. CASE d # Nothing
  <2>1. /\ d.of[1] \in 1..Len(Files)
        /\ d.of[2] \in 1..Len(Files[d.of[1]])
        /\ DOMAIN d.tags = DOMAIN RecordAt(d.of[1], d.of[2]).passes
        /\ \A k \in DOMAIN d.tags :
             d.tags[k] \in h[[file |-> d.of[1], record |-> d.of[2], event |-> k]]
    BY <1>2 DEF Decodes
  <2> DEFINE at == [file |-> d.of[1], record |-> d.of[2], event |-> 0]
  <2>2. at \in APlace /\ at.file = d.of[1] /\ at.record = d.of[2]
    BY DEF DecodedRecord, APlace
  <2>3. RecordOf(at) = RecordAt(d.of[1], d.of[2])
    BY DEF RecordOf
  <2>4. \A k \in DOMAIN d.tags : [file |-> d.of[1], record |-> d.of[2], event |-> k] \in Place
    <3> HIDE DEF at
    <3>1. \A k \in DOMAIN RecordOf(at).passes :
            [file |-> at.file, record |-> at.record, event |-> k] \in Place
      <4>1. /\ at \in APlace /\ at.file \in 1..Len(Files)
            /\ at.record \in 1..Len(Files[at.file])
        BY <2>1, <2>2
      <4> QED BY <4>1, PlacesOfRecord
    <3> QED BY <2>1, <2>2, <2>3, <3>1
  <2> QED BY <2>1, <2>4 DEF Decodes
<1> QED BY <1>1, <1>2

(* EventOf, of a decoded record and a place in it: the place with its tag, *)
(* or nothing when the record does not hold it.                            *)
LEMMA EventOfIs ==
  ASSUME NEW d \in DecodedRecord, NEW h, Decodes(d, h), NEW hit \in BOOLEAN,
         NEW at \in APlace, at.file \in 1..Len(Files), at.record \in 1..Len(Files[at.file]),
         d.of = <<at.file, at.record>>
  PROVE  /\ at \in Place =>
              /\ at.event \in DOMAIN d.tags
              /\ EventOf(d, at, hit) = Answer("event", at, d.tags[at.event], hit)
              /\ d.tags[at.event] \in Tag
              /\ d.tags[at.event] \in h[at]
         /\ at \notin Place => EventOf(d, at, hit) = Plain("absent")
<1>1. d # Nothing
  <2>1. at.file # 0
    BY FilesShape
  <2> QED BY <2>1 DEF Nothing
<1>2. d.of[1] = at.file /\ d.of[2] = at.record
  OBVIOUS
<1>3. /\ DOMAIN d.tags = DOMAIN RecordOf(at).passes
      /\ \A k \in DOMAIN d.tags :
           d.tags[k] \in h[[file |-> at.file, record |-> at.record, event |-> k]]
  BY <1>1, <1>2 DEF Decodes, RecordOf
<1>4. at = [file |-> at.file, record |-> at.record, event |-> at.event]
  BY DEF APlace
<1>5. at \in Place <=> at.event \in DOMAIN d.tags
  BY <1>3, PlacesOfRecord
<1>6. \A k \in DOMAIN d.tags : d.tags[k] \in Tag
  BY DEF DecodedRecord
<1>7. EventOf(d, at, hit) = IF at.event \in DOMAIN d.tags
                            THEN Answer("event", at, d.tags[at.event], hit) ELSE Plain("absent")
  BY <1>2, <1>4 DEF EventOf
<1>8. ASSUME at \in Place PROVE d.tags[at.event] \in h[at]
  BY <1>3, <1>4, <1>5, <1>8
<1> QED BY <1>5, <1>6, <1>7, <1>8

(* The answer made of it is right.                                         *)
LEMMA EventOfRight ==
  ASSUME NEW d \in DecodedRecord, NEW h, Decodes(d, h), NEW hit \in BOOLEAN,
         NEW idx \in Nat, idx < Total, d.of = <<Resolve(idx).file, Resolve(idx).record>>,
         NEW s, hit \/ (Resolve(idx).event \in DOMAIN d.tags => d.tags[Resolve(idx).event] \in s),
         NEW n
  PROVE  /\ AnswerRight(EventOf(d, Resolve(idx), hit), idx, h, s, n)
         /\ EventOf(d, Resolve(idx), hit) \in
              [kind: {"event", "absent"}, at: Place \cup {Nowhere}, tag: Tag, hit: BOOLEAN]
<1> DEFINE at == Resolve(idx)
           a == EventOf(d, at, hit)
<1>1. /\ at \in APlace /\ at.file \in 1..Len(Files) /\ at.record \in 1..Len(Files[at.file])
      /\ at = Numbering[idx + 1]
  BY ResolvedPlace
<1>2. CASE at \in Place
  <2>1. /\ at.event \in DOMAIN d.tags
        /\ a = Answer("event", at, d.tags[at.event], hit)
        /\ d.tags[at.event] \in Tag
        /\ d.tags[at.event] \in h[at]
    <3> HIDE DEF at
    <3> QED BY <1>1, <1>2, EventOfIs DEF at
  <2>2. a.kind = "event" /\ a.at = at /\ a.tag = d.tags[at.event] /\ a.hit = hit
    BY <2>1 DEF Answer
  <2> HIDE DEF at, a
  <2>3. AnswerRight(a, idx, h, s, n)
    BY <1>1, <2>1, <2>2 DEF AnswerRight, at
  <2> QED BY <1>2, <2>1, <2>3 DEF at, a, Answer
<1>3. CASE at \notin Place
  <2>1. a = Plain("absent")
    <3> HIDE DEF at
    <3> QED BY <1>1, <1>3, EventOfIs DEF at
  <2> HIDE DEF at, a
  <2>2. a.kind = "absent" /\ a \in [kind: {"event", "absent"}, at: Place \cup {Nowhere}, tag: Tag, hit: BOOLEAN]
    BY <2>1, ChainTagsAssumption DEF Plain, Answer
  <2>3. AnswerRight(a, idx, h, s, n)
    BY <1>1, <1>3, <2>2 DEF AnswerRight
  <2> QED BY <2>2, <2>3 DEF at, a
<1> QED BY <1>2, <1>3

(* An answer stays right while the disk changes and accesses fail.         *)
LEMMA AnswerStaysRight ==
  ASSUME NEW a, NEW idx \in Nat, NEW h, NEW h2, NEW s, NEW s2, NEW n, NEW n2,
         a.at \in Place \cup {Nowhere}, \A p \in Place : h[p] \subseteq h2[p], s \subseteq s2,
         n2 = 0 => n = 0, AnswerRight(a, idx, h, s, n)
  PROVE  AnswerRight(a, idx, h2, s2, n2)
<1>1. a.kind = "event" => a.at \in Place
  BY ResolvedPlace DEF AnswerRight
<1> QED BY <1>1 DEF AnswerRight

(* An answer that says nothing of an event.                                *)
LEMMA PlainAnswer ==
  ASSUME NEW kind \in {"none", "absent", "ok", "refused", "failed"}
  PROVE  /\ Plain(kind) \in [kind: {"none", "event", "absent", "ok", "refused", "failed"},
                             at: Place \cup {Nowhere}, tag: Tag, hit: BOOLEAN]
         /\ Plain(kind).kind = kind
         /\ kind # "absent" => \A idx, h, s, n : AnswerRight(Plain(kind), idx, h, s, n)
BY ChainTagsAssumption DEF Plain, Answer, AnswerRight
-----------------------------------------------------------------------------
(***************************************************************************)
(* The steps of event().                                                   *)
(***************************************************************************)

(* Before the first call, all of it holds.                                 *)
LEMMA InitReadInv == Init => ReadInv
<1> SUFFICES ASSUME Init PROVE ReadInv
  OBVIOUS
<1>1. Nothing \in DecodedRecord /\ Nowhere \notin Place
  BY NowhereIsNoPlace DEF Nothing, DecodedRecord
<1>2. Types
  <2>1. TypeOK
    BY <1>1, ChainTagsAssumption DEF Init, TypeOK, Nothing, NoBase, NoArg, Plain, Answer
  <2>2. NoArg \in [idx: Nat, updates: Batch]
    BY DEF NoArg, Batch
  <2> QED BY <2>1, <2>2, PlainAnswer DEF Init, Types
<1>3. CacheHonest /\ DiskHad
  BY DEF Init, CacheHonest, DiskHad, Decodes, Nothing
<1>4. ReadsHonest /\ BatchesChecked
  BY DEF Init, ReadsHonest, BatchesChecked
<1>5. AnswersRight
  BY PlainAnswer DEF Init, AnswersRight
<1> QED BY <1>2, <1>3, <1>4, <1>5 DEF ReadInv

(* event(idx): a cached record is answered from, else it is to be read.    *)
LEMMA EventKeeps ==
  ASSUME ReadInv, NEW t \in Thread, NEW idx \in 0..Total, Event(t, idx)
  PROVE  ReadInv'
<1> DEFINE at == Resolve(idx)
<1>1. /\ pc[t] = "idle" /\ calls < MaxCalls /\ calls' = calls + 1
      /\ arg' = [arg EXCEPT ![t] = [idx |-> idx, updates |-> << >>]]
      /\ since' = [since EXCEPT ![t] = IF at \in Place THEN {disk[at]} ELSE {}]
      /\ base' = [base EXCEPT ![t] = NoBase]
      /\ UNCHANGED <<disk, cache, had, decoded, patched, faults>>
  BY DEF Event, Call
<1>2. /\ at = Nowhere => Return(t, Plain("absent"))
      /\ at # Nowhere /\ Hit(at) => Return(t, EventOf(cache.decoded, at, TRUE))
      /\ at # Nowhere /\ ~Hit(at) => GoTo(t, "read")
  BY DEF Event
<1>3. idx \in Nat /\ Total \in Nat
  BY OffsetSteps
<1>4. Types
  BY DEF ReadInv
<1>5. at # Nowhere => idx < Total
  BY <1>3, ResolvedPlace
<1>6. ASSUME at # Nowhere, Hit(at)
      PROVE  /\ \A s : AnswerRight(EventOf(cache.decoded, at, TRUE), idx, had, s, faults)
             /\ EventOf(cache.decoded, at, TRUE) \in
                  [kind: {"event", "absent"}, at: Place \cup {Nowhere}, tag: Tag, hit: BOOLEAN]
  <2>1. /\ cache.decoded \in DecodedRecord /\ Decodes(cache.decoded, had)
        /\ cache.decoded.of = <<at.file, at.record>>
    BY <1>4, <1>6 DEF Types, TypeOK, ReadInv, CacheHonest, Hit
  <2> QED BY <1>3, <1>5, <1>6, <2>1, EventOfRight
<1>7. \E a \in [kind: {"none", "event", "absent", "ok", "refused", "failed"},
                at: Place \cup {Nowhere}, tag: Tag, hit: BOOLEAN],
         step \in {"idle", "read"} :
        /\ answer' = [answer EXCEPT ![t] = a]
        /\ pc' = [pc EXCEPT ![t] = step]
        /\ \A s : AnswerRight(a, idx, had, s, faults)
        /\ step = "read" => idx < Total
  <2>1. CASE at = Nowhere
    <3>1. idx >= Total
      BY <1>3, <2>1, ResolvedPlace
    <3>2. \A s : AnswerRight(Plain("absent"), idx, had, s, faults)
      BY <3>1, PlainAnswer DEF AnswerRight
    <3> QED BY <1>2, <2>1, <3>2, PlainAnswer DEF Return
  <2>2. CASE at # Nowhere /\ Hit(at)
    BY <1>2, <1>6, <2>2 DEF Return
  <2>3. CASE at # Nowhere /\ ~Hit(at)
    BY <1>2, <1>5, <2>3, PlainAnswer DEF GoTo
  <2> QED BY <2>1, <2>2, <2>3
<1>8. PICK a \in [kind: {"none", "event", "absent", "ok", "refused", "failed"},
                  at: Place \cup {Nowhere}, tag: Tag, hit: BOOLEAN],
           step \in {"idle", "read"} :
        /\ answer' = [answer EXCEPT ![t] = a]
        /\ pc' = [pc EXCEPT ![t] = step]
        /\ \A s : AnswerRight(a, idx, had, s, faults)
        /\ step = "read" => idx < Total
  BY <1>7
<1> HIDE DEF at
<1>9. Types'
  <2>1. disk \in [Place -> Tag] /\ since' \in [Thread -> SUBSET Tag]
    BY <1>1, <1>4 DEF Types, TypeOK
  <2>2. arg' \in [Thread -> [idx: Nat, updates: Batch]]
    BY <1>1, <1>3, <1>4 DEF Types, Batch
  <2>3. base' \in [Thread -> [Place -> Tag] \cup {NoBase}]
    BY <1>1, <1>4 DEF Types
  <2>4. answer' \in [Thread -> [kind: {"none", "event", "absent", "ok", "refused", "failed"},
                                at: Place \cup {Nowhere}, tag: Tag, hit: BOOLEAN]]
    BY <1>4, <1>8 DEF Types
  <2>5. pc' \in [Thread -> {"idle", "read", "store", "open", "patch"}]
    BY <1>4, <1>8 DEF Types, TypeOK
  <2>6. calls' \in 0..MaxCalls
    BY <1>1, <1>4, ChainTagsAssumption DEF Types, TypeOK
  <2> QED BY <1>1, <1>4, <2>1, <2>2, <2>3, <2>4, <2>5, <2>6 DEF Types, TypeOK, Batch
<1>10. CacheHonest' /\ DiskHad'
  BY <1>1 DEF ReadInv, CacheHonest, DiskHad
<1>11. ReadsHonest'
  <2> SUFFICES ASSUME NEW u \in Thread
               PROVE  /\ pc'[u] \in {"read", "store"} => arg'[u].idx < Total
                      /\ pc'[u] = "read" /\ Resolve(arg'[u].idx) \in Place =>
                           disk'[Resolve(arg'[u].idx)] \in since'[u]
                      /\ pc'[u] = "store" =>
                           /\ decoded'[u].of = <<Resolve(arg'[u].idx).file, Resolve(arg'[u].idx).record>>
                           /\ Decodes(decoded'[u], had')
                           /\ Resolve(arg'[u].idx).event \in DOMAIN decoded'[u].tags =>
                                decoded'[u].tags[Resolve(arg'[u].idx).event] \in since'[u]
    BY DEF ReadsHonest, Asked
  <2>1. CASE u = t
    BY <1>1, <1>4, <1>8, <2>1 DEF Types, TypeOK, at
  <2>2. CASE u # t
    <3>1. pc'[u] = pc[u] /\ arg'[u] = arg[u] /\ since'[u] = since[u]
      BY <1>1, <1>4, <1>8, <2>2 DEF Types, TypeOK
    <3> QED BY <1>1, <3>1 DEF ReadInv, ReadsHonest, Asked
  <2> QED BY <2>1, <2>2
<1>12. BatchesChecked'
  <2> SUFFICES ASSUME NEW u \in Thread, pc'[u] \in {"open", "patch"}
               PROVE  pc[u] = pc'[u] /\ arg'[u] = arg[u]
    BY <1>1 DEF ReadInv, BatchesChecked
  <2> QED BY <1>1, <1>4, <1>8 DEF Types, TypeOK
<1>13. AnswersRight'
  <2> SUFFICES ASSUME NEW u \in Thread
               PROVE  AnswerRight(answer'[u], arg'[u].idx, had', since'[u], faults')
    BY DEF AnswersRight
  <2>1. CASE u = t
    BY <1>1, <1>4, <1>8, <2>1 DEF Types, TypeOK
  <2>2. CASE u # t
    <3>1. answer'[u] = answer[u] /\ arg'[u] = arg[u] /\ since'[u] = since[u]
      BY <1>1, <1>4, <1>8, <2>2 DEF Types, TypeOK
    <3> QED BY <1>1, <3>1 DEF ReadInv, AnswersRight
  <2> QED BY <2>1, <2>2
<1> QED BY <1>9, <1>10, <1>11, <1>12, <1>13 DEF ReadInv

(* What is read is what the disk holds then; a failure answers nothing.    *)
LEMMA ReadRecordKeeps ==
  ASSUME ReadInv, NEW t \in Thread, ReadRecord(t)
  PROVE  ReadInv'
<1> DEFINE at == Resolve(arg[t].idx)
           d  == Decode(at)
<1>1. /\ pc[t] = "read"
      /\ UNCHANGED <<disk, cache, arg, patched, calls, since, had, base>>
  BY DEF ReadRecord
<1>2. \/ /\ Readable(RecordOf(at)) /\ decoded' = [decoded EXCEPT ![t] = d]
         /\ GoTo(t, "store") /\ UNCHANGED faults
      \/ /\ ~Readable(RecordOf(at)) /\ Return(t, Plain("absent")) /\ UNCHANGED <<decoded, faults>>
      \/ /\ Fault /\ Return(t, Plain("absent")) /\ UNCHANGED decoded
  BY DEF ReadRecord
<1>3. Types
  BY DEF ReadInv
<1>4. arg[t].idx \in Nat /\ arg[t].idx < Total /\ (at \in Place => disk[at] \in since[t])
  BY <1>1, <1>3 DEF Types, ReadInv, ReadsHonest, Asked
<1>5. /\ at \in APlace /\ at.file \in 1..Len(Files) /\ at.record \in 1..Len(Files[at.file])
      /\ at = Numbering[arg[t].idx + 1]
  BY <1>4, ResolvedPlace
<1>6. /\ d \in DecodedRecord /\ Decodes(d, had) /\ d.of = <<at.file, at.record>>
      /\ at.event \in DOMAIN d.tags => d.tags[at.event] \in since[t]
  <2> HIDE DEF at
  <2> DEFINE n == Len(RecordOf(at).passes)
  <2>1. /\ n \in Nat /\ DOMAIN RecordOf(at).passes = 1..n
        /\ at \in Place <=> at.event \in 1..n
        /\ \A k \in 1..n : [file |-> at.file, record |-> at.record, event |-> k] \in Place
    <3>1. /\ at \in APlace /\ at.file \in 1..Len(Files)
          /\ at.record \in 1..Len(Files[at.file])
      BY <1>5
    <3> QED BY <3>1, PlacesOfRecord
  <2> HIDE DEF n
  <2> DEFINE tags == [k \in 1..n |-> disk[[at EXCEPT !.event = k]]]
  <2>2. d = [of |-> <<at.file, at.record>>, tags |-> tags]
    BY <2>1 DEF Decode
  <2>3. \A k \in 1..n : /\ tags[k] = disk[[file |-> at.file, record |-> at.record, event |-> k]]
                        /\ tags[k] \in Tag
                        /\ tags[k] \in had[[file |-> at.file, record |-> at.record, event |-> k]]
    <3>1. \A k \in 1..n : tags[k] = disk[[file |-> at.file, record |-> at.record, event |-> k]]
      BY <1>5, WithEvent
    <3>2. \A p \in Place : disk[p] \in Tag /\ disk[p] \in had[p]
      BY <1>3 DEF Types, TypeOK, ReadInv, DiskHad
    <3> HIDE DEF tags
    <3> QED BY <2>1, <3>1, <3>2
  <2>4. DOMAIN tags = 1..n /\ tags = [k \in 1..n |-> tags[k]]
    OBVIOUS
  <2> HIDE DEF tags
  <2>5. tags \in Seq(Tag)
    <3>1. tags \in [1..n -> Tag]
      BY <2>3, <2>4
    <3> QED BY <2>1, <3>1, FunctionIsSeq
  <2>6. d \in DecodedRecord /\ d.of = <<at.file, at.record>> /\ d.tags = tags
    BY <1>5, <2>2, <2>5 DEF DecodedRecord, APlace
  <2>7. Decodes(d, had)
    <3> HIDE DEF d
    <3>1. d.of[1] = at.file /\ d.of[2] = at.record
      BY <2>6
    <3>2. RecordAt(d.of[1], d.of[2]) = RecordOf(at)
      BY <3>1 DEF RecordOf
    <3> QED BY <1>5, <2>1, <2>3, <2>4, <2>6, <3>1, <3>2 DEF Decodes
  <2>8. ASSUME at.event \in DOMAIN d.tags PROVE d.tags[at.event] \in since[t]
    <3>1. at.event \in 1..n /\ at \in Place
      BY <2>1, <2>4, <2>6, <2>8
    <3>2. at = [file |-> at.file, record |-> at.record, event |-> at.event]
      BY <1>5 DEF APlace
    <3>3. tags[at.event] = disk[at]
      BY <2>3, <3>1, <3>2
    <3> QED BY <1>4, <2>6, <3>1, <3>3 DEF at
  <2> QED BY <2>6, <2>7, <2>8
<1> HIDE DEF d, at
<1>7. \E a \in [kind: {"none", "event", "absent", "ok", "refused", "failed"},
                at: Place \cup {Nowhere}, tag: Tag, hit: BOOLEAN],
         step \in {"idle", "store"}, e \in DecodedRecord :
        /\ answer' = [answer EXCEPT ![t] = a]
        /\ pc' = [pc EXCEPT ![t] = step]
        /\ decoded' = [decoded EXCEPT ![t] = e]
        /\ AnswerRight(a, arg[t].idx, had, since[t], faults')
        /\ step = "store" => e = d
        /\ faults' \in 0..MaxFaults /\ (faults' = 0 => faults = 0)
  <2>1. faults \in 0..MaxFaults /\ decoded \in [Thread -> DecodedRecord]
    BY <1>3 DEF Types, TypeOK
  <2>2. decoded = [decoded EXCEPT ![t] = decoded[t]] /\ decoded[t] \in DecodedRecord
    BY <2>1
  <2>3. CASE Readable(RecordOf(at)) /\ decoded' = [decoded EXCEPT ![t] = d]
             /\ GoTo(t, "store") /\ UNCHANGED faults
    BY <1>6, <2>1, <2>3, PlainAnswer DEF GoTo
  <2>4. CASE ~Readable(RecordOf(at)) /\ Return(t, Plain("absent")) /\ UNCHANGED <<decoded, faults>>
    <3>1. AnswerRight(Plain("absent"), arg[t].idx, had, since[t], faults')
      BY <1>5, <2>4, PlainAnswer DEF AnswerRight
    <3> QED BY <2>1, <2>2, <2>4, <3>1, PlainAnswer DEF Return
  <2>5. CASE Fault /\ Return(t, Plain("absent")) /\ UNCHANGED decoded
    <3>1. faults' \in 0..MaxFaults /\ faults' # 0
      BY <2>1, <2>5, ChainTagsAssumption DEF Fault
    <3>2. AnswerRight(Plain("absent"), arg[t].idx, had, since[t], faults')
      BY <3>1, PlainAnswer DEF AnswerRight
    <3> QED BY <2>2, <2>5, <3>1, <3>2, PlainAnswer DEF Return
  <2> QED BY <1>2, <2>3, <2>4, <2>5 DEF at
<1>8. PICK a \in [kind: {"none", "event", "absent", "ok", "refused", "failed"},
                  at: Place \cup {Nowhere}, tag: Tag, hit: BOOLEAN],
           step \in {"idle", "store"}, e \in DecodedRecord :
        /\ answer' = [answer EXCEPT ![t] = a]
        /\ pc' = [pc EXCEPT ![t] = step]
        /\ decoded' = [decoded EXCEPT ![t] = e]
        /\ AnswerRight(a, arg[t].idx, had, since[t], faults')
        /\ step = "store" => e = d
        /\ faults' \in 0..MaxFaults /\ (faults' = 0 => faults = 0)
  BY <1>7
<1>9. Types'
  <2>1. answer' \in [Thread -> [kind: {"none", "event", "absent", "ok", "refused", "failed"},
                                at: Place \cup {Nowhere}, tag: Tag, hit: BOOLEAN]]
    BY <1>3, <1>8 DEF Types
  <2>2. pc' \in [Thread -> {"idle", "read", "store", "open", "patch"}]
    BY <1>3, <1>8 DEF Types, TypeOK
  <2>3. decoded' \in [Thread -> DecodedRecord]
    BY <1>3, <1>8 DEF Types, TypeOK
  <2> QED BY <1>1, <1>3, <1>8, <2>1, <2>2, <2>3 DEF Types, TypeOK
<1>10. CacheHonest' /\ DiskHad'
  BY <1>1 DEF ReadInv, CacheHonest, DiskHad
<1>11. ReadsHonest'
  <2> SUFFICES ASSUME NEW u \in Thread
               PROVE  /\ pc'[u] \in {"read", "store"} => arg'[u].idx < Total
                      /\ pc'[u] = "read" /\ Resolve(arg'[u].idx) \in Place =>
                           disk'[Resolve(arg'[u].idx)] \in since'[u]
                      /\ pc'[u] = "store" =>
                           /\ decoded'[u].of = <<Resolve(arg'[u].idx).file, Resolve(arg'[u].idx).record>>
                           /\ Decodes(decoded'[u], had')
                           /\ Resolve(arg'[u].idx).event \in DOMAIN decoded'[u].tags =>
                                decoded'[u].tags[Resolve(arg'[u].idx).event] \in since'[u]
    BY DEF ReadsHonest, Asked
  <2>1. CASE u = t
    BY <1>1, <1>3, <1>4, <1>6, <1>8, <2>1 DEF Types, TypeOK, at
  <2>2. CASE u # t
    <3>1. pc'[u] = pc[u] /\ decoded'[u] = decoded[u]
      BY <1>3, <1>8, <2>2 DEF Types, TypeOK
    <3> QED BY <1>1, <3>1 DEF ReadInv, ReadsHonest, Asked
  <2> QED BY <2>1, <2>2
<1>12. BatchesChecked'
  <2> SUFFICES ASSUME NEW u \in Thread, pc'[u] \in {"open", "patch"}
               PROVE  pc[u] = pc'[u]
    BY <1>1 DEF ReadInv, BatchesChecked
  <2> QED BY <1>3, <1>8 DEF Types, TypeOK
<1>13. AnswersRight'
  <2> SUFFICES ASSUME NEW u \in Thread
               PROVE  AnswerRight(answer'[u], arg'[u].idx, had', since'[u], faults')
    BY DEF AnswersRight
  <2>1. CASE u = t
    BY <1>1, <1>3, <1>8, <2>1 DEF Types, TypeOK
  <2>2. CASE u # t
    <3>1. answer'[u] = answer[u]
      BY <1>3, <1>8, <2>2 DEF Types, TypeOK
    <3>2. AnswerRight(answer[u], arg[u].idx, had, since[u], faults)
      BY DEF ReadInv, AnswersRight
    <3>3. answer[u].at \in Place \cup {Nowhere} /\ arg[u].idx \in Nat
      BY <1>3 DEF Types
    <3>4. AnswerRight(answer[u], arg[u].idx, had, since[u], faults')
      BY <1>8, <3>2, <3>3, AnswerStaysRight
    <3> QED BY <1>1, <3>1, <3>4
  <2> QED BY <2>1, <2>2
<1> QED BY <1>9, <1>10, <1>11, <1>12, <1>13 DEF ReadInv

(* The cache and the answer get the caller's own copy.                     *)
LEMMA StoreRecordKeeps ==
  ASSUME ReadInv, NEW t \in Thread, StoreRecord(t)
  PROVE  ReadInv'
<1> DEFINE at == Resolve(arg[t].idx)
           d  == decoded[t]
           a  == EventOf(d, at, FALSE)
<1>1. /\ pc[t] = "store"
      /\ cache' = [key |-> <<at.file, at.record>>, decoded |-> d]
      /\ pc' = [pc EXCEPT ![t] = "idle"] /\ answer' = [answer EXCEPT ![t] = a]
      /\ decoded' = [decoded EXCEPT ![t] = Nothing]
      /\ UNCHANGED <<disk, arg, patched, calls, faults, since, had, base>>
  BY DEF StoreRecord, Return
<1>2. Types
  BY DEF ReadInv
<1>3. /\ arg[t].idx \in Nat /\ arg[t].idx < Total
      /\ d \in DecodedRecord /\ d.of = <<at.file, at.record>> /\ Decodes(d, had)
      /\ at.event \in DOMAIN d.tags => d.tags[at.event] \in since[t]
  BY <1>1, <1>2 DEF Types, TypeOK, ReadInv, ReadsHonest, Asked
<1>4. /\ AnswerRight(a, arg[t].idx, had, since[t], faults)
      /\ a \in [kind: {"event", "absent"}, at: Place \cup {Nowhere}, tag: Tag, hit: BOOLEAN]
  <2> HIDE DEF d
  <2> QED BY <1>3, EventOfRight
<1>5. at.file \in Nat /\ at.record \in Nat
  BY <1>3, ResolvedPlace DEF APlace
<1> HIDE DEF at, d, a
<1>6. Types'
  <2>1. answer' \in [Thread -> [kind: {"none", "event", "absent", "ok", "refused", "failed"},
                                at: Place \cup {Nowhere}, tag: Tag, hit: BOOLEAN]]
    BY <1>1, <1>2, <1>4 DEF Types
  <2>2. pc' \in [Thread -> {"idle", "read", "store", "open", "patch"}]
    BY <1>1, <1>2 DEF Types, TypeOK
  <2>3. decoded' \in [Thread -> DecodedRecord]
    BY <1>1, <1>2 DEF Types, TypeOK, DecodedRecord, Nothing
  <2>4. cache' \in [key: Nat \X Nat, decoded: DecodedRecord]
    BY <1>1, <1>3, <1>5
  <2> QED BY <1>1, <1>2, <2>1, <2>2, <2>3, <2>4 DEF Types, TypeOK
<1>7. CacheHonest' /\ DiskHad'
  BY <1>1, <1>3 DEF ReadInv, CacheHonest, DiskHad
<1>8. ReadsHonest'
  <2> SUFFICES ASSUME NEW u \in Thread, pc'[u] \in {"read", "store"}
               PROVE  pc'[u] = pc[u] /\ decoded'[u] = decoded[u]
    BY <1>1 DEF ReadInv, ReadsHonest, Asked
  <2>1. u # t
    BY <1>1, <1>2 DEF Types, TypeOK
  <2> QED BY <1>1, <1>2, <2>1 DEF Types, TypeOK
<1>9. BatchesChecked'
  <2> SUFFICES ASSUME NEW u \in Thread, pc'[u] \in {"open", "patch"}
               PROVE  pc[u] = pc'[u]
    BY <1>1 DEF ReadInv, BatchesChecked
  <2> QED BY <1>1, <1>2 DEF Types, TypeOK
<1>10. AnswersRight'
  <2> SUFFICES ASSUME NEW u \in Thread
               PROVE  AnswerRight(answer'[u], arg'[u].idx, had', since'[u], faults')
    BY DEF AnswersRight
  <2>1. CASE u = t
    BY <1>1, <1>2, <1>4, <2>1 DEF Types, TypeOK
  <2>2. CASE u # t
    <3>1. answer'[u] = answer[u]
      BY <1>1, <1>2, <2>2 DEF Types, TypeOK
    <3> QED BY <1>1, <3>1 DEF ReadInv, AnswersRight
  <2> QED BY <2>1, <2>2
<1> QED BY <1>6, <1>7, <1>8, <1>9, <1>10 DEF ReadInv
-----------------------------------------------------------------------------
(***************************************************************************)
(* The steps of set_event_tags().                                          *)
(***************************************************************************)

(* The updates of a batch and their targets.                               *)
LEMMA BatchIs ==
  ASSUME NEW updates \in Batch
  PROVE  /\ Len(updates) \in Nat
         /\ DOMAIN updates = 1..Len(updates)
         /\ DOMAIN Targets(updates) = 1..Len(updates)
         /\ \A i \in 1..Len(updates) :
              /\ updates[i].index \in Nat /\ updates[i].tag \in Tag
              /\ Targets(updates)[i] = Resolve(updates[i].index)
<1>1. updates \in Seq([index: Nat, tag: Tag])
  <2>1. CASE updates \in Updates
    BY <2>1, ChainTagsAssumption
  <2>2. CASE updates = << >>
    BY <2>2
  <2> QED BY <2>1, <2>2 DEF Batch
<1>2. /\ Len(updates) \in Nat /\ DOMAIN updates = 1..Len(updates)
      /\ \A i \in 1..Len(updates) : updates[i] \in [index: Nat, tag: Tag]
  BY <1>1, SeqIsFunction
<1> QED BY <1>2 DEF Targets

(* A batch is resolved as a whole before anything else is done.            *)
LEMMA SetEventTagsKeeps ==
  ASSUME ReadInv, NEW t \in Thread, NEW updates \in Updates, SetEventTags(t, updates)
  PROVE  ReadInv'
<1>1. /\ pc[t] = "idle" /\ calls < MaxCalls /\ calls' = calls + 1
      /\ arg' = [arg EXCEPT ![t] = [idx |-> 0, updates |-> updates]]
      /\ base' = [base EXCEPT ![t] = disk]
      /\ patched' = [patched EXCEPT ![t] = 0]
      /\ since' = [since EXCEPT ![t] = {}]
      /\ UNCHANGED <<disk, cache, had, decoded, faults>>
  BY DEF SetEventTags, Call
<1>2. Types
  BY DEF ReadInv
<1>3. updates \in Batch
  BY DEF Batch
<1>4. \E kind \in {"none", "ok", "refused"}, step \in {"idle", "open"} :
        /\ answer' = [answer EXCEPT ![t] = Plain(kind)]
        /\ pc' = [pc EXCEPT ![t] = step]
        /\ step = "open" =>
             updates # << >> /\ \A i \in DOMAIN updates : Targets(updates)[i] # Nowhere
  <2>1. CASE \E i \in DOMAIN updates : Targets(updates)[i] = Nowhere
    BY <2>1 DEF SetEventTags, Return
  <2>2. CASE ~(\E i \in DOMAIN updates : Targets(updates)[i] = Nowhere)
    <3>1. CASE updates = << >>
      BY <2>2, <3>1 DEF SetEventTags, Return
    <3>2. CASE updates # << >>
      BY <2>2, <3>2 DEF SetEventTags, GoTo
    <3> QED BY <3>1, <3>2
  <2> QED BY <2>1, <2>2
<1>5. PICK kind \in {"none", "ok", "refused"}, step \in {"idle", "open"} :
        /\ answer' = [answer EXCEPT ![t] = Plain(kind)]
        /\ pc' = [pc EXCEPT ![t] = step]
        /\ step = "open" =>
             updates # << >> /\ \A i \in DOMAIN updates : Targets(updates)[i] # Nowhere
  BY <1>4
<1>6. Types'
  <2>1. answer' \in [Thread -> [kind: {"none", "event", "absent", "ok", "refused", "failed"},
                                at: Place \cup {Nowhere}, tag: Tag, hit: BOOLEAN]]
    BY <1>2, <1>5, PlainAnswer DEF Types
  <2>2. pc' \in [Thread -> {"idle", "read", "store", "open", "patch"}]
    BY <1>2, <1>5 DEF Types, TypeOK
  <2>3. arg' \in [Thread -> [idx: Nat, updates: Batch]]
    BY <1>1, <1>2, <1>3 DEF Types
  <2>4. base' \in [Thread -> [Place -> Tag] \cup {NoBase}]
    BY <1>1, <1>2 DEF Types, TypeOK
  <2>5. since' \in [Thread -> SUBSET Tag] /\ patched' \in [Thread -> Nat]
    BY <1>1, <1>2 DEF Types, TypeOK
  <2>6. calls' \in 0..MaxCalls
    BY <1>1, <1>2, ChainTagsAssumption DEF Types, TypeOK
  <2> QED BY <1>1, <1>2, <2>1, <2>2, <2>3, <2>4, <2>5, <2>6 DEF Types, TypeOK, Batch
<1>7. CacheHonest' /\ DiskHad'
  BY <1>1 DEF ReadInv, CacheHonest, DiskHad
<1>8. ReadsHonest'
  <2> SUFFICES ASSUME NEW u \in Thread, pc'[u] \in {"read", "store"}
               PROVE  pc'[u] = pc[u] /\ arg'[u] = arg[u] /\ since'[u] = since[u]
    BY <1>1 DEF ReadInv, ReadsHonest, Asked
  <2>1. u # t
    BY <1>2, <1>5 DEF Types, TypeOK
  <2> QED BY <1>1, <1>2, <1>5, <2>1 DEF Types, TypeOK
<1>9. BatchesChecked'
  <2> SUFFICES ASSUME NEW u \in Thread
               PROVE  /\ pc'[u] \in {"open", "patch"} =>
                           \A i \in DOMAIN arg'[u].updates : Targets(arg'[u].updates)[i] # Nowhere
                      /\ pc'[u] = "patch" =>
                           \A i \in DOMAIN arg'[u].updates : Patchable(RecordOf(Targets(arg'[u].updates)[i]))
                      /\ pc'[u] = "open" => patched'[u] = 0
                      /\ pc'[u] \in {"open", "patch"} => patched'[u] < Len(arg'[u].updates)
    BY DEF BatchesChecked
  <2>1. CASE u = t
    <3>1. /\ pc'[u] = step /\ arg'[u].updates = updates /\ patched'[u] = 0
      BY <1>1, <1>2, <1>5, <2>1 DEF Types, TypeOK
    <3>2. updates # << >> => 0 < Len(updates)
      <4>1. updates \in Seq([index: Nat, tag: Tag])
        BY ChainTagsAssumption
      <4> QED BY <4>1
    <3> QED BY <1>5, <3>1, <3>2
  <2>2. CASE u # t
    <3>1. pc'[u] = pc[u] /\ arg'[u] = arg[u] /\ patched'[u] = patched[u]
      BY <1>1, <1>2, <1>5, <2>2 DEF Types, TypeOK
    <3> QED BY <3>1 DEF ReadInv, BatchesChecked
  <2> QED BY <2>1, <2>2
<1>10. AnswersRight'
  <2> SUFFICES ASSUME NEW u \in Thread
               PROVE  AnswerRight(answer'[u], arg'[u].idx, had', since'[u], faults')
    BY DEF AnswersRight
  <2>1. CASE u = t
    <3>1. answer'[u] = Plain(kind)
      BY <1>2, <1>5, <2>1 DEF Types, TypeOK
    <3> QED BY <3>1, PlainAnswer
  <2>2. CASE u # t
    <3>1. answer'[u] = answer[u] /\ arg'[u] = arg[u] /\ since'[u] = since[u]
      BY <1>1, <1>2, <1>5, <2>2 DEF Types, TypeOK
    <3> QED BY <1>1, <3>1 DEF ReadInv, AnswersRight
  <2> QED BY <2>1, <2>2
<1> QED BY <1>6, <1>7, <1>8, <1>9, <1>10 DEF ReadInv

(* The file is opened and its layouts found, or the batch fails.           *)
LEMMA OpenLayoutsKeeps ==
  ASSUME ReadInv, NEW t \in Thread, OpenLayouts(t)
  PROVE  ReadInv'
<1>1. /\ pc[t] = "open"
      /\ UNCHANGED <<disk, cache, arg, decoded, patched, calls, since, had, base>>
  BY DEF OpenLayouts
<1>2. Types
  BY DEF ReadInv
<1>3. \E kind \in {"none", "refused"}, step \in {"idle", "patch"} :
        /\ answer' = [answer EXCEPT ![t] = Plain(kind)]
        /\ pc' = [pc EXCEPT ![t] = step]
        /\ step = "patch" =>
             \A i \in DOMAIN arg[t].updates : Patchable(RecordOf(Targets(arg[t].updates)[i]))
        /\ faults' \in 0..MaxFaults /\ (faults' = 0 => faults = 0)
  <2> DEFINE records == {RecordOf(Targets(arg[t].updates)[i]) : i \in DOMAIN arg[t].updates}
  <2>1. faults \in 0..MaxFaults /\ MaxFaults \in Nat
    BY <1>2, ChainTagsAssumption DEF Types, TypeOK
  <2>2. \/ (\A r \in records : Patchable(r)) /\ GoTo(t, "patch") /\ UNCHANGED faults
        \/ Return(t, Plain("refused")) /\ UNCHANGED faults
        \/ Fault /\ Return(t, Plain("refused"))
    BY DEF OpenLayouts
  <2>3. CASE (\A r \in records : Patchable(r)) /\ GoTo(t, "patch") /\ UNCHANGED faults
    BY <2>1, <2>3 DEF GoTo
  <2>4. CASE Return(t, Plain("refused")) /\ UNCHANGED faults
    BY <2>1, <2>4 DEF Return
  <2>5. CASE Fault /\ Return(t, Plain("refused"))
    <3>1. faults' \in 0..MaxFaults /\ faults' # 0
      BY <2>1, <2>5 DEF Fault
    <3> QED BY <2>5, <3>1 DEF Return
  <2> QED BY <2>2, <2>3, <2>4, <2>5
<1>4. PICK kind \in {"none", "refused"}, step \in {"idle", "patch"} :
        /\ answer' = [answer EXCEPT ![t] = Plain(kind)]
        /\ pc' = [pc EXCEPT ![t] = step]
        /\ step = "patch" =>
             \A i \in DOMAIN arg[t].updates : Patchable(RecordOf(Targets(arg[t].updates)[i]))
        /\ faults' \in 0..MaxFaults /\ (faults' = 0 => faults = 0)
  BY <1>3
<1>5. Types'
  <2>1. answer' \in [Thread -> [kind: {"none", "event", "absent", "ok", "refused", "failed"},
                                at: Place \cup {Nowhere}, tag: Tag, hit: BOOLEAN]]
    BY <1>2, <1>4, PlainAnswer DEF Types
  <2>2. pc' \in [Thread -> {"idle", "read", "store", "open", "patch"}]
    BY <1>2, <1>4 DEF Types, TypeOK
  <2> QED BY <1>1, <1>2, <1>4, <2>1, <2>2 DEF Types, TypeOK
<1>6. CacheHonest' /\ DiskHad'
  BY <1>1 DEF ReadInv, CacheHonest, DiskHad
<1>7. ReadsHonest'
  <2> SUFFICES ASSUME NEW u \in Thread, pc'[u] \in {"read", "store"}
               PROVE  pc'[u] = pc[u]
    BY <1>1 DEF ReadInv, ReadsHonest, Asked
  <2> QED BY <1>2, <1>4 DEF Types, TypeOK
<1>8. BatchesChecked'
  <2> SUFFICES ASSUME NEW u \in Thread
               PROVE  /\ pc'[u] \in {"open", "patch"} =>
                           \A i \in DOMAIN arg[u].updates : Targets(arg[u].updates)[i] # Nowhere
                      /\ pc'[u] = "patch" =>
                           \A i \in DOMAIN arg[u].updates : Patchable(RecordOf(Targets(arg[u].updates)[i]))
                      /\ pc'[u] = "open" => patched[u] = 0
                      /\ pc'[u] \in {"open", "patch"} => patched[u] < Len(arg[u].updates)
    BY <1>1 DEF BatchesChecked
  <2>1. CASE u = t
    <3>1. pc'[u] = step
      BY <1>2, <1>4, <2>1 DEF Types, TypeOK
    <3> QED BY <1>1, <1>4, <2>1, <3>1 DEF ReadInv, BatchesChecked
  <2>2. CASE u # t
    <3>1. pc'[u] = pc[u]
      BY <1>2, <1>4, <2>2 DEF Types, TypeOK
    <3> QED BY <3>1 DEF ReadInv, BatchesChecked
  <2> QED BY <2>1, <2>2
<1>9. AnswersRight'
  <2> SUFFICES ASSUME NEW u \in Thread
               PROVE  AnswerRight(answer'[u], arg'[u].idx, had', since'[u], faults')
    BY DEF AnswersRight
  <2>1. CASE u = t
    <3>1. answer'[u] = Plain(kind)
      BY <1>2, <1>4, <2>1 DEF Types, TypeOK
    <3> QED BY <3>1, PlainAnswer
  <2>2. CASE u # t
    <3>1. answer'[u] = answer[u]
      BY <1>2, <1>4, <2>2 DEF Types, TypeOK
    <3>2. AnswerRight(answer[u], arg[u].idx, had, since[u], faults)
      BY DEF ReadInv, AnswersRight
    <3>3. answer[u].at \in Place \cup {Nowhere} /\ arg[u].idx \in Nat
      BY <1>2 DEF Types
    <3>4. AnswerRight(answer[u], arg[u].idx, had, since[u], faults')
      BY <1>4, <3>2, <3>3, AnswerStaysRight
    <3> QED BY <1>1, <3>1, <3>4
  <2> QED BY <2>1, <2>2
<1> QED BY <1>5, <1>6, <1>7, <1>8, <1>9 DEF ReadInv

(* A target is written, or the batch fails there.                          *)
PatchWrites(t, at, tag) ==
  /\ disk' = [disk EXCEPT ![at] = tag]
  /\ had' = [had EXCEPT ![at] = @ \cup {tag}]
  /\ since' = [u \in Thread |->
       IF pc[u] \in {"read", "store"} /\ Resolve(arg[u].idx) = at
       THEN since[u] \cup {tag} ELSE since[u]]
  /\ base' = [u \in Thread |-> IF u = t THEN base[u] ELSE NoBase]
  /\ patched' = [patched EXCEPT ![t] = @ + 1]
  /\ IF patched[t] + 1 = Len(arg[t].updates) THEN Return(t, Plain("ok")) ELSE GoTo(t, "patch")
  /\ UNCHANGED faults

PatchFails(t) ==
  /\ Return(t, Plain("failed"))
  /\ faults' = faults \/ Fault
  /\ UNCHANGED <<disk, patched, since, had, base>>

(* What every outcome of a patch has in common.                            *)
LEMMA PatchTagIs ==
  ASSUME ReadInv, NEW t \in Thread, PatchTag(t)
  PROVE  /\ pc[t] = "patch"
         /\ UNCHANGED <<cache, arg, decoded, calls>>
         /\ NextUpdate(t) = patched[t] + 1
         /\ NextUpdate(t) \in 1..Len(arg[t].updates)
         /\ patched[t] \in Nat /\ arg[t].updates \in Batch
         /\ arg[t].updates[NextUpdate(t)].tag \in Tag
         /\ LET at == Targets(arg[t].updates)[NextUpdate(t)]
            IN  \/ at \in Place /\ PatchWrites(t, at, arg[t].updates[NextUpdate(t)].tag)
                \/ PatchFails(t)
<1>1. /\ pc[t] = "patch" /\ UNCHANGED <<cache, arg, decoded, calls>>
  BY DEF PatchTag
<1>2. /\ patched[t] \in Nat /\ arg[t].updates \in Batch
      /\ patched[t] < Len(arg[t].updates)
  BY <1>1 DEF ReadInv, Types, TypeOK, BatchesChecked
<1>3. Len(arg[t].updates) \in Nat
  BY <1>2, BatchIs
<1>4. NextUpdate(t) = patched[t] + 1 /\ NextUpdate(t) \in 1..Len(arg[t].updates)
  BY <1>2, <1>3 DEF NextUpdate
<1>5. arg[t].updates[NextUpdate(t)].tag \in Tag
  BY <1>2, <1>4, BatchIs
<1>6. LET at == Targets(arg[t].updates)[NextUpdate(t)]
      IN  \/ at \in Place /\ PatchWrites(t, at, arg[t].updates[NextUpdate(t)].tag)
          \/ PatchFails(t)
  BY DEF PatchTag, PatchWrites, PatchFails
<1> QED BY <1>1, <1>2, <1>4, <1>5, <1>6

(* A tag is written: the disk, the cached copy and what the event has had  *)
(* agree.                                                                  *)
LEMMA PatchWritesKeeps ==
  ASSUME ReadInv, NEW t \in Thread, pc[t] = "patch", UNCHANGED <<cache, arg, decoded, calls>>,
         NEW at \in Place, NEW tag \in Tag, PatchWrites(t, at, tag),
         patched[t] < Len(arg[t].updates)
  PROVE  ReadInv'
<1>1. Types
  BY DEF ReadInv
<1>2. /\ disk' = [disk EXCEPT ![at] = tag]
      /\ had' = [had EXCEPT ![at] = @ \cup {tag}]
      /\ since' = [u \in Thread |->
           IF pc[u] \in {"read", "store"} /\ Resolve(arg[u].idx) = at
           THEN since[u] \cup {tag} ELSE since[u]]
      /\ base' = [u \in Thread |-> IF u = t THEN base[u] ELSE NoBase]
      /\ patched' = [patched EXCEPT ![t] = @ + 1]
      /\ faults' = faults
  BY DEF PatchWrites
<1>3. \E kind \in {"none", "ok"}, step \in {"idle", "patch"} :
        /\ answer' = [answer EXCEPT ![t] = Plain(kind)]
        /\ pc' = [pc EXCEPT ![t] = step]
        /\ step = "patch" => patched[t] + 1 # Len(arg[t].updates)
  BY DEF PatchWrites, Return, GoTo
<1>4. PICK kind \in {"none", "ok"}, step \in {"idle", "patch"} :
        /\ answer' = [answer EXCEPT ![t] = Plain(kind)]
        /\ pc' = [pc EXCEPT ![t] = step]
        /\ step = "patch" => patched[t] + 1 # Len(arg[t].updates)
  BY <1>3
<1>5. \A p \in Place : had[p] \subseteq had'[p] /\ had'[p] \in SUBSET Tag
  BY <1>1, <1>2 DEF Types, TypeOK
<1>6. \A u \in Thread : since[u] \subseteq since'[u] /\ since'[u] \in SUBSET Tag
  BY <1>1, <1>2 DEF Types
<1>7. Types'
  <2>1. answer' \in [Thread -> [kind: {"none", "event", "absent", "ok", "refused", "failed"},
                                at: Place \cup {Nowhere}, tag: Tag, hit: BOOLEAN]]
    BY <1>1, <1>4, PlainAnswer DEF Types
  <2>2. pc' \in [Thread -> {"idle", "read", "store", "open", "patch"}]
    BY <1>1, <1>4 DEF Types, TypeOK
  <2>3. disk' \in [Place -> Tag] /\ had' \in [Place -> SUBSET Tag]
    BY <1>1, <1>2, <1>5 DEF Types, TypeOK
  <2>4. base' \in [Thread -> [Place -> Tag] \cup {NoBase}]
    BY <1>1, <1>2 DEF Types
  <2>5. since' \in [Thread -> SUBSET Tag]
    BY <1>2, <1>6
  <2>6. patched' \in [Thread -> Nat]
    BY <1>1, <1>2 DEF Types, TypeOK
  <2> QED BY <1>1, <1>2, <2>1, <2>2, <2>3, <2>4, <2>5, <2>6 DEF Types, TypeOK
<1>8. CacheHonest'
  <2>1. cache.decoded \in DecodedRecord /\ Decodes(cache.decoded, had)
    BY <1>1 DEF Types, TypeOK, ReadInv, CacheHonest
  <2>2. Decodes(cache.decoded, had')
    BY <1>5, <2>1, DecodesMore
  <2> QED BY <2>2 DEF ReadInv, CacheHonest
<1>9. DiskHad'
  <2> SUFFICES ASSUME NEW p \in Place PROVE disk'[p] \in had'[p]
    BY DEF DiskHad
  <2>1. disk[p] \in had[p]
    BY DEF ReadInv, DiskHad
  <2> QED BY <1>1, <1>2, <2>1 DEF Types, TypeOK
<1>10. ReadsHonest'
  <2> SUFFICES ASSUME NEW u \in Thread
               PROVE  /\ pc'[u] \in {"read", "store"} => arg[u].idx < Total
                      /\ pc'[u] = "read" /\ Resolve(arg[u].idx) \in Place =>
                           disk'[Resolve(arg[u].idx)] \in since'[u]
                      /\ pc'[u] = "store" =>
                           /\ decoded[u].of = <<Resolve(arg[u].idx).file, Resolve(arg[u].idx).record>>
                           /\ Decodes(decoded[u], had')
                           /\ Resolve(arg[u].idx).event \in DOMAIN decoded[u].tags =>
                                decoded[u].tags[Resolve(arg[u].idx).event] \in since'[u]
    BY DEF ReadsHonest, Asked
  <2>1. CASE u = t
    BY <1>1, <1>4, <2>1 DEF Types, TypeOK
  <2>2. CASE u # t
    <3>1. pc'[u] = pc[u]
      BY <1>1, <1>4, <2>2 DEF Types, TypeOK
    <3>2. /\ pc[u] \in {"read", "store"} => arg[u].idx < Total
          /\ pc[u] = "read" /\ Resolve(arg[u].idx) \in Place =>
               disk[Resolve(arg[u].idx)] \in since[u]
          /\ pc[u] = "store" =>
               /\ decoded[u].of = <<Resolve(arg[u].idx).file, Resolve(arg[u].idx).record>>
               /\ Decodes(decoded[u], had)
               /\ Resolve(arg[u].idx).event \in DOMAIN decoded[u].tags =>
                    decoded[u].tags[Resolve(arg[u].idx).event] \in since[u]
      BY DEF ReadInv, ReadsHonest, Asked
    <3>3. pc[u] = "store" => Decodes(decoded[u], had')
      <4>1. decoded[u] \in DecodedRecord
        BY <1>1 DEF Types, TypeOK
      <4> QED BY <1>5, <3>2, <4>1, DecodesMore
    <3>4. pc[u] = "read" /\ Resolve(arg[u].idx) \in Place =>
            disk'[Resolve(arg[u].idx)] \in since'[u]
      <4> SUFFICES ASSUME pc[u] = "read", Resolve(arg[u].idx) \in Place
                   PROVE  disk'[Resolve(arg[u].idx)] \in since'[u]
        OBVIOUS
      <4>1. CASE Resolve(arg[u].idx) = at
        BY <1>1, <1>2, <4>1 DEF Types, TypeOK
      <4>2. CASE Resolve(arg[u].idx) # at
        BY <1>1, <1>2, <3>2, <4>2 DEF Types, TypeOK
      <4> QED BY <4>1, <4>2
    <3> QED BY <1>6, <3>1, <3>2, <3>3, <3>4
  <2> QED BY <2>1, <2>2
<1>11. BatchesChecked'
  <2> SUFFICES ASSUME NEW u \in Thread
               PROVE  /\ pc'[u] \in {"open", "patch"} =>
                           \A i \in DOMAIN arg[u].updates : Targets(arg[u].updates)[i] # Nowhere
                      /\ pc'[u] = "patch" =>
                           \A i \in DOMAIN arg[u].updates : Patchable(RecordOf(Targets(arg[u].updates)[i]))
                      /\ pc'[u] = "open" => patched'[u] = 0
                      /\ pc'[u] \in {"open", "patch"} => patched'[u] < Len(arg[u].updates)
    BY DEF BatchesChecked
  <2>1. CASE u = t
    <3>1. pc'[u] = step /\ patched'[u] = patched[u] + 1 /\ patched[u] \in Nat
      BY <1>1, <1>2, <1>4, <2>1 DEF Types, TypeOK
    <3>2. Len(arg[u].updates) \in Nat
      BY <1>1, BatchIs DEF Types
    <3>3. step = "patch" => patched'[u] < Len(arg[u].updates)
      BY <1>4, <2>1, <3>1, <3>2
    <3> QED BY <2>1, <3>1, <3>3 DEF ReadInv, BatchesChecked
  <2>2. CASE u # t
    <3>1. pc'[u] = pc[u] /\ patched'[u] = patched[u]
      BY <1>1, <1>2, <1>4, <2>2 DEF Types, TypeOK
    <3> QED BY <3>1 DEF ReadInv, BatchesChecked
  <2> QED BY <2>1, <2>2
<1>12. AnswersRight'
  <2> SUFFICES ASSUME NEW u \in Thread
               PROVE  AnswerRight(answer'[u], arg'[u].idx, had', since'[u], faults')
    BY DEF AnswersRight
  <2>1. CASE u = t
    <3>1. answer'[u] = Plain(kind)
      BY <1>1, <1>4, <2>1 DEF Types, TypeOK
    <3> QED BY <3>1, PlainAnswer
  <2>2. CASE u # t
    <3>1. answer'[u] = answer[u]
      BY <1>1, <1>4, <2>2 DEF Types, TypeOK
    <3>2. AnswerRight(answer[u], arg[u].idx, had, since[u], faults)
      BY DEF ReadInv, AnswersRight
    <3>3. answer[u].at \in Place \cup {Nowhere} /\ arg[u].idx \in Nat
      BY <1>1 DEF Types
    <3>4. AnswerRight(answer[u], arg[u].idx, had', since'[u], faults')
      BY <1>2, <1>5, <1>6, <3>2, <3>3, AnswerStaysRight
    <3> QED BY <3>1, <3>4
  <2> QED BY <2>1, <2>2
<1> QED BY <1>7, <1>8, <1>9, <1>10, <1>11, <1>12 DEF ReadInv

(* A patch that fails leaves the disk alone.                               *)
LEMMA PatchFailsKeeps ==
  ASSUME ReadInv, NEW t \in Thread, pc[t] = "patch", UNCHANGED <<cache, arg, decoded, calls>>,
         PatchFails(t)
  PROVE  ReadInv'
<1>1. Types
  BY DEF ReadInv
<1>2. /\ answer' = [answer EXCEPT ![t] = Plain("failed")]
      /\ pc' = [pc EXCEPT ![t] = "idle"]
      /\ UNCHANGED <<disk, patched, since, had, base>>
  BY DEF PatchFails, Return
<1>3. faults' \in 0..MaxFaults /\ (faults' = 0 => faults = 0)
  BY <1>1, ChainTagsAssumption DEF PatchFails, Fault, Types, TypeOK
<1>4. Types'
  <2>1. answer' \in [Thread -> [kind: {"none", "event", "absent", "ok", "refused", "failed"},
                                at: Place \cup {Nowhere}, tag: Tag, hit: BOOLEAN]]
    BY <1>1, <1>2, PlainAnswer DEF Types
  <2>2. pc' \in [Thread -> {"idle", "read", "store", "open", "patch"}]
    BY <1>1, <1>2 DEF Types, TypeOK
  <2> QED BY <1>1, <1>2, <1>3, <2>1, <2>2 DEF Types, TypeOK
<1>5. CacheHonest' /\ DiskHad'
  BY <1>2 DEF ReadInv, CacheHonest, DiskHad
<1>6. \A u \in Thread : pc'[u] = pc[u] \/ pc'[u] = "idle"
  BY <1>1, <1>2 DEF Types, TypeOK
<1>7. ReadsHonest'
  BY <1>2, <1>6 DEF ReadInv, ReadsHonest, Asked
<1>8. BatchesChecked'
  BY <1>2, <1>6 DEF ReadInv, BatchesChecked
<1>9. AnswersRight'
  <2> SUFFICES ASSUME NEW u \in Thread
               PROVE  AnswerRight(answer'[u], arg'[u].idx, had', since'[u], faults')
    BY DEF AnswersRight
  <2>1. CASE u = t
    <3>1. answer'[u] = Plain("failed")
      BY <1>1, <1>2, <2>1 DEF Types, TypeOK
    <3> QED BY <3>1, PlainAnswer
  <2>2. CASE u # t
    <3>1. answer'[u] = answer[u]
      BY <1>1, <1>2, <2>2 DEF Types, TypeOK
    <3>2. AnswerRight(answer[u], arg[u].idx, had, since[u], faults)
      BY DEF ReadInv, AnswersRight
    <3>3. answer[u].at \in Place \cup {Nowhere} /\ arg[u].idx \in Nat
      BY <1>1 DEF Types
    <3>4. AnswerRight(answer[u], arg[u].idx, had, since[u], faults')
      BY <1>3, <3>2, <3>3, AnswerStaysRight
    <3> QED BY <1>2, <3>1, <3>4
  <2> QED BY <2>1, <2>2
<1> QED BY <1>4, <1>5, <1>7, <1>8, <1>9 DEF ReadInv

(* The two together.                                                       *)
LEMMA PatchTagKeeps ==
  ASSUME ReadInv, NEW t \in Thread, PatchTag(t)
  PROVE  ReadInv'
<1>1. /\ pc[t] = "patch" /\ UNCHANGED <<cache, arg, decoded, calls>>
      /\ arg[t].updates[NextUpdate(t)].tag \in Tag
  BY PatchTagIs
<1>2. patched[t] < Len(arg[t].updates)
  BY <1>1 DEF ReadInv, BatchesChecked
<1> DEFINE at == Targets(arg[t].updates)[NextUpdate(t)]
           tag == arg[t].updates[NextUpdate(t)].tag
<1>3. \/ at \in Place /\ PatchWrites(t, at, tag)
      \/ PatchFails(t)
  BY PatchTagIs
<1> HIDE DEF at, tag
<1>4. CASE at \in Place /\ PatchWrites(t, at, tag)
  BY <1>1, <1>2, <1>4, PatchWritesKeeps DEF tag
<1>5. CASE PatchFails(t)
  BY <1>1, <1>5, PatchFailsKeeps
<1> QED BY <1>3, <1>4, <1>5
-----------------------------------------------------------------------------
(***************************************************************************)
(* What holds of every behaviour.                                          *)
(***************************************************************************)
LEMMA NextKeepsReadInv == ReadInv /\ [Next]_vars => ReadInv'
<1> SUFFICES ASSUME ReadInv, [Next]_vars PROVE ReadInv'
  OBVIOUS
<1>1. CASE UNCHANGED vars
  BY <1>1 DEF vars, ReadInv, Types, TypeOK, CacheHonest, DiskHad, ReadsHonest, Asked,
              BatchesChecked, AnswersRight
<1>2. CASE Next
  <2>1. PICK t \in Thread :
          \/ \E idx \in 0..Total : Event(t, idx)
          \/ ReadRecord(t)
          \/ StoreRecord(t)
          \/ \E updates \in Updates : SetEventTags(t, updates)
          \/ OpenLayouts(t)
          \/ PatchTag(t)
    BY <1>2 DEF Next
  <2>2. ASSUME NEW idx \in 0..Total, Event(t, idx) PROVE ReadInv'
    BY <2>2, EventKeeps
  <2>3. CASE ReadRecord(t)
    BY <2>3, ReadRecordKeeps
  <2>4. CASE StoreRecord(t)
    BY <2>4, StoreRecordKeeps
  <2>5. ASSUME NEW updates \in Updates, SetEventTags(t, updates) PROVE ReadInv'
    BY <2>5, SetEventTagsKeeps
  <2>6. CASE OpenLayouts(t)
    BY <2>6, OpenLayoutsKeeps
  <2>7. CASE PatchTag(t)
    BY <2>7, PatchTagKeeps
  <2> QED BY <2>1, <2>2, <2>3, <2>4, <2>5, <2>6, <2>7
<1> QED BY <1>1, <1>2

(* So it holds throughout.                                                 *)
LEMMA ReadInvAlways == Spec => []ReadInv
<1>1. ReadInv /\ [Next]_vars => ReadInv'
  BY NextKeepsReadInv
<1> QED BY <1>1, InitReadInv, PTL DEF Spec

(* The disk, the cache, the threads' places in their calls and what they   *)
(* carry keep their types.                                                 *)
THEOREM ChainTagsTypes == Spec => []TypeOK
<1>1. ReadInv => TypeOK
  BY DEF ReadInv, Types
<1> QED BY <1>1, ReadInvAlways, PTL

(* event(idx) answers with event idx of the chain counted through, and a   *)
(* tag that event has had, whatever other threads did to the cache and the *)
(* disk in between; it answers nothing only when there is no such event or *)
(* it cannot be read.                                                      *)
THEOREM EventsAreTheOnesAsked == Spec => []EventIsTheOneAsked
<1>1. ReadInv => EventIsTheOneAsked
  BY DEF ReadInv, AnswersRight, AnswerRight, EventIsTheOneAsked
<1> QED BY <1>1, ReadInvAlways, PTL
-----------------------------------------------------------------------------
(* A batch none of whose updates has been written.                         *)
LEMMA AppliedNone ==
  ASSUME NEW d \in [Place -> Tag], NEW updates
  PROVE  Applied(d, updates, 0) = d
<1>1. \A p : {i \in 1..0 : Targets(updates)[i] = p} = {}
  OBVIOUS
<1> QED BY <1>1 DEF Applied

(* One more update: its target has its tag, the other events theirs.       *)
LEMMA AppliedOneMore ==
  ASSUME NEW d \in [Place -> Tag], NEW updates \in Batch, NEW n \in Nat,
         n + 1 \in 1..Len(updates), NEW at \in Place, at = Targets(updates)[n + 1]
  PROVE  Applied(d, updates, n + 1) = [Applied(d, updates, n) EXCEPT ![at] = updates[n + 1].tag]
<1> DEFINE hits(p, m) == {i \in 1..m : Targets(updates)[i] = p}
           tagOf(p, m) == IF hits(p, m) = {} THEN d[p] ELSE updates[Max(hits(p, m))].tag
<1>1. \A m : Applied(d, updates, m) = [p \in Place |-> tagOf(p, m)]
  BY DEF Applied
<1>2. ASSUME NEW p \in Place, p # at PROVE hits(p, n + 1) = hits(p, n)
  <2>1. \A i \in 1..n + 1 : i \in 1..n \/ i = n + 1
    OBVIOUS
  <2> QED BY <1>2, <2>1
<1>3. tagOf(at, n + 1) = updates[n + 1].tag
  <2> DEFINE h == hits(at, n + 1)
  <2>1. n + 1 \in h /\ \A i \in h : i \in Nat /\ n + 1 >= i
    OBVIOUS
  <2>2. \A x \in h : (\A y \in h : x >= y) => x = n + 1
    BY <2>1
  <2> HIDE DEF h
  <2>3. Max(h) = n + 1
    BY <2>1, <2>2 DEF Max
  <2>4. h # {}
    BY <2>1
  <2> QED BY <2>3, <2>4 DEF h
<1>4. \A p \in Place : p # at => tagOf(p, n + 1) = tagOf(p, n)
  BY <1>2
<1> HIDE DEF tagOf
<1>5. [p \in Place |-> tagOf(p, n + 1)] = [[p \in Place |-> tagOf(p, n)] EXCEPT ![at] = updates[n + 1].tag]
  BY <1>3, <1>4
<1> QED BY <1>1, <1>5

(* BatchAppliesInOrder of one batch: b is the disk it began with, updates  *)
(* the batch, n how many are written, kind what the call returned.         *)
InOrder(b, updates, n, kind, d) ==
  b # NoBase =>
    /\ d = Applied(b, updates, n)
    /\ kind = "ok"      => n = Len(updates)
    /\ kind = "refused" => n = 0
    /\ kind = "failed"  => n < Len(updates)

(* The property, thread by thread.                                         *)
LEMMA InOrderAll ==
  BatchAppliesInOrder <=>
    \A t \in Thread : InOrder(base[t], arg[t].updates, patched[t], answer[t].kind, disk)
BY DEF BatchAppliesInOrder, InOrder

(* A step of a thread that writes nothing leaves the others' batches.      *)
LEMMA OthersInOrder ==
  ASSUME ReadInv, BatchAppliesInOrder, NEW t \in Thread, disk' = disk,
         \A u \in Thread : u # t =>
           base'[u] = base[u] /\ arg'[u] = arg[u] /\ patched'[u] = patched[u] /\ answer'[u] = answer[u],
         InOrder(base'[t], arg'[t].updates, patched'[t], answer'[t].kind, disk)
  PROVE  BatchAppliesInOrder'
<1>1. \A u \in Thread : InOrder(base[u], arg[u].updates, patched[u], answer[u].kind, disk)
  BY InOrderAll
<1>2. \A u \in Thread : InOrder(base'[u], arg'[u].updates, patched'[u], answer'[u].kind, disk')
  BY <1>1
<1> QED BY <1>2 DEF BatchAppliesInOrder, InOrder

(* Every step keeps the batches in order.                                  *)
LEMMA NextKeepsOrder ==
  ASSUME ReadInv, BatchAppliesInOrder, Next
  PROVE  BatchAppliesInOrder'
<1>1. PICK t \in Thread :
        \/ \E idx \in 0..Total : Event(t, idx)
        \/ ReadRecord(t)
        \/ StoreRecord(t)
        \/ \E updates \in Updates : SetEventTags(t, updates)
        \/ OpenLayouts(t)
        \/ PatchTag(t)
  BY DEF Next
<1>2. Types /\ BatchesChecked
  BY DEF ReadInv
<1>3. InOrder(base[t], arg[t].updates, patched[t], answer[t].kind, disk)
  BY InOrderAll
<1>4. ASSUME NEW kind, NEW at, NEW tag, NEW hit PROVE Answer(kind, at, tag, hit).kind = kind
  BY DEF Answer
<1>5. ASSUME NEW idx \in 0..Total, Event(t, idx) PROVE BatchAppliesInOrder'
  <2>1. /\ disk' = disk /\ patched' = patched
        /\ arg' = [arg EXCEPT ![t] = [idx |-> idx, updates |-> << >>]]
        /\ base' = [base EXCEPT ![t] = NoBase]
    BY <1>5 DEF Event, Call
  <2>2. \E a : answer' = [answer EXCEPT ![t] = a]
    BY <1>5 DEF Event, Return, GoTo
  <2>3. base'[t] = NoBase
    BY <1>2, <2>1 DEF Types
  <2>4. InOrder(base'[t], arg'[t].updates, patched'[t], answer'[t].kind, disk)
    BY <2>3 DEF InOrder
  <2>5. \A u \in Thread : u # t =>
          base'[u] = base[u] /\ arg'[u] = arg[u] /\ patched'[u] = patched[u] /\ answer'[u] = answer[u]
    BY <1>2, <2>1, <2>2 DEF Types
  <2> QED BY <2>1, <2>4, <2>5, OthersInOrder
<1>6. ASSUME ReadRecord(t) \/ StoreRecord(t) PROVE BatchAppliesInOrder'
  <2>1. UNCHANGED <<disk, patched, arg, base>>
    BY <1>6 DEF ReadRecord, StoreRecord
  <2>2. \E a : answer' = [answer EXCEPT ![t] = a] /\ a.kind \in {"none", "event", "absent"}
    <3>1. ASSUME NEW kind \in {"none", "event", "absent"} PROVE Plain(kind).kind = kind
      BY DEF Plain, Answer
    <3>2. CASE ReadRecord(t)
      BY <3>1, <3>2 DEF ReadRecord, Return, GoTo
    <3>3. CASE StoreRecord(t)
      <4> DEFINE at == Resolve(arg[t].idx)
                 a == EventOf(decoded[t], at, FALSE)
      <4>1. answer' = [answer EXCEPT ![t] = a]
        BY <3>3 DEF StoreRecord, Return
      <4>2. a.kind \in {"event", "absent"}
        BY DEF EventOf, Plain, Answer
      <4> QED BY <4>1, <4>2
    <3> QED BY <1>6, <3>2, <3>3
  <2>3. answer'[t].kind \in {"none", "event", "absent"}
    BY <1>2, <2>2 DEF Types
  <2>4. InOrder(base'[t], arg'[t].updates, patched'[t], answer'[t].kind, disk)
    BY <1>3, <2>1, <2>3 DEF InOrder
  <2>5. \A u \in Thread : u # t => answer'[u] = answer[u]
    BY <1>2, <2>2 DEF Types
  <2> QED BY <2>1, <2>4, <2>5, OthersInOrder
<1>7. ASSUME NEW updates \in Updates, SetEventTags(t, updates) PROVE BatchAppliesInOrder'
  <2>1. /\ disk' = disk
        /\ arg' = [arg EXCEPT ![t] = [idx |-> 0, updates |-> updates]]
        /\ base' = [base EXCEPT ![t] = disk]
        /\ patched' = [patched EXCEPT ![t] = 0]
    BY <1>7 DEF SetEventTags, Call
  <2>2. \E kind \in {"none", "ok", "refused"} :
          answer' = [answer EXCEPT ![t] = Plain(kind)] /\ (kind = "ok" => updates = << >>)
    <3>1. CASE \E i \in DOMAIN updates : Targets(updates)[i] = Nowhere
      BY <1>7, <3>1 DEF SetEventTags, Return
    <3>2. CASE ~(\E i \in DOMAIN updates : Targets(updates)[i] = Nowhere)
      <4>1. CASE updates = << >>
        BY <1>7, <3>2, <4>1 DEF SetEventTags, Return
      <4>2. CASE updates # << >>
        BY <1>7, <3>2, <4>2 DEF SetEventTags, GoTo
      <4> QED BY <4>1, <4>2
    <3> QED BY <3>1, <3>2
  <2>3. PICK kind \in {"none", "ok", "refused"} :
          answer' = [answer EXCEPT ![t] = Plain(kind)] /\ (kind = "ok" => updates = << >>)
    BY <2>2
  <2>4. /\ answer'[t].kind = kind /\ base'[t] = disk /\ patched'[t] = 0
        /\ arg'[t].updates = updates
    BY <1>2, <2>1, <2>3, PlainAnswer DEF Types, TypeOK
  <2>5. disk = Applied(disk, updates, 0)
    BY <1>2, AppliedNone DEF Types, TypeOK
  <2>6. InOrder(base'[t], arg'[t].updates, patched'[t], answer'[t].kind, disk)
    BY <2>3, <2>4, <2>5 DEF InOrder
  <2>7. \A u \in Thread : u # t =>
          base'[u] = base[u] /\ arg'[u] = arg[u] /\ patched'[u] = patched[u] /\ answer'[u] = answer[u]
    BY <1>2, <2>1, <2>3 DEF Types, TypeOK
  <2> QED BY <2>1, <2>6, <2>7, OthersInOrder
<1>8. ASSUME OpenLayouts(t) PROVE BatchAppliesInOrder'
  <2>1. UNCHANGED <<disk, patched, arg, base>> /\ patched[t] = 0
    BY <1>2, <1>8 DEF OpenLayouts, BatchesChecked
  <2>2. \E kind \in {"none", "refused"} : answer' = [answer EXCEPT ![t] = Plain(kind)]
    BY <1>8 DEF OpenLayouts, Return, GoTo
  <2>3. answer'[t].kind \in {"none", "refused"}
    BY <1>2, <2>2, PlainAnswer DEF Types
  <2>4. InOrder(base'[t], arg'[t].updates, patched'[t], answer'[t].kind, disk)
    BY <1>3, <2>1, <2>3 DEF InOrder
  <2>5. \A u \in Thread : u # t => answer'[u] = answer[u]
    BY <1>2, <2>2 DEF Types
  <2> QED BY <2>1, <2>4, <2>5, OthersInOrder
<1>9. ASSUME PatchTag(t) PROVE BatchAppliesInOrder'
  <2> DEFINE i   == NextUpdate(t)
             at  == Targets(arg[t].updates)[i]
             tag == arg[t].updates[i].tag
  <2>1. /\ pc[t] = "patch" /\ arg' = arg
        /\ i = patched[t] + 1 /\ i \in 1..Len(arg[t].updates)
        /\ patched[t] \in Nat /\ arg[t].updates \in Batch
        /\ \/ at \in Place /\ PatchWrites(t, at, tag)
           \/ PatchFails(t)
    BY <1>9, PatchTagIs
  <2> HIDE DEF i
  <2>2. CASE at \in Place /\ PatchWrites(t, at, tag)
    <3>1. /\ disk' = [disk EXCEPT ![at] = tag]
          /\ base' = [u \in Thread |-> IF u = t THEN base[u] ELSE NoBase]
          /\ patched' = [patched EXCEPT ![t] = @ + 1]
      BY <2>2 DEF PatchWrites
    <3>2. \E kind \in {"none", "ok"} :
            /\ answer' = [answer EXCEPT ![t] = Plain(kind)]
            /\ kind = "ok" => patched[t] + 1 = Len(arg[t].updates)
      BY <2>2 DEF PatchWrites, Return, GoTo
    <3>3. PICK kind \in {"none", "ok"} :
            /\ answer' = [answer EXCEPT ![t] = Plain(kind)]
            /\ kind = "ok" => patched[t] + 1 = Len(arg[t].updates)
      BY <3>2
    <3>4. answer'[t].kind = kind /\ base'[t] = base[t] /\ patched'[t] = patched[t] + 1
      BY <1>2, <3>1, <3>3, PlainAnswer DEF Types, TypeOK
    <3>5. ASSUME base[t] # NoBase PROVE disk' = Applied(base[t], arg[t].updates, patched[t] + 1)
      <4>1. base[t] \in [Place -> Tag]
        BY <1>2, <3>5 DEF Types
      <4>2. disk = Applied(base[t], arg[t].updates, patched[t])
        BY <1>3, <3>5 DEF InOrder
      <4>3. Applied(base[t], arg[t].updates, patched[t] + 1)
              = [Applied(base[t], arg[t].updates, patched[t]) EXCEPT ![at] = arg[t].updates[patched[t] + 1].tag]
        BY <2>1, <2>2, <4>1, AppliedOneMore
      <4> QED BY <2>1, <3>1, <4>2, <4>3
    <3>6. InOrder(base'[t], arg'[t].updates, patched'[t], answer'[t].kind, disk')
      BY <2>1, <3>3, <3>4, <3>5 DEF InOrder
    <3>7. \A u \in Thread : u # t => base'[u] = NoBase
      BY <3>1
    <3>8. \A u \in Thread : InOrder(base'[u], arg'[u].updates, patched'[u], answer'[u].kind, disk')
      BY <3>6, <3>7 DEF InOrder
    <3> QED BY <3>8 DEF BatchAppliesInOrder, InOrder
  <2>3. CASE PatchFails(t)
    <3>1. UNCHANGED <<disk, patched, base>> /\ answer' = [answer EXCEPT ![t] = Plain("failed")]
      BY <2>3 DEF PatchFails, Return
    <3>2. answer'[t].kind = "failed" /\ patched[t] < Len(arg[t].updates)
      BY <1>2, <2>1, <3>1, PlainAnswer DEF Types, BatchesChecked
    <3>3. InOrder(base'[t], arg'[t].updates, patched'[t], answer'[t].kind, disk)
      BY <1>3, <2>1, <3>1, <3>2 DEF InOrder
    <3>4. \A u \in Thread : u # t => answer'[u] = answer[u]
      BY <1>2, <3>1 DEF Types
    <3> QED BY <2>1, <3>1, <3>3, <3>4, OthersInOrder
  <2> QED BY <2>1, <2>2, <2>3
<1> QED BY <1>1, <1>5, <1>6, <1>7, <1>8, <1>9

(* Left alone, a batch writes its updates in order and nothing else, all   *)
(* of them when it succeeds, none when it is refused and a first part when *)
(* it fails on the way, for batches of any length in any number of threads.*)
THEOREM BatchesApplyInOrder == Spec => []BatchAppliesInOrder
<1>1. Init => BatchAppliesInOrder
  BY DEF Init, BatchAppliesInOrder
<1>2. ReadInv /\ BatchAppliesInOrder /\ [Next]_vars => BatchAppliesInOrder'
  <2> SUFFICES ASSUME ReadInv, BatchAppliesInOrder, [Next]_vars PROVE BatchAppliesInOrder'
    OBVIOUS
  <2>1. CASE Next
    BY <2>1, NextKeepsOrder
  <2>2. CASE UNCHANGED vars
    BY <2>2 DEF vars, BatchAppliesInOrder
  <2> QED BY <2>1, <2>2
<1> QED BY <1>1, <1>2, ReadInvAlways, PTL DEF Spec

(* Tags on disk change only under a batch every update of which names an   *)
(* event of the chain in an uncompressed record: the updates are validated *)
(* before the first is written.                                            *)
THEOREM OnlyValidBatchesTouchTheDisk == Spec => OnlyValidBatchesWrite
<1> DEFINE Valid ==
      \E t \in Thread :
        /\ pc[t] = "patch"
        /\ \A i \in DOMAIN arg[t].updates :
             /\ arg[t].updates[i].index < Total
             /\ RecordOf(Numbering[arg[t].updates[i].index + 1]).layout = "plain"
<1>1. ReadInv /\ [Next]_vars => (disk' # disk => Valid)
  <2> SUFFICES ASSUME ReadInv, [Next]_vars, disk' # disk PROVE Valid
    OBVIOUS
  <2>1. PICK t \in Thread : PatchTag(t)
    <3>1. Next
      BY DEF vars
    <3> QED BY <3>1 DEF Next, Event, Call, ReadRecord, StoreRecord, SetEventTags, OpenLayouts
  <2>2. pc[t] = "patch" /\ arg[t].updates \in Batch
    BY <2>1, PatchTagIs
  <2>3. ASSUME NEW i \in DOMAIN arg[t].updates
        PROVE  /\ arg[t].updates[i].index < Total
               /\ RecordOf(Numbering[arg[t].updates[i].index + 1]).layout = "plain"
    <3> DEFINE index == arg[t].updates[i].index
    <3>1. index \in Nat /\ Targets(arg[t].updates)[i] = Resolve(index)
      BY <2>2, BatchIs
    <3>2. /\ Targets(arg[t].updates)[i] # Nowhere
          /\ Patchable(RecordOf(Targets(arg[t].updates)[i]))
      BY <2>2 DEF ReadInv, BatchesChecked
    <3>3. index < Total /\ Resolve(index) = Numbering[index + 1]
      <4> HIDE DEF index
      <4>1. Total \in Nat
        BY OffsetSteps
      <4> QED BY <3>1, <3>2, <4>1, ResolvedPlace
    <3> QED BY <3>1, <3>2, <3>3 DEF Patchable
  <2> QED BY <2>2, <2>3
<1>2. ReadInv /\ [Next]_vars => [disk' # disk => Valid]_vars
  BY <1>1
<1> QED BY <1>2, ReadInvAlways, PTL DEF Spec, OnlyValidBatchesWrite
=============================================================================
