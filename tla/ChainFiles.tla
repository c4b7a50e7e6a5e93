----------------------------- MODULE ChainFiles -----------------------------
(***************************************************************************)
(* The files of a chain, for the modules that read it as a whole: each is  *)
(* written with its own dictionary and its own layouts, storage may damage *)
(* one record, and the chain is opened.                                    *)
(***************************************************************************)
EXTENDS ChainDict, FiniteSets

CONSTANT Inputs  \* the chains that may be written

(* A file: the schemas its writer was given, and its records; an event has *)
(* the form of SplitRecord's, its tag is the set of its bits.              *)
WrittenStructure == [id: Nat, header_size: Nat, data: Seq(Nat \X Nat \X Nat)]
WrittenRecord ==
  [layout: {"blob", "by_bank", "per_column"}, user_word: Nat,
   events: Seq([tag: SUBSET Nat, structures: Seq(WrittenStructure)])]

IsSequence(s) == s \in Seq(ToSet(s))

ASSUME ChainFilesAssumption ==
  \A input \in Inputs :
    /\ IsSequence(input)
    /\ \A f \in ToSet(input) :
         /\ IsSequence(f.adds) /\ f.records \in Seq(WrittenRecord)
         /\ \A schema \in ToSet(f.adds) : schema.cols # << >>

VARIABLES
  files,   \* the chain as it is to be written, fixed
  stored,  \* the records on the disk, of the files written so far
  phase,   \* "stored", then "open" or "refused"
  dict     \* the chain's dictionary

storage == <<files, stored, phase, dict>>

(* A file is written by its own dictionary, and read by the chain's.       *)
NextFile == files[Len(stored) + 1]
Written  == INSTANCE SplitRecord WITH Dict <- ColumnsById(DictOf(NextFile.adds))
Split    == INSTANCE BankReads WITH Dict <- ColumnsById(dict)

(* The chain's numbering, laid over the indexes of its files.              *)
Shapes ==
  [fi \in DOMAIN files |-> [ri \in DOMAIN files[fi].records |->
     [event_count |-> Len(files[fi].records[ri].events), passes |-> << >>,
      user_word |-> files[fi].records[ri].user_word,
      header_ok |-> TRUE, body_ok |-> TRUE, layout |-> "blob"]]]

Numbers == INSTANCE Chain WITH Files <- Shapes

FileDict(fi) == ReadBack(DictOf(files[fi].adds))

StoredRecord(r) ==
  [layout |-> r.layout, readable |-> TRUE,
   split |-> IF r.layout = "blob" THEN [event_tags |-> << >>, banks |-> << >>]
             ELSE Written!BuildRecord(r.events, r.layout, FALSE, FALSE, 0)]

StorageInit ==
  /\ files \in Inputs
  /\ stored = << >>
  /\ phase = "stored"
  /\ dict = EmptyDict

(* A writer's file: its records, in the layout each was built in.          *)
AllStored == Len(stored) = Len(files)

WriteFile ==
  /\ phase = "stored" /\ ~AllStored
  /\ stored' = Append(stored, [ri \in DOMAIN NextFile.records |-> StoredRecord(NextFile.records[ri])])
  /\ UNCHANGED <<files, phase, dict>>

(* External: storage damages one stream of a split record, or a record so  *)
(* that it cannot be read at all.                                          *)
StreamsOf(rec) == UNION {{b} \X DOMAIN rec.split.banks[b].streams : b \in DOMAIN rec.split.banks}
DamageAt(fi, ri) ==
  IF ~stored[fi][ri].readable THEN {"unreadable"}
  ELSE {stored[fi][ri].split.banks[s[1]].streams[s[2]].damage : s \in StreamsOf(stored[fi][ri])}
Damages ==
  UNION {UNION {DamageAt(fi, ri) : ri \in DOMAIN stored[fi]} : fi \in DOMAIN stored} \ {"none"}

DamageRecord(fi, ri) ==
  /\ phase = "stored" /\ AllStored /\ Damages = {}
  /\ \/ stored' = [stored EXCEPT ![fi][ri].readable = FALSE]
     \/ \E s \in StreamsOf(stored[fi][ri]), how \in {"undecodable", "changed"} :
          /\ stored[fi][ri].split.banks[s[1]].streams[s[2]].size > 0
          /\ stored' = [stored EXCEPT ![fi][ri].split.banks[s[1]].streams[s[2]].damage = how]
  /\ UNCHANGED <<files, phase, dict>>

(* Chain::from_paths and from_inners: the files, opened in any order, are  *)
(* kept in the order they were given; their dictionaries are united.       *)
OpenChain ==
  /\ phase = "stored" /\ AllStored
  /\ LET union == UnionDict([fi \in DOMAIN files |-> FileDict(fi)])
     IN  /\ phase' = IF union.ok THEN "open" ELSE "refused"
         /\ dict' = IF union.ok THEN union.dict ELSE dict
  /\ UNCHANGED <<files, stored>>

StorageNext ==
  \/ WriteFile
  \/ \E fi \in DOMAIN files : \E ri \in DOMAIN files[fi].records : DamageRecord(fi, ri)
  \/ OpenChain

BanksIn(rec, events, e) ==
  IF rec.layout = "blob" THEN Split!BanksOf(events[e].structures)
  ELSE {rec.split.banks[b].id : b \in {k \in DOMAIN rec.split.banks : e \in rec.split.banks[k].present}}

TagOf(rec, events, e) == IF rec.layout = "blob" THEN events[e].tag ELSE rec.split.event_tags[e]

EventsAt(t) == files[t.file].records[t.record].events
RecordAt(t) == stored[t.file][t.record]

(* An event passes the filter, as a dictionary understands it.             *)
Passes(t, e, filter, d) ==
  Check(Bind(filter, d), TagOf(RecordAt(t), EventsAt(t), e), BanksIn(RecordAt(t), EventsAt(t), e))

RecStart(fi, ri) == Numbers!file_event_offsets[fi] + Numbers!FirstEvent[fi][ri]
CountOf(fi, ri)  == Len(files[fi].records[ri].events)

-----------------------------------------------------------------------------
StorageTypeOK ==
  /\ files \in Inputs
  /\ phase \in {"stored", "open", "refused"}
  /\ phase = "open" => DOMAIN dict.by_name = {dict.schemas[i].name : i \in DOMAIN dict.schemas}

(* A chain that opens decodes every bank a file declares by that file's    *)
(* own schema, found by name or by the id its structures carry; one that   *)
(* is refused has two declarations that contradict each other, or more     *)
(* names than a dictionary has room for.                                   *)
UnionDecodesAsDeclared ==
  LET declared == UNION {ToSet(FileDict(fi).schemas) : fi \in DOMAIN files} IN
  /\ phase = "open" => \A s \in declared : Get(dict, s.name) = s /\ GetById(dict, s.id) = s
  /\ phase = "refused" =>
       \/ \E s, t \in declared : s # t /\ (s.name = t.name \/ s.id = t.id)
       \/ Cardinality({s.name : s \in declared}) > MaxSchemas

(* What was written: event g of the chain, and bank p of it.               *)
EventNumbered(g) ==
  LET at == Numbers!Resolve(g) IN files[at.file].records[at.record].events[at.event]

WrittenBank(g, p) ==
  LET found == Split!Found(EventNumbered(g).structures, p.id)
      bank == IF found = << >> THEN Split!NoRows(p) ELSE Split!Contiguous(p, found[1].data)
  IN  IF g >= Numbers!Total \/ bank = Split!Broken THEN Split!NoRows(p) ELSE bank
=============================================================================
