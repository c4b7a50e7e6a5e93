----------------------------- MODULE ChainDict -----------------------------
(***************************************************************************)
(* The dictionaries of a chain: how one is put together from schemas, how  *)
(* the chain's is made of its files', and how a filter's bank names become *)
(* ids by one of them.                                                     *)
(***************************************************************************)
EXTENDS Naturals, SequencesExt

CONSTANT MaxSchemas   \* the schemas a dictionary has ids for (65,536 in the code)

ASSUME ChainDictAssumption == MaxSchemas \in Nat

(* A schema is the name of a bank, its id (group and item) and its         *)
(* columns; a dictionary the schemas in the order they came, and the two   *)
(* indexes into them.                                                      *)
EmptyDict == [schemas |-> << >>, by_name |-> << >>, by_id |-> << >>]

Set(index, key, i) == [k \in DOMAIN index \cup {key} |-> IF k = key THEN i ELSE index[k]]

Absent == [name |-> "", id |-> 0, cols |-> << >>]

Get(dict, name) ==
  IF name \in DOMAIN dict.by_name THEN dict.schemas[dict.by_name[name]] ELSE Absent

GetById(dict, id) ==
  IF id \in DOMAIN dict.by_id THEN dict.schemas[dict.by_id[id]] ELSE Absent

(* What a look-up by id finds the columns of.                              *)
ColumnsById(dict) == [id \in DOMAIN dict.by_id |-> GetById(dict, id).cols]

HasRoom(dict, schema) == schema.name \in DOMAIN dict.by_name \/ Len(dict.schemas) < MaxSchemas

(* Dict::try_add.  A schema with a name that is there replaces it; the id  *)
(* the replaced one had stays in by_id.                                    *)
TryAdd(dict, schema) ==
  LET known == schema.name \in DOMAIN dict.by_name
      i == IF known THEN dict.by_name[schema.name] ELSE Len(dict.schemas) + 1
  IN  [schemas |-> IF known THEN [dict.schemas EXCEPT ![i] = schema]
                   ELSE Append(dict.schemas, schema),
       by_name |-> Set(dict.by_name, schema.name, i),
       by_id   |-> Set(dict.by_id, schema.id, i)]

(* What a writer is given, and what its file's dictionary record is read   *)
(* back as: the schemas that are left, added anew.                         *)
DictOf(schemas) ==
  LET after[n \in 0..Len(schemas)] ==
        IF n = 0 THEN EmptyDict ELSE TryAdd(after[n - 1], schemas[n])
  IN  after[Len(schemas)]
ReadBack(dict)  == DictOf(dict.schemas)

(***************************************************************************)
(* The union of the files' dictionaries, file by file: ids says who        *)
(* claimed an id.                                                          *)
(***************************************************************************)
(* Mutant of Contradicts: names are compared, ids are not.                 *)
ContradictsName(acc, schema) ==
  schema.name \in DOMAIN acc.dict.by_name /\ Get(acc.dict, schema.name) # schema

Contradicts(acc, schema) ==
  IF schema.name \in DOMAIN acc.dict.by_name
  THEN Get(acc.dict, schema.name) # schema
  ELSE schema.id \in DOMAIN acc.ids /\ acc.ids[schema.id] # schema.name

UnionStep(acc, schema) ==
  CASE ~acc.ok -> acc
    [] acc.ok /\ Contradicts(acc, schema) -> [acc EXCEPT !.ok = FALSE]
    [] acc.ok /\ ~Contradicts(acc, schema) /\ schema.name \in DOMAIN acc.dict.by_name -> acc
    [] OTHER -> [ok   |-> HasRoom(acc.dict, schema),
                 dict |-> IF HasRoom(acc.dict, schema) THEN TryAdd(acc.dict, schema) ELSE acc.dict,
                 ids  |-> Set(acc.ids, schema.id, schema.name)]

EmptyUnion == [ok |-> TRUE, dict |-> EmptyDict, ids |-> << >>]

UnionOf(schemas) ==
  LET after[n \in 0..Len(schemas)] ==
        IF n = 0 THEN EmptyUnion ELSE UnionStep(after[n - 1], schemas[n])
  IN  after[Len(schemas)]

UnionDict(dicts) == UnionOf(FlattenSeq([fi \in DOMAIN dicts |-> dicts[fi].schemas]))

(***************************************************************************)
(* Filters.  A tag is the set of its bits.                                 *)
(***************************************************************************)
IsActive(filter) ==
  filter.require # {} \/ filter.record_tags # {} \/ filter.event_tags # {} \/ filter.mask # {}

Validates(filter, dict) == \A name \in filter.require : name \in DOMAIN dict.by_name

(* Mutant of Bind: a name that is not declared is no requirement.          *)
BindLoosely(filter, dict) ==
  [ids |-> {Get(dict, name).id : name \in filter.require \cap DOMAIN dict.by_name},
   unsatisfiable |-> FALSE, event_tags |-> filter.event_tags, mask |-> filter.mask]

(* The filter as one dictionary understands it.  One that does not declare *)
(* a required bank makes it a filter that lets nothing pass.               *)
Bind(filter, dict) ==
  [ids |-> {Get(dict, name).id : name \in filter.require \cap DOMAIN dict.by_name},
   unsatisfiable |-> filter.require \ DOMAIN dict.by_name # {},
   event_tags |-> filter.event_tags, mask |-> filter.mask]

TagMatches(bound, tag) ==
  /\ bound.event_tags # {} => tag \in bound.event_tags
  /\ bound.mask # {} => tag \cap bound.mask # {}

(* check, check_by_bank, check_per_column: banks are those of the event.   *)
Check(bound, tag, banks) ==
  ~bound.unsatisfiable /\ TagMatches(bound, tag) /\ bound.ids \subseteq banks
=============================================================================
