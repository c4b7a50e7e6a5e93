--------------------------- MODULE PyWriterProofs ---------------------------
(***************************************************************************)
(* Proofs about the programs over an opened chain: the dictionary its      *)
(* files are read by, the handle that answers for an event, the events a   *)
(* program assembles, and the files the Python writer makes.               *)
(***************************************************************************)
EXTENDS PyWriter, SequenceTheorems, ListProofs
-----------------------------------------------------------------------------
(***************************************************************************)
(* Dictionaries, put together schema by schema.                            *)
(***************************************************************************)
(* after[n] is what the first n schemas come to, step by step from begun,  *)
(* as the recursive definitions of DictOf and UnionOf state it.            *)
IsDict(after, schemas, n) ==
  after = [k \in 0..n |-> IF k = 0 THEN EmptyDict ELSE TryAdd(after[k - 1], schemas[k])]
IsUnion(after, schemas, n) ==
  after = [k \in 0..n |-> IF k = 0 THEN EmptyUnion ELSE UnionStep(after[k - 1], schemas[k])]

(* There are such functions.                                               *)
LEMMA DictExists ==
  ASSUME NEW schemas, NEW n \in Nat
  PROVE  \E after : IsDict(after, schemas, n)
<1> DEFINE S == {m \in Nat : \E after : IsDict(after, schemas, m)}
<1>1. 0 \in S
  <2> DEFINE f0 == [k \in 0..0 |-> EmptyDict]
  <2>1. f0 = [k \in 0..0 |-> IF k = 0 THEN EmptyDict ELSE TryAdd(f0[k - 1], schemas[k])]
    OBVIOUS
  <2> HIDE DEF f0
  <2> QED BY <2>1 DEF IsDict
<1>2. ASSUME NEW m \in Nat, m \in S PROVE m + 1 \in S
  <2>1. PICK f : IsDict(f, schemas, m)
    BY <1>2
  <2> DEFINE g == [k \in 0..m + 1 |-> IF k = m + 1 THEN TryAdd(f[m], schemas[m + 1]) ELSE f[k]]
  <2>2. \A k \in 0..m : f[k] = IF k = 0 THEN EmptyDict ELSE TryAdd(f[k - 1], schemas[k])
    BY <2>1 DEF IsDict
  <2>3. ASSUME NEW k \in 0..m + 1
        PROVE  g[k] = IF k = 0 THEN EmptyDict ELSE TryAdd(g[k - 1], schemas[k])
    <3>1. CASE k = m + 1
      <4>1. k # 0 /\ k - 1 = m /\ m \in 0..m + 1 /\ m # m + 1
        BY <3>1
      <4> QED BY <3>1, <4>1
    <3>2. CASE k # m + 1
      <4>1. k \in 0..m /\ (k # 0 => k - 1 \in 0..m + 1 /\ k - 1 # m + 1)
        BY <3>2
      <4> QED BY <2>2, <3>2, <4>1
    <3> QED BY <3>1, <3>2
  <2>4. g = [k \in 0..m + 1 |-> g[k]]
    OBVIOUS
  <2> HIDE DEF g
  <2>5. IsDict(g, schemas, m + 1)
    BY <2>3, <2>4 DEF IsDict
  <2> QED BY <2>5
<1> HIDE DEF S
<1>3. n \in S
  BY <1>1, <1>2, Induction
<1> QED BY <1>3 DEF S

LEMMA UnionExists ==
  ASSUME NEW schemas, NEW n \in Nat
  PROVE  \E after : IsUnion(after, schemas, n)
<1> DEFINE S == {m \in Nat : \E after : IsUnion(after, schemas, m)}
<1>1. 0 \in S
  <2> DEFINE f0 == [k \in 0..0 |-> EmptyUnion]
  <2>1. f0 = [k \in 0..0 |-> IF k = 0 THEN EmptyUnion ELSE UnionStep(f0[k - 1], schemas[k])]
    OBVIOUS
  <2> HIDE DEF f0
  <2> QED BY <2>1 DEF IsUnion
<1>2. ASSUME NEW m \in Nat, m \in S PROVE m + 1 \in S
  <2>1. PICK f : IsUnion(f, schemas, m)
    BY <1>2
  <2> DEFINE g == [k \in 0..m + 1 |-> IF k = m + 1 THEN UnionStep(f[m], schemas[m + 1]) ELSE f[k]]
  <2>2. \A k \in 0..m : f[k] = IF k = 0 THEN EmptyUnion ELSE UnionStep(f[k - 1], schemas[k])
    BY <2>1 DEF IsUnion
  <2>3. ASSUME NEW k \in 0..m + 1
        PROVE  g[k] = IF k = 0 THEN EmptyUnion ELSE UnionStep(g[k - 1], schemas[k])
    <3>1. CASE k = m + 1
      <4>1. k # 0 /\ k - 1 = m /\ m \in 0..m + 1 /\ m # m + 1
        BY <3>1
      <4> QED BY <3>1, <4>1
    <3>2. CASE k # m + 1
      <4>1. k \in 0..m /\ (k # 0 => k - 1 \in 0..m + 1 /\ k - 1 # m + 1)
        BY <3>2
      <4> QED BY <2>2, <3>2, <4>1
    <3> QED BY <3>1, <3>2
  <2>4. g = [k \in 0..m + 1 |-> g[k]]
    OBVIOUS
  <2> HIDE DEF g
  <2>5. IsUnion(g, schemas, m + 1)
    BY <2>3, <2>4 DEF IsUnion
  <2> QED BY <2>5
<1> HIDE DEF S
<1>3. n \in S
  BY <1>1, <1>2, Induction
<1> QED BY <1>3 DEF S

LEMMA DictIs ==
  ASSUME NEW S, NEW schemas \in Seq(S)
  PROVE  \E after : IsDict(after, schemas, Len(schemas)) /\ DictOf(schemas) = after[Len(schemas)]
<1> DEFINE after == CHOOSE f : IsDict(f, schemas, Len(schemas))
<1>1. IsDict(after, schemas, Len(schemas))
  BY DictExists
<1>2. DictOf(schemas) = after[Len(schemas)]
  BY DEF DictOf, IsDict
<1> QED BY <1>1, <1>2

LEMMA UnionIs ==
  ASSUME NEW S, NEW schemas \in Seq(S)
  PROVE  \E after : IsUnion(after, schemas, Len(schemas)) /\ UnionOf(schemas) = after[Len(schemas)]
<1> DEFINE after == CHOOSE f : IsUnion(f, schemas, Len(schemas))
<1>1. IsUnion(after, schemas, Len(schemas))
  BY UnionExists
<1>2. UnionOf(schemas) = after[Len(schemas)]
  BY DEF UnionOf, IsUnion
<1> QED BY <1>1, <1>2

(* A dictionary in order: its names lead to its schemas, one each, and the *)
(* id of a schema leads to one.                                            *)
InOrder(d, S) ==
  /\ d = [schemas |-> d.schemas, by_name |-> d.by_name, by_id |-> d.by_id]
  /\ d.schemas \in Seq(S)
  /\ DOMAIN d.by_name = {d.schemas[i].name : i \in 1..Len(d.schemas)}
  /\ \A i \in 1..Len(d.schemas) : d.by_name[d.schemas[i].name] = i
  /\ \A i \in 1..Len(d.schemas) : d.schemas[i].id \in DOMAIN d.by_id
  /\ \A id \in DOMAIN d.by_id : d.by_id[id] \in 1..Len(d.schemas)

(* An id leads to the schema that has it, unless a schema was replaced.    *)
KeepsIds(d) == \A id \in DOMAIN d.by_id : GetById(d, id).id = id

LEMMA EmptyInOrder == ASSUME NEW S PROVE InOrder(EmptyDict, S) /\ KeepsIds(EmptyDict)
BY DEF InOrder, KeepsIds, EmptyDict

(* A schema is added behind the others.                                    *)
LEMMA NewInOrder ==
  ASSUME NEW S, NEW d, InOrder(d, S), NEW schema \in S, schema.name \notin DOMAIN d.by_name
  PROVE  /\ InOrder(TryAdd(d, schema), S)
         /\ DOMAIN TryAdd(d, schema).by_name = DOMAIN d.by_name \cup {schema.name}
         /\ KeepsIds(d) => KeepsIds(TryAdd(d, schema))
<1> DEFINE e == TryAdd(d, schema)
           n == Len(d.schemas)
<1>1. /\ e.schemas = Append(d.schemas, schema)
      /\ e.by_name = Set(d.by_name, schema.name, n + 1)
      /\ e.by_id = Set(d.by_id, schema.id, n + 1)
      /\ e = [schemas |-> e.schemas, by_name |-> e.by_name, by_id |-> e.by_id]
  BY DEF TryAdd
<1>2. /\ d.schemas \in Seq(S) /\ n \in Nat /\ n = Len(d.schemas)
      /\ DOMAIN d.by_name = {d.schemas[i].name : i \in 1..n}
      /\ \A i \in 1..n : d.by_name[d.schemas[i].name] = i
      /\ \A i \in 1..n : d.schemas[i].id \in DOMAIN d.by_id
      /\ \A id \in DOMAIN d.by_id : d.by_id[id] \in 1..n
  BY DEF InOrder
<1> HIDE DEF e, n
<1>3. /\ DOMAIN e.by_name = DOMAIN d.by_name \cup {schema.name}
      /\ e.by_name[schema.name] = n + 1
      /\ \A k \in DOMAIN d.by_name : e.by_name[k] = d.by_name[k]
  BY <1>1, <1>2 DEF Set
<1>4. /\ DOMAIN e.by_id = DOMAIN d.by_id \cup {schema.id}
      /\ e.by_id[schema.id] = n + 1
      /\ \A k \in DOMAIN d.by_id : k # schema.id => e.by_id[k] = d.by_id[k]
  BY <1>1 DEF Set
<1>5. /\ e.schemas \in Seq(S) /\ Len(e.schemas) = n + 1 /\ e.schemas[n + 1] = schema
      /\ \A i \in 1..n : e.schemas[i] = d.schemas[i]
  BY <1>1, <1>2
<1>6. DOMAIN e.by_name = {e.schemas[i].name : i \in 1..n + 1}
  <2>0. n + 1 \in 1..n + 1 /\ 1..n \subseteq 1..n + 1 /\ \A i \in 1..n + 1 : i = n + 1 \/ i \in 1..n
    BY <1>2
  <2>1. ASSUME NEW name \in DOMAIN e.by_name PROVE \E i \in 1..n + 1 : name = e.schemas[i].name
    <3>1. CASE name = schema.name
      BY <1>5, <2>0, <3>1
    <3>2. CASE name # schema.name
      <4>1. PICK i \in 1..n : name = d.schemas[i].name
        BY <1>2, <1>3, <3>2
      <4> QED BY <1>5, <2>0, <4>1
    <3> QED BY <3>1, <3>2
  <2>2. \A i \in 1..n : e.schemas[i].name \in DOMAIN e.by_name
    BY <1>2, <1>3, <1>5
  <2>3. \A i \in 1..n + 1 : e.schemas[i].name \in DOMAIN e.by_name
    BY <1>3, <1>5, <2>0, <2>2
  <2> QED BY <2>1, <2>3
<1>7. ASSUME NEW i \in 1..n + 1
      PROVE  e.by_name[e.schemas[i].name] = i /\ e.schemas[i].id \in DOMAIN e.by_id
  <2>1. CASE i = n + 1
    BY <1>3, <1>4, <1>5, <2>1
  <2>2. CASE i # n + 1
    <3>1. i \in 1..n
      BY <1>2, <2>2
    <3>2. e.schemas[i] = d.schemas[i] /\ d.schemas[i].name \in DOMAIN d.by_name
      BY <1>2, <1>5, <3>1
    <3>3. d.by_name[d.schemas[i].name] = i /\ d.schemas[i].id \in DOMAIN d.by_id
      BY <1>2, <3>1
    <3> QED BY <1>3, <1>4, <3>2, <3>3
  <2> QED BY <2>1, <2>2
<1>8. ASSUME NEW id \in DOMAIN e.by_id PROVE e.by_id[id] \in 1..n + 1
  BY <1>2, <1>4
<1>9. ASSUME KeepsIds(d), NEW id \in DOMAIN e.by_id PROVE GetById(e, id).id = id
  <2>1. CASE id = schema.id
    BY <1>4, <1>5, <2>1 DEF GetById
  <2>2. CASE id # schema.id
    <3>1. id \in DOMAIN d.by_id /\ e.by_id[id] = d.by_id[id] /\ d.by_id[id] \in 1..n
      BY <1>2, <1>4, <2>2
    <3>2. d.schemas[d.by_id[id]].id = id
      BY <1>9, <3>1 DEF KeepsIds, GetById
    <3> QED BY <1>5, <3>1, <3>2 DEF GetById
  <2> QED BY <2>1, <2>2
<1>10. InOrder(e, S)
  BY <1>1, <1>5, <1>6, <1>7, <1>8 DEF InOrder
<1> QED BY <1>3, <1>9, <1>10 DEF KeepsIds, e, n

(* Or takes the place of the one of its name.                              *)
LEMMA ReplacedInOrder ==
  ASSUME NEW S, NEW d, InOrder(d, S), NEW schema \in S, schema.name \in DOMAIN d.by_name
  PROVE  InOrder(TryAdd(d, schema), S)
<1> DEFINE e == TryAdd(d, schema)
           n == Len(d.schemas)
           at == d.by_name[schema.name]
<1>1. /\ at \in 1..n /\ e.schemas = [d.schemas EXCEPT ![at] = schema]
      /\ e.by_name = Set(d.by_name, schema.name, at)
      /\ e.by_id = Set(d.by_id, schema.id, at)
      /\ e = [schemas |-> e.schemas, by_name |-> e.by_name, by_id |-> e.by_id]
  <2>1. at \in 1..n
    BY DEF InOrder
  <2> QED BY <2>1 DEF TryAdd
<1>2. /\ d.schemas \in Seq(S) /\ n \in Nat /\ n = Len(d.schemas)
      /\ DOMAIN d.by_name = {d.schemas[i].name : i \in 1..n}
      /\ \A i \in 1..n : d.by_name[d.schemas[i].name] = i
      /\ \A i \in 1..n : d.schemas[i].id \in DOMAIN d.by_id
      /\ \A id \in DOMAIN d.by_id : d.by_id[id] \in 1..n
  BY DEF InOrder
<1>3. d.schemas[at].name = schema.name
  BY <1>2
<1> HIDE DEF e
<1>4. DOMAIN e.by_name = DOMAIN d.by_name /\ \A k \in DOMAIN d.by_name : e.by_name[k] = d.by_name[k]
  BY <1>1 DEF Set
<1>5. /\ DOMAIN e.by_id = DOMAIN d.by_id \cup {schema.id}
      /\ e.by_id[schema.id] = at
      /\ \A k \in DOMAIN d.by_id : k # schema.id => e.by_id[k] = d.by_id[k]
  BY <1>1 DEF Set
<1> HIDE DEF at, n
<1>6. /\ e.schemas \in Seq(S) /\ Len(e.schemas) = n /\ e.schemas[at] = schema
      /\ \A i \in 1..n : i # at => e.schemas[i] = d.schemas[i]
  BY <1>1, <1>2
<1>7. \A i \in 1..n : e.schemas[i].name = d.schemas[i].name
  BY <1>3, <1>6
<1>8. DOMAIN e.by_name = {e.schemas[i].name : i \in 1..n}
  <2>1. \A i \in 1..n : e.schemas[i].name \in DOMAIN d.by_name
    BY <1>2, <1>7
  <2>2. ASSUME NEW name \in DOMAIN d.by_name PROVE \E i \in 1..n : name = e.schemas[i].name
    <3>1. PICK i \in 1..n : name = d.schemas[i].name
      BY <1>2
    <3> QED BY <1>7, <3>1
  <2> QED BY <1>4, <2>1, <2>2
<1>9. ASSUME NEW i \in 1..n
      PROVE  e.by_name[e.schemas[i].name] = i /\ e.schemas[i].id \in DOMAIN e.by_id
  <2>1. e.schemas[i].name = d.schemas[i].name /\ d.schemas[i].name \in DOMAIN d.by_name
    BY <1>2, <1>7
  <2>2. e.by_name[e.schemas[i].name] = i
    BY <1>2, <1>4, <2>1
  <2>3. CASE i = at
    BY <1>5, <1>6, <2>2, <2>3
  <2>4. CASE i # at
    <3>1. e.schemas[i] = d.schemas[i] /\ d.schemas[i].id \in DOMAIN d.by_id
      BY <1>2, <1>6, <2>4
    <3> QED BY <1>5, <2>2, <3>1
  <2> QED BY <2>3, <2>4
<1>10. ASSUME NEW id \in DOMAIN e.by_id PROVE e.by_id[id] \in 1..n
  BY <1>1, <1>2, <1>5
<1> QED BY <1>1, <1>6, <1>8, <1>9, <1>10 DEF InOrder, e, n

(* What schemas put together come to is in order; without two of one name  *)
(* ids are kept.                                                           *)
LEMMA DictInOrder ==
  ASSUME NEW S, NEW schemas \in Seq(S)
  PROVE  /\ InOrder(DictOf(schemas), S)
         /\ (\A i, j \in 1..Len(schemas) : schemas[i].name = schemas[j].name => i = j) =>
              KeepsIds(DictOf(schemas))
<1>1. PICK after : IsDict(after, schemas, Len(schemas)) /\ DictOf(schemas) = after[Len(schemas)]
  BY DictIs
<1> DEFINE N == Len(schemas)
           distinct == \A i, j \in 1..N : schemas[i].name = schemas[j].name => i = j
           T == {m \in Nat : m <= N =>
                   /\ InOrder(after[m], S)
                   /\ DOMAIN after[m].by_name = {schemas[i].name : i \in 1..m}
                   /\ distinct => KeepsIds(after[m])}
<1>2. \A k \in 0..N : after[k] = IF k = 0 THEN EmptyDict ELSE TryAdd(after[k - 1], schemas[k])
  BY <1>1 DEF IsDict
<1>3. 0 \in T
  <2>1. after[0] = EmptyDict
    BY <1>2
  <2>2. DOMAIN EmptyDict.by_name = {schemas[i].name : i \in 1..0}
    BY DEF EmptyDict
  <2> QED BY <2>1, <2>2, EmptyInOrder
<1>4. ASSUME NEW m \in Nat, m \in T PROVE m + 1 \in T
  <2> SUFFICES ASSUME m + 1 <= N
               PROVE  /\ InOrder(after[m + 1], S)
                      /\ DOMAIN after[m + 1].by_name = {schemas[i].name : i \in 1..m + 1}
                      /\ distinct => KeepsIds(after[m + 1])
    OBVIOUS
  <2>1. /\ InOrder(after[m], S) /\ DOMAIN after[m].by_name = {schemas[i].name : i \in 1..m}
        /\ distinct => KeepsIds(after[m])
    BY <1>4
  <2>2. after[m + 1] = TryAdd(after[m], schemas[m + 1]) /\ schemas[m + 1] \in S
    <3>1. m + 1 \in 0..N /\ m + 1 # 0 /\ (m + 1) - 1 = m
      OBVIOUS
    <3> QED BY <1>2, <3>1
  <2>3. DOMAIN after[m].by_name \cup {schemas[m + 1].name} = {schemas[i].name : i \in 1..m + 1}
    BY <2>1
  <2>4. CASE schemas[m + 1].name \notin DOMAIN after[m].by_name
    <3>1. /\ InOrder(after[m + 1], S)
          /\ DOMAIN after[m + 1].by_name = DOMAIN after[m].by_name \cup {schemas[m + 1].name}
          /\ KeepsIds(after[m]) => KeepsIds(after[m + 1])
      BY <2>1, <2>2, <2>4, NewInOrder
    <3> QED BY <2>1, <2>3, <3>1
  <2>5. CASE schemas[m + 1].name \in DOMAIN after[m].by_name
    <3>1. InOrder(after[m + 1], S)
      BY <2>1, <2>2, <2>5, ReplacedInOrder
    <3>2. DOMAIN after[m + 1].by_name = DOMAIN after[m].by_name \cup {schemas[m + 1].name}
      BY <2>2 DEF TryAdd, Set
    <3>3. ~distinct
      <4>1. PICK i \in 1..m : schemas[i].name = schemas[m + 1].name
        BY <2>1, <2>5
      <4> QED BY <4>1
    <3> QED BY <2>3, <3>1, <3>2, <3>3
  <2> QED BY <2>4, <2>5
<1> HIDE DEF T
<1>5. N \in T /\ N \in Nat
  BY <1>3, <1>4, Induction
<1> QED BY <1>1, <1>5 DEF T

(* A dictionary read back is in order and keeps ids, whatever was written. *)
LEMMA ReadBackInOrder ==
  ASSUME NEW S, NEW d, InOrder(d, S)
  PROVE  InOrder(ReadBack(d), S) /\ KeepsIds(ReadBack(d))
<1>1. d.schemas \in Seq(S)
  BY DEF InOrder
<1>2. \A i, j \in 1..Len(d.schemas) : d.schemas[i].name = d.schemas[j].name => i = j
  BY DEF InOrder
<1> QED BY <1>1, <1>2, DictInOrder DEF ReadBack

(***************************************************************************)
(* The union of dictionaries.                                              *)
(***************************************************************************)
(* A union that was not given up is in order, leads from a name and from   *)
(* an id to the one schema there is of it, and has every schema met; one   *)
(* that was given up met two that contradict each other, or too many.      *)
OneEach(acc) ==
  /\ DOMAIN acc.ids = DOMAIN acc.dict.by_id
  /\ \A i \in 1..Len(acc.dict.schemas) :
       /\ acc.dict.by_id[acc.dict.schemas[i].id] = i
       /\ acc.ids[acc.dict.schemas[i].id] = acc.dict.schemas[i].name

Refusable(S) ==
  \/ \E s, t \in S : s # t /\ (s.name = t.name \/ s.id = t.id)
  \/ Cardinality({s.name : s \in S}) > MaxSchemas

Unites(acc, schemas, m, S) ==
  /\ acc = [ok |-> acc.ok, dict |-> acc.dict, ids |-> acc.ids] /\ acc.ok \in BOOLEAN
  /\ acc.ok => /\ InOrder(acc.dict, S) /\ KeepsIds(acc.dict) /\ OneEach(acc)
               /\ \A k \in 1..m : \E i \in 1..Len(acc.dict.schemas) : acc.dict.schemas[i] = schemas[k]
  /\ ~acc.ok => Refusable(S)

(* As many names as schemas, and one more.                                 *)
LEMMA ManyNames ==
  ASSUME NEW S, IsFiniteSet(S), NEW d, InOrder(d, S), NEW schema \in S,
         schema.name \notin DOMAIN d.by_name
  PROVE  Cardinality({s.name : s \in S}) > Len(d.schemas)
<1> DEFINE names == {s.name : s \in S}
           n == Len(d.schemas)
           f == [i \in 1..n |-> d.schemas[i].name]
<1>1. IsFiniteSet(names)
  <2> DEFINE g == [s \in S |-> s.name]
  <2>1. g \in Surjection(S, names)
    BY DEF Surjection
  <2> HIDE DEF g, names
  <2> QED BY <2>1, FS_Surjection
<1>2. d.schemas \in Seq(S) /\ n \in Nat
  BY DEF InOrder
<1>3. \A i \in 1..n : d.schemas[i].name \in DOMAIN d.by_name /\ d.by_name[d.schemas[i].name] = i
  BY DEF InOrder
<1>4. f \in Injection(1..n, names \ {schema.name})
  <2>1. ASSUME NEW i \in 1..n PROVE f[i] \in names \ {schema.name}
    <3>1. d.schemas[i] \in S
      BY <1>2
    <3> QED BY <1>3, <3>1
  <2>2. \A i, j \in 1..n : f[i] = f[j] => i = j
    BY <1>3
  <2>3. f \in [1..n -> names \ {schema.name}]
    BY <2>1
  <2> HIDE DEF f, n
  <2> QED BY <2>2, <2>3 DEF Injection, IsInjective
<1> HIDE DEF f, names
<1>5. IsFiniteSet(names \ {schema.name}) /\ schema.name \in names
  BY <1>1, FS_RemoveElement DEF names
<1>6. Cardinality(1..n) <= Cardinality(names \ {schema.name})
  BY <1>4, <1>5, FS_Injection
<1>7. Cardinality(1..n) = n
  BY <1>2, FS_Interval
<1>8. Cardinality(names \ {schema.name}) = Cardinality(names) - 1 /\ Cardinality(names) \in Nat
  BY <1>1, <1>5, FS_RemoveElement, FS_CardinalityType
<1> QED BY <1>2, <1>6, <1>7, <1>8 DEF names

LEMMA UnitesNone == ASSUME NEW schemas, NEW S PROVE Unites(EmptyUnion, schemas, 0, S)
BY EmptyInOrder DEF Unites, EmptyUnion, OneEach, EmptyDict

(* A schema that contradicts one there is.                                 *)
LEMMA ContradictsOne ==
  ASSUME NEW S, NEW acc, InOrder(acc.dict, S), KeepsIds(acc.dict), OneEach(acc),
         NEW schema \in S, Contradicts(acc, schema)
  PROVE  Refusable(S)
<1> DEFINE d == acc.dict
<1>1. \A i \in 1..Len(d.schemas) : d.schemas[i] \in S
  BY DEF InOrder
<1>2. CASE schema.name \in DOMAIN d.by_name
  <2>1. PICK i \in 1..Len(d.schemas) : d.schemas[i].name = schema.name
    BY <1>2 DEF InOrder
  <2>2. Get(d, schema.name) = d.schemas[i]
    BY <1>2, <2>1 DEF Get, InOrder
  <2>3. d.schemas[i] # schema
    BY <1>2, <2>2 DEF Contradicts
  <2> QED BY <1>1, <2>1, <2>3 DEF Refusable
<1>3. CASE schema.name \notin DOMAIN d.by_name
  <2>1. schema.id \in DOMAIN acc.ids /\ acc.ids[schema.id] # schema.name
    BY <1>3 DEF Contradicts
  <2>2. schema.id \in DOMAIN d.by_id
    BY <2>1 DEF OneEach
  <2>3. d.by_id[schema.id] \in 1..Len(d.schemas)
    BY <2>2 DEF InOrder
  <2>4. d.schemas[d.by_id[schema.id]].id = schema.id
    BY <2>2 DEF KeepsIds, GetById
  <2>5. acc.ids[schema.id] = d.schemas[d.by_id[schema.id]].name
    BY <2>3, <2>4 DEF OneEach
  <2> QED BY <1>1, <2>1, <2>3, <2>4, <2>5 DEF Refusable
<1> QED BY <1>2, <1>3

(* A schema whose name and id are new.                                     *)
LEMMA UnitesNew ==
  ASSUME NEW S, NEW acc, InOrder(acc.dict, S), KeepsIds(acc.dict), OneEach(acc),
         NEW schema \in S, schema.name \notin DOMAIN acc.dict.by_name, ~Contradicts(acc, schema),
         NEW to, to.dict = TryAdd(acc.dict, schema), to.ids = Set(acc.ids, schema.id, schema.name)
  PROVE  OneEach(to) /\ to.dict.schemas = Append(acc.dict.schemas, schema)
<1> DEFINE d == acc.dict
           e == to.dict
           n == Len(acc.dict.schemas)
<1>1. schema.id \notin DOMAIN d.by_id
  <2> SUFFICES ASSUME schema.id \in DOMAIN d.by_id PROVE FALSE
    OBVIOUS
  <2>1. d.by_id[schema.id] \in 1..Len(d.schemas)
    BY DEF InOrder
  <2>2. d.schemas[d.by_id[schema.id]].id = schema.id
    BY DEF KeepsIds, GetById
  <2>3. schema.id \in DOMAIN acc.ids /\ acc.ids[schema.id] = d.schemas[d.by_id[schema.id]].name
    BY <2>1, <2>2 DEF OneEach
  <2>4. d.schemas[d.by_id[schema.id]].name \in DOMAIN d.by_name
    BY <2>1 DEF InOrder
  <2> QED BY <2>3, <2>4 DEF Contradicts
<1>2. /\ e.schemas = Append(d.schemas, schema)
      /\ e.by_id = Set(d.by_id, schema.id, n + 1)
  BY DEF TryAdd
<1>3. /\ d.schemas \in Seq(S) /\ n \in Nat /\ n = Len(d.schemas)
      /\ \A i \in 1..n : d.schemas[i].id \in DOMAIN d.by_id
  BY DEF InOrder
<1>4. /\ DOMAIN acc.ids = DOMAIN d.by_id
      /\ \A i \in 1..n : d.by_id[d.schemas[i].id] = i /\ acc.ids[d.schemas[i].id] = d.schemas[i].name
  BY DEF OneEach
<1>5. to.ids = Set(acc.ids, schema.id, schema.name)
  OBVIOUS
<1> HIDE DEF e, d, n
<1>6. /\ e.schemas \in Seq(S) /\ Len(e.schemas) = n + 1 /\ e.schemas[n + 1] = schema
      /\ \A i \in 1..n : e.schemas[i] = d.schemas[i]
  BY <1>2, <1>3
<1>7. DOMAIN to.ids = DOMAIN e.by_id
  BY <1>2, <1>4, <1>5 DEF Set
<1>8. ASSUME NEW i \in 1..n + 1
      PROVE  e.by_id[e.schemas[i].id] = i /\ to.ids[e.schemas[i].id] = e.schemas[i].name
  <2>1. CASE i = n + 1
    <3>1. e.schemas[i] = schema
      BY <1>6, <2>1
    <3>2. e.by_id[schema.id] = n + 1 /\ to.ids[schema.id] = schema.name
      BY <1>2, <1>5 DEF Set
    <3> QED BY <2>1, <3>1, <3>2
  <2>2. CASE i # n + 1
    <3>1. i \in 1..n
      BY <1>3, <2>2
    <3>2. e.schemas[i] = d.schemas[i] /\ d.schemas[i].id \in DOMAIN d.by_id /\ d.schemas[i].id # schema.id
      BY <1>1, <1>3, <1>6, <3>1
    <3>3. /\ e.by_id[d.schemas[i].id] = d.by_id[d.schemas[i].id]
          /\ to.ids[d.schemas[i].id] = acc.ids[d.schemas[i].id]
      BY <1>2, <1>4, <1>5, <3>2 DEF Set
    <3> QED BY <1>4, <3>1, <3>2, <3>3
  <2> QED BY <2>1, <2>2
<1>9. Len(to.dict.schemas) = n + 1
  BY <1>6 DEF e
<1> QED BY <1>2, <1>7, <1>8, <1>9 DEF OneEach, e, d

LEMMA UnitesOneMore ==
  ASSUME NEW S, IsFiniteSet(S), NEW schemas \in Seq(S), NEW m \in Nat, m + 1 <= Len(schemas),
         NEW acc, Unites(acc, schemas, m, S)
  PROVE  Unites(UnionStep(acc, schemas[m + 1]), schemas, m + 1, S)
<1> DEFINE schema == schemas[m + 1]
           to == UnionStep(acc, schema)
           Met(d, k) == \E i \in 1..Len(d.schemas) : d.schemas[i] = schemas[k]
<1>1. schema \in S /\ \A k \in 1..m + 1 : k \in 1..m \/ k = m + 1
  OBVIOUS
<1>2. /\ acc = [ok |-> acc.ok, dict |-> acc.dict, ids |-> acc.ids] /\ acc.ok \in BOOLEAN
      /\ acc.ok => /\ InOrder(acc.dict, S) /\ KeepsIds(acc.dict) /\ OneEach(acc)
                   /\ \A k \in 1..m : Met(acc.dict, k)
      /\ ~acc.ok => Refusable(S)
  BY DEF Unites
<1> HIDE DEF schema, Met
<1>3. CASE ~acc.ok
  <2>1. to = acc
    BY <1>3 DEF UnionStep
  <2> QED BY <1>2, <1>3, <2>1 DEF Unites, schema
<1>4. CASE acc.ok /\ Contradicts(acc, schema)
  <2>1. to = [acc EXCEPT !.ok = FALSE]
    BY <1>4 DEF UnionStep
  <2>2. to = [ok |-> FALSE, dict |-> acc.dict, ids |-> acc.ids]
    BY <1>2, <2>1
  <2>3. Refusable(S)
    BY <1>1, <1>2, <1>4, ContradictsOne
  <2> HIDE DEF to
  <2> QED BY <2>2, <2>3 DEF Unites, to, schema
<1>5. CASE acc.ok /\ ~Contradicts(acc, schema) /\ schema.name \in DOMAIN acc.dict.by_name
  <2>1. to = acc
    BY <1>5 DEF UnionStep
  <2>2. Get(acc.dict, schema.name) = schema
    BY <1>5 DEF Contradicts
  <2>3. Met(acc.dict, m + 1)
    <3>1. acc.dict.by_name[schema.name] \in 1..Len(acc.dict.schemas)
      BY <1>2, <1>5 DEF InOrder
    <3> QED BY <1>5, <2>2, <3>1 DEF Get, Met, schema
  <2>4. \A k \in 1..m + 1 : Met(acc.dict, k)
    BY <1>1, <1>2, <1>5, <2>3
  <2> QED BY <1>2, <1>5, <2>1, <2>4 DEF Unites, Met, schema
<1>6. CASE acc.ok /\ ~Contradicts(acc, schema) /\ schema.name \notin DOMAIN acc.dict.by_name
  <2>1. to = [ok   |-> HasRoom(acc.dict, schema),
              dict |-> IF HasRoom(acc.dict, schema) THEN TryAdd(acc.dict, schema) ELSE acc.dict,
              ids  |-> Set(acc.ids, schema.id, schema.name)]
    BY <1>6 DEF UnionStep
  <2>2. HasRoom(acc.dict, schema) \in BOOLEAN
    BY DEF HasRoom
  <2> HIDE DEF to
  <2>3. CASE HasRoom(acc.dict, schema)
    <3>1. to.dict = TryAdd(acc.dict, schema) /\ to.ids = Set(acc.ids, schema.id, schema.name) /\ to.ok
      BY <2>1, <2>3
    <3>2. InOrder(to.dict, S) /\ KeepsIds(to.dict)
      BY <1>1, <1>2, <1>6, <3>1, NewInOrder
    <3>3. OneEach(to) /\ to.dict.schemas = Append(acc.dict.schemas, schema)
      BY <1>1, <1>2, <1>6, <3>1, UnitesNew
    <3>4. /\ acc.dict.schemas \in Seq(S) /\ Len(to.dict.schemas) = Len(acc.dict.schemas) + 1
          /\ to.dict.schemas[Len(acc.dict.schemas) + 1] = schema
          /\ \A i \in 1..Len(acc.dict.schemas) : to.dict.schemas[i] = acc.dict.schemas[i]
      <4>1. acc.dict.schemas \in Seq(S)
        BY <1>2, <1>6 DEF InOrder
      <4> QED BY <1>1, <3>3, <4>1
    <3>5. ASSUME NEW k \in 1..m + 1 PROVE Met(to.dict, k)
      <4>1. CASE k = m + 1
        BY <3>4, <4>1 DEF Met, schema
      <4>2. CASE k \in 1..m
        <5>1. PICK i \in 1..Len(acc.dict.schemas) : acc.dict.schemas[i] = schemas[k]
          BY <1>2, <1>6, <4>2 DEF Met
        <5> QED BY <3>4, <5>1 DEF Met
      <4> QED BY <1>1, <4>1, <4>2
    <3>6. to = [ok |-> to.ok, dict |-> to.dict, ids |-> to.ids]
      BY <2>1
    <3> QED BY <2>1, <2>2, <3>1, <3>2, <3>3, <3>5, <3>6 DEF Unites, Met, to, schema
  <2>4. CASE ~HasRoom(acc.dict, schema)
    <3>1. Len(acc.dict.schemas) \in Nat /\ Len(acc.dict.schemas) >= MaxSchemas
      BY <1>2, <1>6, <2>4, ChainDictAssumption DEF HasRoom, InOrder
    <3>2. Cardinality({s.name : s \in S}) > Len(acc.dict.schemas)
      BY <1>1, <1>2, <1>6, ManyNames
    <3>3. Cardinality({s.name : s \in S}) \in Nat
      <4> DEFINE names == {s.name : s \in S}
                 g == [s \in S |-> s.name]
      <4>1. g \in Surjection(S, names)
        BY DEF Surjection
      <4> HIDE DEF g, names
      <4>2. IsFiniteSet(names)
        BY <4>1, FS_Surjection
      <4> QED BY <4>2, FS_CardinalityType DEF names
    <3>4. Refusable(S)
      BY <3>1, <3>2, <3>3, ChainDictAssumption DEF Refusable
    <3>5. to = [ok |-> to.ok, dict |-> to.dict, ids |-> to.ids]
      BY <2>1
    <3>6. to.ok = HasRoom(acc.dict, schema)
      BY <2>1
    <3>7. to.ok \in BOOLEAN /\ ~to.ok
      BY <2>2, <2>4, <3>6, Zenon
    <3> QED BY <3>4, <3>5, <3>7 DEF Unites, to, schema
  <2> QED BY <2>3, <2>4
<1> QED BY <1>2, <1>3, <1>4, <1>5, <1>6

LEMMA UnionUnites ==
  ASSUME NEW S, IsFiniteSet(S), NEW schemas \in Seq(S)
  PROVE  Unites(UnionOf(schemas), schemas, Len(schemas), S)
<1>1. PICK after : IsUnion(after, schemas, Len(schemas)) /\ UnionOf(schemas) = after[Len(schemas)]
  BY UnionIs
<1> DEFINE T == {m \in Nat : m <= Len(schemas) => Unites(after[m], schemas, m, S)}
<1>2. \A k \in 0..Len(schemas) :
        after[k] = IF k = 0 THEN EmptyUnion ELSE UnionStep(after[k - 1], schemas[k])
  BY <1>1 DEF IsUnion
<1>3. 0 \in T
  BY <1>2, UnitesNone
<1>4. ASSUME NEW m \in Nat, m \in T PROVE m + 1 \in T
  <2> SUFFICES ASSUME m + 1 <= Len(schemas) PROVE Unites(after[m + 1], schemas, m + 1, S)
    OBVIOUS
  <2>1. Unites(after[m], schemas, m, S)
    BY <1>4
  <2>2. after[m + 1] = UnionStep(after[m], schemas[m + 1])
    <3>1. m + 1 \in 0..Len(schemas) /\ m + 1 # 0 /\ (m + 1) - 1 = m
      OBVIOUS
    <3> QED BY <1>2, <3>1
  <2> QED BY <2>1, <2>2, UnitesOneMore
<1> HIDE DEF T
<1>5. Len(schemas) \in T
  BY <1>3, <1>4, Induction
<1> QED BY <1>1, <1>5 DEF T

(***************************************************************************)
(* The chain's dictionary.                                                 *)
(***************************************************************************)
StorageSpec == StorageInit /\ [][StorageNext]_storage

Declared == UNION {ToSet(FileDict(fi).schemas) : fi \in DOMAIN files}
Union    == UnionDict([fi \in DOMAIN files |-> FileDict(fi)])

(* The dictionary of a chain that is open is the union of its files'.      *)
StorageInv ==
  /\ files \in Inputs
  /\ phase \in {"stored", "open", "refused"}
  /\ phase = "open" => Union.ok /\ dict = Union.dict
  /\ phase = "refused" => ~Union.ok

LEMMA FilesAre ==
  ASSUME files \in Inputs
  PROVE  /\ files \in Seq(ToSet(files))
         /\ \A fi \in DOMAIN files :
              /\ files[fi].adds \in Seq(ToSet(files[fi].adds))
              /\ files[fi].records \in Seq(WrittenRecord)
<1>1. files \in Seq(ToSet(files))
  BY ChainFilesAssumption DEF IsSequence
<1>2. \A fi \in DOMAIN files : files[fi] \in ToSet(files)
  BY DEF ToSet
<1> QED BY <1>1, <1>2, ChainFilesAssumption DEF IsSequence

LEMMA FileDictIs ==
  ASSUME files \in Inputs, NEW fi \in DOMAIN files
  PROVE  InOrder(FileDict(fi), ToSet(files[fi].adds)) /\ KeepsIds(FileDict(fi))
<1>1. InOrder(DictOf(files[fi].adds), ToSet(files[fi].adds))
  BY FilesAre, DictInOrder
<1> QED BY <1>1, ReadBackInOrder DEF FileDict

(* The schemas of the files' dictionaries, one file's behind another's.    *)
LEMMA DeclaredIs ==
  ASSUME files \in Inputs
  PROVE  /\ IsFiniteSet(Declared)
         /\ \E schemas \in Seq(Declared) :
              /\ Union = UnionOf(schemas)
              /\ \A s \in Declared : \E k \in 1..Len(schemas) : schemas[k] = s
<1> DEFINE n == Len(files)
           dicts == [fi \in DOMAIN files |-> FileDict(fi)]
           seqs == [fi \in DOMAIN dicts |-> dicts[fi].schemas]
           all == FlattenSeq(seqs)
           c == [i \in 1..n |-> Len(seqs[i])]
<1>1. n \in Nat /\ DOMAIN files = 1..n
  BY FilesAre
<1>2. ASSUME NEW fi \in 1..n PROVE FileDict(fi).schemas \in Seq(Declared)
  <2>1. FileDict(fi).schemas \in Seq(ToSet(files[fi].adds))
    BY <1>1, FileDictIs DEF InOrder
  <2>2. \A k \in 1..Len(FileDict(fi).schemas) : FileDict(fi).schemas[k] \in Declared
    BY <1>1, <2>1 DEF Declared, ToSet
  <2> QED BY <2>1, <2>2
<1>3. seqs \in [1..n -> Seq(Declared)] /\ \A fi \in 1..n : seqs[fi] = FileDict(fi).schemas
  BY <1>1, <1>2
<1> HIDE DEF seqs
<1>4. c \in [1..n -> Nat]
  BY <1>3
<1>5. PICK f : IsTotal(f, c, n)
  <2> HIDE DEF c
  <2> QED BY <1>1, <1>4, TotalExists
<1>6. Places(all, seqs, f, n, Declared)
  BY <1>1, <1>3, <1>5, Flattened
<1>7. all \in Seq(Declared)
  BY <1>6 DEF Places
<1>8. ASSUME NEW s \in Declared PROVE \E k \in 1..Len(all) : all[k] = s
  <2>1. PICK fi \in 1..n : s \in ToSet(FileDict(fi).schemas)
    BY <1>1 DEF Declared
  <2>2. PICK j \in 1..Len(seqs[fi]) : seqs[fi][j] = s
    BY <1>3, <2>1 DEF ToSet
  <2>3. all[f[fi] + j] = s
    BY <1>6, <2>2 DEF Places
  <2>4. f[fi] + j \in 1..Len(all)
    <3>1. f[fi + 1] <= f[n + 1] /\ f[fi + 1] = f[fi] + c[fi] /\ f[fi] \in Nat /\ f[n + 1] \in Nat
      <4>1. fi \in 1..n /\ fi + 1 \in 1..n + 1 /\ n + 1 \in 1..n + 1 /\ fi + 1 <= n + 1 /\ fi \in 1..n + 1
        BY <1>1
      <4>2. f \in [1..n + 1 -> Nat] /\ \A i \in 1..n : f[i + 1] = f[i] + c[i]
        BY <1>1, <1>4, <1>5, TotalSteps
      <4>3. f[fi + 1] <= f[n + 1]
        BY <1>1, <1>4, <1>5, <4>1, TotalMonotone
      <4> QED BY <4>1, <4>2, <4>3
    <3>2. Len(all) = f[n + 1] /\ c[fi] = Len(seqs[fi]) /\ Len(seqs[fi]) \in Nat
      BY <1>3, <1>6 DEF Places
    <3> QED BY <3>1, <3>2
  <2> QED BY <2>3, <2>4
<1>9. Union = UnionOf(all)
  BY DEF Union, UnionDict, seqs
<1> HIDE DEF all
<1>10. IsFiniteSet(Declared)
  <2>1. IsFiniteSet(1..Len(all))
    BY <1>7, FS_Interval
  <2> DEFINE g == [k \in 1..Len(all) |-> all[k]]
  <2>2. g \in Surjection(1..Len(all), Declared)
    BY <1>7, <1>8 DEF Surjection
  <2> HIDE DEF g
  <2> QED BY <2>1, <2>2, FS_Surjection
<1> QED BY <1>7, <1>8, <1>9, <1>10

(* What the union comes to.                                                *)
LEMMA UnionIsIn ==
  ASSUME files \in Inputs
  PROVE  /\ Union.ok \in BOOLEAN
         /\ Union.ok => /\ InOrder(Union.dict, Declared) /\ KeepsIds(Union.dict)
                        /\ \A s \in Declared : Get(Union.dict, s.name) = s /\ GetById(Union.dict, s.id) = s
         /\ ~Union.ok => Refusable(Declared)
<1>1. PICK schemas \in Seq(Declared) :
        Union = UnionOf(schemas) /\ \A s \in Declared : \E k \in 1..Len(schemas) : schemas[k] = s
  BY DeclaredIs
<1>2. Unites(Union, schemas, Len(schemas), Declared)
  BY <1>1, DeclaredIs, UnionUnites
<1> DEFINE d == Union.dict
<1>3. ASSUME Union.ok, NEW s \in Declared PROVE Get(d, s.name) = s /\ GetById(d, s.id) = s
  <2>1. PICK k \in 1..Len(schemas) : schemas[k] = s
    BY <1>1
  <2>2. PICK i \in 1..Len(d.schemas) : d.schemas[i] = s
    BY <1>2, <1>3, <2>1 DEF Unites
  <2>3. InOrder(d, Declared) /\ OneEach(Union)
    BY <1>2, <1>3 DEF Unites
  <2>4. s.name \in DOMAIN d.by_name /\ d.by_name[s.name] = i
    BY <2>2, <2>3 DEF InOrder
  <2>5. s.id \in DOMAIN d.by_id /\ d.by_id[s.id] = i
    BY <2>2, <2>3 DEF InOrder, OneEach
  <2> QED BY <2>2, <2>4, <2>5 DEF Get, GetById
<1> QED BY <1>2, <1>3 DEF Unites

LEMMA StorageInvInit == StorageInit => StorageInv
BY DEF StorageInit, StorageInv

LEMMA StorageInvNext == StorageInv /\ [StorageNext]_storage => StorageInv'
<1> SUFFICES ASSUME StorageInv, [StorageNext]_storage PROVE StorageInv'
  OBVIOUS
<1>1. files' = files
  BY DEF StorageNext, WriteFile, DamageRecord, OpenChain, storage
<1>2. Union' = Union
  BY <1>1 DEF Union, FileDict
<1>3. CASE OpenChain
  <2>1. /\ phase' = IF Union.ok THEN "open" ELSE "refused"
        /\ dict' = IF Union.ok THEN Union.dict ELSE dict
    BY <1>3 DEF OpenChain, Union
  <2> HIDE DEF Union
  <2>2. phase' = "open" => Union.ok
    BY <2>1
  <2>3. phase' = "refused" => ~Union.ok
    BY <2>1
  <2> QED BY <1>1, <1>2, <2>1, <2>2, <2>3 DEF StorageInv
<1>4. CASE phase' = phase /\ dict' = dict
  BY <1>1, <1>2, <1>4 DEF StorageInv
<1> QED BY <1>3, <1>4 DEF StorageNext, WriteFile, DamageRecord, storage

LEMMA StorageInvDecodes == StorageInv => UnionDecodesAsDeclared
<1> SUFFICES ASSUME StorageInv PROVE UnionDecodesAsDeclared
  OBVIOUS
<1>1. files \in Inputs
  BY DEF StorageInv
<1>2. phase = "open" => \A s \in Declared : Get(dict, s.name) = s /\ GetById(dict, s.id) = s
  BY <1>1, UnionIsIn DEF StorageInv
<1>3. phase = "refused" => Refusable(Declared)
  BY <1>1, UnionIsIn DEF StorageInv
<1> QED BY <1>2, <1>3 DEF UnionDecodesAsDeclared, Declared, Refusable

(* Whatever files it is made of, a chain that opens decodes every bank by  *)
(* the schema its file declares, by name and by id, and one that is        *)
(* refused has two schemas that contradict each other, or more names than  *)
(* there is room for (Chain::from_paths, union_dict); so in every run of   *)
(* the programs and of the bulk reads, whose steps are of the storage or   *)
(* leave it alone.                                                         *)
THEOREM DictionariesUnite == StorageSpec => []UnionDecodesAsDeclared
<1>1. StorageInit => StorageInv
  BY StorageInvInit
<1>2. StorageInv /\ [StorageNext]_storage => StorageInv'
  BY StorageInvNext
<1>3. StorageInv => UnionDecodesAsDeclared
  BY StorageInvDecodes
<1> QED BY <1>1, <1>2, <1>3, PTL DEF StorageSpec

(***************************************************************************)
(* Where events are.                                                       *)
(***************************************************************************)
Counting == INSTANCE ChainProofs WITH Files <- Shapes

Place(at) ==
  /\ at.file \in DOMAIN files /\ at.record \in DOMAIN files[at.file].records
  /\ at.event \in DOMAIN EventsAt(at)

(* The shapes the numbering is laid over.                                  *)
LEMMA RecordsAre ==
  ASSUME files \in Inputs, NEW fi \in DOMAIN files
  PROVE  /\ files[fi].records \in Seq(WrittenRecord)
         /\ \A ri \in DOMAIN files[fi].records :
              /\ files[fi].records[ri] \in WrittenRecord
              /\ Len(files[fi].records[ri].events) \in Nat
              /\ DOMAIN files[fi].records[ri].events = 1..Len(files[fi].records[ri].events)
<1>1. files[fi].records \in Seq(WrittenRecord)
  BY FilesAre
<1>2. \A ri \in DOMAIN files[fi].records : files[fi].records[ri] \in WrittenRecord
  BY <1>1
<1>3. \A r \in WrittenRecord : Len(r.events) \in Nat /\ DOMAIN r.events = 1..Len(r.events)
  BY DEF WrittenRecord
<1> QED BY <1>1, <1>2, <1>3

LEMMA ShapesAre ==
  ASSUME files \in Inputs
  PROVE  /\ Counting!ChainAssumption
         /\ Len(Shapes) = Len(files) /\ DOMAIN files = 1..Len(files) /\ Len(files) \in Nat
         /\ \A fi \in 1..Len(files) :
              /\ Len(Shapes[fi]) = Len(files[fi].records)
              /\ DOMAIN files[fi].records = 1..Len(files[fi].records)
              /\ \A ri \in 1..Len(files[fi].records) :
                   Shapes[fi][ri].event_count = Len(files[fi].records[ri].events)
<1> DEFINE Shape(fi, ri) ==
             [event_count |-> Len(files[fi].records[ri].events), passes |-> << >>,
              user_word |-> files[fi].records[ri].user_word,
              header_ok |-> TRUE, body_ok |-> TRUE, layout |-> "blob"]
<1>1. Len(files) \in Nat /\ DOMAIN files = 1..Len(files)
  BY FilesAre
<1>2. ASSUME NEW fi \in 1..Len(files), NEW ri \in DOMAIN files[fi].records
      PROVE  Shape(fi, ri) \in Counting!Record
  <2>1. files[fi].records[ri] \in WrittenRecord /\ Len(files[fi].records[ri].events) \in Nat
    BY <1>1, <1>2, RecordsAre
  <2>2. files[fi].records[ri].user_word \in Nat
    BY <2>1 DEF WrittenRecord
  <2>3. << >> \in Seq(BOOLEAN)
    OBVIOUS
  <2> QED BY <2>1, <2>2, <2>3 DEF Counting!Record
<1>3. Shapes = [fi \in DOMAIN files |-> [ri \in DOMAIN files[fi].records |-> Shape(fi, ri)]]
  BY DEF Shapes
<1>4. \A fi \in 1..Len(files) : \A ri \in DOMAIN files[fi].records :
        Shape(fi, ri).event_count = Len(files[fi].records[ri].events)
  OBVIOUS
<1> HIDE DEF Shape
<1>5. ASSUME NEW fi \in 1..Len(files)
      PROVE  /\ Shapes[fi] \in Seq(Counting!Record) /\ Len(Shapes[fi]) = Len(files[fi].records)
             /\ DOMAIN files[fi].records = 1..Len(files[fi].records)
             /\ \A ri \in 1..Len(files[fi].records) : Shapes[fi][ri] = Shape(fi, ri)
  <2>1. files[fi].records \in Seq(WrittenRecord)
    BY <1>1, RecordsAre
  <2>2. DOMAIN files[fi].records = 1..Len(files[fi].records) /\ Len(files[fi].records) \in Nat
    BY <2>1
  <2>3. Shapes[fi] = [ri \in 1..Len(files[fi].records) |-> Shape(fi, ri)]
    BY <1>1, <1>3, <2>2
  <2> QED BY <1>2, <2>2, <2>3
<1>6. Shapes \in Seq(Seq(Counting!Record)) /\ Len(Shapes) = Len(files)
  <2>1. Shapes = [fi \in 1..Len(files) |-> Shapes[fi]]
    BY <1>1, <1>3
  <2> QED BY <1>1, <1>5, <2>1
<1> QED BY <1>1, <1>4, <1>5, <1>6 DEF Counting!ChainAssumption

LEMMA SameNumbers ==
  /\ Counting!Total = Numbers!Total
  /\ \A g : Counting!Resolve(g) = Numbers!Resolve(g)
<1>1. Counting!FirstEvent = Numbers!FirstEvent
  BY DEF Counting!FirstEvent, Numbers!FirstEvent
<1>2. ASSUME NEW fi PROVE Counting!TotalEvents(fi) = Numbers!TotalEvents(fi)
  BY <1>1 DEF Counting!TotalEvents, Numbers!TotalEvents
<1>3. Counting!file_event_offsets = Numbers!file_event_offsets
  BY DEF Counting!file_event_offsets, Numbers!file_event_offsets,
         Counting!TotalEvents, Numbers!TotalEvents, Counting!FirstEvent, Numbers!FirstEvent
<1>4. Counting!Total = Numbers!Total
  BY <1>3 DEF Counting!Total, Numbers!Total
<1>5. ASSUME NEW satisfied PROVE Counting!PartitionPoint(satisfied) = Numbers!PartitionPoint(satisfied)
  BY DEF Counting!PartitionPoint, Numbers!PartitionPoint, Counting!Cardinality, Numbers!Cardinality
<1>6. ASSUME NEW fi, NEW local PROVE Counting!Locate(fi, local) = Numbers!Locate(fi, local)
  <2>1. Counting!PartitionPoint([r \in DOMAIN Shapes[fi] |-> Counting!FirstEvent[fi][r] <= local])
        = Numbers!PartitionPoint([r \in DOMAIN Shapes[fi] |-> Numbers!FirstEvent[fi][r] <= local])
    BY <1>1, <1>5
  <2> QED BY <1>1, <1>2, <2>1 DEF Counting!Locate, Numbers!Locate, Counting!Nowhere, Numbers!Nowhere
<1>7. ASSUME NEW g PROVE Counting!Resolve(g) = Numbers!Resolve(g)
  <2>1. Counting!PartitionPoint([f \in DOMAIN Counting!file_event_offsets |-> Counting!file_event_offsets[f] <= g])
        = Numbers!PartitionPoint([f \in DOMAIN Numbers!file_event_offsets |-> Numbers!file_event_offsets[f] <= g])
    BY <1>3, <1>5
  <2> QED BY <1>3, <1>6, <2>1 DEF Counting!Resolve, Numbers!Resolve, Counting!Nowhere, Numbers!Nowhere
<1> QED BY <1>4, <1>7

(* An event number is the place of an event.                               *)
LEMMA NumbersArePlaces ==
  ASSUME files \in Inputs
  PROVE  /\ Numbers!Total \in Nat
         /\ \A g \in 0..Numbers!Total - 1 :
              /\ Place(Numbers!Resolve(g))
              /\ Numbers!Resolve(g) = [file |-> Numbers!Resolve(g).file, record |-> Numbers!Resolve(g).record,
                                       event |-> Numbers!Resolve(g).event]
<1>1. Counting!Total \in Nat
  BY ShapesAre, Counting!OffsetSteps
<1>2. ASSUME NEW g \in 0..Counting!Total - 1
      PROVE  /\ Place(Counting!Resolve(g))
             /\ Counting!Resolve(g) = [file |-> Counting!Resolve(g).file, record |-> Counting!Resolve(g).record,
                                       event |-> Counting!Resolve(g).event]
  <2>0. Counting!ChainAssumption /\ g \in Nat /\ g < Counting!Total
    BY <1>1, <1>2, ShapesAre
  <2>1. PICK fi \in 1..Len(Shapes) : \E ri \in 1..Len(Shapes[fi]), k \in Nat :
          /\ k \in 1..Shapes[fi][ri].event_count
          /\ Counting!Resolve(g) = [file |-> fi, record |-> ri, event |-> k]
    BY <2>0, Counting!ResolveIs DEF Counting!ChainAssumption
  <2>2. PICK ri \in 1..Len(Shapes[fi]), k \in Nat :
          /\ k \in 1..Shapes[fi][ri].event_count
          /\ Counting!Resolve(g) = [file |-> fi, record |-> ri, event |-> k]
    BY <2>1
  <2>3. /\ fi \in DOMAIN files /\ ri \in DOMAIN files[fi].records
        /\ Shapes[fi][ri].event_count = Len(files[fi].records[ri].events)
    BY ShapesAre
  <2>4. k \in DOMAIN files[fi].records[ri].events
    BY <2>2, <2>3, RecordsAre
  <2> QED BY <2>2, <2>3, <2>4 DEF Place, EventsAt
<1> QED BY <1>1, <1>2, SameNumbers

(* A sequence is one of its own members.                                   *)
LEMMA ItsMembers ==
  ASSUME NEW S, NEW s \in Seq(S)
  PROVE  IsSequence(s) /\ Len(s) \in Nat /\ DOMAIN s = 1..Len(s)
<1>1. \A i \in 1..Len(s) : s[i] \in ToSet(s)
  BY DEF ToSet
<1> QED BY <1>1 DEF IsSequence

(* What is stored is what was written, in its layout.                      *)
AsWritten(rec, r) ==
  /\ rec = [layout |-> rec.layout, readable |-> rec.readable, split |-> rec.split]
  /\ rec.layout = r.layout

StoredInv ==
  /\ IsSequence(stored)
  /\ Len(stored) <= Len(files) /\ (phase # "stored" => AllStored)
  /\ \A fi \in 1..Len(stored) :
       /\ DOMAIN stored[fi] = DOMAIN files[fi].records
       /\ \A ri \in DOMAIN stored[fi] : AsWritten(stored[fi][ri], files[fi].records[ri])

LEMMA StoredInvInit == StorageInit => StorageInv /\ StoredInv
<1> SUFFICES ASSUME StorageInit PROVE StorageInv /\ StoredInv
  OBVIOUS
<1>1. StorageInv
  BY StorageInvInit
<1>2. files \in Seq(ToSet(files))
  BY <1>1, FilesAre DEF StorageInv
<1>3. stored = << >> /\ IsSequence(<< >>)
  <2>1. << >> \in Seq({})
    OBVIOUS
  <2> QED BY <2>1, ItsMembers DEF StorageInit
<1> QED BY <1>1, <1>2, <1>3 DEF StorageInit, StoredInv

LEMMA StoredInvWrite == StorageInv /\ StoredInv /\ WriteFile => StoredInv'
<1> SUFFICES ASSUME StorageInv, StoredInv, WriteFile PROVE StoredInv'
  OBVIOUS
<1> DEFINE n == Len(stored)
           new == [ri \in DOMAIN NextFile.records |-> StoredRecord(NextFile.records[ri])]
<1>1. /\ stored' = Append(stored, new) /\ UNCHANGED <<files, phase>> /\ phase = "stored"
      /\ n \in Nat /\ DOMAIN stored = 1..n /\ n <= Len(files) /\ n # Len(files)
  BY DEF WriteFile, AllStored, StoredInv, IsSequence
<1>2. Len(files) \in Nat
  BY FilesAre DEF StorageInv
<1>3. /\ DOMAIN new = DOMAIN files[n + 1].records
      /\ \A ri \in DOMAIN new : AsWritten(new[ri], files[n + 1].records[ri])
  BY DEF NextFile, StoredRecord, AsWritten
<1> HIDE DEF new
<1>4. stored \in Seq(ToSet(stored) \cup {new})
  <2>1. stored \in Seq(ToSet(stored))
    BY DEF StoredInv, IsSequence
  <2> QED BY <2>1
<1>5. /\ Len(stored') = n + 1 /\ DOMAIN stored' = 1..n + 1 /\ stored'[n + 1] = new
      /\ \A i \in 1..n : stored'[i] = stored[i]
  BY <1>1, <1>4
<1>6. IsSequence(stored')
  <2>1. stored' \in Seq(ToSet(stored) \cup {new})
    BY <1>1, <1>4
  <2>2. \A S : \A s \in Seq(S) : IsSequence(s)
    BY ItsMembers
  <2> QED BY <2>1, <2>2 DEF IsSequence
<1> QED BY <1>1, <1>2, <1>3, <1>5, <1>6 DEF StoredInv

LEMMA RecordUnread ==
  ASSUME NEW rec, NEW x, rec = [layout |-> rec.layout, readable |-> rec.readable, split |-> rec.split]
  PROVE  [rec EXCEPT !.readable = x] = [layout |-> rec.layout, readable |-> x, split |-> rec.split]
OBVIOUS

(* A record damaged keeps its layout, and the records where they are.      *)
LEMMA StoredInvDamage ==
  ASSUME StorageInv, StoredInv,
         NEW fi \in DOMAIN files, NEW ri \in DOMAIN files[fi].records, DamageRecord(fi, ri)
  PROVE  StoredInv'
<1> DEFINE n == Len(stored)
<1>1. UNCHANGED <<files, phase>> /\ AllStored
  BY DEF DamageRecord
<1>2. stored \in Seq(ToSet(stored)) /\ n \in Nat /\ DOMAIN stored = 1..n
  BY DEF StoredInv, IsSequence
<1>3. /\ fi \in 1..n /\ ri \in DOMAIN stored[fi]
      /\ \A i \in 1..n : /\ DOMAIN stored[i] = DOMAIN files[i].records
                         /\ \A r \in DOMAIN stored[i] : AsWritten(stored[i][r], files[i].records[r])
  BY <1>1, <1>2, FilesAre DEF StorageInv, StoredInv, AllStored
<1>4. PICK rec : /\ AsWritten(rec, files[fi].records[ri])
                 /\ stored' = [stored EXCEPT ![fi] = [stored[fi] EXCEPT ![ri] = rec]]
  <2> DEFINE old == stored[fi][ri]
  <2>1. AsWritten(old, files[fi].records[ri])
    BY <1>3
  <2>2. CASE stored' = [stored EXCEPT ![fi][ri].readable = FALSE]
    <3>1. AsWritten([old EXCEPT !.readable = FALSE], files[fi].records[ri])
      <4>1. [old EXCEPT !.readable = FALSE] = [layout |-> old.layout, readable |-> FALSE, split |-> old.split]
        BY <2>1, RecordUnread DEF AsWritten
      <4> QED BY <2>1, <4>1, Zenon DEF AsWritten
    <3>2. stored' = [stored EXCEPT ![fi] = [stored[fi] EXCEPT ![ri] = [old EXCEPT !.readable = FALSE]]]
      BY <1>2, <1>3, <2>2
    <3> QED BY <3>1, <3>2
  <2>3. CASE \E s \in StreamsOf(old), how \in {"undecodable", "changed"} :
               stored' = [stored EXCEPT ![fi][ri].split.banks[s[1]].streams[s[2]].damage = how]
    <3>1. PICK s \in StreamsOf(old), how \in {"undecodable", "changed"} :
            stored' = [stored EXCEPT ![fi][ri].split.banks[s[1]].streams[s[2]].damage = how]
      BY <2>3
    <3>2. PICK new : new = [old EXCEPT !.split.banks[s[1]].streams[s[2]].damage = how]
      OBVIOUS
    <3>3. stored' = [stored EXCEPT ![fi] = [stored[fi] EXCEPT ![ri] = new]]
      BY <1>2, <1>3, <3>1, <3>2
    <3>4. AsWritten(new, files[fi].records[ri])
      BY <2>1, <3>2 DEF AsWritten
    <3> QED BY <3>3, <3>4
  <2> QED BY <2>2, <2>3 DEF DamageRecord
<1> DEFINE new == [stored[fi] EXCEPT ![ri] = rec]
<1>5. /\ DOMAIN new = DOMAIN files[fi].records
      /\ \A r \in DOMAIN new : AsWritten(new[r], files[fi].records[r])
  BY <1>3, <1>4
<1>6. stored' = [stored EXCEPT ![fi] = new]
  BY <1>4
<1> HIDE DEF new
<1>7. stored' \in Seq(ToSet(stored) \cup {new}) /\ Len(stored') = n
  <2>1. stored \in Seq(ToSet(stored) \cup {new}) /\ new \in ToSet(stored) \cup {new}
    BY <1>2
  <2> QED BY <1>3, <1>6, <2>1, ExceptSeq
<1>8. IsSequence(stored') /\ DOMAIN stored' = 1..n
  <2>1. \A S : \A s \in Seq(S) : IsSequence(s) /\ DOMAIN s = 1..Len(s)
    BY ItsMembers
  <2> QED BY <1>7, <2>1
<1>9. \A i \in 1..n : /\ DOMAIN stored'[i] = DOMAIN files[i].records
                      /\ \A r \in DOMAIN stored'[i] : AsWritten(stored'[i][r], files[i].records[r])
  BY <1>2, <1>3, <1>5, <1>6
<1>10. n <= Len(files) /\ (AllStored)'
  BY <1>1, <1>7 DEF AllStored, StoredInv
<1> QED BY <1>1, <1>7, <1>8, <1>9, <1>10 DEF StoredInv

LEMMA StoredInvNext ==
  StorageInv /\ StoredInv /\ [StorageNext]_storage => StorageInv' /\ StoredInv'
<1> SUFFICES ASSUME StorageInv, StoredInv, [StorageNext]_storage PROVE StorageInv' /\ StoredInv'
  OBVIOUS
<1>1. StorageInv'
  BY StorageInvNext
<1>2. WriteFile => StoredInv'
  BY StoredInvWrite
<1>3. (\E fi \in DOMAIN files : \E ri \in DOMAIN files[fi].records : DamageRecord(fi, ri)) => StoredInv'
  BY StoredInvDamage
<1>4. OpenChain => StoredInv'
  <2> SUFFICES ASSUME OpenChain PROVE StoredInv'
    OBVIOUS
  <2>1. UNCHANGED <<files, stored>> /\ AllStored
    BY DEF OpenChain
  <2> QED BY <2>1 DEF StoredInv, AllStored
<1>5. UNCHANGED storage => StoredInv'
  BY DEF storage, StoredInv, AllStored
<1> QED BY <1>1, <1>2, <1>3, <1>4, <1>5 DEF StorageNext

(* When the chain is open each record read is one that was written.        *)
LEMMA PlacesAreStored ==
  ASSUME StorageInv, StoredInv, phase = "open", NEW at, Place(at)
  PROVE  /\ at.record \in DOMAIN stored[at.file]
         /\ RecordAt(at).layout \in {"blob", "by_bank", "per_column"}
         /\ EventsAt(at)[at.event].structures \in Seq(WrittenStructure)
<1>1. at.file \in 1..Len(stored) /\ files \in Inputs
  BY FilesAre DEF StorageInv, StoredInv, AllStored, Place
<1>2. /\ at.record \in DOMAIN stored[at.file]
      /\ RecordAt(at).layout = files[at.file].records[at.record].layout
  BY <1>1 DEF StoredInv, Place, AsWritten, RecordAt
<1>3. files[at.file].records[at.record] \in WrittenRecord
  BY <1>1, RecordsAre DEF Place
<1>4. \A r \in WrittenRecord : /\ r.layout \in {"blob", "by_bank", "per_column"}
                               /\ \A e \in DOMAIN r.events : r.events[e].structures \in Seq(WrittenStructure)
  <2> TAKE r \in WrittenRecord
  <2> DEFINE E == [tag: SUBSET Nat, structures: Seq(WrittenStructure)]
  <2>1. r.layout \in {"blob", "by_bank", "per_column"} /\ r.events \in Seq(E)
    BY DEF WrittenRecord
  <2>2. \A e \in E : e.structures \in Seq(WrittenStructure)
    OBVIOUS
  <2> HIDE DEF E
  <2>3. \A e \in DOMAIN r.events : r.events[e] \in E
    BY <2>1
  <2> QED BY <2>1, <2>2, <2>3
<1> QED BY <1>2, <1>3, <1>4 DEF Place, EventsAt

-----------------------------------------------------------------------------
(***************************************************************************)
(* An event in the caller's hands.                                         *)
(***************************************************************************)
(* No schema of a dictionary a caller gives has been replaced, and no      *)
(* schema has two columns of one name.                                     *)
Distinct(schema) == \A i, j \in DOMAIN schema.names : schema.names[i] = schema.names[j] => i = j

NothingReplaced == \A adds \in OwnDicts : KeepsIds(DictOf(adds))
ColumnsDistinct ==
  /\ \A adds \in OwnDicts : \A schema \in ToSet(adds) : Distinct(schema)
  /\ \A input \in Inputs : \A f \in ToSet(input) : \A schema \in ToSet(f.adds) : Distinct(schema)

(* The same cardinality, under the name each instance has for it.          *)
LEMMA SameCardinality == \A S : Split!Cardinality(S) = Cardinality(S)
BY DEF Split!Cardinality, Cardinality

(* The first structure of a bank in an event.                              *)
First(structures, id) ==
  CHOOSE k \in DOMAIN structures :
    structures[k].id = id /\ \A j \in 1..k - 1 : structures[j].id # id

LEMMA FoundFirst ==
  ASSUME NEW structures \in Seq(WrittenStructure), NEW id, id \in Split!BanksOf(structures)
  PROVE  /\ Split!Found(structures, id) # << >>
         /\ Split!Found(structures, id)[1] = structures[First(structures, id)]
<1> DEFINE S == {k \in DOMAIN structures : structures[k].id = id}
           at == Split!Ascending(S)
           n == Cardinality(S)
<1>1. DOMAIN structures = 1..Len(structures) /\ Len(structures) \in Nat
  OBVIOUS
<1>2. S \in SUBSET Nat /\ IsFiniteSet(S) /\ S # {}
  <2>1. S \subseteq 1..Len(structures) /\ IsFiniteSet(1..Len(structures))
    BY <1>1, FS_Interval
  <2>2. IsFiniteSet(S)
    BY <2>1, FS_Subset
  <2> QED BY <2>1, <2>2 DEF Split!BanksOf
<1>3. Split!Found(structures, id) = [i \in DOMAIN at |-> structures[at[i]]]
  BY DEF Split!Found
<1>4. at = CHOOSE s \in [1..n -> S] : \A i, j \in DOMAIN s : i < j => s[i] < s[j]
  BY SameCardinality DEF Split!Ascending
<1> HIDE DEF at, S
<1>5. Orders(at, S)
  <2>1. \E s : Orders(s, S)
    BY <1>2, OrderExists
  <2> QED BY <1>4, <2>1 DEF Orders
<1>6. /\ n \in Nat /\ at \in [1..n -> S] /\ DOMAIN at = 1..n
      /\ \A i, j \in 1..n : i < j => at[i] < at[j]
      /\ \A r \in S : \E i \in 1..n : at[i] = r
  BY <1>2, <1>5, OrderIs
<1> HIDE DEF n
<1>7. n >= 1
  <2>1. PICK r \in S : TRUE
    BY <1>2
  <2>2. PICK i \in 1..n : at[i] = r
    BY <1>6
  <2> QED BY <1>6, <2>2
<1>8. at[1] \in S /\ at[1] \in Nat /\ \A r \in S : r \in Nat /\ at[1] <= r
  <2>1. at[1] \in S
    BY <1>6, <1>7
  <2>2. ASSUME NEW r \in S PROVE r \in Nat /\ at[1] <= r
    <3>1. PICK i \in 1..n : at[i] = r
      BY <1>6
    <3>2. at[1] \in Nat /\ r \in Nat
      BY <1>2, <2>1
    <3>3. CASE i = 1
      BY <3>1, <3>2, <3>3
    <3>4. CASE i # 1
      <4>1. 1 \in 1..n /\ 1 < i
        BY <1>6, <1>7, <3>4
      <4>2. at[1] < at[i]
        BY <1>6, <4>1
      <4> QED BY <3>1, <3>2, <4>2
    <3> QED BY <3>3, <3>4
  <2> QED BY <1>2, <2>1, <2>2
<1>9. \A k \in DOMAIN structures :
        (structures[k].id = id /\ \A j \in 1..k - 1 : structures[j].id # id) <=> k = at[1]
  <2> TAKE k \in DOMAIN structures
  <2>1. ASSUME structures[k].id = id, \A j \in 1..k - 1 : structures[j].id # id PROVE k = at[1]
    <3>1. k \in S
      BY <2>1 DEF S
    <3>2. at[1] \in DOMAIN structures /\ structures[at[1]].id = id
      BY <1>8 DEF S
    <3>3. ~(at[1] \in 1..k - 1)
      BY <2>1, <3>2
    <3> QED BY <1>1, <1>8, <3>1, <3>2, <3>3
  <2>2. ASSUME k = at[1] PROVE structures[k].id = id /\ \A j \in 1..k - 1 : structures[j].id # id
    <3>1. structures[k].id = id
      BY <1>8, <2>2 DEF S
    <3>2. ASSUME NEW j \in 1..k - 1, structures[j].id = id PROVE FALSE
      <4>1. j \in DOMAIN structures
        BY <1>1
      <4>2. j \in S
        BY <3>2, <4>1 DEF S
      <4> QED BY <1>1, <1>8, <2>2, <4>2
    <3> QED BY <3>1, <3>2
  <2> QED BY <2>1, <2>2
<1>10. at[1] \in DOMAIN structures
  BY <1>8 DEF S
<1>11. First(structures, id) = at[1]
  BY <1>9, <1>10 DEF First
<1>12. 1 \in DOMAIN Split!Found(structures, id) /\ Split!Found(structures, id)[1] = structures[at[1]]
  BY <1>3, <1>6, <1>7
<1> QED BY <1>11, <1>12

(* rebuild, at the place kept, gives what resolving the bank again would.  *)
LEMMA RebuiltIsResolved ==
  ASSUME NEW h, NEW schema, Has(h, schema),
         Record(h).layout \in {"blob", "by_bank", "per_column"},
         Events(h)[h.at.event].structures \in Seq(WrittenStructure)
  PROVE  Rebuilt(h, schema, LocOf(h, schema)) = Resolved(h, schema)
<1> DEFINE rec == Record(h)
           structures == Events(h)[h.at.event].structures
           p == Whole(schema)
           loc == LocOf(h, schema)
<1>1. p.id = schema.id
  BY DEF Whole
<1> HIDE DEF p
<1>2. Resolved(h, schema) = OrNone(Split!EventBank(rec, Events(h), h.at.event, p))
  BY DEF Resolved, p
<1>3. CASE rec.layout = "blob"
  <2>1. schema.id \in Split!BanksOf(structures)
    BY <1>3 DEF Has
  <2>2. loc = First(structures, schema.id)
    BY <1>3 DEF LocOf, First
  <2>3. Split!Found(structures, p.id) # << >> /\ Split!Found(structures, p.id)[1] = structures[loc]
    BY <1>1, <2>1, <2>2, FoundFirst
  <2> HIDE DEF loc, structures
  <2>4. Split!EventBank(rec, Events(h), h.at.event, p) = Split!Contiguous(p, structures[loc].data)
    <3>1. Split!EventBank(rec, Events(h), h.at.event, p) = Split!BlobBank(Events(h), h.at.event, p)
      BY <1>3 DEF Split!EventBank, Split!ScanBank
    <3> QED BY <2>3, <3>1 DEF Split!BlobBank, structures
  <2>5. Rebuilt(h, schema, loc) = OrNone(Split!Contiguous(p, structures[loc].data))
    BY <1>3 DEF Rebuilt, p, structures
  <2> QED BY <1>2, <2>4, <2>5 DEF loc
<1>4. CASE rec.layout # "blob"
  <2> DEFINE at == Split!BankIndex(rec.split, schema.id)
             b == CHOOSE k \in at : TRUE
  <2>1. at # {} /\ h.at.event \in rec.split.banks[b].present /\ loc = b
    BY <1>4 DEF Has, LocOf
  <2>2. Rebuilt(h, schema, loc) =
          OrNone(IF rec.layout = "by_bank" \/ Split!IsOpaque(rec.split.banks[loc])
                 THEN Split!WholeBank(rec, loc, h.at.event, p)
                 ELSE Split!ColumnarBank(rec, loc, h.at.event, p))
    BY <1>4 DEF Rebuilt, p
  <2>3. Split!EventBank(rec, Events(h), h.at.event, p) =
          IF rec.layout = "by_bank" \/ Split!IsOpaque(rec.split.banks[b])
          THEN Split!WholeBank(rec, b, h.at.event, p)
          ELSE Split!ColumnarBank(rec, b, h.at.event, p)
    <3> HIDE DEF at
    <3>1. at = Split!BankIndex(rec.split, p.id)
      BY <1>1 DEF at
    <3>2. CASE rec.layout = "by_bank"
      BY <2>1, <3>1, <3>2 DEF Split!EventBank, Split!ScanBank
    <3>3. CASE rec.layout = "per_column"
      BY <2>1, <3>1, <3>3 DEF Split!EventBank, Split!ScanBank
    <3> QED BY <1>4, <3>2, <3>3
  <2> QED BY <1>2, <2>1, <2>2, <2>3
<1> QED BY <1>3, <1>4

(* A dictionary a handle may have: in order, each id leading to a schema   *)
(* that has it, and the columns of its schemas told apart by their names.  *)
Columned(schema) ==
  schema.names \in Seq(ToSet(schema.names)) /\ Distinct(schema)

Readable(d) ==
  /\ InOrder(d, ToSet(d.schemas)) /\ KeepsIds(d)
  /\ \A i \in 1..Len(d.schemas) : Columned(d.schemas[i])

(* What is kept was found: the id leads to the place kept in the event,    *)
(* the name to the id.                                                     *)
WithId(id) == [id |-> id]

KeptIs(h, k) ==
  /\ k = [id |-> k.id, name |-> k.name, loc |-> k.loc, col |-> k.col]
  /\ k.id \in DOMAIN h.dict.by_id
  /\ Has(h, WithId(k.id)) /\ k.loc = LocOf(h, WithId(k.id))
  /\ h.kind = "ctx" => k.name \in DOMAIN h.dict.by_name /\ Get(h.dict, k.name).id = k.id

HandleIs(h) ==
  /\ h = [at |-> h.at, dict |-> h.dict, kind |-> h.kind, kept |-> h.kept]
  /\ h.kind \in {"owned", "ctx"} /\ Readable(h.dict)
  /\ Record(h).layout \in {"blob", "by_bank", "per_column"}
  /\ Events(h)[h.at.event].structures \in Seq(WrittenStructure)
  /\ h.kept = << >> \/ \E k : h.kept = <<k>> /\ KeptIs(h, k)

LEMMA OnlyTheId ==
  ASSUME NEW h, NEW schema
  PROVE  Has(h, schema) = Has(h, WithId(schema.id)) /\ LocOf(h, schema) = LocOf(h, WithId(schema.id))
<1>1. WithId(schema.id).id = schema.id
  BY DEF WithId
<1>2. Has(h, schema) = Has(h, WithId(schema.id))
  BY <1>1 DEF Has
<1>3. LocOf(h, schema) = LocOf(h, WithId(schema.id))
  BY <1>1 DEF LocOf
<1> QED BY <1>2, <1>3

(* A name and an id of the dictionary lead to schemas of it.               *)
LEMMA LeadsTo ==
  ASSUME NEW d, Readable(d)
  PROVE  /\ \A name \in DOMAIN d.by_name :
              Get(d, name).name = name /\ Columned(Get(d, name)) /\ Get(d, name).id \in DOMAIN d.by_id
         /\ \A id \in DOMAIN d.by_id :
              /\ GetById(d, id).id = id
              /\ GetById(d, id).name \in DOMAIN d.by_name
              /\ Get(d, GetById(d, id).name) = GetById(d, id)
<1>1. ASSUME NEW name \in DOMAIN d.by_name
      PROVE  Get(d, name).name = name /\ Columned(Get(d, name)) /\ Get(d, name).id \in DOMAIN d.by_id
  <2>1. PICK i \in 1..Len(d.schemas) : name = d.schemas[i].name
    BY DEF Readable, InOrder
  <2>2. Get(d, name) = d.schemas[i]
    BY <2>1 DEF Readable, InOrder, Get
  <2> QED BY <2>1, <2>2 DEF Readable, InOrder
<1>2. ASSUME NEW id \in DOMAIN d.by_id
      PROVE  /\ GetById(d, id).id = id
             /\ GetById(d, id).name \in DOMAIN d.by_name
             /\ Get(d, GetById(d, id).name) = GetById(d, id)
  <2>1. d.by_id[id] \in 1..Len(d.schemas) /\ GetById(d, id) = d.schemas[d.by_id[id]]
    BY DEF Readable, InOrder, GetById
  <2>2. GetById(d, id).id = id
    BY DEF Readable, KeepsIds
  <2> QED BY <2>1, <2>2 DEF Readable, InOrder, Get
<1> QED BY <1>1, <1>2

(* What depends on the event and its dictionary, but not on what is kept.  *)
Forgetful(h) == [h EXCEPT !.kept = << >>]

LEMMA SamePlace ==
  ASSUME NEW g, NEW h, g.at = h.at, Record(g) = Record(h), Events(g) = Events(h), NEW schema
  PROVE  LocOf(g, schema) = LocOf(h, schema)
BY DEF LocOf

LEMMA ForgetfulIs ==
  ASSUME NEW h, NEW kept, h = [at |-> h.at, dict |-> h.dict, kind |-> h.kind, kept |-> h.kept],
         NEW g, g = [h EXCEPT !.kept = kept]
  PROVE  /\ g = [at |-> h.at, dict |-> h.dict, kind |-> h.kind, kept |-> kept]
         /\ g.at = h.at /\ g.dict = h.dict /\ g.kind = h.kind /\ g.kept = kept
         /\ Forgetful(g) = Forgetful(h)
         /\ Record(g) = Record(h) /\ Events(g) = Events(h)
         /\ \A schema : Has(g, schema) = Has(h, schema) /\ LocOf(g, schema) = LocOf(h, schema)
                        /\ Resolved(g, schema) = Resolved(h, schema)
<1>1. g = [at |-> h.at, dict |-> h.dict, kind |-> h.kind, kept |-> kept]
  OBVIOUS
<1>2. g.at = h.at /\ g.dict = h.dict /\ g.kind = h.kind /\ g.kept = kept
  BY <1>1
<1>3. Forgetful(g) = Forgetful(h)
  BY <1>1 DEF Forgetful
<1>4. Record(g) = Record(h) /\ Events(g) = Events(h)
  BY <1>2 DEF Record, Events
<1>5. ASSUME NEW schema PROVE Has(g, schema) = Has(h, schema)
  BY <1>2, <1>4 DEF Has
<1>6. ASSUME NEW schema PROVE LocOf(g, schema) = LocOf(h, schema)
  BY <1>2, <1>4, SamePlace
<1>7. ASSUME NEW schema PROVE Resolved(g, schema) = Resolved(h, schema)
  BY <1>2, <1>4, <1>5 DEF Resolved
<1> QED BY <1>1, <1>2, <1>3, <1>4, <1>5, <1>6, <1>7

LEMMA ForgottenIs ==
  ASSUME NEW h, h = [at |-> h.at, dict |-> h.dict, kind |-> h.kind, kept |-> h.kept]
  PROVE  /\ Forgetful(h).dict = h.dict /\ Forgetful(h).kept = << >>
         /\ \A s : Has(Forgetful(h), s) = Has(h, s) /\ LocOf(Forgetful(h), s) = LocOf(h, s)
                   /\ Resolved(Forgetful(h), s) = Resolved(h, s)
<1>1. Forgetful(h) = [h EXCEPT !.kept = << >>]
  BY DEF Forgetful
<1> QED BY <1>1, ForgetfulIs

(* A bank kept is the one that would be looked for.                        *)
LEMMA KeptIsFound ==
  ASSUME NEW h, HandleIs(h), NEW name, KeptFor(h, name) # << >>
  PROVE  /\ name \in DOMAIN h.dict.by_name
         /\ KeptFor(h, name) = <<Get(h.dict, name)>>
         /\ Kept(h).id = Get(h.dict, name).id
         /\ Rebuilt(h, Get(h.dict, name), Kept(h).loc) = Resolved(h, Get(h.dict, name))
<1> DEFINE schema == Get(h.dict, name)
<1>1. PICK k : h.kept = <<k>> /\ KeptIs(h, k)
  BY DEF HandleIs, KeptFor
<1>2. Kept(h) = k /\ h.kept # << >>
  BY <1>1 DEF Kept
<1>3. /\ name \in DOMAIN h.dict.by_name
      /\ KeptFor(h, name) = <<Get(h.dict, name)>>
      /\ k.id = Get(h.dict, name).id
  <2>1. CASE h.kind = "owned"
    <3>1. GetById(h.dict, k.id).name = name /\ KeptFor(h, name) = <<GetById(h.dict, k.id)>>
      BY <1>2, <2>1 DEF KeptFor
    <3>2. k.id \in DOMAIN h.dict.by_id
      BY <1>1 DEF KeptIs
    <3> QED BY <3>1, <3>2, LeadsTo DEF HandleIs
  <2>2. CASE h.kind = "ctx"
    <3>1. k.name = name /\ KeptFor(h, name) = <<Get(h.dict, name)>>
      BY <1>2, <2>2 DEF KeptFor
    <3> QED BY <1>1, <2>2, <3>1 DEF KeptIs
  <2> QED BY <2>1, <2>2 DEF HandleIs
<1> HIDE DEF schema
<1>4. Has(h, schema) /\ k.loc = LocOf(h, schema)
  BY <1>1, <1>3, OnlyTheId DEF KeptIs, schema
<1>5. Rebuilt(h, schema, k.loc) = Resolved(h, schema)
  BY <1>4, RebuiltIsResolved DEF HandleIs
<1> QED BY <1>2, <1>3, <1>5 DEF schema

(* So the bank is the one a handle that keeps nothing finds, and what is   *)
(* kept afterwards was found.                                              *)
LEMMA SameBank ==
  ASSUME NEW h, HandleIs(h), NEW name
  PROVE  LET got == BankOf(h, name)
             fresh == BankOf(Forgetful(h), name)
         IN  /\ got.bank = fresh.bank /\ got.schema = fresh.schema
             /\ got.kept = << >> \/ \E k : got.kept = <<k>> /\ KeptIs(h, k)
             /\ fresh.kept = << >> \/ \E k : fresh.kept = <<k>> /\ k.col = NoEntry
             /\ got.bank # None => Columned(got.schema)
<1> DEFINE got == BankOf(h, name)
           fresh == BankOf(Forgetful(h), name)
           schema == Get(h.dict, name)
           known == name \in DOMAIN h.dict.by_name
<1>1. h = [at |-> h.at, dict |-> h.dict, kind |-> h.kind, kept |-> h.kept]
  BY DEF HandleIs
<1>2. /\ Forgetful(h).dict = h.dict /\ Forgetful(h).kept = << >>
      /\ \A s : Resolved(Forgetful(h), s) = Resolved(h, s) /\ LocOf(Forgetful(h), s) = LocOf(h, s)
  BY <1>1, ForgottenIs
<1>3. KeptFor(Forgetful(h), name) = << >>
  BY <1>2 DEF KeptFor
<1>4. known => Columned(schema) /\ schema.name = name /\ schema.id \in DOMAIN h.dict.by_id
  BY LeadsTo DEF HandleIs
<1> DEFINE entry == [id |-> schema.id, name |-> name, loc |-> LocOf(h, schema), col |-> NoEntry]
<1>5. /\ fresh.bank = IF known THEN Resolved(h, schema) ELSE None
      /\ fresh.schema = IF known THEN schema ELSE Absent
      /\ fresh.kept = IF known /\ Resolved(h, schema) # None THEN <<entry>> ELSE << >>
  <2>1. CASE known
    <3>1. fresh = Looked(Forgetful(h), name, schema, Resolved(h, schema))
      BY <1>2, <1>3, <2>1 DEF BankOf
    <3> QED BY <1>2, <2>1, <3>1 DEF Looked
  <2>2. CASE ~known
    <3>1. fresh = [bank |-> None, schema |-> Absent, kept |-> << >>]
      BY <1>2, <1>3, <2>2 DEF BankOf
    <3> QED BY <2>2, <3>1
  <2> QED BY <2>1, <2>2
<1>6. /\ got.bank = fresh.bank /\ got.schema = fresh.schema
      /\ got.kept = h.kept \/ (known /\ Resolved(h, schema) # None /\ got.kept = <<entry>>)
  <2>1. CASE KeptFor(h, name) # << >>
    <3>1. /\ known /\ KeptFor(h, name) = <<schema>>
          /\ Rebuilt(h, schema, Kept(h).loc) = Resolved(h, schema)
      BY <2>1, KeptIsFound
    <3>2. got = [bank |-> Resolved(h, schema), schema |-> schema, kept |-> h.kept]
      BY <2>1, <3>1 DEF BankOf
    <3> QED BY <1>5, <3>1, <3>2
  <2>2. CASE KeptFor(h, name) = << >> /\ known
    <3>1. got = Looked(h, name, schema, Resolved(h, schema))
      BY <2>2 DEF BankOf
    <3> QED BY <1>5, <2>2, <3>1 DEF Looked
  <2>3. CASE KeptFor(h, name) = << >> /\ ~known
    <3>1. got = [bank |-> None, schema |-> Absent, kept |-> h.kept]
      BY <2>3 DEF BankOf
    <3> QED BY <1>5, <2>3, <3>1
  <2> QED BY <2>1, <2>2, <2>3
<1>7. known /\ Resolved(h, schema) # None => KeptIs(h, entry)
  <2> SUFFICES ASSUME known, Resolved(h, schema) # None PROVE KeptIs(h, entry)
    OBVIOUS
  <2>1. Has(h, schema)
    BY DEF Resolved
  <2>2. Has(h, WithId(entry.id)) /\ entry.loc = LocOf(h, WithId(entry.id))
    BY <2>1, OnlyTheId
  <2> QED BY <1>4, <2>2 DEF KeptIs
<1>8. got.kept = << >> \/ \E k : got.kept = <<k>> /\ KeptIs(h, k)
  BY <1>6, <1>7 DEF HandleIs
<1>9. fresh.kept = << >> \/ \E k : fresh.kept = <<k>> /\ k.col = NoEntry
  BY <1>5
<1>10. got.bank # None => Columned(got.schema)
  BY <1>4, <1>5, <1>6
<1> HIDE DEF got, fresh
<1> QED BY <1>6, <1>8, <1>9, <1>10 DEF got, fresh

(* The column kept, if it is used again, is the one there is of the name.  *)
LEMMA SameColumn ==
  ASSUME NEW schema, Columned(schema), NEW c \in DOMAIN schema.names
  PROVE  ColumnIndex(schema, schema.names[c]) = c
<1> DEFINE S == {k \in DOMAIN schema.names : schema.names[k] = schema.names[c]}
<1>1. c \in Nat
  BY DEF Columned
<1>2. S = {c}
  BY DEF Columned, Distinct
<1> HIDE DEF S
<1>3. Max(S) = c
  BY <1>1, <1>2 DEF Max
<1> QED BY <1>3 DEF ColumnIndex, S

LEMMA SameCell ==
  ASSUME NEW h, HandleIs(h), NEW ask
  PROVE  LET got == BankOf(h, ask.bank)
             fresh == BankOf(Forgetful(h), ask.bank)
         IN  /\ Cell(h, ask, got).answer = Cell(Forgetful(h), ask, fresh).answer
             /\ \/ Cell(h, ask, got).kept = << >>
                \/ \E k : Cell(h, ask, got).kept = <<k>> /\ KeptIs(h, k)
<1> DEFINE got == BankOf(h, ask.bank)
           fresh == BankOf(Forgetful(h), ask.bank)
           schema == got.schema
           nothing == got.bank = None \/ ask.column \notin ToSet(schema.names)
           c == ColumnOf(h, got.kept, schema, ask.column)
           d == ColumnOf(Forgetful(h), fresh.kept, schema, ask.column)
<1>1. /\ got.bank = fresh.bank /\ got.schema = fresh.schema
      /\ got.kept = << >> \/ \E k : got.kept = <<k>> /\ KeptIs(h, k)
      /\ fresh.kept = << >> \/ \E k : fresh.kept = <<k>> /\ k.col = NoEntry
      /\ got.bank # None => Columned(got.schema)
  BY SameBank
<1> HIDE DEF got, fresh
<1>2. CASE nothing
  <2>1. Cell(h, ask, got) = [answer |-> Default, kept |-> got.kept]
    BY <1>2 DEF Cell
  <2>2. Cell(Forgetful(h), ask, fresh) = [answer |-> Default, kept |-> fresh.kept]
    BY <1>1, <1>2 DEF Cell
  <2> QED BY <1>1, <2>1, <2>2 DEF got, fresh
<1>3. CASE ~nothing
  <2>1. Columned(schema)
    BY <1>1, <1>3
  <2>2. c = ColumnIndex(schema, ask.column)
    <3>1. CASE Reuses(h, got.kept, schema, ask.column)
      <4>1. c = got.kept[1].col /\ c \in DOMAIN schema.names /\ schema.names[c] = ask.column
        BY <3>1 DEF ColumnOf, Reuses
      <4> HIDE DEF c
      <4> QED BY <2>1, <4>1, SameColumn
    <3>2. CASE ~Reuses(h, got.kept, schema, ask.column)
      BY <3>2 DEF ColumnOf
    <3> QED BY <3>1, <3>2
  <2>3. d = ColumnIndex(schema, ask.column)
    <3>1. 0 \notin DOMAIN schema.names
      BY <2>1 DEF Columned
    <3>2. ~Reuses(Forgetful(h), fresh.kept, schema, ask.column)
      BY <1>1, <3>1 DEF Reuses, NoEntry
    <3> QED BY <3>2 DEF ColumnOf
  <2>4. Cell(h, ask, got) = CellOf(got, ask.row, c) /\ Cell(Forgetful(h), ask, fresh) = CellOf(fresh, ask.row, d)
    BY <1>1, <1>3 DEF Cell
  <2>5. CellOf(got, ask.row, c).answer = CellOf(fresh, ask.row, d).answer
    <3> HIDE DEF c, d
    <3> QED BY <1>1, <2>2, <2>3 DEF CellOf
  <2>6. CellOf(got, ask.row, c).kept = IF got.kept = << >> THEN << >> ELSE <<[got.kept[1] EXCEPT !.col = c]>>
    BY DEF CellOf
  <2> HIDE DEF c, d
  <2>7. \A k : KeptIs(h, k) => KeptIs(h, [k EXCEPT !.col = c])
    <3> SUFFICES ASSUME NEW k, KeptIs(h, k) PROVE KeptIs(h, [k EXCEPT !.col = c])
      OBVIOUS
    <3> DEFINE l == [k EXCEPT !.col = c]
    <3>1. l = [id |-> l.id, name |-> l.name, loc |-> l.loc, col |-> l.col]
          /\ l.id = k.id /\ l.name = k.name /\ l.loc = k.loc
      BY DEF KeptIs
    <3> HIDE DEF l
    <3>2. KeptIs(h, l)
      BY <3>1 DEF KeptIs
    <3> QED BY <3>2 DEF l
  <2>8. \/ CellOf(got, ask.row, c).kept = << >>
        \/ \E k : CellOf(got, ask.row, c).kept = <<k>> /\ KeptIs(h, k)
    <3>1. CASE got.kept = << >>
      BY <2>6, <3>1
    <3>2. CASE got.kept # << >>
      <4>1. PICK k : got.kept = <<k>> /\ KeptIs(h, k)
        BY <1>1, <3>2
      <4>2. CellOf(got, ask.row, c).kept = <<[k EXCEPT !.col = c]>>
        BY <2>6, <3>2, <4>1
      <4> QED BY <2>7, <4>1, <4>2
    <3> QED BY <3>1, <3>2
  <2> QED BY <2>4, <2>5, <2>8 DEF got, fresh
<1> QED BY <1>2, <1>3

LEMMA AnswerField == \A x, y : [answer |-> x, kept |-> y].answer = x
OBVIOUS

(* Whatever is asked, the answer is that of a handle that keeps nothing.   *)
LEMMA SameAnswer ==
  ASSUME NEW h, HandleIs(h), NEW ask \in Asks
  PROVE  /\ Answer(h, ask).answer = Answer(Forgetful(h), ask).answer
         /\ HandleIs([h EXCEPT !.kept = Answer(h, ask).kept])
<1> DEFINE got == BankOf(h, ask.bank)
           fresh == BankOf(Forgetful(h), ask.bank)
           after == Answer(h, ask)
<1>1. h = [at |-> h.at, dict |-> h.dict, kind |-> h.kind, kept |-> h.kept]
  BY DEF HandleIs
<1>2. ask.kind \in {"bank", "get", "has"}
  BY EventHandleAssumption
<1>3. got.bank = fresh.bank /\ (got.kept = << >> \/ \E k : got.kept = <<k>> /\ KeptIs(h, k))
  BY SameBank
<1>4. /\ Cell(h, ask, got).answer = Cell(Forgetful(h), ask, fresh).answer
      /\ \/ Cell(h, ask, got).kept = << >>
         \/ \E k : Cell(h, ask, got).kept = <<k>> /\ KeptIs(h, k)
  BY SameCell
<1>5. HasNamed(Forgetful(h), ask.bank) = HasNamed(h, ask.bank)
  <2>1. Forgetful(h).dict = h.dict /\ \A s : Has(Forgetful(h), s) = Has(h, s)
    BY <1>1, ForgottenIs
  <2> QED BY <2>1 DEF HasNamed
<1> HIDE DEF got, fresh
<1>6. /\ after = AnswerFrom(h, ask, got)
      /\ Answer(Forgetful(h), ask) = AnswerFrom(Forgetful(h), ask, fresh)
  BY DEF Answer, got, fresh
<1> HIDE DEF after
<1>7. /\ after.answer = Answer(Forgetful(h), ask).answer
      /\ after.kept = << >> \/ \E k : after.kept = <<k>> /\ KeptIs(h, k)
  <2>1. CASE ask.kind = "bank"
    <3>1. /\ after = [answer |-> got.bank, kept |-> got.kept]
          /\ Answer(Forgetful(h), ask) = [answer |-> fresh.bank, kept |-> fresh.kept]
      BY <1>6, <2>1 DEF AnswerFrom
    <3> QED BY <1>3, <3>1
  <2>2. CASE ask.kind = "get"
    BY <1>4, <1>6, <2>2 DEF AnswerFrom
  <2>3. CASE ask.kind = "has"
    <3>1. after = [answer |-> HasNamed(h, ask.bank), kept |-> h.kept]
      BY <1>6, <2>3 DEF AnswerFrom
    <3>2. Answer(Forgetful(h), ask) = [answer |-> HasNamed(Forgetful(h), ask.bank), kept |-> Forgetful(h).kept]
      BY <1>6, <2>3 DEF AnswerFrom
    <3>3. after.kept = h.kept
      BY <3>1
    <3>4. after.answer = HasNamed(h, ask.bank) /\ Answer(Forgetful(h), ask).answer = HasNamed(Forgetful(h), ask.bank)
      BY <3>1, <3>2, AnswerField, Zenon
    <3> QED BY <1>5, <3>3, <3>4, Zenon DEF HandleIs
  <2> QED BY <1>2, <2>1, <2>2, <2>3
<1> DEFINE g == [h EXCEPT !.kept = after.kept]
<1>8. /\ g = [at |-> h.at, dict |-> h.dict, kind |-> h.kind, kept |-> after.kept]
      /\ g.at = h.at /\ g.dict = h.dict /\ g.kind = h.kind /\ g.kept = after.kept
      /\ Forgetful(g) = Forgetful(h)
      /\ Record(g) = Record(h) /\ Events(g) = Events(h)
      /\ \A s : Has(g, s) = Has(h, s) /\ LocOf(g, s) = LocOf(h, s)
                /\ Resolved(g, s) = Resolved(h, s)
  BY <1>1, ForgetfulIs
<1> HIDE DEF g
<1>9. \A k : KeptIs(h, k) => KeptIs(g, k)
  BY <1>8 DEF KeptIs
<1>10. HandleIs(g)
  <2>1. g.kept = << >> \/ \E k : g.kept = <<k>> /\ KeptIs(g, k)
    BY <1>7, <1>8, <1>9
  <2>2. /\ g = [at |-> g.at, dict |-> g.dict, kind |-> g.kind, kept |-> g.kept]
        /\ g.kind \in {"owned", "ctx"} /\ Readable(g.dict)
        /\ Record(g).layout \in {"blob", "by_bank", "per_column"}
        /\ Events(g)[g.at.event].structures \in Seq(WrittenStructure)
    BY <1>8 DEF HandleIs
  <2> QED BY <2>1, <2>2 DEF HandleIs
<1> QED BY <1>7, <1>10 DEF g, after

(***************************************************************************)
(* A handle over an open chain.                                            *)
(***************************************************************************)
(* While nothing of the storage changes nothing an answer is made of does. *)
LEMMA AnswersStay ==
  ASSUME UNCHANGED storage, NEW CONSTANT h
  PROVE  /\ Record(h)' = Record(h) /\ Events(h)' = Events(h)
         /\ \A schema : Has(h, schema)' = Has(h, schema) /\ LocOf(h, schema)' = LocOf(h, schema)
         /\ \A ask : Answer(h, ask)' = Answer(h, ask)
<1>1. Record(h)' = Record(h) /\ Events(h)' = Events(h)
  BY DEF storage, Record, Events, RecordAt, EventsAt
<1>2. ASSUME NEW CONSTANT schema
      PROVE  /\ Has(h, schema)' = Has(h, schema) /\ LocOf(h, schema)' = LocOf(h, schema)
             /\ Resolved(h, schema)' = Resolved(h, schema)
             /\ \A loc : Rebuilt(h, schema, loc)' = Rebuilt(h, schema, loc)
  <2>1. Has(h, schema)' = Has(h, schema)
    BY DEF Has, storage, Record, Events, RecordAt, EventsAt
  <2>2. LocOf(h, schema)' = LocOf(h, schema)
    BY DEF LocOf, storage, Record, Events, RecordAt, EventsAt
  <2>3. Resolved(h, schema)' = Resolved(h, schema)
    BY DEF Resolved, storage, Has, OrNone, Record, Events, RecordAt, EventsAt, BanksIn, Whole
  <2>4. ASSUME NEW CONSTANT loc PROVE Rebuilt(h, schema, loc)' = Rebuilt(h, schema, loc)
    BY DEF Rebuilt, storage, OrNone, Record, Events, RecordAt, EventsAt
  <2> QED BY <2>1, <2>2, <2>3, <2>4
<1>3. ASSUME NEW CONSTANT name
      PROVE  HasNamed(h, name)' = HasNamed(h, name) /\ BankOf(h, name)' = BankOf(h, name)
  <2>1. HasNamed(h, name)' = HasNamed(h, name)
    BY DEF HasNamed, Has, storage, Record, Events, RecordAt, EventsAt
  <2>2. BankOf(h, name)' = BankOf(h, name)
    BY <1>2 DEF BankOf, Looked
  <2> QED BY <2>1, <2>2
<1>4. ASSUME NEW CONSTANT ask PROVE Answer(h, ask)' = Answer(h, ask)
  BY <1>3 DEF Answer, AnswerFrom
<1> QED BY <1>1, <1>2, <1>4

LEMMA HandlesStay ==
  ASSUME UNCHANGED storage, NEW CONSTANT h
  PROVE  HandleIs(h)' <=> HandleIs(h)
<1>1. \A k : KeptIs(h, k)' <=> KeptIs(h, k)
  BY AnswersStay DEF KeptIs
<1> QED BY <1>1, AnswersStay DEF HandleIs

(* A handle is had of an open chain, and answers as if it kept nothing.    *)
HInv ==
  /\ handle = NoHandle => answered = NoAnswer
  /\ handle # NoHandle => phase = "open" /\ HandleIs(handle)
  /\ HandleAnswersAfresh

LEMMA HInvInit == HandleInit => HInv
BY DEF HandleInit, HInv, HandleAnswersAfresh

(* The dictionaries a handle may have are ones it can be read by.          *)
LEMMA ColumnsNamed ==
  ASSUME ColumnsDistinct
  PROVE  /\ \A adds \in OwnDicts : \A schema \in ToSet(adds) : Columned(schema)
         /\ files \in Inputs => \A fi \in DOMAIN files : \A schema \in ToSet(files[fi].adds) : Columned(schema)
<1>1. \A adds \in OwnDicts : \A schema \in ToSet(adds) : Columned(schema)
  BY EventHandleAssumption DEF ColumnsDistinct, NamesColumns, IsSequence, Columned
<1>2. \A input \in Inputs : \A f \in ToSet(input) : \A schema \in ToSet(f.adds) : Columned(schema)
  BY EventHandleAssumption DEF ColumnsDistinct, NamesColumns, IsSequence, Columned
<1>3. \A fi \in DOMAIN files : files[fi] \in ToSet(files)
  BY DEF ToSet
<1> QED BY <1>1, <1>2, <1>3

LEMMA ReadableOf ==
  ASSUME NEW S, NEW d, InOrder(d, S), KeepsIds(d), \A schema \in S : Columned(schema)
  PROVE  Readable(d)
<1>1. d.schemas \in Seq(S)
  BY DEF InOrder
<1>2. d.schemas \in Seq(ToSet(d.schemas))
  BY <1>1, ItsMembers DEF IsSequence
<1>3. \A i \in 1..Len(d.schemas) : Columned(d.schemas[i])
  BY <1>1
<1>4. InOrder(d, ToSet(d.schemas))
  BY <1>2 DEF InOrder
<1> QED BY <1>3, <1>4 DEF Readable

LEMMA DictsReadable ==
  ASSUME NothingReplaced, ColumnsDistinct, StorageInv, phase = "open"
  PROVE  /\ Readable(dict)
         /\ \A fi \in DOMAIN files : Readable(FileDict(fi))
         /\ \A adds \in OwnDicts : Readable(DictOf(adds))
<1>1. files \in Inputs /\ Union.ok /\ dict = Union.dict
  BY DEF StorageInv
<1>2. ASSUME NEW fi \in DOMAIN files
      PROVE  Readable(FileDict(fi)) /\ \A schema \in ToSet(FileDict(fi).schemas) : Columned(schema)
  <2>1. InOrder(FileDict(fi), ToSet(files[fi].adds)) /\ KeepsIds(FileDict(fi))
    BY <1>1, FileDictIs
  <2>2. \A schema \in ToSet(files[fi].adds) : Columned(schema)
    BY <1>1, ColumnsNamed
  <2>3. Readable(FileDict(fi))
    BY <2>1, <2>2, ReadableOf
  <2>4. FileDict(fi).schemas \in Seq(ToSet(files[fi].adds))
    BY <2>1 DEF InOrder
  <2>5. \A schema \in ToSet(FileDict(fi).schemas) : schema \in ToSet(files[fi].adds)
    BY <2>4 DEF ToSet
  <2> QED BY <2>2, <2>3, <2>5
<1>3. Readable(dict)
  <2>1. InOrder(Union.dict, Declared) /\ KeepsIds(Union.dict)
    BY <1>1, UnionIsIn
  <2>2. \A schema \in Declared : Columned(schema)
    BY <1>2 DEF Declared
  <2> QED BY <1>1, <2>1, <2>2, ReadableOf
<1>4. ASSUME NEW adds \in OwnDicts PROVE Readable(DictOf(adds))
  <2>1. adds \in Seq(ToSet(adds))
    BY EventHandleAssumption DEF IsSequence
  <2>2. InOrder(DictOf(adds), ToSet(adds))
    BY <2>1, DictInOrder
  <2>3. KeepsIds(DictOf(adds))
    BY DEF NothingReplaced
  <2> QED BY <2>2, <2>3, ColumnsNamed, ReadableOf
<1> QED BY <1>2, <1>3, <1>4

(* Nothing that is kept is known at first.                                 *)
LEMMA HInvHold ==
  ASSUME NothingReplaced, ColumnsDistinct, StorageInv, StoredInv, HInv,
         NEW g \in 0..Numbers!Total - 1, NEW kind \in {"owned", "ctx"},
         NEW d \in {dict, FileDict(Numbers!Resolve(g).file)} \cup {DictOf(adds) : adds \in OwnDicts},
         Hold(g, d, kind)
  PROVE  HInv'
<1>1. /\ phase = "open" /\ UNCHANGED storage /\ answered' = answered /\ handle = NoHandle
      /\ handle' = [at |-> Numbers!Resolve(g), dict |-> d, kind |-> kind, kept |-> << >>]
  BY DEF Hold
<1>2. PICK at : at = Numbers!Resolve(g)
  OBVIOUS
<1>3. Place(at)
  BY <1>2, NumbersArePlaces DEF StorageInv
<1>4. Readable(d)
  <2>1. at.file \in DOMAIN files
    BY <1>3 DEF Place
  <2> QED BY <1>1, <1>2, <2>1, DictsReadable
<1>5. PICK h, e : h = [at |-> at, dict |-> e, kind |-> kind, kept |-> << >>] /\ e = d
  OBVIOUS
<1>6. HandleIs(h)
  <2>1. h.at = at /\ h.dict = e /\ h.kind = kind /\ h.kept = << >>
    BY <1>5
  <2>2. /\ Record(h).layout \in {"blob", "by_bank", "per_column"}
        /\ Events(h)[h.at.event].structures \in Seq(WrittenStructure)
    BY <1>1, <1>3, <2>1, PlacesAreStored DEF Record, Events
  <2> QED BY <1>4, <1>5, <2>1, <2>2 DEF HandleIs
<1>7. handle' = h
  BY <1>1, <1>2, <1>5
<1>8. HandleIs(handle)'
  BY <1>1, <1>6, <1>7, HandlesStay
<1>9. handle' # NoHandle
  <2>1. handle'.kind # NoHandle.kind
    BY <1>1 DEF NoHandle
  <2> QED BY <2>1
<1>10. answered' = NoAnswer
  BY <1>1 DEF HInv
<1>11. HandleAnswersAfresh'
  BY <1>10 DEF HandleAnswersAfresh
<1> QED BY <1>1, <1>8, <1>9, <1>10, <1>11 DEF HInv, storage

(* An answer given is the one a handle that keeps nothing would give.      *)
LEMMA HInvAsk ==
  ASSUME StorageInv, HInv, NEW ask \in Asks, Ask(ask)
  PROVE  HInv'
<1>1. PICK h : h = handle
  OBVIOUS
<1>2. /\ phase = "open" /\ HandleIs(h) /\ UNCHANGED storage
      /\ handle' = [h EXCEPT !.kept = Answer(h, ask).kept]
      /\ answered' = [ask |-> ask, answer |-> Answer(h, ask).answer]
  <2>1. phase = "open" /\ HandleIs(h)
    BY <1>1 DEF Ask, HInv
  <2>2. \E result \in {Answer(h, ask)} :
          /\ answered' = [ask |-> ask, answer |-> result.answer]
          /\ handle' = [h EXCEPT !.kept = result.kept]
    BY <1>1 DEF Ask
  <2> QED BY <2>1, <2>2 DEF Ask
<1>3. PICK kept, answer : kept = Answer(h, ask).kept /\ answer = Answer(h, ask).answer
  OBVIOUS
<1>4. PICK g, a : g = [h EXCEPT !.kept = kept] /\ a = [ask |-> ask, answer |-> answer]
  OBVIOUS
<1>5. handle' = g /\ answered' = a
  BY <1>2, <1>3, <1>4
<1>6. HandleIs(g) /\ answer = Answer(Forgetful(h), ask).answer
  BY <1>2, <1>3, <1>4, SameAnswer
<1>7. Forgetful(g) = Forgetful(h) /\ g.kind = h.kind
  <2>1. h = [at |-> h.at, dict |-> h.dict, kind |-> h.kind, kept |-> h.kept]
    BY <1>2 DEF HandleIs
  <2> QED BY <1>4, <2>1, ForgetfulIs
<1>8. HandleIs(handle)'
  BY <1>2, <1>5, <1>6, HandlesStay
<1>9. handle' # NoHandle
  <2>1. handle'.kind # NoHandle.kind
    BY <1>2, <1>5, <1>7 DEF NoHandle, HandleIs
  <2> QED BY <2>1
<1>10. HandleAnswersAfresh'
  <2>1. Answer([g EXCEPT !.kept = << >>], a.ask).answer = a.answer
    BY <1>4, <1>6, <1>7 DEF Forgetful
  <2>2. PICK f, b : f = [g EXCEPT !.kept = << >>] /\ b = a.ask
    OBVIOUS
  <2>3. Answer(f, b)' = Answer(f, b)
    BY <1>2, AnswersStay
  <2>4. Answer([handle EXCEPT !.kept = << >>], answered.ask)' = Answer(f, b)
    BY <1>5, <2>2, <2>3
  <2> QED BY <1>5, <2>1, <2>2, <2>4 DEF HandleAnswersAfresh
<1> QED BY <1>2, <1>8, <1>9, <1>10 DEF HInv, storage

(* Nothing is written, damaged or opened once there is a handle.           *)
LEMMA HInvStays ==
  ASSUME StorageInv, HInv, UNCHANGED handles, UNCHANGED storage \/ StorageNext
  PROVE  HInv'
<1>1. PICK h, a : h = handle /\ a = answered
  OBVIOUS
<1>2. handle' = h /\ answered' = a
  BY <1>1 DEF handles
<1>3. CASE h = NoHandle
  <2>1. a = NoAnswer
    BY <1>1, <1>3 DEF HInv
  <2> QED BY <1>2, <1>3, <2>1 DEF HInv, HandleAnswersAfresh
<1>4. CASE h # NoHandle
  <2>1. phase = "open" /\ HandleIs(h)
    BY <1>1, <1>4 DEF HInv
  <2>2. UNCHANGED storage
    BY <2>1 DEF StorageNext, WriteFile, DamageRecord, OpenChain
  <2>3. HandleIs(handle)'
    BY <1>2, <2>1, <2>2, HandlesStay
  <2>4. HandleAnswersAfresh'
    <3>1. a # NoAnswer => a.answer = Answer([h EXCEPT !.kept = << >>], a.ask).answer
      BY <1>1 DEF HInv, HandleAnswersAfresh
    <3>2. PICK f, b : f = [h EXCEPT !.kept = << >>] /\ b = a.ask
      OBVIOUS
    <3>3. Answer(f, b)' = Answer(f, b)
      BY <2>2, AnswersStay
    <3>4. Answer([handle EXCEPT !.kept = << >>], answered.ask)' = Answer(f, b)
      BY <1>2, <3>2, <3>3
    <3> QED BY <1>2, <3>1, <3>2, <3>4 DEF HandleAnswersAfresh
  <2> QED BY <1>2, <1>4, <2>1, <2>2, <2>3, <2>4 DEF HInv, storage
<1> QED BY <1>3, <1>4

LEMMA HInvNext ==
  ASSUME NothingReplaced, ColumnsDistinct, StorageInv, StoredInv, HInv,
         \/ ([StorageNext]_storage /\ UNCHANGED handles)
         \/ HandleNext
  PROVE  HInv'
<1>1. CASE [StorageNext]_storage /\ UNCHANGED handles
  BY <1>1, HInvStays
<1>2. ASSUME NEW g \in 0..Numbers!Total - 1, NEW kind \in {"owned", "ctx"},
             NEW d \in {dict, FileDict(Numbers!Resolve(g).file)} \cup {DictOf(adds) : adds \in OwnDicts},
             Hold(g, d, kind)
      PROVE  HInv'
  BY <1>2, HInvHold
<1>3. ASSUME NEW ask \in Asks, Ask(ask) PROVE HInv'
  BY <1>3, HInvAsk
<1> QED BY <1>1, <1>2, <1>3 DEF HandleNext

(***************************************************************************)
(* The steps of a program, seen from the storage and from the handle.      *)
(***************************************************************************)
LEMMA ProgramSteps ==
  ASSUME [Next]_vars
  PROVE  /\ [StorageNext]_storage
         /\ ([StorageNext]_storage /\ UNCHANGED handles) \/ HandleNext
         /\ HandleNext => UNCHANGED storage
<1>0. HandleNext => UNCHANGED storage
  BY DEF HandleNext, Hold, Ask
<1>1. CASE UNCHANGED vars
  BY <1>0, <1>1 DEF vars, rewriting, storage, handles
<1>2. CASE RewriteNext /\ UNCHANGED python
  <2>1. CASE Storage
    BY <1>0, <2>1 DEF Storage
  <2>2. CASE \E p \in Programs : Start(p)
    BY <1>0, <2>2 DEF Start
  <2>3. CASE (\E appends \in BOOLEAN : Copy(appends)) \/ (\E finishes \in BOOLEAN : Finish(finishes))
    BY <1>0, <2>3 DEF Copy, Finish
  <2>4. CASE Look
    BY <1>0, <2>4 DEF Look
  <2>5. CASE Assemble
    BY <1>0, <2>5 DEF Assemble
  <2> QED BY <1>2, <2>1, <2>2, <2>3, <2>4, <2>5 DEF RewriteNext
<1>3. CASE \E n \in 0..MaxBatch : Extend(n) \/ (n < MaxBatch /\ ExtendFails(n))
  BY <1>0, <1>3 DEF Extend, ExtendFails
<1>4. CASE \E finishes \in BOOLEAN : Close(finishes)
  BY <1>0, <1>4 DEF Close
<1> QED BY <1>1, <1>2, <1>3, <1>4 DEF Next

LEMMA StorageHolds == Spec => [](StorageInv /\ StoredInv)
<1>1. Init => StorageInv /\ StoredInv
  BY StoredInvInit DEF Init, RewriteInit
<1>2. (StorageInv /\ StoredInv) /\ [Next]_vars => (StorageInv /\ StoredInv)'
  BY ProgramSteps, StoredInvNext
<1> QED BY <1>1, <1>2, PTL DEF Spec

(* Whatever was asked of an event before, in whatever layout its record    *)
(* is, damaged or not, OwnedEvent and EventCtx answer as one that was      *)
(* never asked anything would; but no schema of a dictionary the caller    *)
(* gives may have been replaced by another of its name, and no schema may  *)
(* name two columns alike.                                                 *)
THEOREM HandlesAnswerAfresh ==
  ASSUME NothingReplaced, ColumnsDistinct
  PROVE  Spec => []HandleAnswersAfresh
<1>1. Init => HInv
  BY HInvInit DEF Init, RewriteInit
<1>2. StorageInv /\ StoredInv /\ HInv /\ [Next]_vars => HInv'
  BY ProgramSteps, HInvNext
<1>3. HInv => HandleAnswersAfresh
  BY DEF HInv
<1> QED BY <1>1, <1>2, <1>3, StorageHolds, PTL DEF Spec

-----------------------------------------------------------------------------
(***************************************************************************)
(* The Python writer.                                                      *)
(***************************************************************************)
(* A file before anything is written to it.                                *)
Untouched ==
  /\ events_written = 0 /\ left = 0 /\ failures = 0
  /\ ~built /\ ~finished /\ ~rebuilt

(* Only a program of the writer touches the file; a writer there is has    *)
(* not been finished; the first one has what was handed to it.             *)
PyInv ==
  /\ events_written \in Nat /\ left \in Nat /\ failures \in Nat /\ closes \in 0..MaxCloses
  /\ built \in BOOLEAN /\ finished \in BOOLEAN /\ rebuilt \in BOOLEAN
  /\ built => ~finished
  /\ outcome = "none" => output = << >>
  /\ ~PyRuns => Untouched /\ closes = 0
  /\ PyRuns /\ ~built /\ closes = 0 => Untouched /\ output = << >>

FirstWriter == PyRuns /\ ~rebuilt

(* What a step of the writer does with its file.                           *)
LEMMA WriterSteps ==
  ASSUME PyInv, [Next]_vars
  PROVE  \/ /\ UNCHANGED python
            /\ (PyRuns => PyRuns' /\ UNCHANGED <<program, outcome, output, ahead>>)
            /\ (outcome' = "none" => outcome = "none" /\ UNCHANGED output)
            /\ (PyRuns' /\ ~PyRuns => outcome = "none" /\ UNCHANGED output)
         \/ /\ PyRuns /\ UNCHANGED <<program, outcome, storage, handles, build, dropped>>
            /\ \/ \E n \in 0..MaxBatch : Extend(n) \/ (n < MaxBatch /\ ExtendFails(n))
               \/ \E finishes \in BOOLEAN : Close(finishes)
<1>1. CASE UNCHANGED vars
  BY <1>1 DEF vars, rewriting, copying, PyRuns
<1>2. CASE RewriteNext /\ UNCHANGED python
  <2>1. CASE Storage \/ Look \/ Assemble
    BY <1>2, <2>1 DEF Storage, Look, Assemble, copying, PyRuns
  <2>2. CASE \E p \in Programs : Start(p)
    BY <1>2, <2>2 DEF Start, PyRuns
  <2>3. CASE \E appends \in BOOLEAN : Copy(appends)
    BY <1>2, <2>3 DEF Copy, PyRuns, Skims
  <2>4. CASE \E finishes \in BOOLEAN : Finish(finishes)
    BY <1>2, <2>4 DEF Finish, PyRuns, Skims
  <2> QED BY <1>2, <2>1, <2>2, <2>3, <2>4 DEF RewriteNext
<1>3. CASE \E n \in 0..MaxBatch : Extend(n) \/ (n < MaxBatch /\ ExtendFails(n))
  BY <1>3 DEF Extend, ExtendFails
<1>4. CASE \E finishes \in BOOLEAN : Close(finishes)
  BY <1>4 DEF Close
<1> QED BY <1>1, <1>2, <1>3, <1>4 DEF Next

LEMMA PyInvInit == Init => PyInv
<1> SUFFICES ASSUME Init PROVE PyInv
  OBVIOUS
<1>1. MaxCloses \in Nat
  BY PyWriterAssumption
<1>2. ~PyRuns /\ Untouched
  BY DEF Init, RewriteInit, PyRuns, Untouched
<1>3. built \in BOOLEAN /\ finished \in BOOLEAN /\ rebuilt \in BOOLEAN
  BY Zenon DEF Init
<1> QED BY <1>1, <1>2, <1>3 DEF Init, RewriteInit, PyInv

LEMMA PyInvNext == PyInv /\ [Next]_vars => PyInv'
<1> SUFFICES ASSUME PyInv, [Next]_vars PROVE PyInv'
  OBVIOUS
<1>1. CASE /\ UNCHANGED python
           /\ (PyRuns => PyRuns' /\ UNCHANGED <<program, outcome, output, ahead>>)
           /\ (outcome' = "none" => outcome = "none" /\ UNCHANGED output)
           /\ (PyRuns' /\ ~PyRuns => outcome = "none" /\ UNCHANGED output)
  <2>1. UNCHANGED <<events_written, left, failures, closes, built, finished, rebuilt>>
    BY <1>1 DEF python
  <2>2. Untouched' <=> Untouched
    BY <2>1 DEF Untouched
  <2>3. /\ outcome' = "none" => output' = << >>
        /\ ~PyRuns' => Untouched' /\ closes' = 0
        /\ PyRuns' /\ ~built' /\ closes' = 0 => Untouched' /\ output' = << >>
    BY <1>1, <2>1, <2>2 DEF PyInv
  <2> QED BY <2>1, <2>3 DEF PyInv
<1>2. ASSUME PyRuns, UNCHANGED <<program, outcome>>,
             NEW n \in 0..MaxBatch, Extend(n) \/ ExtendFails(n)
      PROVE  PyInv'
  <2>1. n \in Nat
    BY PyWriterAssumption
  <2>2. /\ built' /\ ~finished /\ finished' = finished /\ closes' = closes
        /\ rebuilt' = (rebuilt \/ (~built /\ closes > 0))
    BY <1>2, Zenon DEF Extend, ExtendFails, Fits
  <2>3. events_written' \in Nat /\ left' \in Nat /\ failures' \in Nat
    BY <1>2, <2>1 DEF PyInv, Extend, ExtendFails
  <2>4. built' \in BOOLEAN /\ finished' \in BOOLEAN /\ rebuilt' \in BOOLEAN
    <3>1. built' = TRUE
      BY <1>2, Zenon DEF Extend, ExtendFails
    <3> QED BY <2>2, <3>1, Zenon DEF PyInv
  <2>5. PyRuns' /\ outcome' # "none"
    BY <1>2 DEF PyRuns
  <2> QED BY <2>2, <2>3, <2>4, <2>5 DEF PyInv
<1>3. ASSUME PyRuns, UNCHANGED <<program, outcome>>, NEW finishes \in BOOLEAN, Close(finishes)
      PROVE  PyInv'
  <2>1. /\ ~built' /\ closes' = closes + 1 /\ closes < MaxCloses
        /\ UNCHANGED <<events_written, left, failures>>
    BY <1>3, Zenon DEF Close
  <2>2. closes' \in 1..MaxCloses
    BY <2>1, PyWriterAssumption DEF PyInv
  <2>3. built' \in BOOLEAN /\ finished' \in BOOLEAN /\ rebuilt' \in BOOLEAN
    BY <1>3, Zenon DEF Close
  <2>4. PyRuns' /\ outcome' # "none"
    BY <1>3 DEF PyRuns
  <2> QED BY <2>1, <2>2, <2>3, <2>4 DEF PyInv
<1> QED BY <1>1, <1>2, <1>3, WriterSteps

(***************************************************************************)
(* A new file.                                                             *)
(***************************************************************************)
NewFileInv ==
  FirstWriter /\ ~Updates =>
    /\ IsSequence(output) /\ Len(output) = events_written + left
    /\ HasInOrder(output, events_written)

(* What is appended leaves the rows there where they are, and may bring    *)
(* the next ones.                                                          *)
LEMMA MoreInOrder ==
  ASSUME NEW S, NEW s \in Seq(S), NEW t \in Seq(S), NEW m \in Nat, HasInOrder(s, m)
  PROVE  /\ HasInOrder(s \o t, m)
         /\ (\A k \in 1..Len(t) : RowOf(t[k]) = m + k) => HasInOrder(s \o t, m + Len(t))
<1> DEFINE n == Len(t)
           u == s \o t
<1>1. /\ u \in Seq(S) /\ Len(u) = Len(s) + n /\ n \in Nat /\ Len(s) \in Nat
      /\ \A k \in 1..Len(s) : u[k] = s[k]
      /\ \A k \in 1..n : u[Len(s) + k] = t[k]
  BY Concat
<1>2. PICK at \in [1..m -> DOMAIN s] :
        /\ \A k \in 1..m : RowOf(s[at[k]]) = k
        /\ \A k \in 1..m - 1 : at[k] < at[k + 1]
  BY DEF HasInOrder
<1>3. DOMAIN s = 1..Len(s) /\ DOMAIN u = 1..Len(s) + n
  BY <1>1
<1> HIDE DEF u
<1>4. HasInOrder(u, m)
  <2>1. at \in [1..m -> DOMAIN u]
    BY <1>1, <1>2, <1>3
  <2>2. \A k \in 1..m : RowOf(u[at[k]]) = k
    BY <1>1, <1>2, <1>3
  <2> QED BY <1>2, <2>1, <2>2 DEF HasInOrder
<1>5. ASSUME \A k \in 1..n : RowOf(t[k]) = m + k PROVE HasInOrder(u, m + n)
  <2> DEFINE to == [k \in 1..m + n |-> IF k <= m THEN at[k] ELSE Len(s) + (k - m)]
  <2>1. to \in [1..m + n -> DOMAIN u]
    <3>1. ASSUME NEW k \in 1..m + n PROVE to[k] \in DOMAIN u
      <4>1. CASE k <= m
        BY <1>1, <1>2, <1>3, <4>1
      <4>2. CASE k > m
        BY <1>1, <1>3, <4>2
      <4> QED BY <4>1, <4>2
    <3> QED BY <3>1
  <2>2. ASSUME NEW k \in 1..m + n PROVE RowOf(u[to[k]]) = k
    <3>1. CASE k <= m
      <4>1. k \in 1..m /\ to[k] = at[k] /\ at[k] \in 1..Len(s)
        BY <1>2, <1>3, <3>1
      <4> HIDE DEF to
      <4> QED BY <1>1, <1>2, <4>1
    <3>2. CASE k > m
      <4>1. k - m \in 1..n /\ to[k] = Len(s) + (k - m)
        BY <1>1, <3>2
      <4>2. u[to[k]] = t[k - m] /\ RowOf(t[k - m]) = m + (k - m)
        BY <1>1, <1>5, <4>1
      <4> QED BY <4>2
    <3> QED BY <3>1, <3>2
  <2>3. ASSUME NEW k \in 1..(m + n) - 1 PROVE to[k] < to[k + 1]
    <3>1. CASE k + 1 <= m
      <4>1. k \in 1..m - 1 /\ to[k] = at[k] /\ to[k + 1] = at[k + 1]
        BY <1>1, <3>1
      <4> QED BY <1>2, <4>1
    <3>2. CASE k = m
      <4>1. to[k] = at[k] /\ to[k + 1] = Len(s) + 1 /\ at[k] \in 1..Len(s)
        BY <1>1, <1>2, <1>3, <3>2
      <4> QED BY <1>1, <4>1
    <3>3. CASE k > m
      <4>1. to[k] = Len(s) + (k - m) /\ to[k + 1] = Len(s) + (k + 1 - m)
        BY <1>1, <3>3
      <4> QED BY <1>1, <4>1
    <3> QED BY <1>1, <3>1, <3>2, <3>3
  <2> HIDE DEF to
  <2> QED BY <2>1, <2>2, <2>3 DEF HasInOrder
<1> QED BY <1>4, <1>5 DEF u

(* The rows of a batch for a new file go on from those accepted.           *)
LEMMA FreshBatch ==
  ASSUME PyInv, ~Updates, NEW n \in Nat
  PROVE  /\ IsSequence(Batch(n)) /\ Len(Batch(n)) = n
         /\ \A k \in 1..n : RowOf(Batch(n)[k]) = events_written + k
<1>1. Batch(n) = [k \in 1..n |-> Fresh(events_written + k)]
  BY DEF Batch
<1>2. IsSequence(Batch(n)) /\ Len(Batch(n)) = n
  <2> DEFINE T == {Fresh(events_written + k) : k \in 1..n}
             b == [k \in 1..n |-> Fresh(events_written + k)]
  <2>1. b \in [1..n -> T]
    OBVIOUS
  <2> HIDE DEF b, T
  <2>2. b \in Seq(T) /\ Len(b) = n
    BY <2>1
  <2> QED BY <1>1, <2>2, ItsMembers DEF b
<1>3. ASSUME NEW m PROVE RowOf(Fresh(m)) = m
  <2>1. Fresh(m).structures = <<Row(m)>> /\ Row(m).data = << <<m>> >>
    BY DEF Fresh, Row
  <2>2. Last(<<Row(m)>>) = Row(m)
    BY DEF Last
  <2>3. Row(m).data[1][1] = m
    BY <2>1
  <2> QED BY <2>1, <2>2, <2>3 DEF RowOf
<1>4. \A k \in 1..n : Batch(n)[k] = Fresh(events_written + k)
  BY <1>1
<1> QED BY <1>2, <1>3, <1>4

LEMMA EmptyInFile == HasInOrder(<< >>, 0)
<1> DEFINE at == [k \in 1..0 |-> k]
<1>1. at \in [1..0 -> DOMAIN << >>]
  OBVIOUS
<1> HIDE DEF at
<1>2. \A k \in 1..0 : RowOf(<< >>[at[k]]) = k
  OBVIOUS
<1>3. \A k \in 1..0 - 1 : at[k] < at[k + 1]
  OBVIOUS
<1> QED BY <1>1, <1>2, <1>3, Zenon DEF HasInOrder

(* As long as there has been but one writer its file goes on.              *)
LEMMA FirstWriterGoesOn ==
  ASSUME PyInv, PyRuns, ~rebuilt, \/ \E n \in Nat : Extend(n) \/ ExtendFails(n)
                                  \/ \E finishes \in BOOLEAN : Close(finishes),
         ~rebuilt'
  PROVE  Begun = output
<1>1. rebuilt' = (rebuilt \/ (~built /\ closes > 0))
  BY Zenon DEF Extend, ExtendFails, Close
<1>2. built \/ ~(closes > 0)
  BY <1>1, Zenon
<1>3. built \/ closes = 0
  BY <1>2 DEF PyInv
<1> QED BY <1>3 DEF PyInv, Begun

LEMMA NewFileInvNext == PyInv /\ NewFileInv /\ [Next]_vars => NewFileInv'
<1> SUFFICES ASSUME PyInv, NewFileInv, [Next]_vars, (FirstWriter /\ ~Updates)'
             PROVE  /\ IsSequence(output') /\ Len(output') = events_written' + left'
                    /\ HasInOrder(output', events_written')
  BY DEF NewFileInv, HasInOrder, RowOf, IsSequence
<1>1. CASE /\ UNCHANGED python
           /\ (PyRuns => PyRuns' /\ UNCHANGED <<program, outcome, output, ahead>>)
           /\ (PyRuns' /\ ~PyRuns => outcome = "none" /\ UNCHANGED output)
  <2>1. UNCHANGED <<events_written, left, rebuilt>>
    BY <1>1 DEF python
  <2>2. CASE PyRuns
    BY <1>1, <2>1, <2>2 DEF NewFileInv, FirstWriter, Updates
  <2>3. CASE ~PyRuns
    <3>1. output' = << >> /\ events_written' = 0 /\ left' = 0
      BY <1>1, <2>1, <2>3 DEF FirstWriter, PyInv, Untouched
    <3>2. IsSequence(<< >>)
      <4>1. << >> \in Seq({})
        OBVIOUS
      <4> QED BY <4>1, ItsMembers
    <3> QED BY <3>1, <3>2, EmptyInFile
  <2> QED BY <2>2, <2>3
<1>2. ASSUME PyRuns, UNCHANGED <<program, outcome>>,
             NEW n \in 0..MaxBatch, Extend(n) \/ ExtendFails(n)
      PROVE  /\ IsSequence(output') /\ Len(output') = events_written' + left'
             /\ HasInOrder(output', events_written')
  <2>1. n \in Nat /\ ~Updates /\ ~rebuilt'
    BY <1>2, PyWriterAssumption DEF Updates, FirstWriter
  <2>2. ~rebuilt
    BY <1>2, <2>1, Zenon DEF Extend, ExtendFails
  <2>3. Begun = output
    BY <1>2, <2>1, <2>2, FirstWriterGoesOn
  <2>4. /\ IsSequence(output) /\ Len(output) = events_written + left
        /\ HasInOrder(output, events_written) /\ events_written \in Nat /\ left \in Nat
    BY <1>2, <2>1, <2>2 DEF NewFileInv, FirstWriter, PyInv
  <2>5. /\ output' = output \o Batch(n)
        /\ \/ events_written' = events_written + n /\ left' = left
           \/ events_written' = events_written /\ left' = left + n
    BY <1>2, <2>3 DEF Extend, ExtendFails
  <2>6. /\ IsSequence(Batch(n)) /\ Len(Batch(n)) = n
        /\ \A k \in 1..n : RowOf(Batch(n)[k]) = events_written + k
    BY <2>1, FreshBatch
  <2> DEFINE S == ToSet(output) \cup ToSet(Batch(n))
  <2>7. output \in Seq(S) /\ Batch(n) \in Seq(S)
    <3>1. output \in Seq(ToSet(output)) /\ Batch(n) \in Seq(ToSet(Batch(n)))
      BY <2>4, <2>6 DEF IsSequence
    <3> QED BY <3>1
  <2> HIDE DEF S
  <2>8. output' \in Seq(S) /\ Len(output') = Len(output) + n
    <3>1. output \o Batch(n) \in Seq(S) /\ Len(output \o Batch(n)) = Len(output) + Len(Batch(n))
      BY <2>7, Concat
    <3> QED BY <2>5, <2>6, <3>1
  <2>9. HasInOrder(output', events_written) /\ HasInOrder(output', events_written + n)
    BY <2>4, <2>5, <2>6, <2>7, MoreInOrder
  <2>10. IsSequence(output')
    BY <2>8, ItsMembers
  <2>11. Len(output') = events_written' + left'
    BY <2>1, <2>4, <2>5, <2>8
  <2>12. HasInOrder(output', events_written')
    BY <2>5, <2>9
  <2> QED BY <2>10, <2>11, <2>12
<1>3. ASSUME PyRuns, UNCHANGED <<program, outcome>>, NEW finishes \in BOOLEAN, Close(finishes)
      PROVE  /\ IsSequence(output') /\ Len(output') = events_written' + left'
             /\ HasInOrder(output', events_written')
  <2>1. ~Updates /\ ~rebuilt'
    BY <1>3 DEF Updates, FirstWriter
  <2>2. ~rebuilt
    BY <1>3, <2>1, Zenon DEF Close
  <2>3. Begun = output
    BY <1>3, <2>1, <2>2, FirstWriterGoesOn
  <2>4. output' = output /\ events_written' = events_written /\ left' = left
    BY <1>3, <2>3 DEF Close
  <2> QED BY <1>3, <2>1, <2>2, <2>4 DEF NewFileInv, FirstWriter
<1> QED BY <1>1, <1>2, <1>3, WriterSteps

LEMMA PyInvHolds == Spec => []PyInv
BY PyInvInit, PyInvNext, PTL DEF Spec

(* A new file that close has finished, the first time it was called, has   *)
(* every row of the extends that returned, in order, and, besides, those   *)
(* that extends which failed had appended, whatever was given, failed and  *)
(* was given again (Writer.extend, Writer.close).                          *)
THEOREM NewFilesHoldTheRows == Spec => []NewFileHoldsTheRows
<1>1. Init => NewFileInv
  BY DEF Init, RewriteInit, NewFileInv, FirstWriter, PyRuns
<1>2. PyInv /\ NewFileInv /\ [Next]_vars => NewFileInv'
  BY NewFileInvNext
<1>3. PyInv /\ NewFileInv => NewFileHoldsTheRows
  <2> SUFFICES ASSUME PyInv, NewFileInv, finished, ~rebuilt, ~Updates
               PROVE  Len(output) = events_written + left /\ HasInOrder(output, events_written)
    BY DEF NewFileHoldsTheRows
  <2>1. PyRuns
    BY DEF PyInv, Untouched
  <2> QED BY <2>1 DEF NewFileInv, FirstWriter
<1> QED BY <1>1, <1>2, <1>3, PyInvHolds, PTL DEF Spec

(***************************************************************************)
(* What an iterator without a filter hands out.                            *)
(***************************************************************************)
TaskAt(i) == [file |-> Numbers!AllRecords[i][1], record |-> Numbers!AllRecords[i][2], event |-> 0]
PlacesIn(i) ==
  [k \in 1..Len(EventsAt(TaskAt(i))) |-> [file |-> TaskAt(i).file, record |-> TaskAt(i).record, event |-> k]]

(* The numbering goes through the records, and through the events of each. *)
LEMMA NumbersByRecord ==
  ASSUME files \in Inputs
  PROVE  LET n == Len(Numbers!AllRecords)
             listed == FlattenSeq([i \in 1..n |-> PlacesIn(i)])
         IN  /\ n \in Nat /\ DOMAIN Numbers!AllRecords = 1..n
             /\ \A i \in 1..n : /\ TaskAt(i).file \in DOMAIN files
                                /\ TaskAt(i).record \in DOMAIN files[TaskAt(i).file].records
                                /\ TaskAt(i).file \in Nat /\ TaskAt(i).record \in Nat
             /\ Len(listed) = Numbers!Total
             /\ \A g \in 0..Numbers!Total - 1 : Numbers!Resolve(g) = listed[g + 1]
<1> DEFINE n == Len(Numbers!AllRecords)
<1>0. Counting!ChainAssumption
  BY ShapesAre
<1>1. Numbers!AllRecords = Counting!AllRecords
  BY DEF Numbers!AllRecords, Counting!AllRecords, Numbers!FlattenSeq, Counting!FlattenSeq
<1>2. /\ Counting!AllRecords \in Seq(Nat \X Nat)
      /\ \A i \in 1..n : /\ Counting!AllRecords[i][1] \in 1..Len(Shapes)
                         /\ Counting!AllRecords[i][2] \in 1..Len(Shapes[Counting!AllRecords[i][1]])
  BY <1>0, <1>1, Counting!RecordsExist
<1>3. n \in Nat /\ DOMAIN Numbers!AllRecords = 1..n
  BY <1>1, <1>2
<1>4. ASSUME NEW i \in 1..n
      PROVE  /\ TaskAt(i).file \in DOMAIN files /\ TaskAt(i).record \in DOMAIN files[TaskAt(i).file].records
             /\ TaskAt(i).file \in Nat /\ TaskAt(i).record \in Nat
             /\ Shapes[TaskAt(i).file][TaskAt(i).record].event_count = Len(EventsAt(TaskAt(i)))
  <2>1. TaskAt(i).file = Counting!AllRecords[i][1] /\ TaskAt(i).record = Counting!AllRecords[i][2]
    BY <1>1 DEF TaskAt
  <2>2. TaskAt(i).file \in 1..Len(Shapes) /\ TaskAt(i).record \in 1..Len(Shapes[TaskAt(i).file])
    BY <1>2, <2>1
  <2>3. TaskAt(i).file \in Nat /\ TaskAt(i).record \in Nat
    <3>1. Counting!AllRecords[i] \in Nat \X Nat
      BY <1>1, <1>2
    <3> QED BY <2>1, <3>1
  <2> QED BY <2>2, <2>3, ShapesAre DEF EventsAt
<1> DEFINE lists == [i \in 1..n |-> PlacesIn(i)]
<1>5. Counting!Numbering = FlattenSeq(lists)
  <2>1. ASSUME NEW i \in 1..n
        PROVE  [k \in 1..Counting!RecordAt(Counting!AllRecords[i][1], Counting!AllRecords[i][2]).event_count |->
                  [file |-> Counting!AllRecords[i][1], record |-> Counting!AllRecords[i][2], event |-> k]]
               = PlacesIn(i)
    <3>1. TaskAt(i).file = Counting!AllRecords[i][1] /\ TaskAt(i).record = Counting!AllRecords[i][2]
      BY <1>1 DEF TaskAt
    <3> QED BY <1>4, <3>1 DEF PlacesIn, Counting!RecordAt
  <2>2. [i \in DOMAIN Counting!AllRecords |->
           [k \in 1..Counting!RecordAt(Counting!AllRecords[i][1], Counting!AllRecords[i][2]).event_count |->
              [file |-> Counting!AllRecords[i][1], record |-> Counting!AllRecords[i][2], event |-> k]]]
        = lists
    BY <1>1, <1>3, <2>1
  <2> HIDE DEF lists
  <2>3. \A seqs : Counting!FlattenSeq(seqs) = FlattenSeq(seqs)
    BY DEF Counting!FlattenSeq, FlattenSeq
  <2>4. Counting!Numbering = Counting!FlattenSeq(lists)
    BY <2>2 DEF Counting!Numbering
  <2> QED BY <2>3, <2>4
<1>6. /\ Len(Counting!Numbering) = Counting!Total
      /\ \A g \in Nat : g < Counting!Total => Counting!Resolve(g) = Counting!Numbering[g + 1]
  BY <1>0, Counting!ResolvesByCounting
<1>7. Numbers!Total \in Nat
  BY NumbersArePlaces
<1>8. \A g \in 0..Numbers!Total - 1 : Numbers!Resolve(g) = FlattenSeq(lists)[g + 1]
  BY <1>5, <1>6, <1>7, SameNumbers
<1> QED BY <1>3, <1>4, <1>5, <1>6, <1>8, SameNumbers

(* A filter that is not active lets every event pass.                      *)
LEMMA InactivePasses ==
  ASSUME NEW filter, ~IsActive(filter), NEW t, NEW e, NEW d
  PROVE  Passes(t, e, filter, d)
<1>1. filter.require = {} /\ filter.event_tags = {} /\ filter.mask = {}
  BY DEF IsActive
<1> DEFINE b == Bind(filter, d)
<1>2. b.ids = {} /\ ~b.unsatisfiable /\ b.event_tags = {} /\ b.mask = {}
  BY <1>1 DEF Bind
<1> HIDE DEF b
<1>3. \A tag, banks : Check(b, tag, banks)
  BY <1>2 DEF Check, TagMatches
<1> QED BY <1>3 DEF Passes, b

(* What an iterator hands out: the place of an event, or the error of a    *)
(* record that cannot be read.                                             *)
Entries ==
  {a \in [file: Nat, record: Nat, event: Nat] :
     /\ a.file \in DOMAIN files /\ a.record \in DOMAIN files[a.file].records
     /\ a.event # Unreadable => a.event \in DOMAIN EventsAt(a)}

(* What is had of a record is the places of its events, or its error.      *)
LEMMA EventsOfIs ==
  ASSUME files \in Inputs, NEW filter, NEW i \in 1..Len(Numbers!AllRecords)
  PROVE  /\ EventsOf(TaskAt(i), filter) \in Seq(Entries)
         /\ PlacesIn(i) \in Seq(Entries)
         /\ ~IsActive(filter) =>
              \/ EventsOf(TaskAt(i), filter) = PlacesIn(i)
              \/ /\ EventsOf(TaskAt(i), filter) # << >>
                 /\ EventsOf(TaskAt(i), filter)[1].event = Unreadable
<1> DEFINE t == TaskAt(i)
           at == [e \in DOMAIN EventsAt(t) |-> [t EXCEPT !.event = e]]
           I == {e \in DOMAIN at : Passes(t, e, filter, FileDict(t.file))}
           m == Len(EventsAt(t))
<1>1. /\ t = [file |-> t.file, record |-> t.record, event |-> 0]
      /\ t.file \in DOMAIN files /\ t.record \in DOMAIN files[t.file].records
      /\ t.file \in Nat /\ t.record \in Nat
  BY NumbersByRecord DEF TaskAt
<1>2. m \in Nat /\ DOMAIN EventsAt(t) = 1..m
  BY <1>1, RecordsAre DEF EventsAt
<1> HIDE DEF m
<1>3. at = PlacesIn(i)
  <2>1. at = [k \in 1..m |-> [file |-> t.file, record |-> t.record, event |-> k]]
    BY <1>1, <1>2
  <2> QED BY <2>1 DEF PlacesIn, m
<1>4. ASSUME NEW k \in 0..m PROVE [file |-> t.file, record |-> t.record, event |-> k] \in Entries
  <2> DEFINE a == [file |-> t.file, record |-> t.record, event |-> k]
  <2>1. a \in [file: Nat, record: Nat, event: Nat] /\ EventsAt(a) = EventsAt(t)
    BY <1>1, <1>2 DEF EventsAt
  <2>2. a.event # Unreadable => a.event \in DOMAIN EventsAt(a)
    BY <1>2, <2>1 DEF Unreadable
  <2> QED BY <1>1, <2>1, <2>2 DEF Entries
<1>5. PlacesIn(i) \in Seq(Entries)
  <2> DEFINE s == [k \in 1..m |-> [file |-> t.file, record |-> t.record, event |-> k]]
  <2>1. \A k \in 1..m : [file |-> t.file, record |-> t.record, event |-> k] \in Entries
    BY <1>2, <1>4
  <2>2. s \in [1..m -> Entries]
    BY <2>1
  <2> HIDE DEF s
  <2>3. s \in Seq(Entries)
    BY <1>2, <2>2
  <2> QED BY <2>3 DEF PlacesIn, m, s
<1> HIDE DEF at
<1>6. CASE ~RecordAt(t).readable
  <2> DEFINE a == [t EXCEPT !.event = Unreadable]
  <2>1. EventsOf(t, filter) = <<a>>
    BY <1>6 DEF EventsOf
  <2>2. a = [file |-> t.file, record |-> t.record, event |-> 0] /\ a.event = Unreadable
    BY <1>1 DEF Unreadable
  <2> HIDE DEF a
  <2>3. a \in Entries
    BY <1>2, <1>4, <2>2
  <2>4. <<a>> \in Seq(Entries) /\ <<a>> # << >> /\ <<a>>[1] = a
    BY <2>3
  <2> QED BY <1>5, <2>1, <2>2, <2>4
<1>7. CASE RecordAt(t).readable
  <2>1. EventsOf(t, filter) = Subsequence(at, I)
    BY <1>7 DEF EventsOf, Only, Subsequence, at
  <2>2. EventsOf(t, filter) \in Seq(Entries)
    BY <1>3, <1>5, <2>1, SubsequenceSome
  <2>3. ~IsActive(filter) => EventsOf(t, filter) = PlacesIn(i)
    <3> SUFFICES ASSUME ~IsActive(filter) PROVE Subsequence(at, I) = PlacesIn(i)
      BY <2>1
    <3>1. DOMAIN at \subseteq I
      BY InactivePasses
    <3> HIDE DEF I
    <3> QED BY <1>3, <1>5, <3>1, SubsequenceAll
  <2> QED BY <1>5, <2>2, <2>3
<1> QED BY <1>6, <1>7

(* What is ahead of a program is events of the chain, and errors; without  *)
(* a filter it is the events by their numbers, up to the first error.      *)
LEMMA AheadIs ==
  ASSUME files \in Inputs, NEW filter
  PROVE  /\ Ahead(filter) \in Seq(Entries)
         /\ ~IsActive(filter) =>
              \A m \in 1..Len(Ahead(filter)) :
                (\A k \in 1..m : Ahead(filter)[k].event # Unreadable) =>
                  m <= Numbers!Total /\ Ahead(filter)[m] = Numbers!Resolve(m - 1)
<1> DEFINE n == Len(Numbers!AllRecords)
           all == Numbers!AllRecords
           I == {i \in DOMAIN all : Numbers!Matches(Numbers!RecordAt(all[i][1], all[i][2]), filter.record_tags)}
           tasks == Numbers!BuildTasks(filter.record_tags)
           had == [k \in DOMAIN tasks |->
                     EventsOf([file |-> tasks[k][1], record |-> tasks[k][2], event |-> 0], filter)]
           lists == [i \in 1..n |-> PlacesIn(i)]
           seqs == [i \in 1..n |-> EventsOf(TaskAt(i), filter)]
<1>1. n \in Nat /\ DOMAIN all = 1..n /\ all \in Seq(ToSet(all))
  <2>1. \E S : all \in Seq(S)
    BY ShapesAre, Counting!RecordsExist
       DEF Numbers!AllRecords, Counting!AllRecords, Numbers!FlattenSeq, Counting!FlattenSeq
  <2> QED BY <2>1, ItsMembers DEF IsSequence
<1>2. Ahead(filter) = FlattenSeq(had)
  BY DEF Ahead
<1>3. tasks = Subsequence(all, I)
  <2>1. \A s : Numbers!FlattenSeq(s) = FlattenSeq(s)
    BY DEF Numbers!FlattenSeq, FlattenSeq
  <2>2. [i \in DOMAIN all |-> IF Numbers!Matches(Numbers!RecordAt(all[i][1], all[i][2]), filter.record_tags)
                             THEN <<all[i]>> ELSE << >>]
        = [i \in DOMAIN all |-> IF i \in I THEN <<all[i]>> ELSE << >>]
    OBVIOUS
  <2> HIDE DEF I
  <2>3. tasks = Numbers!FlattenSeq([i \in DOMAIN all |-> IF i \in I THEN <<all[i]>> ELSE << >>])
    BY <2>2 DEF Numbers!BuildTasks
  <2> QED BY <2>1, <2>3 DEF Subsequence
<1>4. lists \in [1..n -> Seq(Entries)] /\ seqs \in [1..n -> Seq(Entries)]
  BY EventsOfIs
<1>5. Ahead(filter) \in Seq(Entries)
  <2>1. tasks \in Seq(ToSet(all))
    BY <1>1, <1>3, SubsequenceSome
  <2> DEFINE l == Len(tasks)
  <2>2. l \in Nat /\ DOMAIN tasks = 1..l
    BY <2>1
  <2>3. ASSUME NEW k \in 1..l PROVE had[k] \in Seq(Entries)
    <3>1. PICK i \in 1..n : tasks[k] = all[i]
      BY <1>1, <2>1 DEF ToSet
    <3>2. had[k] = EventsOf(TaskAt(i), filter)
      BY <2>2, <3>1 DEF TaskAt
    <3> QED BY <3>2, EventsOfIs
  <2>4. had \in [1..l -> Seq(Entries)]
    BY <2>2, <2>3
  <2> HIDE DEF had, l
  <2> QED BY <1>2, <2>2, <2>4, FlattenType
<1>6. ASSUME ~IsActive(filter), NEW m \in 1..Len(Ahead(filter)),
             \A k \in 1..m : Ahead(filter)[k].event # Unreadable
      PROVE  m <= Numbers!Total /\ Ahead(filter)[m] = Numbers!Resolve(m - 1)
  <2>1. DOMAIN all \subseteq I
    BY <1>6 DEF IsActive, Numbers!Matches
  <2>2. tasks = all
    <3> HIDE DEF I
    <3> QED BY <1>1, <1>3, <2>1, SubsequenceAll
  <2>3. had = seqs
    BY <1>1, <2>2 DEF TaskAt
  <2> DEFINE Bad == {a \in Entries : a.event = Unreadable}
  <2>4. ASSUME NEW i \in 1..n
        PROVE  seqs[i] = lists[i] \/ (seqs[i] # << >> /\ seqs[i][1] \in Bad)
    <3>1. seqs[i] \in Seq(Entries)
      BY <1>4
    <3>2. seqs[i] # << >> => seqs[i][1] \in Entries
      BY <3>1
    <3>3. seqs[i] = EventsOf(TaskAt(i), filter) /\ lists[i] = PlacesIn(i)
      OBVIOUS
    <3> HIDE DEF seqs, lists
    <3> QED BY <1>6, <3>2, <3>3, EventsOfIs
  <2>5. lists = [i \in 1..n |-> PlacesIn(i)]
    OBVIOUS
  <2> HIDE DEF had, seqs, lists, Bad, n
  <2>6. FlattenSeq(seqs) = Ahead(filter)
    BY <1>2, <2>3
  <2>7. m \in 1..Len(FlattenSeq(seqs)) /\ \A k \in 1..m : FlattenSeq(seqs)[k] \notin Bad
    BY <1>6, <2>6 DEF Bad
  <2>8. m <= Len(FlattenSeq(lists)) /\ FlattenSeq(lists)[m] = FlattenSeq(seqs)[m]
    <3>1. SameUnlessBad(seqs, lists, n, Entries, Bad)
      BY <1>4, <2>4 DEF SameUnlessBad
    <3>2. NoneBad(FlattenSeq(seqs), m, Bad)
      BY <2>7 DEF NoneBad
    <3> QED BY <1>1, <2>7, <3>1, <3>2, SameUpTo
  <2>9. /\ Len(FlattenSeq(lists)) = Numbers!Total
        /\ \A g \in 0..Numbers!Total - 1 : Numbers!Resolve(g) = FlattenSeq(lists)[g + 1]
    BY <2>5, NumbersByRecord DEF n
  <2>10. m - 1 \in 0..Numbers!Total - 1 /\ (m - 1) + 1 = m
    <3>1. Numbers!Total \in Nat /\ m \in Nat /\ m >= 1
      <4>1. Numbers!Total \in Nat
        BY NumbersArePlaces
      <4>2. Len(Ahead(filter)) \in Nat
        BY <1>5
      <4> QED BY <1>6, <4>1, <4>2
    <3> QED BY <2>8, <2>9, <3>1
  <2> QED BY <2>6, <2>8, <2>9, <2>10
<1> QED BY <1>5, <1>6

(***************************************************************************)
(* An update.                                                              *)
(***************************************************************************)
(* While nothing of the storage changes the events ahead are those that    *)
(* there were, and so are their bytes.                                     *)
LEMMA AheadStays ==
  ASSUME UNCHANGED storage, NEW CONSTANT filter
  PROVE  Ahead(filter)' = Ahead(filter)
<1>1. UNCHANGED <<files, stored, phase, dict>>
  BY DEF storage
<1>2. Shapes' = Shapes
  BY <1>1 DEF Shapes
<1>3. ASSUME NEW CONSTANT tags PROVE Numbers!BuildTasks(tags)' = Numbers!BuildTasks(tags)
  BY <1>2 DEF Numbers!BuildTasks, Numbers!AllRecords, Numbers!RecordAt, Numbers!Matches, Numbers!FlattenSeq
<1>4. ASSUME NEW CONSTANT t PROVE EventsOf(t, filter)' = EventsOf(t, filter)
  <2>1. EventsAt(t)' = EventsAt(t) /\ RecordAt(t)' = RecordAt(t) /\ FileDict(t.file)' = FileDict(t.file)
    BY <1>1 DEF EventsAt, RecordAt, FileDict
  <2>2. ASSUME NEW CONSTANT e, NEW CONSTANT d PROVE Passes(t, e, filter, d)' = Passes(t, e, filter, d)
    BY <1>1, <2>1 DEF Passes, TagOf, BanksIn
  <2> QED BY <2>1, <2>2 DEF EventsOf
<1> QED BY <1>3, <1>4 DEF Ahead

LEMMA TotalStays ==
  ASSUME UNCHANGED storage
  PROVE  Numbers!Total' = Numbers!Total
<1>1. Shapes' = Shapes
  BY DEF storage, Shapes
<1>2. Numbers!FirstEvent' = Numbers!FirstEvent
  BY <1>1 DEF Numbers!FirstEvent
<1>3. \A fi : Numbers!TotalEvents(fi)' = Numbers!TotalEvents(fi)
  BY <1>1, <1>2 DEF Numbers!TotalEvents
<1>4. Numbers!file_event_offsets' = Numbers!file_event_offsets
  BY <1>1, <1>3 DEF Numbers!file_event_offsets
<1> QED BY <1>1, <1>4 DEF Numbers!Total

LEMMA DecoratedStays ==
  ASSUME UNCHANGED storage, UNCHANGED program, NEW CONSTANT at, NEW CONSTANT k
  PROVE  Decorated(at, k)' = Decorated(at, k)
<1>1. UNCHANGED <<files, stored, phase, dict>>
  BY DEF storage
<1>2. ASSUME NEW CONSTANT id
      PROVE  Split!RowSize(id)' = Split!RowSize(id) /\ \A c : Split!Width(id, c)' = Split!Width(id, c)
  BY <1>1 DEF Split!RowSize, Split!Widths, Split!Width
<1>3. ASSUME NEW CONSTANT of, NEW CONSTANT b, NEW CONSTANT e, NEW CONSTANT got
      PROVE  Split!EventData(of, b, e, got)' = Split!EventData(of, b, e, got)
  <2>1. /\ Split!RowsIn(of, e)' = Split!RowsIn(of, e)
        /\ Split!RowsBefore(of, e)' = Split!RowsBefore(of, e)
    BY <1>2 DEF Split!RowsIn, Split!RowsBefore
  <2>2. Split!ColumnarData(of, b, e, got)' = Split!ColumnarData(of, b, e, got)
    BY <1>2, <2>1 DEF Split!ColumnarData
  <2> QED BY <2>2 DEF Split!EventData
<1>4. ASSUME NEW CONSTANT rec, NEW CONSTANT events, NEW CONSTANT e
      PROVE  Split!EventBytes(rec, events, e)' = Split!EventBytes(rec, events, e)
  BY <1>3 DEF Split!EventBytes, Split!SynthesizeEvent
<1>5. BytesAt(at)' = BytesAt(at)
  BY <1>1, <1>4 DEF BytesAt, EventsAt, RecordAt
<1> QED BY <1>5 DEF Decorated, Given, Row

(* The first c of the events are behind the iterator, and could be read.   *)
Behind(all, c, left_over) ==
  /\ c \in 0..Len(all) /\ left_over = SubSeq(all, c + 1, Len(all))
  /\ \A k \in 1..c : all[k].event # Unreadable

(* n rows are accepted: the file is the first n events, each with its row; *)
(* once an extend has failed the iterator is beyond them, or at its end,   *)
(* and not all of the source can be accepted any more.                     *)
UpdateOf(all, n, file, left_over, failed) ==
  /\ failed = 0 => Behind(all, n, left_over) /\ file = [k \in 1..n |-> Decorated(all[k], k)]
  /\ failed # 0 =>
       /\ n < Numbers!Total
       /\ left_over = << >> \/ \E c \in Nat : n < c /\ Behind(all, c, left_over)

UpdateInv ==
  /\ outcome # "none" => program \in Programs /\ phase = "open"
  /\ finished /\ Updates => events_written = Numbers!Total
  /\ FirstWriter /\ Updates =>
       UpdateOf(Ahead(program.filter), events_written, output, ahead, failures)

LEMMA UpdateOfStays ==
  ASSUME UNCHANGED storage, UNCHANGED program, NEW CONSTANT all, NEW CONSTANT n, NEW CONSTANT file,
         NEW CONSTANT left_over, NEW CONSTANT failed
  PROVE  UpdateOf(all, n, file, left_over, failed)' = UpdateOf(all, n, file, left_over, failed)
<1>1. \A at, k : Decorated(at, k)' = Decorated(at, k)
  BY DecoratedStays
<1>2. Numbers!Total' = Numbers!Total
  BY TotalStays
<1> QED BY <1>1, <1>2 DEF UpdateOf

Had(n) == n <= Len(ahead) /\ \A k \in 1..n : ahead[k].event # Unreadable

(* What of the source is ahead is the source's, and can be had as it was.  *)
LEMMA BehindMore ==
  ASSUME files \in Inputs, NEW filter, NEW c, NEW all, all = Ahead(filter),
         Behind(all, c, ahead), NEW n \in Nat, Had(n)
  PROVE  /\ c \in Nat /\ \A k \in 1..n : ahead[k] = all[c + k]
         /\ Behind(all, c + n, SubSeq(ahead, n + 1, Len(ahead)))
         /\ ~IsActive(filter) => c + n <= Numbers!Total
<1>1. n <= Len(ahead) /\ \A k \in 1..n : ahead[k].event # Unreadable
  BY DEF Had
<1>2. all \in Seq(Entries) /\ Len(all) \in Nat
  BY AheadIs
<1>3. c \in 0..Len(all) /\ ahead = SubSeq(all, c + 1, Len(all)) /\ \A k \in 1..c : all[k].event # Unreadable
  BY DEF Behind
<1>4. Len(ahead) = Len(all) - c /\ \A k \in 1..Len(all) - c : ahead[k] = all[c + k]
  BY <1>2, <1>3
<1>5. c \in Nat /\ c + n \in 0..Len(all) /\ \A k \in 1..n : ahead[k] = all[c + k]
  BY <1>1, <1>2, <1>3, <1>4
<1>6. SubSeq(ahead, n + 1, Len(ahead)) = SubSeq(all, c + n + 1, Len(all))
  BY <1>1, <1>2, <1>3, <1>4, <1>5
<1>7. ASSUME NEW k \in 1..c + n PROVE all[k].event # Unreadable
  <2>1. CASE k <= c
    BY <1>3, <1>5, <2>1
  <2>2. CASE k > c
    <3>1. k - c \in 1..n /\ c + (k - c) = k
      BY <1>5, <2>2
    <3> QED BY <1>1, <1>5, <3>1
  <2> QED BY <1>5, <2>1, <2>2
<1>8. ~IsActive(filter) => c + n <= Numbers!Total
  <2> SUFFICES ASSUME ~IsActive(filter) PROVE c + n <= Numbers!Total
    OBVIOUS
  <2>1. CASE c + n = 0
    BY <2>1, NumbersArePlaces
  <2>2. CASE c + n # 0
    BY <1>5, <1>7, <2>2, AheadIs
  <2> QED BY <2>1, <2>2
<1> QED BY <1>5, <1>6, <1>7, <1>8 DEF Behind

(* Two maps one behind the other are one.                                  *)
LEMMA MapsOnwards ==
  ASSUME NEW S, NEW m \in Nat, NEW n \in Nat, NEW d \in [1..m + n -> S]
  PROVE  [k \in 1..m |-> d[k]] \o [k \in 1..n |-> d[m + k]] = d
<1> DEFINE s == [k \in 1..m |-> d[k]]
           t == [k \in 1..n |-> d[m + k]]
<1>1. s \in Seq(S) /\ Len(s) = m /\ \A k \in 1..m : s[k] = d[k]
  OBVIOUS
<1>2. t \in Seq(S) /\ Len(t) = n /\ \A k \in 1..n : t[k] = d[m + k]
  <2>1. t \in [1..n -> S]
    OBVIOUS
  <2> QED BY <2>1
<1>3. d \in Seq(S) /\ Len(d) = m + n
  OBVIOUS
<1> HIDE DEF s, t
<1>4. /\ s \o t \in Seq(S) /\ Len(s \o t) = m + n
      /\ \A k \in 1..m : (s \o t)[k] = s[k]
      /\ \A k \in 1..n : (s \o t)[m + k] = t[k]
  <2>1. \A x, y \in Seq(S) :
          /\ x \o y \in Seq(S) /\ Len(x \o y) = Len(x) + Len(y)
          /\ \A k \in 1..Len(x) : (x \o y)[k] = x[k]
          /\ \A k \in 1..Len(y) : (x \o y)[Len(x) + k] = y[k]
    BY Concat
  <2> QED BY ONLY <1>1, <1>2, <2>1
<1>5. ASSUME NEW k \in 1..m + n PROVE (s \o t)[k] = d[k]
  <2>0. k \in Nat /\ (k <= m \/ k > m) /\ k >= 1
    OBVIOUS
  <2>1. CASE k <= m
    <3>1. k \in 1..m
      BY <2>0, <2>1
    <3> QED BY <1>1, <1>4, <3>1
  <2>2. CASE k > m
    <3>1. k - m \in 1..n /\ m + (k - m) = k
      BY <2>0, <2>2
    <3> QED BY <1>2, <1>4, <3>1
  <2> QED BY <2>0, <2>1, <2>2
<1>6. s \o t = d
  BY <1>3, <1>4, <1>5, SameSeq
<1> QED BY <1>6 DEF s, t

(* An extend, and one that fails half way, of the first writer.            *)
LEMMA UpdateGrows ==
  ASSUME files \in Inputs, PyInv, PyRuns, Updates, program \in Programs, Begun = output,
         UpdateOf(Ahead(program.filter), events_written, output, ahead, failures),
         NEW n \in Nat, Extend(n) \/ ExtendFails(n)
  PROVE  UpdateOf(Ahead(program.filter), events_written', output', ahead', failures')
<1>1. PICK all : all = Ahead(program.filter)
  OBVIOUS
<1> DEFINE m == events_written
<1>2. /\ ~IsActive(program.filter) /\ m \in Nat /\ failures \in Nat
      /\ Numbers!Total \in Nat /\ all \in Seq(Entries)
  BY <1>1, PyWriterAssumption, AheadIs, NumbersArePlaces DEF PyInv, Updates
<1>3. Had(n)
  BY DEF Extend, ExtendFails, CanRead, Had
<1>4. ASSUME NEW c, Behind(all, c, ahead)
      PROVE  /\ c \in Nat /\ c + n <= Numbers!Total
             /\ \A k \in 1..n : ahead[k] = all[c + k]
             /\ Behind(all, c + n, SubSeq(ahead, n + 1, Len(ahead)))
  BY <1>1, <1>2, <1>3, <1>4, BehindMore
<1>5. CASE Extend(n)
  <2>1. /\ output' = output \o Batch(n) /\ ahead' = SubSeq(ahead, n + 1, Len(ahead))
        /\ events_written' = m + n /\ failures' = failures
    BY <1>5 DEF Extend
  <2>2. CASE failures = 0
    <3>1. Behind(all, m, ahead) /\ output = [k \in 1..m |-> Decorated(all[k], k)]
      BY <1>1, <2>2 DEF UpdateOf
    <3>2. \A k \in 1..n : ahead[k] = all[m + k]
      BY <1>4, <3>1
    <3> DEFINE S == {Decorated(all[k], k) : k \in 1..m + n}
               d == [k \in 1..m + n |-> Decorated(all[k], k)]
    <3>3. Batch(n) = [k \in 1..n |-> d[m + k]]
      <4>1. Batch(n) = [k \in 1..n |-> Decorated(ahead[k], m + k)]
        BY DEF Batch
      <4>2. \A k \in 1..n : Decorated(ahead[k], m + k) = d[m + k]
        BY <1>2, <3>2
      <4> HIDE DEF d
      <4> QED BY <4>1, <4>2
    <3>4. output = [k \in 1..m |-> d[k]]
      BY <1>2, <3>1
    <3>5. d \in [1..m + n -> S]
      OBVIOUS
    <3>6. d = [k \in 1..m + n |-> Decorated(all[k], k)]
      OBVIOUS
    <3> HIDE DEF d, S
    <3>7. output' = d
      BY <1>2, <2>1, <3>3, <3>4, <3>5, MapsOnwards
    <3>8. Behind(all, m + n, ahead')
      BY <1>4, <2>1, <3>1
    <3> QED BY <1>1, <2>1, <2>2, <3>6, <3>7, <3>8 DEF UpdateOf
  <2>3. CASE failures # 0
    <3>1. m < Numbers!Total
      BY <1>1, <2>3 DEF UpdateOf
    <3>2. CASE ahead = << >>
      <4>1. n = 0 /\ Len(ahead) = 0
        BY <1>3, <3>2 DEF Had
      <4>2. ahead' = << >>
        BY <2>1, <3>2, <4>1
      <4> QED BY <1>2, <2>1, <2>3, <3>1, <4>1, <4>2 DEF UpdateOf
    <3>3. ASSUME NEW c \in Nat, m < c, Behind(all, c, ahead)
          PROVE  UpdateOf(all, events_written', output', ahead', failures')
      <4>1. c + n <= Numbers!Total /\ Behind(all, c + n, ahead') /\ c + n \in Nat
        BY <1>4, <2>1, <3>3
      <4>2. m + n < c + n /\ m + n < Numbers!Total
        BY <1>2, <3>3, <4>1
      <4> QED BY <2>1, <2>3, <4>1, <4>2 DEF UpdateOf
    <3> QED BY <1>1, <2>3, <3>2, <3>3 DEF UpdateOf
  <2> QED BY <2>2, <2>3
<1>6. CASE ExtendFails(n)
  <2>1. /\ events_written' = m /\ failures' = failures + 1
        /\ ahead' = IF CanRead(n + 1) THEN SubSeq(ahead, n + 2, Len(ahead)) ELSE << >>
    BY <1>6 DEF ExtendFails
  <2>2. m < Numbers!Total
    <3>1. m + (n + 1) <= Numbers!Total
      BY <1>6 DEF ExtendFails, Fits
    <3> QED BY <1>2, <3>1
  <2>3. ahead' = << >> \/ \E c \in Nat : m < c /\ Behind(all, c, ahead')
    <3>1. CASE CanRead(n + 1)
      <4>1. Had(n + 1)
        BY <3>1 DEF CanRead, Had
      <4>2. ASSUME NEW c \in Nat, m <= c, Behind(all, c, ahead)
            PROVE  m < c + (n + 1) /\ Behind(all, c + (n + 1), ahead')
        <5>1. n + 1 \in Nat
          OBVIOUS
        <5>2. Behind(all, c + (n + 1), SubSeq(ahead, (n + 1) + 1, Len(ahead)))
          BY <1>1, <4>1, <4>2, <5>1, BehindMore
        <5>3. ahead' = SubSeq(ahead, (n + 1) + 1, Len(ahead))
          BY <2>1, <3>1
        <5> QED BY <1>2, <4>2, <5>2, <5>3
      <4>3. ahead = << >> \/ \E c \in Nat : m <= c /\ Behind(all, c, ahead)
        <5>1. CASE failures = 0
          BY <1>1, <1>2, <5>1 DEF UpdateOf
        <5>2. CASE failures # 0
          BY <1>1, <1>2, <5>2 DEF UpdateOf
        <5> QED BY <5>1, <5>2
      <4>4. ahead # << >>
        BY <4>1 DEF Had
      <4>5. PICK c \in Nat : m <= c /\ Behind(all, c, ahead)
        BY <4>3, <4>4
      <4>6. c + (n + 1) \in Nat
        OBVIOUS
      <4> QED BY <4>2, <4>5, <4>6
    <3>2. CASE ~CanRead(n + 1)
      BY <2>1, <3>2
    <3> QED BY <3>1, <3>2
  <2> QED BY <1>1, <1>2, <2>1, <2>2, <2>3 DEF UpdateOf
<1> QED BY <1>5, <1>6

LEMMA UpdateInvInit == Init => UpdateInv
<1> SUFFICES ASSUME Init PROVE UpdateInv
  OBVIOUS
<1>1. outcome = "none" /\ ~finished /\ ~PyRuns
  BY DEF Init, RewriteInit, PyRuns
<1> QED BY <1>1 DEF UpdateInv, FirstWriter

(* A program is started over an open chain, which is not written to any    *)
(* more.                                                                   *)
LEMMA OnlyStarts ==
  ASSUME [Next]_vars
  PROVE  /\ outcome # "none" => UNCHANGED program
         /\ outcome # "none" /\ phase = "open" => UNCHANGED storage
         /\ outcome = "none" /\ outcome' # "none" => \E p \in Programs : Start(p)
<1>1. phase = "open" => UNCHANGED storage
  BY ProgramSteps DEF StorageNext, WriteFile, DamageRecord, OpenChain
<1>2. CASE UNCHANGED vars
  BY <1>1, <1>2 DEF vars, rewriting, copying
<1>3. CASE RewriteNext /\ UNCHANGED python
  <2>1. CASE Storage \/ Look \/ Assemble
    BY <1>1, <2>1 DEF Storage, Look, Assemble, copying
  <2>2. CASE \E p \in Programs : Start(p)
    BY <1>1, <2>2 DEF Start
  <2>3. CASE (\E appends \in BOOLEAN : Copy(appends)) \/ (\E finishes \in BOOLEAN : Finish(finishes))
    BY <1>1, <2>3 DEF Copy, Finish
  <2> QED BY <1>3, <2>1, <2>2, <2>3 DEF RewriteNext
<1>4. CASE \E n \in 0..MaxBatch : Extend(n) \/ (n < MaxBatch /\ ExtendFails(n))
  BY <1>1, <1>4 DEF Extend, ExtendFails
<1>5. CASE \E finishes \in BOOLEAN : Close(finishes)
  BY <1>1, <1>5 DEF Close
<1> QED BY <1>2, <1>3, <1>4, <1>5 DEF Next

(* The writer has nothing yet, and all of the source is ahead.             *)
LEMMA UpdateStarts ==
  ASSUME files \in Inputs, PyInv, ~PyRuns, UNCHANGED python, NEW p \in Programs, Start(p),
         (FirstWriter /\ Updates)'
  PROVE  UpdateOf(Ahead(program.filter), events_written, output, ahead, failures)'
<1>1. /\ UNCHANGED storage /\ program' = p /\ ahead' = Ahead(p.filter) /\ output' = output
      /\ outcome = "none"
  BY DEF Start, Copies, FirstWriter, PyRuns, Updates
<1>2. output' = << >> /\ events_written' = 0 /\ failures' = 0
  BY <1>1 DEF PyInv, Untouched, python
<1>3. PICK all : all = Ahead(p.filter)
  OBVIOUS
<1>4. all \in Seq(Entries)
  BY <1>3, AheadIs
<1>5. PICK filter : filter = p.filter
  OBVIOUS
<1>6. Ahead(filter)' = Ahead(filter)
  BY <1>1, AheadStays
<1>7. Ahead(program.filter)' = all
  BY <1>1, <1>3, <1>5, <1>6
<1>8. ahead' = all
  BY <1>1, <1>3
<1>9. Behind(all, 0, all)
  BY <1>4 DEF Behind
<1>10. [k \in 1..0 |-> Decorated(all[k], k)'] = << >>
  OBVIOUS
<1> QED BY <1>2, <1>7, <1>8, <1>9, <1>10 DEF UpdateOf

LEMMA UpdateInvNext == StorageInv /\ PyInv /\ UpdateInv /\ [Next]_vars => UpdateInv'
<1> SUFFICES ASSUME StorageInv, PyInv, UpdateInv, [Next]_vars PROVE UpdateInv'
  OBVIOUS
<1>1. outcome' # "none" => program' \in Programs /\ phase' = "open"
  <2>1. CASE outcome # "none"
    BY <2>1, OnlyStarts DEF UpdateInv, storage
  <2>2. CASE outcome = "none" /\ outcome' # "none"
    <3>1. PICK p \in Programs : Start(p)
      BY <2>2, OnlyStarts
    <3> QED BY <3>1 DEF Start, storage
  <2> QED BY <2>1, <2>2
<1>2. PyRuns => /\ outcome # "none" /\ program \in Programs /\ UNCHANGED storage /\ UNCHANGED program
                /\ files \in Inputs
  BY OnlyStarts DEF PyRuns, UpdateInv, StorageInv
<1>3. finished => PyRuns
  BY DEF PyInv, Untouched
<1>4. CASE /\ UNCHANGED python
           /\ (PyRuns => PyRuns' /\ UNCHANGED <<program, outcome, output, ahead>>)
           /\ (PyRuns' /\ ~PyRuns => outcome = "none" /\ UNCHANGED output)
  <2>1. UNCHANGED <<events_written, finished, failures, rebuilt>>
    BY <1>4 DEF python
  <2>2. (finished /\ Updates)' => events_written' = Numbers!Total'
    <3> SUFFICES ASSUME finished', Updates' PROVE events_written' = Numbers!Total'
      OBVIOUS
    <3>1. finished
      BY <2>1
    <3>2. Updates /\ UNCHANGED storage
      BY <1>2, <1>3, <3>1 DEF Updates
    <3> QED BY <2>1, <3>1, <3>2, TotalStays DEF UpdateInv
  <2>3. ASSUME (FirstWriter /\ Updates)'
        PROVE  UpdateOf(Ahead(program.filter), events_written, output, ahead, failures)'
    <3>1. CASE PyRuns
      <4>1. /\ UpdateOf(Ahead(program.filter), events_written, output, ahead, failures)
            /\ UNCHANGED storage /\ UNCHANGED program
        BY <1>2, <1>4, <2>1, <2>3, <3>1 DEF UpdateInv, FirstWriter, Updates
      <4>2. PICK filter, all, n, file, left_over, failed :
              /\ filter = program.filter /\ all = Ahead(filter) /\ n = events_written
              /\ file = output /\ left_over = ahead /\ failed = failures
        OBVIOUS
      <4>3. Ahead(filter)' = Ahead(filter)
        BY <4>1, AheadStays
      <4>4. UpdateOf(all, n, file, left_over, failed)' = UpdateOf(all, n, file, left_over, failed)
        BY <4>1, UpdateOfStays
      <4>5. Ahead(program.filter)' = all
        BY <4>1, <4>2, <4>3
      <4> QED BY <1>4, <2>1, <3>1, <4>1, <4>2, <4>4, <4>5
    <3>2. CASE ~PyRuns
      <4>1. outcome = "none" /\ outcome' # "none"
        BY <1>4, <2>3, <3>2 DEF FirstWriter, PyRuns
      <4>2. PICK p \in Programs : Start(p)
        BY <4>1, OnlyStarts
      <4>3. files \in Inputs
        BY DEF StorageInv
      <4> QED BY <1>4, <2>3, <3>2, <4>2, <4>3, UpdateStarts
    <3> QED BY <3>1, <3>2
  <2> QED BY <1>1, <2>2, <2>3 DEF UpdateInv
<1>5. ASSUME PyRuns, UNCHANGED <<program, outcome>>,
             NEW n \in 0..MaxBatch, Extend(n) \/ ExtendFails(n)
      PROVE  UpdateInv'
  <2>1. n \in Nat
    BY PyWriterAssumption
  <2>2. ~finished'
    BY <1>5 DEF Extend, ExtendFails, Fits
  <2>3. ASSUME (FirstWriter /\ Updates)'
        PROVE  UpdateOf(Ahead(program.filter), events_written, output, ahead, failures)'
    <3>1. Updates /\ ~rebuilt'
      BY <1>5, <2>3 DEF Updates, FirstWriter
    <3>2. ~rebuilt
      BY <1>5, <3>1, Zenon DEF Extend, ExtendFails
    <3>3. Begun = output
      BY <1>5, <2>1, <3>1, <3>2, FirstWriterGoesOn
    <3>4. UpdateOf(Ahead(program.filter), events_written, output, ahead, failures)
      BY <1>5, <3>1, <3>2 DEF UpdateInv, FirstWriter
    <3>5. UpdateOf(Ahead(program.filter), events_written', output', ahead', failures')
      BY <1>2, <1>5, <2>1, <3>1, <3>3, <3>4, UpdateGrows
    <3>6. PICK filter, all, m, file, left_over, failed :
            /\ filter = program.filter /\ all = Ahead(filter) /\ m = events_written'
            /\ file = output' /\ left_over = ahead' /\ failed = failures'
      OBVIOUS
    <3>7. UNCHANGED storage /\ UNCHANGED program
      BY <1>2, <1>5
    <3>8. Ahead(filter)' = Ahead(filter)
      BY <3>7, AheadStays
    <3>9. UpdateOf(all, m, file, left_over, failed)' = UpdateOf(all, m, file, left_over, failed)
      BY <3>7, UpdateOfStays
    <3>10. Ahead(program.filter)' = all
      BY <3>6, <3>7, <3>8
    <3> QED BY <3>5, <3>6, <3>9, <3>10
  <2> QED BY <1>1, <2>2, <2>3 DEF UpdateInv
<1>6. ASSUME PyRuns, UNCHANGED <<program, outcome>>, NEW finishes \in BOOLEAN, Close(finishes)
      PROVE  UpdateInv'
  <2>1. UNCHANGED storage /\ UNCHANGED program /\ Numbers!Total' = Numbers!Total
    BY <1>2, <1>6, TotalStays
  <2>2. (finished /\ Updates)' => events_written' = Numbers!Total'
    <3>1. events_written' = events_written /\ (finished \/ Covered)
      BY <1>6 DEF Close
    <3>2. Updates' => Updates
      BY <2>1 DEF Updates
    <3> QED BY <2>1, <3>1, <3>2 DEF UpdateInv, Covered
  <2>3. ASSUME (FirstWriter /\ Updates)'
        PROVE  UpdateOf(Ahead(program.filter), events_written, output, ahead, failures)'
    <3>1. Updates /\ ~rebuilt'
      BY <1>6, <2>3 DEF Updates, FirstWriter
    <3>2. ~rebuilt
      BY <1>6, <3>1, Zenon DEF Close
    <3>3. Begun = output
      BY <1>6, <3>1, <3>2, FirstWriterGoesOn
    <3>4. UpdateOf(Ahead(program.filter), events_written, output, ahead, failures)
      BY <1>6, <3>1, <3>2 DEF UpdateInv, FirstWriter
    <3>5. UNCHANGED <<events_written, output, ahead, failures>>
      BY <1>6, <3>3 DEF Close
    <3>6. PICK filter, all, m, file, left_over, failed :
            /\ filter = program.filter /\ all = Ahead(filter) /\ m = events_written
            /\ file = output /\ left_over = ahead /\ failed = failures
      OBVIOUS
    <3>7. Ahead(filter)' = Ahead(filter)
      BY <2>1, AheadStays
    <3>8. UpdateOf(all, m, file, left_over, failed)' = UpdateOf(all, m, file, left_over, failed)
      BY <2>1, UpdateOfStays
    <3>9. Ahead(program.filter)' = all
      BY <2>1, <3>6, <3>7
    <3> QED BY <3>4, <3>5, <3>6, <3>8, <3>9
  <2> QED BY <1>1, <2>2, <2>3 DEF UpdateInv
<1> QED BY <1>4, <1>5, <1>6, WriterSteps

(* A decorated file that close has finished, the first time it was called, *)
(* is the source's events by their numbers, each with its own row: an      *)
(* extend that failed half way has used up events, and however it is       *)
(* repeated the file cannot be closed any more (Writer.extend,             *)
(* Writer.close).                                                          *)
THEOREM UpdatesAreAligned == Spec => []UpdateIsAligned
<1>1. StorageInv /\ PyInv /\ UpdateInv => UpdateIsAligned
  <2> SUFFICES ASSUME StorageInv, PyInv, UpdateInv, finished, ~rebuilt, Updates
               PROVE  /\ Len(output) = Numbers!Total
                      /\ \A k \in 1..Numbers!Total : output[k] = Decorated(Numbers!Resolve(k - 1), k)
    BY DEF UpdateIsAligned
  <2>1. PyRuns
    BY DEF PyInv, Untouched
  <2>2. events_written = Numbers!Total /\ files \in Inputs /\ Numbers!Total \in Nat
    <3>1. files \in Inputs
      BY DEF StorageInv
    <3> QED BY <3>1, NumbersArePlaces DEF UpdateInv
  <2>3. PICK all : all = Ahead(program.filter)
    OBVIOUS
  <2>4. UpdateOf(all, Numbers!Total, output, ahead, failures) /\ failures \in Nat
    BY <2>1, <2>2, <2>3 DEF UpdateInv, FirstWriter, PyInv
  <2>5. failures = 0
    BY <2>2, <2>4 DEF UpdateOf
  <2>6. /\ Behind(all, Numbers!Total, ahead)
        /\ output = [k \in 1..Numbers!Total |-> Decorated(all[k], k)]
    BY <2>4, <2>5 DEF UpdateOf
  <2>7. ~IsActive(program.filter)
    BY <2>1, PyWriterAssumption DEF UpdateInv, PyRuns, Updates
  <2>8. ASSUME NEW k \in 1..Numbers!Total PROVE all[k] = Numbers!Resolve(k - 1)
    <3>1. all \in Seq(Entries)
      BY <2>2, <2>3, AheadIs
    <3>2. k \in 1..Len(all) /\ \A j \in 1..k : all[j].event # Unreadable
      BY <2>2, <2>6, <3>1 DEF Behind
    <3> QED BY <2>2, <2>3, <2>7, <3>2, AheadIs
  <2>9. Len(output) = Numbers!Total
    <3> DEFINE S == {Decorated(all[k], k) : k \in 1..Numbers!Total}
    <3>1. output \in [1..Numbers!Total -> S]
      BY <2>6
    <3> HIDE DEF S
    <3> QED BY <2>2, <3>1
  <2> QED BY <2>6, <2>8, <2>9
<1>2. StorageInv /\ PyInv /\ UpdateInv /\ [Next]_vars => UpdateInv'
  BY UpdateInvNext
<1> QED BY <1>1, <1>2, UpdateInvInit, StorageHolds, PyInvHolds, PTL DEF Spec
-----------------------------------------------------------------------------
(***************************************************************************)
(* Events assembled.  Buffers that are used again may hold anything.       *)
(***************************************************************************)
Cells == Values \cup {Zero}
Buffers(schema) == [DOMAIN schema.cols -> Seq(Cells)]
Lines(schema) == Seq([DOMAIN schema.cols -> Cells])

Pooled == UNION {Buffers(schema) : schema \in Schemas}
Built == UNION {[id : {schema.id}, rows : Nat, columns : Buffers(schema)] : schema \in Schemas}
Asked == UNION {[id : {schema.id}, rows : Lines(schema)] : schema \in Schemas}
TagsGiven == Tags \cup {NoTag}
BuiltEvents == [structures : Seq(Built), tag : TagsGiven]
AskedEvents == [structures : Seq(Asked), tag : TagsGiven]

(* The bank being filled shows what was set in it, row by row.             *)
Shows(b, lines) ==
  /\ Len(lines) = b.rows
  /\ \A c \in DOMAIN b.columns :
       /\ Len(b.columns[c]) = b.rows
       /\ \A row \in 1..b.rows : b.columns[c][row] = lines[row][c]

BankIs(b, lines) ==
  /\ b \in [schema : Schemas, pooled : BOOLEAN, rows : Nat, columns : Buffers(b.schema)]
  /\ lines \in Lines(b.schema)
  /\ Shows(b, lines)

(* The set of buffers is in the pool, or in the bank, or lost in a panic;  *)
(* the event under way holds what was asked for; so does every one         *)
(* appended.                                                               *)
BInv ==
  /\ running \in BOOLEAN /\ closures \in 0..MaxEvents
  /\ pool \in Seq(Pooled) /\ Len(pool) + (IF bank.pooled THEN 1 ELSE 0) <= 1
  /\ bank # NoBank => running /\ BankIs(bank, rows)
  /\ builder \in BuiltEvents /\ asked \in AskedEvents
  /\ running => HoldsAll(builder, asked)
  /\ written \in Seq(BuiltEvents) /\ expected \in Seq(AskedEvents)
  /\ EventsAsAssembled

(* The invariant holds at first, and every step below keeps it.            *)
LEMMA BInvInit == BuildInit => BInv
<1> SUFFICES ASSUME BuildInit PROVE BInv
  OBVIOUS
<1>1. EmptyEvent \in BuiltEvents /\ EmptyEvent \in AskedEvents
  BY DEF EmptyEvent, BuiltEvents, AskedEvents, TagsGiven
<1>2. MaxEvents \in Nat
  BY EventBuildAssumption
<1>3. closures \in 0..MaxEvents
  BY <1>2 DEF BuildInit
<1>6. running \in BOOLEAN /\ ~running
  BY Zenon DEF BuildInit
<1>4. pool \in Seq(Pooled) /\ Len(pool) + (IF bank.pooled THEN 1 ELSE 0) <= 1
  BY DEF BuildInit, NoBank
<1>5. written \in Seq(BuiltEvents) /\ expected \in Seq(AskedEvents) /\ EventsAsAssembled
  BY DEF BuildInit, EventsAsAssembled
<1> QED BY <1>1, <1>3, <1>4, <1>5, <1>6 DEF BuildInit, BInv

(* A record with some of its fields replaced.                              *)
LEMMA RecordsWith ==
  ASSUME NEW S, NEW T, NEW r \in [structures : S, tag : T], NEW x
  PROVE  [r EXCEPT !.structures = x] = [structures |-> x, tag |-> r.tag]
OBVIOUS

LEMMA BanksWith ==
  ASSUME NEW b, NEW n, NEW cols, NEW p,
         b = [schema |-> b.schema, pooled |-> b.pooled, rows |-> b.rows, columns |-> b.columns]
  PROVE  /\ [b EXCEPT !.rows = n] =
               [schema |-> b.schema, pooled |-> b.pooled, rows |-> n, columns |-> b.columns]
         /\ [b EXCEPT !.columns = cols] =
               [schema |-> b.schema, pooled |-> b.pooled, rows |-> b.rows, columns |-> cols]
         /\ [b EXCEPT !.pooled = p] =
               [schema |-> b.schema, pooled |-> p, rows |-> b.rows, columns |-> b.columns]
<1>1. [b EXCEPT !.rows = n] =
        [schema |-> b.schema, pooled |-> b.pooled, rows |-> n, columns |-> b.columns]
  OBVIOUS
<1>2. [b EXCEPT !.columns = cols] =
        [schema |-> b.schema, pooled |-> b.pooled, rows |-> b.rows, columns |-> cols]
  OBVIOUS
<1>3. [b EXCEPT !.pooled = p] =
        [schema |-> b.schema, pooled |-> p, rows |-> b.rows, columns |-> b.columns]
  OBVIOUS
<1> QED BY <1>1, <1>2, <1>3

(* A structure and what was asked for it, added at the end of both.        *)
LEMMA HoldsOneMore ==
  ASSUME NEW event \in BuiltEvents, NEW ask \in AskedEvents, HoldsAll(event, ask),
         NEW s \in Built, NEW a \in Asked, Holds(s, a)
  PROVE  /\ [event EXCEPT !.structures = Append(@, s)] \in BuiltEvents
         /\ [ask EXCEPT !.structures = Append(@, a)] \in AskedEvents
         /\ HoldsAll([event EXCEPT !.structures = Append(@, s)],
                     [ask EXCEPT !.structures = Append(@, a)])
<1> DEFINE e2 == [event EXCEPT !.structures = Append(@, s)]
           a2 == [ask EXCEPT !.structures = Append(@, a)]
<1>1. event.structures \in Seq(Built) /\ ask.structures \in Seq(Asked)
  BY DEF BuiltEvents, AskedEvents
<1>2. /\ e2 \in BuiltEvents /\ e2.structures = Append(event.structures, s) /\ e2.tag = event.tag
      /\ a2 \in AskedEvents /\ a2.structures = Append(ask.structures, a) /\ a2.tag = ask.tag
  <2>1. Append(event.structures, s) \in Seq(Built) /\ Append(ask.structures, a) \in Seq(Asked)
    BY <1>1
  <2>2. e2 = [structures |-> Append(event.structures, s), tag |-> event.tag]
    BY RecordsWith DEF BuiltEvents
  <2>3. a2 = [structures |-> Append(ask.structures, a), tag |-> ask.tag]
    BY RecordsWith DEF AskedEvents
  <2>4. event.tag \in TagsGiven /\ ask.tag \in TagsGiven
    BY DEF BuiltEvents, AskedEvents
  <2> HIDE DEF e2, a2
  <2>5. e2 \in BuiltEvents /\ a2 \in AskedEvents
    BY <2>1, <2>2, <2>3, <2>4 DEF BuiltEvents, AskedEvents
  <2> QED BY <2>2, <2>3, <2>5
<1> HIDE DEF e2, a2
<1>3. HoldsAll(e2, a2)
  <2>1. Len(event.structures) = Len(ask.structures)
    BY DEF HoldsAll
  <2>2. ASSUME NEW k \in DOMAIN e2.structures PROVE Holds(e2.structures[k], a2.structures[k])
    <3>1. CASE k = Len(event.structures) + 1
      <4>1. e2.structures[k] = s /\ a2.structures[k] = a
        BY <1>1, <1>2, <2>1, <3>1
      <4> QED BY <4>1
    <3>2. CASE k # Len(event.structures) + 1
      <4>1. k \in DOMAIN event.structures
        BY <1>1, <1>2, <2>2, <3>2
      <4>2. e2.structures[k] = event.structures[k] /\ a2.structures[k] = ask.structures[k]
        BY <1>1, <1>2, <2>1, <4>1
      <4> QED BY <4>1, <4>2 DEF HoldsAll
    <3> QED BY <3>1, <3>2
  <2>3. Len(e2.structures) = Len(a2.structures) /\ e2.tag = a2.tag
    BY <1>1, <1>2, <2>1 DEF HoldsAll
  <2> QED BY <2>2, <2>3 DEF HoldsAll
<1> QED BY <1>2, <1>3 DEF e2, a2

(* A bank taken from the pool is as empty as one that is new.              *)
LEMMA BuffersAreCleared ==
  ASSUME NEW schema \in Schemas, NEW buffers
  PROVE  /\ WithBuffers(schema, buffers) = [NewBank(schema) EXCEPT !.pooled = TRUE]
         /\ BankIs(WithBuffers(schema, buffers), << >>)
         /\ BankIs(NewBank(schema), << >>)
<1> DEFINE empty == [c \in DOMAIN schema.cols |-> << >>]
           kept == SubSeq(buffers, 1, IF Len(buffers) < Len(schema.cols) THEN Len(buffers) ELSE Len(schema.cols))
           cleared == [c \in DOMAIN kept |-> << >>]
<1>1. [c \in Columns(schema) |-> IF c \in DOMAIN cleared THEN cleared[c] ELSE << >>] = empty
  <2> HIDE DEF kept
  <2> QED BY DEF Columns
<1>2. WithBuffers(schema, buffers) = [schema |-> schema, pooled |-> TRUE, rows |-> 0, columns |-> empty]
  BY <1>1 DEF WithBuffers
<1>3. NewBank(schema) = [schema |-> schema, pooled |-> FALSE, rows |-> 0, columns |-> empty]
  BY DEF NewBank, Columns
<1>4. ASSUME NEW p \in BOOLEAN
      PROVE  BankIs([schema |-> schema, pooled |-> p, rows |-> 0, columns |-> empty], << >>)
  <2>1. empty \in Buffers(schema)
    BY DEF Buffers
  <2>2. << >> \in Lines(schema)
    BY DEF Lines
  <2>3. Shows([schema |-> schema, pooled |-> p, rows |-> 0, columns |-> empty], << >>)
    BY DEF Shows
  <2> QED BY <2>1, <2>2, <2>3 DEF BankIs
<1> HIDE DEF empty
<1>5. WithBuffers(schema, buffers) = [NewBank(schema) EXCEPT !.pooled = TRUE]
  <2>1. NewBank(schema) = [schema |-> NewBank(schema).schema, pooled |-> NewBank(schema).pooled,
                           rows |-> NewBank(schema).rows, columns |-> NewBank(schema).columns]
    BY <1>3
  <2>2. [NewBank(schema) EXCEPT !.pooled = TRUE] =
          [schema |-> NewBank(schema).schema, pooled |-> TRUE, rows |-> NewBank(schema).rows,
           columns |-> NewBank(schema).columns]
    BY <2>1, BanksWith
  <2> QED BY <1>2, <1>3, <2>2
<1>6. BankIs(WithBuffers(schema, buffers), << >>)
  BY <1>2, <1>4
<1>7. BankIs(NewBank(schema), << >>)
  BY <1>3, <1>4
<1> QED BY <1>5, <1>6, <1>7

(* A row added is one of zeros in every column.                            *)
LEMMA RowIsAdded ==
  ASSUME NEW b, NEW lines, BankIs(b, lines)
  PROVE  BankIs(PushRow(b), Append(lines, [c \in DOMAIN b.columns |-> Zero]))
<1> DEFINE D == DOMAIN b.schema.cols
           zeros == [c \in DOMAIN b.columns |-> Zero]
           after == PushRow(b)
<1>1. /\ b.columns \in [D -> Seq(Cells)] /\ lines \in Seq([D -> Cells])
      /\ b.rows \in Nat /\ Len(lines) = b.rows
  BY DEF BankIs, Shows, Lines, Buffers
<1>2. DOMAIN b.columns = D /\ zeros \in [D -> Cells] /\ Zero \in Cells
  BY <1>1 DEF Cells
<1>3. /\ after.columns = [c \in D |-> Append(b.columns[c], Zero)] /\ after.rows = b.rows + 1
      /\ after.schema = b.schema
      /\ after \in [schema : Schemas, pooled : BOOLEAN, rows : Nat, columns : Buffers(b.schema)]
  <2>1. b \in [schema : Schemas, pooled : BOOLEAN, rows : Nat, columns : Buffers(b.schema)]
    BY DEF BankIs
  <2>2. after = [schema |-> b.schema, pooled |-> b.pooled, rows |-> b.rows + 1,
                 columns |-> [c \in D |-> Append(b.columns[c], Zero)]]
    <3> DEFINE new == [c \in D |-> Append(b.columns[c], Zero)]
    <3> DEFINE part == [b EXCEPT !.rows = b.rows + 1]
    <3>1. after = [b EXCEPT !.rows = b.rows + 1, !.columns = new]
      BY <1>2 DEF PushRow
    <3> HIDE DEF new
    <3>2. b = [schema |-> b.schema, pooled |-> b.pooled, rows |-> b.rows, columns |-> b.columns]
      BY <2>1
    <3>3. part = [schema |-> b.schema, pooled |-> b.pooled, rows |-> b.rows + 1, columns |-> b.columns]
      BY <3>2
    <3>4. after = [part EXCEPT !.columns = new]
      BY <3>1
    <3> HIDE DEF part, after
    <3>5. after = [schema |-> b.schema, pooled |-> b.pooled, rows |-> b.rows + 1, columns |-> new]
      BY <3>3, <3>4
    <3> QED BY <3>5 DEF new
  <2>3. [c \in D |-> Append(b.columns[c], Zero)] \in Buffers(b.schema)
    BY <1>1, <1>2 DEF Buffers
  <2> HIDE DEF after
  <2> QED BY <1>1, <2>1, <2>2, <2>3
<1>4. Append(lines, zeros) \in Lines(b.schema)
  BY <1>1, <1>2 DEF Lines
<1> HIDE DEF after
<1>5. ASSUME NEW c \in D
      PROVE  /\ Len(after.columns[c]) = after.rows
             /\ \A row \in 1..after.rows : after.columns[c][row] = Append(lines, zeros)[row][c]
  <2>1. b.columns[c] \in Seq(Cells) /\ Len(b.columns[c]) = b.rows /\ zeros[c] = Zero
    BY <1>1, <1>2 DEF BankIs, Shows
  <2>2. ASSUME NEW row \in 1..b.rows PROVE b.columns[c][row] = lines[row][c]
    BY <1>2 DEF BankIs, Shows
  <2>3. after.columns[c] = Append(b.columns[c], Zero)
    BY <1>3
  <2>4. ASSUME NEW row \in 1..after.rows PROVE after.columns[c][row] = Append(lines, zeros)[row][c]
    <3> HIDE DEF zeros
    <3>1. CASE row = b.rows + 1
      BY <1>1, <1>2, <2>1, <2>3, <3>1
    <3>2. CASE row # b.rows + 1
      <4>1. row \in 1..b.rows
        BY <1>1, <1>3, <3>2
      <4>2. after.columns[c][row] = b.columns[c][row] /\ Append(lines, zeros)[row] = lines[row]
        BY <1>1, <1>2, <2>1, <2>3, <4>1
      <4> QED BY <2>2, <4>1, <4>2
    <3> QED BY <3>1, <3>2
  <2>5. Len(after.columns[c]) = after.rows
    BY <1>1, <1>2, <1>3, <2>1, <2>3
  <2> QED BY <2>4, <2>5
<1>6. Len(Append(lines, zeros)) = after.rows
  BY <1>1, <1>2, <1>3
<1>7. Shows(after, Append(lines, zeros))
  BY <1>3, <1>5, <1>6 DEF Shows
<1> QED BY <1>3, <1>4, <1>7 DEF BankIs, after

(* A cell set is set in its column and row, and nowhere else.              *)
LEMMA CellIsSet ==
  ASSUME NEW b, NEW lines, BankIs(b, lines),
         NEW c \in DOMAIN b.columns, NEW row \in 1..b.rows, NEW value \in Values
  PROVE  BankIs([b EXCEPT !.columns[c][row] = value], [lines EXCEPT ![row][c] = value])
<1> DEFINE D == DOMAIN b.schema.cols
           after == [b EXCEPT !.columns[c][row] = value]
           set == [lines EXCEPT ![row][c] = value]
<1>1. /\ b.columns \in [D -> Seq(Cells)] /\ lines \in Seq([D -> Cells])
      /\ b.rows \in Nat /\ Len(lines) = b.rows /\ value \in Cells
  BY DEF BankIs, Shows, Lines, Buffers, Cells
<1>2. DOMAIN b.columns = D /\ c \in D /\ row \in 1..Len(lines)
  BY <1>1
<1>3. b.columns[c] \in Seq(Cells) /\ Len(b.columns[c]) = b.rows
  BY <1>1, <1>2 DEF BankIs, Shows
<1>4. /\ [b.columns[c] EXCEPT ![row] = value] \in Seq(Cells)
      /\ Len([b.columns[c] EXCEPT ![row] = value]) = b.rows
  BY <1>1, <1>3, ExceptSeq
<1>5. /\ after.columns = [b.columns EXCEPT ![c] = [b.columns[c] EXCEPT ![row] = value]]
      /\ after.rows = b.rows /\ after.schema = b.schema
      /\ after \in [schema : Schemas, pooled : BOOLEAN, rows : Nat, columns : Buffers(b.schema)]
  <2>1. [b.columns EXCEPT ![c] = [b.columns[c] EXCEPT ![row] = value]] \in Buffers(b.schema)
    BY <1>1, <1>2, <1>4 DEF Buffers
  <2>2. b \in [schema : Schemas, pooled : BOOLEAN, rows : Nat, columns : Buffers(b.schema)]
    BY DEF BankIs
  <2>3. after = [b EXCEPT !.columns = [b.columns EXCEPT ![c] = [b.columns[c] EXCEPT ![row] = value]]]
    BY <2>2
  <2> HIDE DEF after
  <2> QED BY <2>1, <2>2, <2>3
<1>6. lines[row] \in [D -> Cells]
  BY <1>1, <1>2
<1>7. /\ set = [lines EXCEPT ![row] = [lines[row] EXCEPT ![c] = value]]
      /\ [lines[row] EXCEPT ![c] = value] \in [D -> Cells]
  BY <1>1, <1>2, <1>6
<1>8. set \in Lines(b.schema) /\ Len(set) = b.rows
  BY <1>1, <1>2, <1>7, ExceptSeq DEF Lines
<1> HIDE DEF after, set
<1>9. ASSUME NEW d \in D
      PROVE  /\ Len(after.columns[d]) = b.rows
             /\ \A r \in 1..b.rows : after.columns[d][r] = set[r][d]
  <2>1. b.columns[d] \in Seq(Cells) /\ Len(b.columns[d]) = b.rows
    BY <1>1, <1>2 DEF BankIs, Shows
  <2>2. ASSUME NEW r \in 1..b.rows PROVE b.columns[d][r] = lines[r][d]
    BY <1>2 DEF BankIs, Shows
  <2>3. Len(after.columns[d]) = b.rows
    BY <1>1, <1>2, <1>4, <1>5, <2>1
  <2>4. ASSUME NEW r \in 1..b.rows PROVE after.columns[d][r] = set[r][d]
    <3>1. lines[r] \in [D -> Cells]
      BY <1>1
    <3>2. CASE r = row /\ d = c
      BY <1>1, <1>2, <1>3, <1>5, <1>6, <1>7, <3>2
    <3>3. CASE r # row
      <4>1. set[r] = lines[r]
        BY <1>1, <1>2, <1>7, <3>3
      <4>2. after.columns[d][r] = b.columns[d][r]
        BY <1>1, <1>2, <1>3, <1>5, <3>3
      <4> QED BY <2>2, <4>1, <4>2
    <3>4. CASE r = row /\ d # c
      <4>1. set[r][d] = lines[r][d]
        BY <1>1, <1>2, <1>6, <1>7, <3>4
      <4>2. after.columns[d] = b.columns[d]
        BY <1>1, <1>2, <1>5, <3>4
      <4> QED BY <2>2, <4>1, <4>2
    <3> QED BY <3>2, <3>3, <3>4
  <2> QED BY <2>3, <2>4
<1>10. DOMAIN after.columns = D
  BY <1>1, <1>5
<1>11. Shows(after, set)
  BY <1>5, <1>8, <1>9, <1>10 DEF Shows
<1> QED BY <1>5, <1>8, <1>11 DEF BankIs, after, set
-----------------------------------------------------------------------------
(***************************************************************************)
(* The steps.                                                              *)
(***************************************************************************)
(* When no bank is being filled none of the buffers are taken.             *)
LEMMA NoBankIsFree == ~NoBank.pooled
BY DEF NoBank

(* A new event: the builder is emptied, and nothing has been asked.        *)
LEMMA BInvBegin == BInv /\ Begin => BInv'
<1> SUFFICES ASSUME BInv, Begin PROVE BInv'
  OBVIOUS
<1>1. UNCHANGED <<pool, bank, written, rows, expected>> /\ running'
  BY DEF Begin
<1>2. builder' \in BuiltEvents /\ asked' \in AskedEvents /\ HoldsAll(builder', asked')
  BY DEF Begin, EmptyEvent, BuiltEvents, AskedEvents, TagsGiven, HoldsAll
<1>3. closures' \in 0..MaxEvents
  BY EventBuildAssumption DEF BInv, Begin
<1>4. (pool \in Seq(Pooled) /\ Len(pool) + (IF bank.pooled THEN 1 ELSE 0) <= 1)'
  BY <1>1 DEF BInv
<1>5. (bank # NoBank => running /\ BankIs(bank, rows))'
  BY <1>1 DEF BInv
<1>6. (written \in Seq(BuiltEvents) /\ expected \in Seq(AskedEvents) /\ EventsAsAssembled)'
  BY <1>1 DEF BInv, EventsAsAssembled
<1>7. running' \in BOOLEAN
  BY Zenon DEF Begin
<1> QED BY <1>2, <1>3, <1>4, <1>5, <1>6, <1>7 DEF BInv

LEMMA BInvWithTag == ASSUME NEW tag \in Tags, BInv, WithTag(tag) PROVE BInv'
<1>1. UNCHANGED <<pool, bank, running, closures, written, rows, expected>>
  BY DEF WithTag
<1>2. builder' \in BuiltEvents /\ asked' \in AskedEvents
  BY DEF BInv, WithTag, BuiltEvents, AskedEvents, TagsGiven
<1>3. HoldsAll(builder', asked')
  <2>1. HoldsAll(builder, asked) /\ builder \in BuiltEvents /\ asked \in AskedEvents
    BY DEF BInv, WithTag
  <2>2. /\ builder'.tag = tag /\ builder'.structures = builder.structures
        /\ asked'.tag = tag /\ asked'.structures = asked.structures
    BY <2>1 DEF WithTag, BuiltEvents, AskedEvents
  <2> QED BY <2>1, <2>2 DEF HoldsAll
<1>4. (running \in BOOLEAN /\ closures \in 0..MaxEvents)'
  BY <1>1 DEF BInv
<1>5. (pool \in Seq(Pooled) /\ Len(pool) + (IF bank.pooled THEN 1 ELSE 0) <= 1)'
  BY <1>1 DEF BInv
<1>6. (bank # NoBank => running /\ BankIs(bank, rows))'
  BY <1>1 DEF BInv
<1>7. (written \in Seq(BuiltEvents) /\ expected \in Seq(AskedEvents) /\ EventsAsAssembled)'
  BY <1>1 DEF BInv, EventsAsAssembled
<1> QED BY <1>2, <1>3, <1>4, <1>5, <1>6, <1>7 DEF BInv

(* What a step that fills a bank leaves alone.                             *)
LEMMA BInvFilling ==
  ASSUME BInv, running, UNCHANGED <<builder, running, closures, written, asked, expected>>,
         pool' \in Seq(Pooled), Len(pool') + (IF bank'.pooled THEN 1 ELSE 0) <= 1,
         BankIs(bank', rows')
  PROVE  BInv'
<1>1. (running \in BOOLEAN /\ running /\ closures \in 0..MaxEvents)'
  BY DEF BInv
<1>2. (builder \in BuiltEvents /\ asked \in AskedEvents /\ HoldsAll(builder, asked))'
  BY DEF BInv
<1>3. (written \in Seq(BuiltEvents) /\ expected \in Seq(AskedEvents) /\ EventsAsAssembled)'
  BY DEF BInv, EventsAsAssembled
<1> QED BY <1>1, <1>2, <1>3 DEF BInv

(* A set of buffers moves from the pool to the bank.                       *)
LEMMA BInvOpen ==
  ASSUME NEW schema \in Schemas, BInv, OpenBank(schema) \/ OpenOwn(schema)
  PROVE  BInv'
<1>1. pool \in Seq(Pooled) /\ Len(pool) \in Nat /\ Len(pool) <= 1
  BY NoBankIsFree DEF BInv, OpenBank, OpenOwn
<1>2. running /\ rows' = << >> /\ UNCHANGED <<builder, running, closures, written, asked, expected>>
  BY DEF OpenBank, OpenOwn
<1>3. CASE OpenBank(schema)
  <2>1. /\ bank' = [NewBank(schema) EXCEPT !.pooled = TRUE]
        /\ BankIs(bank', << >>)
    BY <1>3, BuffersAreCleared DEF OpenBank
  <2>2. bank'.pooled = TRUE
    BY <1>3 DEF OpenBank, WithBuffers
  <2>3. pool' \in Seq(Pooled) /\ Len(pool') = 0
    <3>1. CASE pool = << >>
      BY <1>1, <1>3, <3>1 DEF OpenBank, Popped
    <3>2. CASE pool # << >>
      <4>1. Len(pool) = 1
        BY <1>1, <3>2
      <4>2. pool' = SubSeq(pool, 1, Len(pool) - 1)
        BY <1>3, <3>2 DEF OpenBank, Popped, Front
      <4>3. pool' = << >>
        BY <4>1, <4>2, SubSeqEmpty
      <4> QED BY <4>3
    <3> QED BY <3>1, <3>2
  <2> QED BY <1>2, <2>1, <2>2, <2>3, BInvFilling
<1>4. CASE OpenOwn(schema)
  <2>1. BankIs(bank', << >>)
    BY <1>4, BuffersAreCleared DEF OpenOwn
  <2>2. bank'.pooled = FALSE /\ pool' = pool
    BY <1>4 DEF OpenOwn, NewBank
  <2> QED BY <1>1, <1>2, <2>1, <2>2, BInvFilling
<1> QED BY <1>3, <1>4

LEMMA BInvAddRow == BInv /\ AddRow => BInv'
<1> SUFFICES ASSUME BInv, AddRow PROVE BInv'
  OBVIOUS
<1>1. running /\ BankIs(bank, rows)
  BY DEF BInv, AddRow
<1>2. bank' = PushRow(bank) /\ BankIs(bank', rows')
  BY <1>1, RowIsAdded DEF AddRow
<1>3. bank'.pooled = bank.pooled
  BY <1>1, <1>2 DEF PushRow, BankIs
<1>4. pool' = pool /\ UNCHANGED <<builder, running, closures, written, asked, expected>>
  BY DEF AddRow
<1>5. pool' \in Seq(Pooled) /\ Len(pool') + (IF bank'.pooled THEN 1 ELSE 0) <= 1
  BY <1>3, <1>4 DEF BInv
<1> QED BY <1>1, <1>2, <1>4, <1>5, BInvFilling

LEMMA BInvSetCell ==
  ASSUME NEW row, NEW c, NEW value \in Values, BInv, SetCell(row, c, value)
  PROVE  BInv'
<1>1. running /\ BankIs(bank, rows)
  BY DEF BInv, SetCell
<1>2. /\ bank' = [bank EXCEPT !.columns[c][row] = value]
      /\ BankIs(bank', rows')
  BY <1>1, CellIsSet DEF SetCell
<1>3. bank'.pooled = bank.pooled
  BY <1>1, <1>2 DEF BankIs
<1>4. pool' = pool /\ UNCHANGED <<builder, running, closures, written, asked, expected>>
  BY DEF SetCell
<1>5. pool' \in Seq(Pooled) /\ Len(pool') + (IF bank'.pooled THEN 1 ELSE 0) <= 1
  BY <1>3, <1>4 DEF BInv
<1> QED BY <1>1, <1>2, <1>4, <1>5, BInvFilling

(* A bank that is completed becomes a structure, of the rows asked for;    *)
(* one that is given up leaves no trace.  Its buffers go back.             *)
LEMMA BInvCloseBank == ASSUME NEW filled \in BOOLEAN, BInv, CloseBank(filled) PROVE BInv'
<1>1. running /\ BankIs(bank, rows) /\ HoldsAll(builder, asked)
  BY DEF BInv, CloseBank
<1>2. bank' = NoBank /\ UNCHANGED <<running, closures, written, expected>>
  BY DEF CloseBank
<1>3. /\ bank.schema \in Schemas /\ bank.columns \in Buffers(bank.schema) /\ bank.rows \in Nat
      /\ bank.pooled \in BOOLEAN /\ rows \in Lines(bank.schema)
  BY <1>1 DEF BankIs
<1>4. (pool \in Seq(Pooled) /\ Len(pool) + (IF bank.pooled THEN 1 ELSE 0) <= 1)'
  <2>1. bank.columns \in Pooled
    BY <1>3 DEF Pooled
  <2>2. pool' = IF bank.pooled THEN Append(pool, bank.columns) ELSE pool
    BY DEF CloseBank
  <2>3. CASE bank.pooled
    <3>1. Len(pool) + 1 <= 1 /\ pool \in Seq(Pooled)
      BY <2>3 DEF BInv
    <3>2. pool' \in Seq(Pooled) /\ Len(pool') = Len(pool) + 1
      BY <2>1, <2>2, <2>3, <3>1
    <3> QED BY <1>2, <3>1, <3>2, NoBankIsFree
  <2>4. CASE ~bank.pooled
    <3>1. Len(pool) + 0 <= 1 /\ pool \in Seq(Pooled) /\ pool' = pool
      BY <2>2, <2>4 DEF BInv
    <3> QED BY <1>2, <3>1, NoBankIsFree
  <2> QED BY <2>3, <2>4
<1>5. (builder \in BuiltEvents /\ asked \in AskedEvents /\ HoldsAll(builder, asked))'
  <2> DEFINE s == Structure(bank)
             a == [id |-> bank.schema.id, rows |-> rows]
  <2>1. s \in Built /\ a \in Asked
    <3>1. s \in [id : {bank.schema.id}, rows : Nat, columns : Buffers(bank.schema)]
      BY <1>3 DEF Structure
    <3>2. a \in [id : {bank.schema.id}, rows : Lines(bank.schema)]
      BY <1>3
    <3> HIDE DEF s, a
    <3> QED BY <1>3, <3>1, <3>2 DEF Built, Asked
  <2>2. Holds(s, a)
    BY <1>1, <1>3 DEF BankIs, Shows, Holds, Structure
  <2>3. builder \in BuiltEvents /\ asked \in AskedEvents
    BY DEF BInv
  <2>4. \/ builder' = [builder EXCEPT !.structures = Append(@, s)]
           /\ asked' = [asked EXCEPT !.structures = Append(@, a)]
        \/ builder' = builder /\ asked' = asked
    BY DEF CloseBank
  <2> HIDE DEF s, a
  <2> QED BY <1>1, <2>1, <2>2, <2>3, <2>4, HoldsOneMore
<1>6. (written \in Seq(BuiltEvents) /\ expected \in Seq(AskedEvents) /\ EventsAsAssembled)'
  BY <1>2 DEF BInv, EventsAsAssembled
<1>7. (running \in BOOLEAN /\ closures \in 0..MaxEvents)'
  BY <1>2 DEF BInv
<1> QED BY <1>2, <1>4, <1>5, <1>6, <1>7 DEF BInv

(* The event appended is the builder's, which holds what was asked for.    *)
LEMMA BInvReturn ==
  ASSUME NEW assembled \in BOOLEAN, NEW appends \in BOOLEAN, BInv, Return(assembled, appends)
  PROVE  BInv'
<1>1. /\ UNCHANGED <<pool, builder, bank, closures, rows>> /\ bank = NoBank
      /\ asked' = EmptyEvent /\ HoldsAll(builder, asked)
  BY DEF BInv, Return
<1>2. running' \in BOOLEAN /\ ~running'
  BY Zenon DEF Return
<1>3. /\ builder \in BuiltEvents /\ asked \in AskedEvents
      /\ written \in Seq(BuiltEvents) /\ expected \in Seq(AskedEvents)
      /\ Len(written) = Len(expected)
      /\ \A n \in DOMAIN written : HoldsAll(written[n], expected[n])
  BY DEF BInv, EventsAsAssembled
<1>4. (written \in Seq(BuiltEvents) /\ expected \in Seq(AskedEvents) /\ EventsAsAssembled)'
  <2>1. CASE written' = Append(written, builder) /\ expected' = Append(expected, asked)
    <3>1. written' \in Seq(BuiltEvents) /\ expected' \in Seq(AskedEvents) /\ Len(written') = Len(expected')
      BY <1>3, <2>1
    <3>2. ASSUME NEW n \in DOMAIN written' PROVE HoldsAll(written'[n], expected'[n])
      <4>1. CASE n = Len(written) + 1
        <5>1. written'[n] = builder /\ expected'[n] = asked
          BY <1>3, <2>1, <4>1
        <5> QED BY <1>1, <5>1
      <4>2. CASE n # Len(written) + 1
        <5>1. n \in DOMAIN written /\ written'[n] = written[n] /\ expected'[n] = expected[n]
          BY <1>3, <2>1, <3>2, <4>2
        <5> QED BY <1>3, <5>1
      <4> QED BY <4>1, <4>2
    <3> QED BY <3>1, <3>2 DEF EventsAsAssembled
  <2>2. CASE UNCHANGED <<written, expected>>
    BY <1>3, <2>2 DEF EventsAsAssembled
  <2> QED BY <2>1, <2>2 DEF Return
<1>5. asked' \in AskedEvents
  BY <1>1 DEF EmptyEvent, AskedEvents, TagsGiven
<1>6. (pool \in Seq(Pooled) /\ Len(pool) + (IF bank.pooled THEN 1 ELSE 0) <= 1)'
  BY <1>1 DEF BInv
<1>7. (builder \in BuiltEvents /\ closures \in 0..MaxEvents)'
  BY <1>1 DEF BInv
<1> QED BY <1>1, <1>2, <1>4, <1>5, <1>6, <1>7 DEF BInv

(* What a closure that panics had is gone, with the set of buffers.        *)
LEMMA BInvPanic == BInv /\ Panic => BInv'
<1> SUFFICES ASSUME BInv, Panic PROVE BInv'
  OBVIOUS
<1>1. /\ pool' = << >> /\ builder' = EmptyEvent /\ bank' = NoBank /\ asked' = EmptyEvent
      /\ UNCHANGED <<closures, written, expected>>
  BY DEF Panic
<1>2. running' \in BOOLEAN /\ ~running'
  BY Zenon DEF Panic
<1>3. builder' \in BuiltEvents /\ asked' \in AskedEvents
  BY <1>1 DEF EmptyEvent, BuiltEvents, AskedEvents, TagsGiven
<1>4. (pool \in Seq(Pooled) /\ Len(pool) + (IF bank.pooled THEN 1 ELSE 0) <= 1)'
  BY <1>1, NoBankIsFree
<1>5. (closures \in 0..MaxEvents)'
  BY <1>1 DEF BInv
<1>6. (written \in Seq(BuiltEvents) /\ expected \in Seq(AskedEvents) /\ EventsAsAssembled)'
  BY <1>1 DEF BInv, EventsAsAssembled
<1> QED BY <1>1, <1>2, <1>3, <1>4, <1>5, <1>6 DEF BInv

LEMMA BInvNext == BInv /\ [BuildNext]_build => BInv'
<1> SUFFICES ASSUME BInv, [BuildNext]_build PROVE BInv'
  OBVIOUS
<1>1. CASE Begin
  BY <1>1, BInvBegin
<1>2. CASE Filling
  <2>1. CASE \E schema \in Schemas : OpenBank(schema) \/ OpenOwn(schema)
    BY <2>1, BInvOpen
  <2>2. CASE AddRow
    BY <2>2, BInvAddRow
  <2>3. CASE \E row \in 1..MaxRows, value \in Values : \E c \in DOMAIN bank.columns : SetCell(row, c, value)
    BY <2>3, BInvSetCell
  <2>4. CASE \E filled \in BOOLEAN : CloseBank(filled)
    BY <2>4, BInvCloseBank
  <2>5. CASE \E tag \in Tags : WithTag(tag)
    BY <2>5, BInvWithTag
  <2> QED BY <1>2, <2>1, <2>2, <2>3, <2>4, <2>5 DEF Filling
<1>3. CASE \E assembled, appends \in BOOLEAN : Return(assembled, appends)
  BY <1>3, BInvReturn
<1>4. CASE Panic
  BY <1>4, BInvPanic
<1>5. CASE UNCHANGED build
  BY <1>5 DEF build, BInv, EventsAsAssembled
<1> QED BY <1>1, <1>2, <1>3, <1>4, <1>5 DEF BuildNext

-----------------------------------------------------------------------------
(***************************************************************************)
(* The steps of a program, seen from the events it assembles.              *)
(***************************************************************************)
LEMMA BuildSteps == [Next]_vars => [BuildNext]_build
<1> SUFFICES ASSUME [Next]_vars PROVE [BuildNext]_build
  OBVIOUS
<1>1. CASE UNCHANGED vars
  BY <1>1 DEF vars, rewriting
<1>2. CASE RewriteNext /\ UNCHANGED python
  BY <1>2 DEF RewriteNext, Storage, Start, Copy, Finish, Look, Assemble
<1>3. CASE \E n \in 0..MaxBatch : Extend(n) \/ (n < MaxBatch /\ ExtendFails(n))
  BY <1>3 DEF Extend, ExtendFails
<1>4. CASE \E finishes \in BOOLEAN : Close(finishes)
  BY <1>4 DEF Close
<1> QED BY <1>1, <1>2, <1>3, <1>4 DEF Next

LEMMA BInvHolds == Spec => []BInv
<1>1. Init => BInv
  BY BInvInit DEF Init, RewriteInit
<1>2. BInv /\ [Next]_vars => BInv'
  BY BuildSteps, BInvNext
<1> QED BY <1>1, <1>2, PTL DEF Spec

(* The buffers banks are filled in are never in two places: one set at     *)
(* most, in the pool or in the bank being filled, with the columns of its  *)
(* schema, however closures end (Writer::event, EventWriter::bank).        *)
THEOREM BuffersNeverMultiply == Spec => []BuildTypeOK
<1>1. BInv => BuildTypeOK
  BY DEF BInv, BuildTypeOK, BankIs, Buffers, Columns
<1> QED BY <1>1, BInvHolds, PTL

(* The events appended are those whose closures returned Ok, in order;     *)
(* each holds its own tag and exactly the banks completed in it, in every  *)
(* cell what was last set there, or zero: whatever the buffers held        *)
(* (Writer::event, BankBuilder::with_buffers).                             *)
THEOREM EventsHoldWhatWasAsked == Spec => []EventsAsAssembled
<1>1. BInv => EventsAsAssembled
  BY DEF BInv
<1> QED BY <1>1, BInvHolds, PTL

-----------------------------------------------------------------------------
(***************************************************************************)
(* Types.                                                                  *)
(***************************************************************************)
(* A sequence is one of its own members.                                   *)
LEMMA ListedIs ==
  ASSUME NEW n \in Nat, NEW s, s = [k \in 1..n |-> s[k]]
  PROVE  s \in Seq(ToSet(s)) /\ Len(s) = n
<1>1. \A k \in 1..n : s[k] \in ToSet(s)
  BY DEF ToSet
<1>2. s \in [1..n -> ToSet(s)]
  BY <1>1
<1> QED BY <1>2

(* A set of numbers listed is a sequence; the least of them is a number.   *)
LEMMA AscendingListed ==
  ASSUME NEW S \in SUBSET Nat, IsFiniteSet(S)
  PROVE  LET at == Split!Ascending(S) IN
         at = [k \in 1..Cardinality(S) |-> at[k]] /\ Cardinality(S) \in Nat
<1> DEFINE at == Split!Ascending(S)
<1>1. at = CHOOSE s \in [1..Cardinality(S) -> S] : \A i, j \in DOMAIN s : i < j => s[i] < s[j]
  BY SameCardinality DEF Split!Ascending
<1> HIDE DEF at
<1>2. Orders(at, S)
  <2>1. \E s : Orders(s, S)
    BY OrderExists
  <2> QED BY <1>1, <2>1 DEF Orders
<1>3. at \in [1..Cardinality(S) -> S] /\ Cardinality(S) \in Nat
  BY <1>2, OrderIs
<1> QED BY <1>3 DEF at

LEMMA LeastIs ==
  ASSUME NEW S \in SUBSET Nat, IsFiniteSet(S), S # {}
  PROVE  Split!Min(S) \in S
<1>1. PICK s : Orders(s, S)
  BY OrderExists
<1>2. /\ Cardinality(S) \in Nat /\ s \in [1..Cardinality(S) -> S]
      /\ \A i, j \in 1..Cardinality(S) : i < j => s[i] < s[j]
      /\ \A r \in S : \E i \in 1..Cardinality(S) : s[i] = r
  BY <1>1, OrderIs
<1> DEFINE n == Cardinality(S)
<1> HIDE DEF n
<1>3. n \in Nat /\ n >= 1
  <2>1. PICK r \in S : TRUE
    OBVIOUS
  <2>2. PICK i \in 1..n : s[i] = r
    BY <1>2, <2>1 DEF n
  <2> QED BY <1>2, <2>2 DEF n
<1>4. s[1] \in S
  BY <1>2, <1>3 DEF n
<1>5. ASSUME NEW r \in S PROVE s[1] <= r
  <2>1. PICK i \in 1..n : s[i] = r
    BY <1>2 DEF n
  <2>2. i # 1 => s[1] < s[i]
    <3> SUFFICES ASSUME i # 1 PROVE s[1] < s[i]
      OBVIOUS
    <3>1. 1 \in 1..n /\ 1 < i
      BY <1>3
    <3> QED BY <1>2, <3>1 DEF n
  <2>3. s[1] \in Nat /\ r \in Nat
    BY <1>4
  <2> QED BY <2>1, <2>2, <2>3
<1> QED BY <1>4, <1>5 DEF Split!Min

(* The banks of a stored record are numbered.                              *)
Numbered(rec) ==
  /\ DOMAIN rec.split = {"event_tags", "banks"}
  /\ DOMAIN rec.split.banks \in SUBSET Nat /\ IsFiniteSet(DOMAIN rec.split.banks)

BanksNumbered ==
  \A fi \in 1..Len(stored) : \A ri \in DOMAIN stored[fi] : Numbered(stored[fi][ri])

LEMMA WrittenNumbered ==
  ASSUME NEW r \in WrittenRecord
  PROVE  Numbered(StoredRecord(r))
<1> DEFINE n == Len(r.events)
           E == [tag: SUBSET Nat, structures: Seq(WrittenStructure)]
           S == UNION {Written!BanksOf(r.events[e].structures) : e \in DOMAIN r.events}
           ids == Written!Descriptors(r.events)
<1>1. r.events \in Seq(E) /\ n \in Nat /\ DOMAIN r.events = 1..n
  BY DEF WrittenRecord
<1>2. ASSUME NEW e \in 1..n
      PROVE  /\ Written!BanksOf(r.events[e].structures) \in SUBSET Nat
             /\ IsFiniteSet(Written!BanksOf(r.events[e].structures))
  <2> DEFINE st == r.events[e].structures
  <2>1. st \in Seq(WrittenStructure)
    <3>1. \A x \in E : x.structures \in Seq(WrittenStructure)
      OBVIOUS
    <3> HIDE DEF E
    <3>2. r.events[e] \in E
      BY <1>1
    <3> QED BY <3>1, <3>2
  <2> HIDE DEF st
  <2>2. DOMAIN st = 1..Len(st) /\ Len(st) \in Nat /\ \A k \in 1..Len(st) : st[k] \in WrittenStructure
    BY <2>1
  <2>3. \A x \in WrittenStructure : x.id \in Nat
    BY DEF WrittenStructure
  <2> DEFINE B == Written!BanksOf(st)
             f == [k \in 1..Len(st) |-> st[k].id]
  <2>4. B = {st[k].id : k \in 1..Len(st)}
    BY <2>2 DEF Written!BanksOf
  <2>5. f \in Surjection(1..Len(st), B)
    BY <2>4 DEF Surjection
  <2> HIDE DEF B, f
  <2>6. IsFiniteSet(B)
    BY <2>2, <2>5, FS_Interval, FS_Surjection
  <2> QED BY <2>2, <2>3, <2>4, <2>6 DEF B, st
<1>3. S \in SUBSET Nat /\ IsFiniteSet(S)
  <2>1. IsFiniteSet(1..n)
    BY <1>1, FS_Interval
  <2> DEFINE T == {Written!BanksOf(r.events[e].structures) : e \in 1..n}
             f == [e \in 1..n |-> Written!BanksOf(r.events[e].structures)]
  <2>2. IsFiniteSet(T)
    <3>1. f \in Surjection(1..n, T)
      BY DEF Surjection
    <3> HIDE DEF f, T
    <3> QED BY <2>1, <3>1, FS_Surjection
  <2>3. \A B \in T : IsFiniteSet(B) /\ B \in SUBSET Nat
    BY <1>2
  <2>4. S = UNION T
    BY <1>1
  <2> HIDE DEF T, S
  <2> QED BY <2>2, <2>3, <2>4, FS_UNION
<1>4. CASE r.layout = "blob"
  <2>1. /\ DOMAIN StoredRecord(r).split.banks = {}
        /\ DOMAIN StoredRecord(r).split = {"event_tags", "banks"}
    BY <1>4 DEF StoredRecord
  <2> QED BY <2>1, FS_EmptySet DEF Numbered
<1>5. CASE r.layout # "blob"
  <2>1. /\ DOMAIN StoredRecord(r).split.banks = DOMAIN ids
        /\ DOMAIN StoredRecord(r).split = {"event_tags", "banks"}
    BY <1>5 DEF StoredRecord, Written!BuildRecord
  <2>2. ids = Split!Ascending(S)
    BY DEF Written!Descriptors, Written!Ascending, Split!Ascending, Written!Cardinality, Split!Cardinality
  <2> HIDE DEF S, ids
  <2>3. DOMAIN ids = 1..Cardinality(S) /\ Cardinality(S) \in Nat
    BY <1>3, <2>2, AscendingListed
  <2>4. IsFiniteSet(1..Cardinality(S))
    BY <2>3, FS_Interval
  <2> QED BY <2>1, <2>3, <2>4 DEF Numbered
<1> QED BY <1>4, <1>5

LEMMA NumberedInit == StorageInit => BanksNumbered
BY DEF StorageInit, BanksNumbered

LEMMA NumberedNext ==
  StorageInv /\ StoredInv /\ BanksNumbered /\ [StorageNext]_storage => BanksNumbered'
<1> SUFFICES ASSUME StorageInv, StoredInv, BanksNumbered, [StorageNext]_storage PROVE BanksNumbered'
  OBVIOUS
<1> DEFINE n == Len(stored)
<1>1. stored \in Seq(ToSet(stored)) /\ n \in Nat /\ DOMAIN stored = 1..n
  BY DEF StoredInv, IsSequence
<1>2. CASE WriteFile
  <2> DEFINE new == [ri \in DOMAIN NextFile.records |-> StoredRecord(NextFile.records[ri])]
  <2>1. stored' = Append(stored, new) /\ n # Len(files) /\ n <= Len(files)
    BY <1>2 DEF WriteFile, AllStored, StoredInv
  <2>2. n + 1 \in DOMAIN files /\ files \in Inputs
    BY <1>1, <2>1, FilesAre DEF StorageInv
  <2>3. \A ri \in DOMAIN new : Numbered(new[ri])
    <3> TAKE ri \in DOMAIN new
    <3>1. NextFile.records[ri] \in WrittenRecord
      BY <2>2, RecordsAre DEF NextFile
    <3> QED BY <3>1, WrittenNumbered
  <2> HIDE DEF new
  <2>4. /\ Len(stored') = n + 1 /\ stored'[n + 1] = new
        /\ \A i \in 1..n : stored'[i] = stored[i]
    <3>1. stored \in Seq(ToSet(stored) \cup {new})
      BY <1>1
    <3> QED BY <1>1, <2>1, <3>1
  <2> QED BY <1>1, <2>3, <2>4 DEF BanksNumbered, Numbered
<1>3. ASSUME NEW fi \in DOMAIN files, NEW ri \in DOMAIN files[fi].records, DamageRecord(fi, ri)
      PROVE  BanksNumbered'
  <2> DEFINE old == stored[fi][ri]
  <2>1. /\ fi \in 1..n /\ ri \in DOMAIN stored[fi] /\ Numbered(old)
        /\ \A i \in 1..n : DOMAIN stored[i] = DOMAIN files[i].records
    <3>1. Len(stored) = Len(files)
      BY <1>3 DEF DamageRecord, AllStored
    <3>2. fi \in 1..n
      BY <1>1, <3>1, FilesAre DEF StorageInv
    <3>3. \A i \in 1..n : DOMAIN stored[i] = DOMAIN files[i].records
      BY DEF StoredInv
    <3>4. ri \in DOMAIN stored[fi]
      BY <3>2, <3>3
    <3> QED BY <3>2, <3>3, <3>4 DEF BanksNumbered
  <2>2. PICK rec : /\ DOMAIN rec.split.banks = DOMAIN old.split.banks
                   /\ DOMAIN rec.split = DOMAIN old.split
                   /\ stored' = [stored EXCEPT ![fi] = [stored[fi] EXCEPT ![ri] = rec]]
    <3>1. CASE stored' = [stored EXCEPT ![fi][ri].readable = FALSE]
      <4> DEFINE rec == [old EXCEPT !.readable = FALSE]
      <4>1. AsWritten(old, files[fi].records[ri])
        BY <1>1, <2>1 DEF StoredInv
      <4>2. rec = [layout |-> old.layout, readable |-> FALSE, split |-> old.split]
        BY <4>1, RecordUnread DEF AsWritten
      <4>3. rec.split = old.split
        BY <4>2
      <4>4. stored' = [stored EXCEPT ![fi] = [stored[fi] EXCEPT ![ri] = rec]]
        BY <1>1, <2>1, <3>1
      <4> HIDE DEF rec
      <4> QED BY <4>3, <4>4
    <3>2. CASE \E s \in StreamsOf(old), how \in {"undecodable", "changed"} :
                 stored' = [stored EXCEPT ![fi][ri].split.banks[s[1]].streams[s[2]].damage = how]
      <4>1. PICK s \in StreamsOf(old), how \in {"undecodable", "changed"} :
              stored' = [stored EXCEPT ![fi][ri].split.banks[s[1]].streams[s[2]].damage = how]
        BY <3>2
      <4>2. PICK rec : rec = [old EXCEPT !.split.banks[s[1]].streams[s[2]].damage = how]
        OBVIOUS
      <4>3. stored' = [stored EXCEPT ![fi] = [stored[fi] EXCEPT ![ri] = rec]]
        BY <1>1, <2>1, <4>1, <4>2
      <4>4. AsWritten(old, files[fi].records[ri])
        BY <1>1, <2>1 DEF StoredInv
      <4>5. rec.split = [old.split EXCEPT !.banks[s[1]].streams[s[2]].damage = how]
        BY <4>2, <4>4 DEF AsWritten
      <4> DEFINE B == old.split.banks
                 C == [B EXCEPT ![s[1]].streams[s[2]].damage = how]
      <4>6. DOMAIN C = DOMAIN B
        OBVIOUS
      <4> HIDE DEF C
      <4>7. rec.split = [old.split EXCEPT !.banks = C]
        BY <4>5 DEF C
      <4>8. DOMAIN old.split = {"event_tags", "banks"}
        BY <2>1 DEF Numbered
      <4>9. rec.split.banks = C /\ DOMAIN rec.split = DOMAIN old.split
        BY <4>7, <4>8
      <4> QED BY <4>3, <4>6, <4>9
    <3> QED BY <1>3, <3>1, <3>2 DEF DamageRecord
  <2>3. Numbered(rec)
    BY <2>1, <2>2 DEF Numbered
  <2>4. /\ DOMAIN stored' = 1..n
        /\ \A i \in 1..n : DOMAIN stored'[i] = DOMAIN stored[i]
        /\ stored'[fi] = [stored[fi] EXCEPT ![ri] = rec]
        /\ \A i \in 1..n : i # fi => stored'[i] = stored[i]
    BY <1>1, <2>1, <2>2
  <2>5. ASSUME NEW i \in 1..n, NEW k \in DOMAIN stored'[i] PROVE Numbered(stored'[i][k])
    <3>1. CASE i = fi /\ k = ri
      <4>1. stored'[i][k] = rec
        BY <2>1, <2>4, <3>1
      <4> QED BY <2>3, <4>1
    <3>2. CASE ~(i = fi /\ k = ri)
      <4>1. stored'[i][k] = stored[i][k]
        BY <2>1, <2>4, <3>2
      <4>2. k \in DOMAIN stored[i]
        BY <2>4
      <4> QED BY <4>1, <4>2 DEF BanksNumbered
    <3> QED BY <3>1, <3>2
  <2>6. Len(stored') = n
    <3>1. stored' = [i \in 1..n |-> stored'[i]]
      BY <1>1, <2>2
    <3> QED BY <1>1, <3>1, ListedIs
  <2> QED BY <2>5, <2>6 DEF BanksNumbered, Numbered
<1>4. CASE OpenChain
  BY <1>4 DEF OpenChain, BanksNumbered, Numbered
<1>5. CASE UNCHANGED storage
  BY <1>5 DEF storage, BanksNumbered, Numbered
<1> QED BY <1>2, <1>3, <1>4, <1>5 DEF StorageNext

LEMMA NumberedHolds == Spec => []BanksNumbered
<1>1. Init => BanksNumbered
  BY NumberedInit DEF Init, RewriteInit
<1>2. StorageInv /\ StoredInv /\ BanksNumbered /\ [Next]_vars => BanksNumbered'
  BY ProgramSteps, NumberedNext
<1> QED BY <1>1, <1>2, StorageHolds, PTL DEF Spec

(* The structures of an event are a sequence, from whatever record.        *)
LEMMA StructuresListed ==
  ASSUME StorageInv, StoredInv, BanksNumbered, phase = "open", NEW at, Place(at)
  PROVE  IsSequence(StructuresAt(at))
<1> DEFINE rec == RecordAt(at)
           events == EventsAt(at)
           all == Split!EventBytes(rec, events, at.event).structures
<1>1. /\ rec.layout \in {"blob", "by_bank", "per_column"}
      /\ events[at.event].structures \in Seq(WrittenStructure)
      /\ Numbered(rec)
  <2>1. at.record \in DOMAIN stored[at.file] /\ at.file \in DOMAIN files
    BY PlacesAreStored DEF Place
  <2>2. at.file \in 1..Len(stored)
    BY <2>1, FilesAre DEF StorageInv, StoredInv, AllStored
  <2> QED BY <2>1, <2>2, PlacesAreStored DEF BanksNumbered, RecordAt
<1>2. IsSequence(all)
  <2>1. CASE rec.layout = "blob"
    <3>1. all = events[at.event].structures
      BY <2>1 DEF Split!EventBytes
    <3> QED BY <1>1, <3>1, ItsMembers
  <2>2. CASE rec.layout # "blob"
    <3> DEFINE S == {b \in DOMAIN rec.split.banks : at.event \in rec.split.banks[b].present}
               here == Split!Ascending(S)
    <3>1. \E f : all = [k \in DOMAIN here |-> f[k]]
      <4> DEFINE got == [s \in UNION {{b} \X DOMAIN rec.split.banks[b].streams :
                                      b \in DOMAIN rec.split.banks} |-> Split!StreamBytes(rec, s[1], s[2])]
                 f == [k \in DOMAIN here |->
                        [id |-> rec.split.banks[here[k]].id,
                         header_size |-> rec.split.banks[here[k]].header_size,
                         data |-> Split!EventData(rec.split.banks[here[k]], here[k], at.event, got)]]
      <4>1. all = Split!SynthesizeEvent(rec.split, at.event, got).structures
        BY <2>2 DEF Split!EventBytes
      <4> HIDE DEF got
      <4>2. all = f
        BY <4>1 DEF Split!SynthesizeEvent
      <4>3. f = [k \in DOMAIN here |-> f[k]]
        OBVIOUS
      <4> HIDE DEF f
      <4> QED BY <4>2, <4>3
    <3>2. S \in SUBSET Nat /\ IsFiniteSet(S)
      <4>1. S \subseteq DOMAIN rec.split.banks
        OBVIOUS
      <4> QED BY <1>1, <4>1, FS_Subset DEF Numbered
    <3> HIDE DEF all, S
    <3>3. DOMAIN here = 1..Cardinality(S) /\ Cardinality(S) \in Nat
      BY <3>2, AscendingListed
    <3>4. all = [k \in 1..Cardinality(S) |-> all[k]]
      BY <3>1, <3>3
    <3>5. all \in Seq(ToSet(all))
      BY <3>3, <3>4, ListedIs
    <3> QED BY <3>5 DEF IsSequence
  <2> QED BY <2>1, <2>2
<1>3. StructuresAt(at) = all \/ \E lost \in SUBSET DOMAIN all :
                                  lost # {} /\ StructuresAt(at) = SubSeq(all, 1, Split!Min(lost) - 1)
  <2> DEFINE Lost(k) ==
        LET b == CHOOSE i \in Split!BankIndex(rec.split, all[k].id) : TRUE
        IN  all[k].data # << >> /\ ~Split!Fits(Split!StreamBytes(rec, b, 1),
                                               Split!SumBefore(rec.split.banks[b].sizes, at.event),
                                               Len(all[k].data))
      lost == {k \in DOMAIN all : Lost(k)}
  <2>1. StructuresAt(at) = IF rec.layout # "by_bank" \/ lost = {} THEN all
                           ELSE SubSeq(all, 1, Split!Min(lost) - 1)
    BY DEF StructuresAt, Split!Structures
  <2>2. lost \in SUBSET DOMAIN all
    OBVIOUS
  <2> HIDE DEF lost
  <2> QED BY <2>1, <2>2
<1> HIDE DEF all
<1>4. ASSUME NEW lost \in SUBSET DOMAIN all, lost # {},
             StructuresAt(at) = SubSeq(all, 1, Split!Min(lost) - 1)
      PROVE  IsSequence(StructuresAt(at))
  <2> DEFINE n == Len(all)
  <2>1. all \in Seq(ToSet(all)) /\ n \in Nat /\ DOMAIN all = 1..n
    BY <1>2 DEF IsSequence
  <2>2. lost \in SUBSET Nat /\ IsFiniteSet(lost)
    <3>1. IsFiniteSet(1..n) /\ lost \in SUBSET (1..n)
      BY <2>1, FS_Interval
    <3>2. IsFiniteSet(lost)
      BY <3>1, FS_Subset
    <3> QED BY <3>1, <3>2
  <2>3. Split!Min(lost) \in 1..n
    BY <1>4, <2>1, <2>2, LeastIs
  <2>4. SubSeq(all, 1, Split!Min(lost) - 1) \in Seq(ToSet(all))
    <3>1. Split!Min(lost) - 1 \in 0..n
      BY <2>1, <2>3
    <3> QED BY <2>1, <3>1
  <2>5. \A S : \A s \in Seq(S) : IsSequence(s)
    BY ItsMembers
  <2> QED BY <1>4, <2>4, <2>5
<1> QED BY <1>2, <1>3, <1>4

(***************************************************************************)
(* What a program keeps while it runs.                                     *)
(***************************************************************************)
ProgramInv ==
  /\ program \in Programs \cup {NoProgram}
  /\ outcome \in {"none", "running", "ok", "err", "refused"}
  /\ outcome # "none" => phase = "open"
  /\ ahead \in Seq(Entries) /\ dropped \in Nat

LEMMA ProgramInvInit == Init => ProgramInv
<1> SUFFICES ASSUME Init PROVE ProgramInv
  OBVIOUS
<1>1. << >> \in Seq(Entries)
  OBVIOUS
<1> QED BY <1>1 DEF Init, RewriteInit, ProgramInv

(* Nothing is opened again.                                                *)
LEMMA StaysOpen ==
  ASSUME StorageInv, [StorageNext]_storage
  PROVE  files' = files /\ Entries' = Entries /\ (phase = "open" => phase' = "open" /\ UNCHANGED storage)
<1>1. files' = files
  BY DEF StorageNext, WriteFile, DamageRecord, OpenChain, storage
<1>2. phase = "open" => phase' = "open" /\ UNCHANGED storage
  BY DEF StorageNext, WriteFile, DamageRecord, OpenChain, storage
<1> QED BY <1>1, <1>2 DEF Entries, EventsAt

LEMMA CopyDrops ==
  ASSUME StorageInv, StoredInv, BanksNumbered, ProgramInv, NEW appends \in BOOLEAN, Copy(appends)
  PROVE  dropped' \in Nat
<1> DEFINE at == Head(ahead)
           ids == KeptIds(program.patterns)
           all == StructuresAt(at)
<1>1. CASE dropped' = dropped
  BY <1>1 DEF ProgramInv
<1>2. CASE at.event # Unreadable /\ dropped' = dropped + Len(all) - Len(Projected(at, ids))
  <2>1. phase = "open" /\ at \in Entries
    BY DEF Copy, ProgramInv
  <2>2. Place(at)
    BY <1>2, <2>1 DEF Entries, Place
  <2>3. IsSequence(all)
    BY <2>1, <2>2, StructuresListed
  <2>4. Projected(at, ids) = Subsequence(all, {k \in DOMAIN all : all[k].id \in ids})
    BY DEF Projected, Only, Subsequence
  <2> DEFINE I == {k \in DOMAIN all : all[k].id \in ids}
  <2> HIDE DEF all, I
  <2>5. /\ Subsequence(all, I) \in Seq(ToSet(all))
        /\ Len(Subsequence(all, I)) <= Len(all) /\ Len(all) \in Nat
    BY <2>3, SubsequenceSome DEF IsSequence
  <2>6. Projected(at, ids) = Subsequence(all, I)
    BY <2>4 DEF I
  <2>7. Len(Subsequence(all, I)) \in Nat
    BY <2>5
  <2>8. dropped \in Nat
    BY DEF ProgramInv
  <2> QED BY <1>2, <2>5, <2>6, <2>7, <2>8
<1> QED BY <1>1, <1>2 DEF Copy

LEMMA ProgramInvNext ==
  StorageInv /\ StoredInv /\ BanksNumbered /\ ProgramInv /\ [Next]_vars => ProgramInv'
<1> SUFFICES ASSUME StorageInv, StoredInv, BanksNumbered, ProgramInv, [Next]_vars PROVE ProgramInv'
  OBVIOUS
<1>1. /\ files' = files /\ Entries' = Entries
      /\ phase = "open" => phase' = "open"
  BY ProgramSteps, StaysOpen
<1>2. CASE UNCHANGED copying
  BY <1>1, <1>2 DEF copying, ProgramInv
<1>3. ASSUME NEW p \in Programs, Start(p) PROVE ProgramInv'
  <2>1. ahead' \in Seq(Entries)
    <3>1. Ahead(p.filter) \in Seq(Entries)
      BY AheadIs DEF StorageInv
    <3>2. << >> \in Seq(Entries)
      OBVIOUS
    <3> HIDE DEF Entries
    <3>3. ahead \in Seq(Entries)
      BY DEF ProgramInv
    <3> QED BY <1>3, <3>1, <3>2, <3>3 DEF Start
  <2>2. program' = p /\ phase = "open" /\ outcome' \in {"running", "refused"} /\ dropped' = dropped
    BY <1>3 DEF Start
  <2> QED BY <1>1, <2>1, <2>2 DEF ProgramInv
<1>4. ASSUME NEW appends \in BOOLEAN, Copy(appends) PROVE ProgramInv'
  <2>1. dropped' \in Nat
    BY <1>4, CopyDrops
  <2>2. /\ ahead # << >> /\ (ahead' = ahead \/ ahead' = Tail(ahead))
        /\ outcome' \in {"running", "err"} /\ outcome = "running" /\ program' = program
    BY <1>4 DEF Copy
  <2>3. ahead' \in Seq(Entries)
    BY <2>2 DEF ProgramInv
  <2> QED BY <1>1, <2>1, <2>2, <2>3 DEF ProgramInv
<1>5. ASSUME NEW finishes \in BOOLEAN, Finish(finishes) PROVE ProgramInv'
  BY <1>1, <1>5 DEF Finish, ProgramInv
<1>6. ASSUME NEW n \in 0..MaxBatch, Extend(n) \/ ExtendFails(n) PROVE ProgramInv'
  <2>1. n \in Nat
    BY PyWriterAssumption
  <2>2. ahead' \in Seq(Entries)
    <3>1. << >> \in Seq(Entries)
      OBVIOUS
    <3>2. ahead \in Seq(Entries)
      BY DEF ProgramInv
    <3>3. ASSUME NEW k \in Nat \ {0} PROVE SubSeq(ahead, k, Len(ahead)) \in Seq(Entries)
      BY <3>2
    <3>4. SubSeq(ahead, n + 1, Len(ahead)) \in Seq(Entries) /\ SubSeq(ahead, n + 2, Len(ahead)) \in Seq(Entries)
      BY <2>1, <3>3
    <3>5. ahead' \in {ahead, << >>, SubSeq(ahead, n + 1, Len(ahead)), SubSeq(ahead, n + 2, Len(ahead))}
      BY <1>6 DEF Extend, ExtendFails
    <3> QED BY <3>1, <3>2, <3>4, <3>5
  <2>3. UNCHANGED <<program, outcome, dropped>>
    BY <1>6 DEF Extend, ExtendFails
  <2> QED BY <1>1, <2>2, <2>3 DEF ProgramInv
<1>7. ASSUME NEW finishes \in BOOLEAN, Close(finishes) PROVE ProgramInv'
  BY <1>1, <1>7 DEF Close, ProgramInv
<1>8. CASE UNCHANGED vars
  BY <1>2, <1>8 DEF vars, rewriting
<1>9. CASE RewriteNext
  BY <1>2, <1>3, <1>4, <1>5, <1>9 DEF RewriteNext, Storage, Look, Assemble
<1> QED BY <1>6, <1>7, <1>8, <1>9 DEF Next

(***************************************************************************)
(* What a handle keeps is a place in its record.                           *)
(***************************************************************************)
KeptInv ==
  /\ handle = [at |-> handle.at, dict |-> handle.dict, kind |-> handle.kind, kept |-> handle.kept]
  /\ handle.kind \in {"none", "owned", "ctx"}
  /\ handle # NoHandle => phase = "open"
  /\ \/ handle.kept = << >>
     \/ \E k : /\ handle.kept = <<k>> /\ k = [id |-> k.id, name |-> k.name, loc |-> k.loc, col |-> k.col]
               /\ Record(handle).layout # "blob" => k.loc \in DOMAIN Record(handle).split.banks

Keeps(h, kept) ==
  \/ kept = << >>
  \/ \E k : /\ kept = <<k>> /\ k = [id |-> k.id, name |-> k.name, loc |-> k.loc, col |-> k.col]
            /\ Record(h).layout # "blob" => k.loc \in DOMAIN Record(h).split.banks

LEMMA BankKept ==
  ASSUME NEW h, NEW name, Keeps(h, h.kept)
  PROVE  Keeps(h, BankOf(h, name).kept)
<1> DEFINE schema == Get(h.dict, name)
           looked == Looked(h, name, schema, Resolved(h, schema))
<1>1. BankOf(h, name).kept = h.kept \/ BankOf(h, name).kept = looked.kept
  BY DEF BankOf
<1>2. Keeps(h, looked.kept)
  <2>1. CASE Resolved(h, schema) = None
    BY <2>1 DEF Looked
  <2>2. CASE Resolved(h, schema) # None
    <3> DEFINE loc == LocOf(h, schema)
               k == [id |-> schema.id, name |-> name, loc |-> loc, col |-> NoEntry]
    <3>1. looked.kept = <<k>>
      BY <2>2 DEF Looked
    <3>2. Has(h, schema)
      BY <2>2 DEF Resolved
    <3>3. Record(h).layout # "blob" => loc \in DOMAIN Record(h).split.banks
      BY <3>2 DEF Has, LocOf, Split!BankIndex
    <3> HIDE DEF loc
    <3>4. k = [id |-> k.id, name |-> k.name, loc |-> k.loc, col |-> k.col] /\ k.loc = loc
      OBVIOUS
    <3> HIDE DEF k
    <3> QED BY <3>1, <3>3, <3>4 DEF Keeps
  <2> QED BY <2>1, <2>2
<1> QED BY <1>1, <1>2

LEMMA AnswerKept ==
  ASSUME NEW h, NEW ask, Keeps(h, h.kept)
  PROVE  Keeps(h, Answer(h, ask).kept)
<1> DEFINE got == BankOf(h, ask.bank)
<1>1. Keeps(h, got.kept)
  BY BankKept
<1> HIDE DEF got
<1>2. ASSUME NEW c PROVE Keeps(h, CellOf(got, ask.row, c).kept)
  <2>1. CASE got.kept = << >>
    BY <2>1 DEF CellOf, Keeps
  <2>2. CASE got.kept # << >>
    <3>1. PICK k : /\ got.kept = <<k>> /\ k = [id |-> k.id, name |-> k.name, loc |-> k.loc, col |-> k.col]
                   /\ Record(h).layout # "blob" => k.loc \in DOMAIN Record(h).split.banks
      BY <1>1, <2>2 DEF Keeps
    <3>2. CellOf(got, ask.row, c).kept = <<[k EXCEPT !.col = c]>>
      BY <2>2, <3>1 DEF CellOf
    <3>3. [k EXCEPT !.col = c] = [id |-> k.id, name |-> k.name, loc |-> k.loc, col |-> c]
      BY <3>1
    <3>4. PICK j : j = [id |-> k.id, name |-> k.name, loc |-> k.loc, col |-> c]
      OBVIOUS
    <3>5. j = [id |-> j.id, name |-> j.name, loc |-> j.loc, col |-> j.col] /\ j.loc = k.loc
      BY <3>4
    <3>6. CellOf(got, ask.row, c).kept = <<j>>
      BY <3>2, <3>3, <3>4
    <3> QED BY <3>1, <3>5, <3>6 DEF Keeps
  <2> QED BY <2>1, <2>2
<1>3. Keeps(h, Cell(h, ask, got).kept)
  BY <1>1, <1>2 DEF Cell
<1>4. Answer(h, ask).kept \in {got.kept, Cell(h, ask, got).kept, h.kept}
  BY DEF Answer, AnswerFrom, got
<1> QED BY <1>1, <1>3, <1>4

LEMMA KeptInvInit == Init => KeptInv
BY DEF Init, RewriteInit, HandleInit, NoHandle, KeptInv

LEMMA KeptInvNext == StorageInv /\ KeptInv /\ [Next]_vars => KeptInv'
<1> SUFFICES ASSUME StorageInv, KeptInv, [Next]_vars PROVE KeptInv'
  OBVIOUS
<1>1. CASE [StorageNext]_storage /\ UNCHANGED handles
  <2>1. CASE UNCHANGED storage
    BY <1>1, <2>1 DEF storage, handles, KeptInv, Record, RecordAt
  <2>2. CASE ~UNCHANGED storage
    <3>1. handle = NoHandle /\ handle' = handle
      BY <1>1, <2>2, StaysOpen DEF KeptInv, handles
    <3> QED BY <3>1 DEF NoHandle, KeptInv
  <2> QED BY <2>1, <2>2
<1>2. ASSUME NEW g, NEW kind \in {"owned", "ctx"}, NEW d, Hold(g, d, kind) PROVE KeptInv'
  <2>1. /\ phase' = "open"
        /\ handle' = [at |-> Numbers!Resolve(g), dict |-> d, kind |-> kind, kept |-> << >>]
    BY <1>2 DEF Hold, storage
  <2> QED BY <2>1 DEF KeptInv
<1>3. ASSUME NEW ask \in Asks, Ask(ask) PROVE KeptInv'
  <2>1. PICK h : h = handle
    OBVIOUS
  <2>2. /\ phase' = "open" /\ UNCHANGED storage
        /\ handle' = [h EXCEPT !.kept = Answer(h, ask).kept]
    BY <1>3, <2>1 DEF Ask, KeptInv, storage
  <2>3. Keeps(h, h.kept) /\ h = [at |-> h.at, dict |-> h.dict, kind |-> h.kind, kept |-> h.kept]
    BY <2>1 DEF KeptInv, Keeps
  <2>4. PICK kept : kept = Answer(h, ask).kept
    OBVIOUS
  <2>5. Keeps(h, kept)
    BY <2>3, <2>4, AnswerKept
  <2>6. handle' = [at |-> h.at, dict |-> h.dict, kind |-> h.kind, kept |-> kept]
    BY <2>2, <2>3, <2>4
  <2>7. handle'.at = h.at /\ handle'.kind = h.kind /\ handle'.kept = kept
        /\ handle' = [at |-> handle'.at, dict |-> handle'.dict, kind |-> handle'.kind, kept |-> handle'.kept]
    BY <2>6
  <2>8. Record(handle)' = Record(h)
    BY <2>2, <2>7 DEF Record, RecordAt, storage
  <2>9. h.kind \in {"none", "owned", "ctx"}
    BY <2>1 DEF KeptInv
  <2> QED BY <2>2, <2>5, <2>7, <2>8, <2>9 DEF KeptInv, Keeps
<1> QED BY <1>1, <1>2, <1>3, ProgramSteps DEF HandleNext

LEMMA HandlesTyped == KeptInv => HandleTypeOK
<1> SUFFICES ASSUME KeptInv PROVE HandleTypeOK
  OBVIOUS
<1>1. CASE handle.kept = << >>
  <2>1. ToSet(<< >>) = {} /\ Len(<< >>) = 0
    BY DEF ToSet
  <2> QED BY <1>1, <2>1 DEF KeptInv, HandleTypeOK
<1>2. CASE handle.kept # << >>
  <2>1. PICK k : /\ handle.kept = <<k>>
                 /\ Record(handle).layout # "blob" => k.loc \in DOMAIN Record(handle).split.banks
    BY <1>2 DEF KeptInv
  <2>2. ToSet(<<k>>) = {k} /\ Len(<<k>>) = 1
    BY DEF ToSet
  <2> QED BY <2>1, <2>2 DEF KeptInv, HandleTypeOK
<1> QED BY <1>1, <1>2

LEMMA StorageTyped == StorageInv => StorageTypeOK
<1> SUFFICES ASSUME StorageInv PROVE StorageTypeOK
  OBVIOUS
<1>1. ASSUME phase = "open" PROVE DOMAIN dict.by_name = {dict.schemas[i].name : i \in DOMAIN dict.schemas}
  <2>1. InOrder(dict, Declared)
    BY <1>1, UnionIsIn DEF StorageInv
  <2> QED BY <2>1 DEF InOrder
<1> QED BY <1>1 DEF StorageInv, StorageTypeOK

(* The types of every program over a chain: a name of the chain's          *)
(* dictionary is that of one of its schemas, a handle keeps at most one    *)
(* bank and that a place its record has, of the buffers there is at most   *)
(* one set, the structures left out are never fewer than none, and a       *)
(* Python writer there is has not been finished.                           *)
THEOREM WriterTypes == Spec => []TypeOK
<1>1. Init => ProgramInv /\ KeptInv
  BY ProgramInvInit, KeptInvInit
<1>2. StorageInv /\ StoredInv /\ BanksNumbered /\ (ProgramInv /\ KeptInv) /\ [Next]_vars
        => (ProgramInv /\ KeptInv)'
  BY ProgramInvNext, KeptInvNext
<1>3. StorageInv /\ ProgramInv /\ KeptInv /\ BuildTypeOK /\ PyInv => TypeOK
  BY StorageTyped, HandlesTyped DEF ProgramInv, PyInv, TypeOK, RewriteTypeOK
<1> QED BY <1>1, <1>2, <1>3, StorageHolds, NumberedHolds, BuffersNeverMultiply, PyInvHolds, PTL DEF Spec

-----------------------------------------------------------------------------
(* What close finishes is what the extends that returned were given, for   *)
(* an update and for a new file.                                           *)
THEOREM ClosedFilesHoldWhatWasExtended == Spec => []ClosesWhatWasExtended
<1>1. UpdateIsAligned /\ NewFileHoldsTheRows => ClosesWhatWasExtended
  BY DEF ClosesWhatWasExtended
<1> QED BY <1>1, UpdatesAreAligned, NewFilesHoldTheRows, PTL
=============================================================================
