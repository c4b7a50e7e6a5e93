----------------------------- MODULE MCRewrite -----------------------------
EXTENDS PyWriter, TLC

(* Bank A has two columns and rows of three bytes, B one column of two     *)
(* one-byte elements.  Twin names A's id and its columns the other way     *)
(* round.                                                                  *)
Two == [size |-> 2, length |-> 1]
One == [size |-> 1, length |-> 1]
Pair == [size |-> 1, length |-> 2]
A == [name |-> "A", id |-> 1, cols |-> <<Two, One>>, names |-> <<"x", "y">>]
B == [name |-> "B", id |-> 2, cols |-> <<Pair>>, names |-> <<"x">>]
Twin == [A EXCEPT !.name = "T", !.names = <<"y", "x">>]

(* Event e: the bank, header size and length of each structure in turn.    *)
Event(e, tag, parts) ==
  [tag |-> tag,
   structures |-> [k \in DOMAIN parts |->
     [id |-> parts[k][1], header_size |-> parts[k][2],
      data |-> [p \in 1..parts[k][3] |-> <<e, k, p>>]]]]

Rec(layout, word, events) == [layout |-> layout, user_word |-> word, events |-> events]

(* An event with both banks, one in which one is empty, one with a         *)
(* composite structure no dictionary declares; in the second file, which   *)
(* does not declare A, one with it.                                        *)
MCInputs ==
  {<<[adds |-> <<A, B>>,
      records |-> <<
        Rec(layout, 1, <<Event(1, {1}, << <<2, 0, 2>>, <<1, 0, 6>> >>), Event(2, {}, << <<1, 0, 0>>, <<2, 0, 2>> >>)>>),
        Rec(layout, 2, <<Event(3, {2}, << <<3, 1, 1>>, <<1, 0, 3>> >>)>>)>>],
     [adds |-> <<B>>,
      records |-> <<Rec("blob", 1, <<Event(4, {1}, << <<1, 0, 3>>, <<2, 0, 2>> >>)>>)>>]>> :
   layout \in {"blob", "by_bank", "per_column"}}
  \cup {<< >>}

NoFilter == [require |-> {}, record_tags |-> {}, event_tags |-> {}, mask |-> {}]
NeedsB   == [NoFilter EXCEPT !.require = {"B"}]
NeedsA   == [NoFilter EXCEPT !.require = {"A"}, !.record_tags = {1}]

MCPrograms ==
  [kind : {"skim"}, filter : {NoFilter, NeedsA, [NoFilter EXCEPT !.require = {"Z"}]}]
  \cup [kind : {"skim_banks"}, filter : {NoFilter, NeedsB},
        patterns : {<<{"A"}>>, <<{"B", "C"}, {"Z", "B"}>>, <<{"A"}, {"Z"}>>}]
  \cup [kind : {"skim_tagged"}, filter : {NoFilter, NeedsB}, classify : {"A"}, tags : {<<{1}, {2, 3}>>}]
  \cup [kind : {"look", "assemble"}, filter : {NoFilter}]
  \cup [kind : {"update", "create"}, filter : {NoFilter}, tags : BOOLEAN, wrapped : BOOLEAN]

(* With two names for one id, and an id whose schema was replaced.         *)
MCOwnDicts == {<<Twin, [B EXCEPT !.id = 1], A, B>>}

MCAsks ==
  [kind : {"bank"}, bank : {"A", "B", "T"}]
  \cup [kind : {"has"}, bank : {"A"}]
  \cup [kind : {"get"}, bank : {"A", "T"}, column : {"x", "y"}, row : {2}]
  \cup [kind : {"get"}, bank : {"B"}, column : {"z"}, row : {1}]

(* To build with: a row of P takes three bytes, and of Q two.              *)
P == [id |-> 1, cols |-> <<[ty |-> "short", length |-> 1, width |-> 2], [ty |-> "byte", length |-> 1, width |-> 1]>>]
Q == [id |-> 2, cols |-> <<[ty |-> "byte", length |-> 2, width |-> 2]>>]
MCSchemas == {P, Q}
MCValues == {[ty |-> "byte", length |-> 2, v |-> 1]}
=============================================================================
