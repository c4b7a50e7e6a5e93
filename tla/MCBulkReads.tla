---------------------------- MODULE MCBulkReads ----------------------------
EXTENDS BulkReads, TLC

(* Bank A has two columns and rows of three bytes, B one column of two     *)
(* one-byte elements, C one byte.                                          *)
A == [name |-> "A", id |-> 1, cols |-> <<[size |-> 2, length |-> 1], [size |-> 1, length |-> 1]>>]
B == [name |-> "B", id |-> 2, cols |-> <<[size |-> 1, length |-> 2]>>]
C == [name |-> "C", id |-> 3, cols |-> <<[size |-> 1, length |-> 1]>>]

(* Event e: the bank, header size and length of each structure in turn.    *)
Event(e, tag, parts) ==
  [tag |-> tag,
   structures |-> [k \in DOMAIN parts |->
     [id |-> parts[k][1], header_size |-> parts[k][2],
      data |-> [p \in 1..parts[k][3] |-> <<e, k, p>>]]]]

Rec(layout, word, events) == [layout |-> layout, user_word |-> word, events |-> events]

(* Two files.  The first has A and B, in one event two rows, in one none,  *)
(* and an event without A between two with it; the second declares other   *)
(* banks, and an event of it may have A, which it does not.                *)
First(l1, l2) ==
  [adds |-> <<C, A, B>>,
   records |-> <<
     Rec(l1, 1, <<Event(1, {}, << <<2, 0, 2>>, <<1, 0, 6>> >>), Event(2, {1}, << <<2, 0, 0>> >>),
                  Event(3, {1, 2}, << <<1, 0, 3>> >>)>>),
     Rec(l2, 2, <<Event(4, {2}, << <<1, 0, 3>>, <<2, 0, 4>> >>)>>)>>]

Second(l, adds, fifth, sixth) ==
  [adds |-> adds, records |-> <<Rec(l, 1, <<Event(5, {1}, fifth), Event(6, {}, sixth)>>)>>]

JustB == << <<2, 0, 2>> >>

Layouts == {"blob", "by_bank", "per_column"}

(* Layouts in every pair; chains that do not contradict themselves: the    *)
(* second file declares A again, not at all though it has it, or only      *)
(* after another schema of that name; one has a bank that is no whole      *)
(* number of rows.                                                         *)
Sound3 ==
  {<<First(l[1], l[2]), Second(l[3], <<B, A>>, JustB, << <<1, 0, 3>>, <<2, 0, 2>> >>)>> : l \in
     {<<l1, l2, l3>> : l1 \in Layouts, l2 \in Layouts, l3 \in Layouts}}

Undeclared ==
  {<<First(l, l), Second(l, <<B>>, << <<1, 0, 3>> >>, << <<1, 0, 3>>, <<2, 0, 2>> >>)>> : l \in Layouts}

Odd ==
  {<<First(l, "blob"), Second(l, <<[A EXCEPT !.id = 4], B, A>>, JustB, << <<1, 0, 4>> >>)>> : l \in Layouts}

Contradicting ==
  {<<First("blob", "blob"), Second("blob", adds, JustB, << >>)>> :
     adds \in {<<[A EXCEPT !.cols = B.cols]>>, <<B, [C EXCEPT !.id = 1]>>, <<[C EXCEPT !.name = "D"]>>}}

(* Five names, of which the last has no id left.                           *)
D == [C EXCEPT !.name = "D", !.id = 4]
E == [C EXCEPT !.name = "E", !.id = 5]
Crowded == {<<First("blob", "blob"), Second("blob", <<D, E>>, JustB, << >>)>>}

MCInputs == Sound3 \cup Undeclared \cup Odd \cup Contradicting \cup Crowded

NoFilter == [require |-> {}, record_tags |-> {}, event_tags |-> {}, mask |-> {}]
NeedsA   == [NoFilter EXCEPT !.require = {"A"}]
Tagged   == [NoFilter EXCEPT !.event_tags = {{}, {1}}, !.record_tags = {1}]
Masked   == [NoFilter EXCEPT !.mask = {1}, !.require = {"B"}]

Call(kind, filter, range, entries, selection, threads) ==
  [kind |-> kind, filter |-> filter, range |-> range, entries |-> entries,
   selection |-> selection, threads |-> threads]

Of(bank, cols) == <<[bank |-> bank, cols |-> cols]>>
From(lo, hi) == <<[lo |-> lo, hi |-> hi]>>

MCCalls ==
  {Call("columns", f, r, << >>, Of("A", <<2, 1>>) \o Of("B", << >>), n) :
     f \in {NoFilter, NeedsA}, r \in {All, From(2, 4)}, n \in {1, 2}}
  \cup {Call("columns", f, From(1, 6), << >>, Of("B", << >>), 2) : f \in {Tagged, Masked}}
  \cup {Call("columns", NoFilter, All, << >>, Of("A", <<1>>), 1)}
  \cup {Call("entries", NoFilter, All, es, Of("A", << >>) \o Of("B", << >>), 2) :
          es \in {<<0, 2, 3, 5>>, <<5, 0, 3, 0>>, <<3, 9, 1>>, <<4, 5, 4, 7>>, <<8>>}}
  \cup {Call("tags", f, r, << >>, << >>, 2) : f \in {NoFilter, Masked}, r \in {All, From(2, 4)}}
  \cup {Call("occupancy", f, r, << >>, << >>, 2) : f \in {NoFilter, NeedsA}, r \in {All, From(1, 5)}}
  \cup {Call("sweep", f, All, << >>, Of(b, <<1>>), 1) : f \in {NoFilter, NeedsA}, b \in {"A", "B"}}
  \cup {Call("events", f, All, << >>, << >>, 1) : f \in {NoFilter, NeedsA, Tagged}}
  \cup {Call("columns", NoFilter, All, << >>, Of("Z", << >>), 1)}
=============================================================================
