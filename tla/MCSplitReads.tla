---------------------------- MODULE MCSplitReads ----------------------------
EXTENDS SplitReads

(* Bank 1 has two columns, one of two-byte elements and one of an array;   *)
(* bank 2 one column; bank 3 has no schema.                                *)
MCDict == 1 :> << [size |-> 2, length |-> 1], [size |-> 1, length |-> 1] >>
          @@ 2 :> << [size |-> 1, length |-> 2] >>

(* Event e: the bank, header size and length of each structure in turn.    *)
Event(e, tag, parts) ==
  [tag |-> tag,
   structures |-> [k \in DOMAIN parts |->
     [id |-> parts[k][1], header_size |-> parts[k][2],
      data |-> [p \in 1..parts[k][3] |-> <<e, k, p>>]]]]

MCInputs ==
  { \* rows in both events, in another order than the directory's, and an empty bank
    <<Event(1, 7, << <<3, 0, 1>>, <<1, 0, 6>> >>), Event(2, 0, << <<1, 0, 3>>, <<2, 0, 0>> >>)>>,
    \* an event without the bank between two with it
    <<Event(1, 0, << <<1, 0, 6>> >>), Event(2, 1, << >>), Event(3, 2, << <<1, 0, 3>> >>)>>,
    \* a bank that is not a whole number of rows in one event; a composite bank
    <<Event(1, 0, << <<1, 0, 4>>, <<2, 1, 2>> >>), Event(2, 3, << <<2, 1, 2>>, <<1, 0, 3>> >>)>> }
=============================================================================
