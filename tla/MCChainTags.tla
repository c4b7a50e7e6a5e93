---------------------------- MODULE MCChainTags ----------------------------
(***************************************************************************)
(* Two files of small records, with an empty record and an empty file      *)
(* where the binary searches could go astray, a compressed record, and one *)
(* whose index row announces an event the record does not hold.            *)
(***************************************************************************)
EXTENDS ChainTags

Rec(n, held, layout) ==
  [event_count |-> n, passes |-> [k \in 1..held |-> TRUE], user_word |-> 0,
   header_ok |-> TRUE, body_ok |-> TRUE, layout |-> layout]

MCFiles ==
  << <<Rec(0, 0, "plain"), Rec(2, 2, "plain")>>, << >>, <<Rec(1, 1, "blob"), Rec(2, 1, "plain")>> >>

(* Events 0 and 1 share a record, event 2 is compressed, event 4 is not    *)
(* there, event 5 is out of range.                                         *)
U(i, g) == [index |-> i, tag |-> g]
MCUpdates ==
  { <<U(0, 1)>>, <<U(0, 1), U(3, 1), U(0, 0)>>, <<U(1, 1), U(2, 1)>>,
    <<U(3, 1), U(4, 1)>>, <<U(1, 1), U(5, 1)>>, << >> }
=============================================================================
