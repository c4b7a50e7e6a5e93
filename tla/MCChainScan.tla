---------------------------- MODULE MCChainScan ----------------------------
EXTENDS ChainScan

Rec(passes, word, ok) ==
  [event_count |-> Len(passes), passes |-> passes, user_word |-> word,
   header_ok |-> TRUE, body_ok |-> ok, layout |-> "blob"]

(* Six events in three files, one of them empty, with an empty record and  *)
(* a record that cannot be decoded on the way.                             *)
MCFiles ==
  << <<Rec(<<TRUE, FALSE>>, 1, TRUE), Rec(<< >>, 1, TRUE)>>, << >>,
     <<Rec(<<TRUE>>, 2, TRUE), Rec(<<TRUE>>, 3, FALSE), Rec(<<TRUE, TRUE>>, 1, TRUE)>> >>

(* A file whose only fault is one record header that cannot be read.       *)
BadHeader ==
  << <<Rec(<<TRUE>>, 1, TRUE), [Rec(<<TRUE>>, 1, TRUE) EXCEPT !.header_ok = FALSE],
       Rec(<<TRUE, FALSE>>, 1, TRUE), Rec(<<TRUE>>, 2, TRUE)>> >>

R(lo, hi) == [lo |-> lo, hi |-> hi]
MCRanges == { << >>, <<R(5, 9)>>, <<R(1, 2), R(0, 2)>>, <<R(4, 5), R(1, 3), R(3, 1)>> }

MCRequest ==
  [kind: {"for_each"}, record_tags: {{}, {1}}, ranges: {<< >>}, threads: {1, 2}]
  \cup [kind: {"ranges"}, record_tags: {{}, {1, 2}}, ranges: MCRanges, threads: {1, 2}]
  \cup [kind: {"columns"}, record_tags: {{}, {1, 2}}, ranges: {<< >>, <<R(1, 4)>>}, threads: {1, 2}]

(* The hypothesis of the theorem about this scan holds of these files.     *)
ASSUME FilesIndexedRight == IndexesRight
=============================================================================
