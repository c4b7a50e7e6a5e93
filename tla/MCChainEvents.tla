--------------------------- MODULE MCChainEvents ---------------------------
(***************************************************************************)
(* Two files with an empty one between them; one-blob and split records    *)
(* alternate, one is empty, one is turned down whole by the filter, one    *)
(* has another tag, and the last (with a tag of its own) cannot be decoded.*)
(***************************************************************************)
EXTENDS ChainEvents

Rec(passes, word, layout, ok) ==
  [event_count |-> Len(passes), passes |-> passes, user_word |-> word,
   header_ok |-> TRUE, body_ok |-> ok, layout |-> layout]

MCFiles ==
  << <<Rec(<<TRUE, TRUE>>, 1, "blob", TRUE), Rec(<<TRUE>>, 2, "blob", TRUE),
       Rec(<<FALSE>>, 1, "blob", TRUE), Rec(<<TRUE>>, 1, "split", TRUE), Rec(<<TRUE>>, 1, "blob", TRUE)>>,
     << >>,
     <<Rec(<< >>, 1, "blob", TRUE), Rec(<<TRUE, FALSE, TRUE>>, 1, "blob", TRUE),
       Rec(<<TRUE>>, 3, "blob", FALSE)>> >>

(* The hypothesis of the theorem about this scan holds of these files.     *)
ASSUME FilesIndexedRight == IndexesRight
=============================================================================
