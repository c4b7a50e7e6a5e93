--------------------------- MODULE MCHipoRecovery ---------------------------
(***************************************************************************)
(* Small files: events of one and two cells, records of at most two        *)
(* events, a buffer that some records fit in and others do not.            *)
(***************************************************************************)
EXTENDS HipoRecovery

MCEventLen == [e \in Event |-> IF e = "a" THEN 1 ELSE 2]
MCBatch    == {[evs |-> << >>, bytes |-> 0], [evs |-> <<"b">>, bytes |-> 2]}
=============================================================================
