--------------------------- MODULE MCOperationJournal ---------------------------
(* Two batches, one of two operations and one of one, for model checking. *)
EXTENDS OperationJournal, TLC

CONSTANTS b1, b2, o1, o2, o3

MCBatchOf == (o1 :> b1) @@ (o2 :> b1) @@ (o3 :> b2)
=============================================================================
