---------------------- MODULE MCFileCommandRuntime ----------------------
(* The instances of FileCommandRuntime that TLC checks. *)
EXTENDS FileCommandRuntime, TLC

CONSTANTS b1, b2

RenameOrCopy == {[kind |-> "Rename", skip |-> {}], [kind |-> "Copy", skip |-> {2}]}
Moves == {[kind |-> "Move", skip |-> {}]}

\* Which files a rename has to treat together.
Alone == [i \in Items |-> i]

\* The batches are alike (used where no liveness is checked).
Interchangeable == Permutations(Batches)
====
