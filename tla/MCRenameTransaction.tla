-------------------------- MODULE MCRenameTransaction --------------------------
(* Rename plans small enough for model checking. *)
EXTENDS RenameTransaction

\* Swap the names of two files.
SwapSrc == <<"a", "b">>
SwapDst == <<"b", "a">>

\* A cycle of three.
CycleSrc == <<"a", "b", "c">>
CycleDst == <<"b", "c", "a">>

\* All contents differ, or another application has a copy of the first file.
Distinct == [f \in Files |-> f]
Lookalike == [f \in Files |-> IF f = Foreign THEN 1 ELSE f]
=============================================================================
