------------------------- MODULE MCSuccessorRevision -------------------------
(* SuccessorRevision for TLC.                                              *)
EXTENDS SuccessorRevision, TLC

Interchangeable == Permutations(Evidence)
=============================================================================
