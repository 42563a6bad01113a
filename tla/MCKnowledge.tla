----------------------------- MODULE MCKnowledge -----------------------------
(***************************************************************************)
(* Instance of Knowledge: two processes and one file with two contents,    *)
(* which is indexed from the repository and imported by hand.              *)
(***************************************************************************)
EXTENDS Knowledge, TLC

Symmetry == Permutations(Workers) \cup Permutations(Contents)
=============================================================================
