------------------------------ MODULE MCMemory ------------------------------
(***************************************************************************)
(* Instance of Memory: the sources of one knowledge file at two commits, a *)
(* hashed file without a commit and a statement of the user.               *)
(***************************************************************************)
EXTENDS Memory, TLC

CONSTANTS c1, c2

\* The sources the upserts of the instance bring.
MCSources ==
    {[uri |-> "note", hash |-> "h1", commit |-> c1, kind |-> "knowledge_candidate"],
     [uri |-> "note", hash |-> "h2", commit |-> c2, kind |-> "knowledge_candidate"],
     [uri |-> "none", hash |-> "none", commit |-> NoCommit, kind |-> "user"]}

MCCommits == {c1, c2}

Symmetry == Permutations(Values)
=============================================================================
