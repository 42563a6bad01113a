--------------------------- MODULE MCWorktreeLease ---------------------------
(* WorktreeLease for TLC.  Its run checks liveness, hence no symmetry. *)
EXTENDS WorktreeLease
=============================================================================
