-------------------------- MODULE MCWorktreeCreate --------------------------
(* WorktreeCreate for TLC.  Its passing run checks liveness, hence no symmetry. *)
EXTENDS WorktreeCreate
=============================================================================
