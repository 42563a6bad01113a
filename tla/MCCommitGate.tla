----------------------------- MODULE MCCommitGate -----------------------------
(* Small instances of CommitGate: the base, one change and another one. *)
EXTENDS CommitGate, TLC

CONSTANTS change, other

GateSymmetry == Permutations({change, other})
=============================================================================
