--------------------------- MODULE MCCodingStore ---------------------------
(* Small instances of CodingStore for TLC. *)
EXTENDS CodingStore, TLC

CONSTANT LastTime   \* bound: timestamps 1..LastTime

MCTimes == 1..LastTime

\* Tasks, paths and pids are interchangeable: no definition tells them apart.
StoreSymmetry == Permutations(Tasks) \cup Permutations(Paths) \cup Permutations(Pids)

\* bound: a task by itself lives its whole life without a registered worktree; two
\* tasks, or one with worktrees, are explored while no event log is longer than 2.
Explored ==
    \/ \A t \in Tasks : task[t] # NoTask => task[t].version <= 2
    \/ /\ \A p \in DOMAIN worktree : worktree[p] = NoWorktree
       /\ \A t, u \in Tasks : task[t] # NoTask /\ task[u] # NoTask => t = u
=============================================================================
