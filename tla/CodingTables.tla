---------------------------- MODULE CodingTables ----------------------------
(***************************************************************************)
(* The vocabulary of the coding engine's durable state: task statuses,     *)
(* worktree statuses, the two transition tables of services/coding/store.py*)
(* and the predicates its write transactions evaluate.  No state lives     *)
(* here; CodingStore and CodingTask share these definitions.               *)
(*                                                                         *)
(* Timestamps are natural numbers.  NoTime (0) stands for a completed_at   *)
(* that is None, so every real timestamp is at least 1.                    *)
(***************************************************************************)
EXTENDS Naturals

NoTime == 0

TaskStatuses ==
    {"created", "inspected", "planned", "isolated", "executing", "verifying",
     "reviewing", "handoff_ready", "completed", "blocked", "failed",
     "cancelled", "orphaned"}

TerminalStatuses == {"completed", "failed", "cancelled"}

\* The three ways of stopping that every live status offers.
Stops == {"blocked", "failed", "cancelled"}

AllowedTransitions ==
    [created       |-> {"inspected"} \cup Stops,
     inspected     |-> {"inspected", "planned"} \cup Stops,
     planned       |-> {"planned", "isolated", "handoff_ready"} \cup Stops,
     isolated      |-> {"isolated", "executing", "handoff_ready", "orphaned"} \cup Stops,
     executing     |-> {"executing", "verifying", "handoff_ready", "orphaned"} \cup Stops,
     verifying     |-> {"verifying", "executing", "reviewing", "handoff_ready", "orphaned"} \cup Stops,
     reviewing     |-> {"reviewing", "executing", "completed", "handoff_ready", "orphaned"} \cup Stops,
     handoff_ready |-> {"handoff_ready", "isolated", "executing", "orphaned"} \cup Stops,
     blocked       |-> {"planned", "isolated", "handoff_ready"} \cup Stops,
     orphaned      |-> {"orphaned", "isolated", "handoff_ready"} \cup Stops,
     completed     |-> {},
     failed        |-> {},
     cancelled     |-> {}]

WorktreeStatuses == {"active", "orphaned", "complete", "cleanup_blocked", "removed"}

WorktreeTransitions ==
    [active          |-> {"active", "complete", "orphaned", "cleanup_blocked"},
     orphaned        |-> {"orphaned", "active", "complete", "cleanup_blocked", "removed"},
     complete        |-> {"complete", "orphaned", "cleanup_blocked", "removed"},
     cleanup_blocked |-> {"cleanup_blocked", "orphaned", "complete", "removed"},
     removed         |-> {}]

(***************************************************************************)
(* What a transition may do to a worktree's owner and clock.  The record   *)
(* operands carry at least status, pid, created, heartbeat and completed.  *)
(***************************************************************************)
ValidLifetime(r) ==
    /\ r.created <= r.heartbeat
    /\ r.status = "active" => r.completed = NoTime
    /\ r.status \in {"complete", "removed"} => r.completed # NoTime
    /\ r.completed # NoTime => r.created <= r.completed /\ r.completed <= r.heartbeat

OwnerKept(cur, new) ==
    new.pid = cur.pid \/ (cur.status = "orphaned" /\ new.status = "active")

WorktreeUpdateAllowed(cur, new) ==
    /\ ValidLifetime(new)
    /\ new.status \in WorktreeTransitions[cur.status]
    /\ new.heartbeat >= cur.heartbeat
    /\ cur.completed # NoTime => new.completed = cur.completed
    /\ OwnerKept(cur, new)
=============================================================================
