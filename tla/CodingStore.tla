----------------------------- MODULE CodingStore -----------------------------
(***************************************************************************)
(* The SQLite store of coding tasks (services/coding/store.py with the     *)
(* schema of services/coding/migrations.py).  Every write method runs in   *)
(* one BEGIN IMMEDIATE transaction, so it is one action here; a method     *)
(* that raises rolls back and changes nothing, so its guard is the         *)
(* conjunction of the checks it passes.  Reads (load, version, worktree,   *)
(* status) change nothing.  Callers are arbitrary: any process may call    *)
(* any method with any snapshot or record.                                 *)
(*                                                                         *)
(* A snapshot keeps what the store itself looks at: status, repository,    *)
(* update time and the identity of the worktree it references.  An event   *)
(* keeps the snapshot whose SHA-256 it stores.  Paths, branches and        *)
(* repositories are compared by the store's case-folded keys, so they are  *)
(* model values here.  record_version is left out: it is read and compared *)
(* inside one exclusive transaction, so that comparison cannot fail.       *)
(***************************************************************************)
EXTENDS CodingTables, Sequences, FiniteSets

CONSTANTS
    Tasks,        \* task ids
    Sources,      \* source repositories
    Paths,        \* worktree paths
    Branches,     \* branch names
    NoBranch,     \* branch IS NULL
    Pids,         \* owner process ids
    Times,        \* timestamps that callers use
    MaxVersion,   \* bound: longest event log explored per task
    NoTask,       \* no coding_tasks row
    NoWorktree    \* no worktree in a snapshot, no coding_worktrees row

VARIABLES
    task,      \* coding_tasks: current snapshot and state_version
    events,    \* coding_task_events, in state_version order
    worktree   \* coding_worktrees: the durable mirror of ownership

vars == <<task, events, worktree>>

-----------------------------------------------------------------------------
Identities == [source : Sources, path : Paths, branch : Branches \cup {NoBranch}]

Records ==
    [id : Identities, status : WorktreeStatuses, pid : Pids, created : Times,
     heartbeat : Times, completed : Times \cup {NoTime}]

Snapshots ==
    [status : TaskStatuses, source : Sources, updated : Times,
     worktree : Identities \cup {NoWorktree}]

\* from = "none" is the NULL from_status of the creation event.
Events == [from : TaskStatuses \cup {"none"}, to : TaskStatuses, state : Snapshots]

TaskRows == [state : Snapshots, version : Nat \ {0}]

\* NULL is none of the values a column can hold.
ASSUME StoreConstants ==
    /\ NoBranch \notin Branches
    /\ NoTask \notin TaskRows
    /\ NoWorktree \notin Records
    /\ NoWorktree \notin Identities
    /\ Times \subseteq Nat \ {NoTime}
    /\ MaxVersion \in Nat

TypeOK ==
    /\ task \in [Tasks -> TaskRows \cup {NoTask}]
    /\ events \in [Tasks -> Seq(Events)]
    /\ worktree \in [Tasks -> Records \cup {NoWorktree}]

Init ==
    /\ task = [t \in Tasks |-> NoTask]
    /\ events = [t \in Tasks |-> <<>>]
    /\ worktree = [t \in Tasks |-> NoWorktree]

-----------------------------------------------------------------------------
Exists(t) == task[t] # NoTask
Registered(t) == worktree[t] # NoWorktree

\* Wrong variant: a task may begin in any status.
Create_AnyStatus(t, s) ==
    /\ ~Exists(t)
    /\ s.worktree = NoWorktree
    /\ task' = [task EXCEPT ![t] = [state |-> s, version |-> 1]]
    /\ events' = [events EXCEPT ![t] =
                    Append(@, [from |-> "none", to |-> s.status, state |-> s])]
    /\ UNCHANGED worktree

Create(t, s) ==
    /\ ~Exists(t)
    /\ s.status = "created"
    /\ s.worktree = NoWorktree
    /\ task' = [task EXCEPT ![t] = [state |-> s, version |-> 1]]
    /\ events' = [events EXCEPT ![t] =
                    Append(@, [from |-> "none", to |-> s.status, state |-> s])]
    /\ UNCHANGED worktree

\* Wrong variant: the registered worktree's identity is not compared.
EnsureRegisteredWorktree_AnyIdentity(t, s) ==
    s.worktree # NoWorktree =>
        /\ Registered(t)
        /\ worktree[t].status = "removed" => s.status \in TerminalStatuses

\* _ensure_registered_worktree: a snapshot may reference only the registered
\* worktree, and a removed one only when the task is over.
EnsureRegisteredWorktree(t, s) ==
    s.worktree # NoWorktree =>
        /\ Registered(t)
        /\ worktree[t].id = s.worktree
        /\ worktree[t].status = "removed" => s.status \in TerminalStatuses

\* Wrong variant: a table that only protects decided tasks.
TransitionAllowed_OpenTable(t, s, expected) ==
    /\ Exists(t)
    /\ expected \in {0, task[t].version}
    /\ s.source = task[t].state.source
    /\ s.updated >= task[t].state.updated
    /\ task[t].state.status \notin TerminalStatuses
    /\ EnsureRegisteredWorktree(t, s)

\* expected = 0 is a call without expected_version.
TransitionAllowed(t, s, expected) ==
    /\ Exists(t)
    /\ expected \in {0, task[t].version}
    /\ s.source = task[t].state.source
    /\ s.updated >= task[t].state.updated
    /\ s.status \in AllowedTransitions[task[t].state.status]
    /\ EnsureRegisteredWorktree(t, s)

\* Wrong variant: the event takes both its statuses from the new snapshot.
Transition_FromNewState(t, s, expected) ==
    /\ TransitionAllowed(t, s, expected)
    /\ task' = [task EXCEPT ![t] = [state |-> s, version |-> @.version + 1]]
    /\ events' = [events EXCEPT ![t] =
                    Append(@, [from |-> s.status, to |-> s.status, state |-> s])]
    /\ UNCHANGED worktree

Transition(t, s, expected) ==
    /\ TransitionAllowed(t, s, expected)
    /\ task' = [task EXCEPT ![t] = [state |-> s, version |-> @.version + 1]]
    /\ events' = [events EXCEPT ![t] =
                    Append(@, [from |-> task[t].state.status, to |-> s.status, state |-> s])]
    /\ UNCHANGED worktree

\* The unique partial indexes over rows whose status is not 'removed'.
LiveKeysClash(i, j) ==
    \/ i.path = j.path
    \/ i.source = j.source /\ i.branch = j.branch /\ i.branch # NoBranch

\* Wrong variant: the branch index is missing.
LiveIndexesFree_PathOnly(t, r) ==
    r.status # "removed" =>
        \A u \in Tasks \ {t} :
            Registered(u) /\ worktree[u].status # "removed" => r.id.path # worktree[u].id.path

LiveIndexesFree(t, r) ==
    r.status # "removed" =>
        \A u \in Tasks \ {t} :
            Registered(u) /\ worktree[u].status # "removed" =>
                ~LiveKeysClash(r.id, worktree[u].id)

RegisterWorktree(t, r) ==
    /\ ValidLifetime(r)
    /\ r.status = "active"
    /\ Exists(t)
    /\ r.id.source = task[t].state.source
    /\ ~Registered(t)
    /\ LiveIndexesFree(t, r)
    /\ worktree' = [worktree EXCEPT ![t] = r]
    /\ UNCHANGED <<task, events>>

UpdateWorktree(t, r) ==
    /\ Registered(t)
    /\ r.id = worktree[t].id
    /\ r.created = worktree[t].created
    /\ WorktreeUpdateAllowed(worktree[t], r)
    /\ LiveIndexesFree(t, r)
    /\ worktree' = [worktree EXCEPT ![t] = r]
    /\ UNCHANGED <<task, events>>

-----------------------------------------------------------------------------
Next ==
    \E t \in Tasks :
        \/ \E s \in Snapshots : Create(t, s)
        \/ \E s \in Snapshots, expected \in 0..MaxVersion :
              Exists(t) /\ task[t].version < MaxVersion /\ Transition(t, s, expected)
        \/ \E r \in Records : RegisterWorktree(t, r)
        \/ \E r \in Records : UpdateWorktree(t, r)

Spec == Init /\ [][Next]_vars

-----------------------------------------------------------------------------
(* Safety *)

\* The log has one event per version, every event starts where the one before
\* it ended and follows the transition table, and the last one holds the
\* snapshot the task row holds: what verify_coding_database checks for the last
\* event, and what makes the append-only log an account of the task.
EventChain ==
    \A t \in Tasks :
        /\ Exists(t) <=> events[t] # <<>>
        /\ Exists(t) =>
              /\ task[t].version = Len(events[t])
              /\ events[t][Len(events[t])].state = task[t].state
              /\ events[t][1].from = "none" /\ events[t][1].to = "created"
        /\ \A i \in 1..Len(events[t]) : events[t][i].to = events[t][i].state.status
        /\ \A i \in 2..Len(events[t]) :
              /\ events[t][i].from = events[t][i-1].to
              /\ events[t][i].to \in AllowedTransitions[events[t][i].from]

\* The statuses task t has been in.
Visited(t) == {events[t][i].to : i \in 1..Len(events[t])}

\* No caller, whatever it passes, can bring a task to completed without an
\* executor attempt, a verification and a review on record before it.
CompletionWasReviewed ==
    \A t \in Tasks :
        Exists(t) /\ task[t].state.status = "completed" =>
            {"executing", "verifying", "reviewing"} \subseteq Visited(t)

\* Two tasks never own the same worktree path, nor the same branch of one
\* repository, until one of them has been removed.
LiveWorktreesDisjoint ==
    \A t, u \in Tasks :
        /\ t # u
        /\ Registered(t) /\ worktree[t].status # "removed"
        /\ Registered(u) /\ worktree[u].status # "removed"
        => ~LiveKeysClash(worktree[t].id, worktree[u].id)

\* A snapshot that names a worktree names the one registered for its own task,
\* and that worktree belongs to the task's repository, at every later time too.
ReferencesRegistered ==
    \A t \in Tasks :
        /\ Registered(t) => Exists(t) /\ worktree[t].id.source = task[t].state.source
        /\ Exists(t) /\ task[t].state.worktree # NoWorktree =>
              Registered(t) /\ worktree[t].id = task[t].state.worktree

(* Implementation of the abstract promise *)

Outcome == [t \in Tasks |->
    IF ~Exists(t) THEN "none"
    ELSE IF task[t].state.status \in TerminalStatuses THEN task[t].state.status
    ELSE "open"]

Evidence == [t \in Tasks |-> Visited(t) \cap {"executing", "verifying", "reviewing"}]

Promise == INSTANCE TaskPromise WITH outcome <- Outcome, evidence <- Evidence

\* The store, with arbitrary concurrent callers, implements TaskPromise: one
\* opening, growing evidence, one decision, success only on full evidence.
KeepsPromise == Promise!Spec

(* Action properties *)

\* What a step leaves alone in task t's row and log.
Frozen(t) ==
    /\ Exists(t) /\ task[t].state.status \in TerminalStatuses =>
          task'[t] = task[t] /\ events'[t] = events[t]
    /\ Len(events'[t]) >= Len(events[t])
    /\ SubSeq(events'[t], 1, Len(events[t])) = events[t]

DecidedTasksFrozen == \A t \in Tasks : Frozen(t)

\* completed, failed and cancelled are final: no call changes the row of such a
\* task, its log, or its version again, and no event is ever rewritten.
TerminalIsFinal == [][DecidedTasksFrozen]_vars

\* What a step may do to task t's registered worktree.
Stable(t) ==
    Registered(t) =>
        /\ worktree'[t] # NoWorktree
        /\ worktree'[t].id = worktree[t].id
        /\ worktree'[t].heartbeat >= worktree[t].heartbeat
        /\ worktree[t].completed # NoTime => worktree'[t].completed = worktree[t].completed
        /\ worktree[t].status = "removed" => worktree'[t] = worktree[t]
        /\ worktree'[t].pid # worktree[t].pid =>
              worktree[t].status = "orphaned" /\ worktree'[t].status = "active"

OwnersStable == \A t \in Tasks : Stable(t)

\* A registered worktree keeps its identity, its heartbeat never goes back, a
\* completion time once set stays, removal is final, and the owner process
\* changes only when an orphan is revived.
OwnershipIsStable == [][OwnersStable]_vars

\* The rows of the store belong together: the version and the snapshot of a task are
\* those of its last event, its events form one legal path, and task and worktree
\* rows refer to each other with one identity.
RecordsSound == TypeOK /\ EventChain /\ ReferencesRegistered
=============================================================================
