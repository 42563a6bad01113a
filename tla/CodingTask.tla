------------------------------ MODULE CodingTask ------------------------------
(***************************************************************************)
(* The life of one coding task across every process that touches it:       *)
(*                                                                         *)
(*   - CodingEngine.run and CodingEngine.resume (services/coding/engine.py)*)
(*     with the worktree lease and its heartbeat thread;                   *)
(*   - the operator commands recover and cleanup (services/coding/cli.py). *)
(*                                                                         *)
(* They share three mirrors of the task's worktree that no transaction     *)
(* spans: the registry file (fs), the durable row (row) and the record     *)
(* inside the task snapshot (task.wt).  Each write to one of them is its   *)
(* own step, so any process may act, be suspended or die between two.      *)
(*                                                                         *)
(* Abstracted: the content of the repository (CommitGate has the commit),  *)
(* creation of the worktree (one step here; WorktreeCreate has the intent  *)
(* protocol), artifacts and messages.  A git, policy, scope or I/O error   *)
(* that the code raises is Fault, possible wherever such a call stands.    *)
(* Process ids are not reused.                                             *)
(***************************************************************************)
EXTENDS CodingTables, Sequences, FiniteSets

CONSTANTS
    Resumers,       \* calls of resume(); run() is the one call of the other kind
    Pids,           \* operating-system processes that host the engine
    RunPid,         \* the process run() is called in
    MaxLocalAttempts, \* policy.max_local_attempts
    AttemptLimit,   \* the contract's bound on recorded attempts (10)
    MaxRecovers,    \* bound: invocations of recover
    MaxCleanups,    \* bound: invocations of cleanup
    MaxCrashes,     \* bound: processes (engine or command) that die or stall
    MaxClock,       \* bound: registry timestamp past which the heartbeat thread rests
    Stalls,         \* may a running call miss its beats for lease_stale_seconds?
    Faults,         \* may a call out of the modelled state (Git, disk, policy) fail?
    NoRec, NoTask, NoLease

Ops == Resumers \cup {"run"}

-----------------------------------------------------------------------------
(* Values *)

AttemptStatuses == {"running", "failed", "passed", "cancelled"}

\* "ok": approved, or a delivered high-risk read-only review; "exhausted": the
\* local semantic reviewer gave up and forbids a coding retry.
Reviews == {"none", "ok", "rejected", "exhausted"}

WorktreeRecords ==
    [status : WorktreeStatuses, pid : Pids, created : Nat, heartbeat : Nat, completed : Nat]

Snapshots ==
    [status : TaskStatuses, att : Seq(AttemptStatuses), review : Reviews,
     wt : WorktreeRecords \cup {NoRec}]

ASSUME TaskConstants ==
    /\ RunPid \in Pids
    /\ "run" \notin Resumers
    /\ MaxLocalAttempts \in 1..2
    /\ AttemptLimit \in Nat
    /\ Faults \in BOOLEAN /\ Stalls \in BOOLEAN
    /\ NoRec \notin WorktreeRecords /\ NoTask \notin Snapshots
    /\ NoLease \notin [op : Ops, pid : Pids, aged : BOOLEAN]

-----------------------------------------------------------------------------
VARIABLES
    req,       \* the request: high risk? cloud execution approved?
    task,      \* durable snapshot, or NoTask
    version,   \* durable state_version, 0 before creation
    row,       \* coding_worktrees row, or NoRec
    fs,        \* worktree record in the ownership registry, or NoRec
    aged,      \* the record's heartbeat is older than lease_stale_seconds
    tree,      \* the Git worktree exists on disk
    lease,     \* lease file [op, pid, aged], or NoLease
    clock,     \* number of registry writes so far: their heartbeat timestamp
    alive,     \* engine processes that are running
    eng,       \* local state of each engine call
    rec,       \* local state of the recover command
    cln,       \* local state of the cleanup command
    crashes    \* processes that have died or stalled

durable == <<task, version, row>>
registry == <<fs, aged, tree, clock>>
commands == <<rec, cln>>
vars == <<req, durable, registry, lease, alive, eng, commands, crashes>>

-----------------------------------------------------------------------------
EnginePcs ==
    {"idle", "created", "inspected", "planned", "made", "registered",
     "record", "version", "lease_check", "lease_wait", "validate", "leased",
     "attempt", "executing", "executed", "verifying", "verified", "reviewing",
     "reviewed", "passed", "committed", "fs_complete", "row_complete",
     "block", "cancel", "cancel_row", "cancel_final",
     "handoff", "handoff_sync", "handoff_prepare", "handoff_ready",
     "release", "release_raise",
     "h_load", "h_version", "h_orphan", "h_row", "h_final",
     "done", "raised"}

TypeOK ==
    /\ req \in [high : BOOLEAN, cloud : BOOLEAN]
    /\ task \in Snapshots \cup {NoTask}
    /\ version \in Nat /\ clock \in Nat /\ crashes \in Nat
    /\ row \in WorktreeRecords \cup {NoRec}
    /\ fs \in WorktreeRecords \cup {NoRec}
    /\ aged \in BOOLEAN /\ tree \in BOOLEAN
    /\ lease \in [op : Ops, pid : Pids, aged : BOOLEAN] \cup {NoLease}
    /\ alive \in [Pids -> BOOLEAN]
    /\ eng \in [Ops -> [pc : EnginePcs, pid : Pids, snap : Snapshots \cup {NoTask},
                        ver : Nat, tries : Nat, rec : WorktreeRecords \cup {NoRec}]]
    /\ rec \in [pc : {"idle", "state", "mark", "orphans", "row", "load", "version", "final"},
                seen : WorktreeRecords \cup {NoRec}, snap : Snapshots \cup {NoTask},
                ver : Nat, calls : Nat]
    /\ cln \in [pc : {"idle", "confirm", "load", "tree", "record", "row"},
                seen : WorktreeRecords \cup {NoRec}, calls : Nat]

Init ==
    /\ req \in [high : BOOLEAN, cloud : BOOLEAN]
    /\ task = NoTask /\ version = 0 /\ row = NoRec
    /\ fs = NoRec /\ aged = FALSE /\ tree = FALSE /\ clock = 0
    /\ lease = NoLease
    /\ alive = [p \in Pids |-> TRUE]
    /\ eng = [o \in Ops |-> [pc |-> "idle", pid |-> RunPid, snap |-> NoTask,
                             ver |-> 0, tries |-> 0, rec |-> NoRec]]
    /\ rec = [pc |-> "idle", seen |-> NoRec, snap |-> NoTask, ver |-> 0, calls |-> 0]
    /\ cln = [pc |-> "idle", seen |-> NoRec, calls |-> 0]
    /\ crashes = 0

-----------------------------------------------------------------------------
(* The store, as its callers see it *)

\* store.transition with expected_version: everything it checks, and its effect.
StoreAccepts(new, ver) ==
    /\ task # NoTask
    /\ ver = version
    /\ new.status \in AllowedTransitions[task.status]
    /\ new.wt # NoRec =>
          row # NoRec /\ (row.status = "removed" => new.status \in TerminalStatuses)

StoreTransition(new, ver) ==
    /\ StoreAccepts(new, ver)
    /\ task' = new
    /\ version' = version + 1
    /\ UNCHANGED row

\* store.update_worktree.
RowAccepts(r) == row # NoRec /\ WorktreeUpdateAllowed(row, r)

UpdateRow(r) == RowAccepts(r) /\ row' = r /\ UNCHANGED <<task, version>>

-----------------------------------------------------------------------------
(* The ownership registry *)

\* Rewrites an existing record; every registry write stamps a fresh heartbeat.
WriteRecord(r) ==
    /\ fs # NoRec
    /\ fs' = [r EXCEPT !.heartbeat = clock + 1]
    /\ clock' = clock + 1
    /\ aged' = FALSE
    /\ UNCHANGED tree

\* Wrong variant: a record that already says "complete" is refused.
CanOrphan_ActiveOnly == fs # NoRec /\ fs.status \in {"active", "orphaned"}

\* WorktreeManager.mark_orphaned.
CanOrphan == fs # NoRec /\ fs.status \in {"active", "complete", "orphaned"}

MarkOrphaned == CanOrphan /\ WriteRecord([fs EXCEPT !.status = "orphaned"])

\* validate_owned_path: exactly one active record is bound to the worktree.
ScopeOk == fs # NoRec /\ fs.status = "active" /\ tree

\* _has_live_lease.
LiveLease == lease # NoLease /\ ~lease.aged /\ alive[lease.pid]

-----------------------------------------------------------------------------
(* Engine steps: helpers *)

At(o, pc) == eng[o].pc = pc /\ alive[eng[o].pid]

Snap(o) == eng[o].snap

\* The snapshot o holds, in another status.
In(o, status) == [Snap(o) EXCEPT !.status = status]

\* The same with the current attempt ended.
Ended(o, status, result) ==
    [In(o, status) EXCEPT !.att[Len(Snap(o).att)] = result]

Goto(o, pc) == eng' = [eng EXCEPT ![o].pc = pc]

\* A call returns or raises to its caller and its local state is gone.
Return(o, pc) ==
    eng' = [eng EXCEPT ![o] = [@ EXCEPT !.pc = pc, !.snap = NoTask, !.ver = 0,
                                        !.tries = 0, !.rec = NoRec]]

\* CodingEngine._transition: candidate, compare-and-swap on the version this
\* call holds, and the new local state.
EngineTransition(o, new, pc) ==
    /\ StoreTransition(new, eng[o].ver)
    /\ eng' = [eng EXCEPT ![o].pc = pc, ![o].snap = new, ![o].ver = version + 1]
    /\ UNCHANGED <<req, registry, lease, alive, commands, crashes>>

\* A read of some store into local state.
Only(o, local) ==
    /\ eng' = [eng EXCEPT ![o] = local]
    /\ UNCHANGED <<req, durable, registry, lease, alive, commands, crashes>>

HoldsLease(o) == lease # NoLease /\ lease.op = o

\* Where an exception goes once the lease is left: to run()'s handler or, from
\* resume(), straight to the caller.
Unwind(o) == IF o = "run" THEN Goto(o, "h_load") ELSE Return(o, "raised")

\* Steps that are not in the body of the call.
OutsideBody == {"idle", "release", "release_raise", "h_load", "h_version",
                "h_orphan", "h_row", "h_final", "done", "raised"}

MaxAttempts(o) == IF o = "run" /\ ~req.high THEN MaxLocalAttempts ELSE 1

\* Where a failed attempt leads: another bounded attempt, a handoff, or BLOCKED.
AfterFailure(o, mayRetry) ==
    IF mayRetry /\ eng[o].tries < MaxAttempts(o) THEN "attempt"
    ELSE IF o = "run" /\ ~req.high THEN "handoff" ELSE "block"

-----------------------------------------------------------------------------
(* run(): creation of the task, its worktree and the lease *)

Create ==
    /\ At("run", "idle") /\ task = NoTask
    /\ task' = [status |-> "created", att |-> <<>>, review |-> "none", wt |-> NoRec]
    /\ version' = 1
    /\ eng' = [eng EXCEPT !["run"].pc = "created", !["run"].snap = task', !["run"].ver = 1]
    /\ UNCHANGED <<req, row, registry, lease, alive, commands, crashes>>

Inspect == At("run", "created") /\ EngineTransition("run", In("run", "inspected"), "inspected")

Plan == At("run", "inspected") /\ EngineTransition("run", In("run", "planned"), "planned")

MakeWorktree ==
    /\ At("run", "planned")
    /\ fs' = [status |-> "active", pid |-> RunPid, created |-> clock + 1,
              heartbeat |-> clock + 1, completed |-> NoTime]
    /\ clock' = clock + 1 /\ aged' = FALSE /\ tree' = TRUE
    /\ eng' = [eng EXCEPT !["run"].pc = "made", !["run"].rec = fs']
    /\ UNCHANGED <<req, durable, lease, alive, commands, crashes>>

Register ==
    /\ At("run", "made")
    /\ row = NoRec /\ row' = eng["run"].rec
    /\ Goto("run", "registered")
    /\ UNCHANGED <<req, task, version, registry, lease, alive, commands, crashes>>

Isolate ==
    /\ At("run", "registered")
    /\ EngineTransition("run", [In("run", "isolated") EXCEPT !.wt = eng["run"].rec], "lease_check")

\* WorktreeManager.lease: the registry must still hold exactly the caller's record.
LeaseCheck(o) ==
    /\ At(o, "lease_check")
    /\ fs = eng[o].rec
    /\ Only(o, [eng[o] EXCEPT !.pc = "lease_wait"])

\* WorktreeLease.acquire and its first heartbeat into the registry.
Acquire(o) ==
    /\ At(o, "lease_wait")
    /\ lease = NoLease
    /\ lease' = [op |-> o, pid |-> eng[o].pid, aged |-> FALSE]
    /\ IF fs.status = "active"
          THEN WriteRecord([fs EXCEPT !.pid = eng[o].pid])
          ELSE UNCHANGED registry
    /\ Goto(o, IF o = "run" THEN "leased" ELSE "validate")
    /\ UNCHANGED <<req, durable, alive, commands, crashes>>

BuildContext ==
    /\ At("run", "leased")
    /\ EngineTransition("run", In("run", "isolated"),
                        IF req.high /\ ~req.cloud THEN "handoff" ELSE "attempt")

-----------------------------------------------------------------------------
(* resume(): snapshot, registry record and version are three separate reads *)

ResumeLoad(o, p) ==
    /\ eng[o].pc = "idle" /\ o # "run" /\ alive[p]
    /\ task # NoTask /\ task.status = "handoff_ready" /\ req.cloud
    /\ Only(o, [eng[o] EXCEPT !.pc = "record", !.pid = p, !.snap = task])

ResumeRecord(o) ==
    /\ At(o, "record")
    /\ Only(o, [eng[o] EXCEPT !.pc = "version", !.rec = fs])

ResumeVersion(o) ==
    /\ At(o, "version")
    /\ Only(o, [eng[o] EXCEPT !.pc = "lease_check", !.ver = version])

\* load_and_validate under the lease, then "handoff.resumed".
ResumeValidated(o) ==
    /\ At(o, "validate")
    /\ EngineTransition(o, In(o, "isolated"), "attempt")

-----------------------------------------------------------------------------
(* _execute_flow: one attempt *)

\* Wrong variant: the history is replaced by the attempt that starts.
StartAttempt_Overwrites(o) ==
    /\ At(o, "attempt")
    /\ LET new == [In(o, "executing") EXCEPT !.att = <<"running">>] IN
       /\ StoreTransition(new, eng[o].ver)
       /\ eng' = [eng EXCEPT ![o].pc = "executing", ![o].snap = new, ![o].ver = version + 1,
                             ![o].tries = @ + 1]
    /\ UNCHANGED <<req, registry, lease, alive, commands, crashes>>

StartAttempt(o) ==
    /\ At(o, "attempt")
    /\ Len(Snap(o).att) < AttemptLimit
    /\ LET new == [In(o, "executing") EXCEPT !.att = Append(@, "running")] IN
       /\ StoreTransition(new, eng[o].ver)
       /\ eng' = [eng EXCEPT ![o].pc = "executing", ![o].snap = new, ![o].ver = version + 1,
                             ![o].tries = @ + 1]
    /\ UNCHANGED <<req, registry, lease, alive, commands, crashes>>

ExecutorOk(o) ==
    /\ At(o, "executing") /\ ScopeOk
    /\ EngineTransition(o, In(o, "executing"), "executed")

\* The executor failed or timed out; also "rules.scope_expanded" after it succeeded.
ExecutorFailed(o) ==
    /\ At(o, "executing") /\ ScopeOk
    /\ EngineTransition(o, Ended(o, "executing", "failed"), AfterFailure(o, TRUE))

RulesExpanded(o) ==
    /\ At(o, "executed")
    /\ EngineTransition(o, Ended(o, "executing", "failed"), AfterFailure(o, TRUE))

\* pre_executor_check failed on resume: back to HANDOFF_READY, and the error is raised.
RevalidationFailed(o) ==
    /\ At(o, "executing") /\ o # "run" /\ ScopeOk /\ Faults
    /\ EngineTransition(o, Ended(o, "handoff_ready", "failed"), "release_raise")

VerifyStart(o) ==
    /\ At(o, "executed")
    /\ EngineTransition(o, In(o, "verifying"), "verifying")

VerifyRecorded(o) ==
    /\ At(o, "verifying") /\ ScopeOk
    /\ EngineTransition(o, In(o, "verifying"), "verified")

VerifyFailed(o) ==
    /\ At(o, "verified")
    /\ EngineTransition(o, Ended(o, "executing", "failed"), AfterFailure(o, TRUE))

\* The diff to review is refused by the artifact privacy policy.
PrivacyBlocked(o) ==
    /\ At(o, "verified") /\ ScopeOk
    /\ EngineTransition(o, In(o, "blocked"), "release")

ReviewStart(o) ==
    /\ At(o, "verified") /\ ScopeOk
    /\ EngineTransition(o, In(o, "reviewing"), "reviewing")

ReviewRecorded(o, verdict) ==
    /\ At(o, "reviewing") /\ ScopeOk
    /\ EngineTransition(o, [In(o, "reviewing") EXCEPT !.review = verdict], "reviewed")

ReviewRejected(o) ==
    /\ At(o, "reviewed") /\ Snap(o).review # "ok"
    /\ EngineTransition(o, Ended(o, "executing", "failed"),
                        AfterFailure(o, Snap(o).review # "exhausted"))

AttemptPassed(o) ==
    /\ At(o, "reviewed") /\ Snap(o).review = "ok"
    /\ EngineTransition(o, Ended(o, "reviewing", "passed"), "passed")

\* _commit, the preview of the completed contract and the terminal commit gate.
Commit(o) ==
    /\ At(o, "passed") /\ ScopeOk
    /\ Only(o, [eng[o] EXCEPT !.pc = "committed"])

\* The attempt limit is reached and no handoff is allowed.
Block(o) == At(o, "block") /\ EngineTransition(o, In(o, "blocked"), "release")

-----------------------------------------------------------------------------
(* Completion: registry file, then durable row, then task *)

CompleteFs(o) ==
    /\ At(o, "committed")
    /\ WriteRecord([fs EXCEPT !.status = "complete", !.completed = clock + 1])
    /\ eng' = [eng EXCEPT ![o].pc = "fs_complete", ![o].rec = fs']
    /\ UNCHANGED <<req, durable, lease, alive, commands, crashes>>

CompleteRow(o) ==
    /\ At(o, "fs_complete")
    /\ UpdateRow(eng[o].rec)
    /\ Goto(o, "row_complete")
    /\ UNCHANGED <<req, registry, lease, alive, commands, crashes>>

\* Wrong variant: the task is completed before the durable row.
Completed_BeforeRow(o) ==
    /\ At(o, "fs_complete")
    /\ EngineTransition(o, [In(o, "completed") EXCEPT !.wt = eng[o].rec], "release")

\* CodingTaskStateV1.validate_state guards the candidate.
Completed(o) ==
    /\ At(o, "row_complete")
    /\ Snap(o).review = "ok"
    /\ EngineTransition(o, [In(o, "completed") EXCEPT !.wt = eng[o].rec], "release")

-----------------------------------------------------------------------------
(* Cancellation: the executor, a verification command or the reviewer was     *)
(* stopped; the worktree is preserved as orphaned before the task is closed   *)

CancelSeen(o) ==
    /\ At(o, "executing") \/ At(o, "verified") \/ At(o, "reviewing")
    /\ ~At(o, "verified") => ScopeOk
    /\ Only(o, [eng[o] EXCEPT !.pc = "cancel"])

PreserveFs(o) ==
    /\ At(o, "cancel")
    /\ MarkOrphaned
    /\ eng' = [eng EXCEPT ![o].pc = "cancel_row", ![o].rec = fs']
    /\ UNCHANGED <<req, durable, lease, alive, commands, crashes>>

PreserveRow(o) ==
    /\ At(o, "cancel_row")
    /\ UpdateRow(eng[o].rec)
    /\ Goto(o, "cancel_final")
    /\ UNCHANGED <<req, registry, lease, alive, commands, crashes>>

Cancelled(o) ==
    /\ At(o, "cancel_final")
    /\ EngineTransition(o, [Ended(o, "cancelled", "cancelled") EXCEPT !.wt = eng[o].rec], "release")

-----------------------------------------------------------------------------
(* _handoff *)

HandoffPrivacyBlocked(o) ==
    /\ At(o, "handoff") /\ ScopeOk
    /\ EngineTransition(o, In(o, "blocked"), "release")

\* _sync_worktree, the durable row.
HandoffSyncRow(o) ==
    /\ At(o, "handoff") /\ ScopeOk
    /\ IF fs = row THEN UNCHANGED durable ELSE UpdateRow(fs)
    /\ eng' = [eng EXCEPT ![o].pc = "handoff_sync", ![o].rec = fs]
    /\ UNCHANGED <<req, registry, lease, alive, commands, crashes>>

\* _sync_worktree, the snapshot.  It is never current here: the lease wrote a
\* newer heartbeat into the registry, or recover an orphaned status.
HandoffSyncSnapshot(o) ==
    /\ At(o, "handoff_sync")
    /\ EngineTransition(o, [Snap(o) EXCEPT !.wt = eng[o].rec], "handoff_prepare")

HandoffPrepared(o) ==
    /\ At(o, "handoff_prepare")
    /\ EngineTransition(o, Snap(o), "handoff_ready")

HandoffReady(o) ==
    /\ At(o, "handoff_ready")
    /\ EngineTransition(o, In(o, "handoff_ready"), "release")

-----------------------------------------------------------------------------
(* Exceptions, the lease's exit and run()'s handler *)

\* What the modelled state itself makes a step refuse: a lost compare-and-swap,
\* a worktree record the store rejects, a registry that moved on.
TransitionPcs ==
    {"created", "inspected", "registered", "leased", "attempt", "executed", "verified",
     "reviewed", "row_complete", "block", "cancel_final", "handoff_sync",
     "handoff_prepare", "handoff_ready"}

ScopePcs == {"executing", "verifying", "verified", "reviewing", "passed", "handoff"}

\* Wrong variant: acquire() waits for the lease without a deadline.
Refused_NoTimeout(o) ==
    LET pc == eng[o].pc IN
    \/ pc \in TransitionPcs \cup {"executing", "verifying", "reviewing"} /\ eng[o].ver # version
    \/ pc \in ScopePcs /\ ~ScopeOk
    \/ pc = "made" /\ row # NoRec
    \/ pc = "lease_check" /\ fs # eng[o].rec
    \/ pc = "validate" /\ ~StoreAccepts(In(o, "isolated"), eng[o].ver)
    \/ pc = "attempt" /\ Len(Snap(o).att) >= AttemptLimit
    \/ pc \in {"fs_complete", "cancel_row"} /\ ~RowAccepts(eng[o].rec)
    \/ pc = "cancel" /\ ~CanOrphan
    \/ pc = "handoff" /\ fs # row /\ ~RowAccepts(fs)

Refused(o) ==
    LET pc == eng[o].pc IN
    \/ pc \in TransitionPcs \cup {"executing", "verifying", "reviewing"} /\ eng[o].ver # version
    \/ pc \in ScopePcs /\ ~ScopeOk
    \/ pc = "made" /\ row # NoRec
    \/ pc = "lease_check" /\ fs # eng[o].rec
    \/ pc = "lease_wait" /\ lease # NoLease
    \/ pc = "validate" /\ ~StoreAccepts(In(o, "isolated"), eng[o].ver)
    \/ pc = "attempt" /\ Len(Snap(o).att) >= AttemptLimit
    \/ pc \in {"fs_complete", "cancel_row"} /\ ~RowAccepts(eng[o].rec)
    \/ pc = "cancel" /\ ~CanOrphan
    \/ pc = "handoff" /\ fs # row /\ ~RowAccepts(fs)

\* The exception leaves the body of run() or resume().
LeaveBody(o) ==
    /\ eng[o].pc \notin OutsideBody
    /\ alive[eng[o].pid]
    /\ IF HoldsLease(o) THEN Goto(o, "release_raise") ELSE Unwind(o)
    /\ UNCHANGED <<req, durable, registry, lease, alive, commands, crashes>>

Raise(o) == Refused(o) /\ LeaveBody(o)

\* A Git, disk or policy error, wherever such a call stands.
Fault(o) == Faults /\ LeaveBody(o)

\* WorktreeLease.__exit__: stop the heartbeat, remove the lease file.
Release(o) ==
    /\ At(o, "release") \/ At(o, "release_raise")
    /\ lease' = NoLease
    /\ IF At(o, "release") THEN Return(o, "done") ELSE Unwind(o)
    /\ UNCHANGED <<req, durable, registry, alive, commands, crashes>>

\* Its own failure (a file another process holds open) leaves the lease behind.
ReleaseFails(o) ==
    /\ At(o, "release") \/ At(o, "release_raise")
    /\ Faults
    /\ Unwind(o)
    /\ UNCHANGED <<req, durable, registry, lease, alive, commands, crashes>>

\* Wrong variant: a task that has no worktree yet is left as it is.
HandlerLoad_OnlyIsolated ==
    /\ At("run", "h_load")
    /\ IF task = NoTask \/ task.status \in TerminalStatuses \/ task.wt = NoRec
          THEN Return("run", "raised")
          ELSE eng' = [eng EXCEPT !["run"].pc = "h_version", !["run"].snap = task]
    /\ UNCHANGED <<req, durable, registry, lease, alive, commands, crashes>>

HandlerLoad ==
    /\ At("run", "h_load")
    /\ IF task = NoTask \/ task.status \in TerminalStatuses
          THEN Return("run", "raised")
          ELSE eng' = [eng EXCEPT !["run"].pc = "h_version", !["run"].snap = task]
    /\ UNCHANGED <<req, durable, registry, lease, alive, commands, crashes>>

HandlerVersion ==
    /\ At("run", "h_version")
    /\ Only("run", [eng["run"] EXCEPT !.ver = version,
                                      !.pc = IF Snap("run").wt = NoRec THEN "h_final" ELSE "h_orphan"])

\* mark_orphaned; its errors are swallowed and the old record is kept.
HandlerOrphan ==
    /\ At("run", "h_orphan")
    /\ IF CanOrphan
          THEN MarkOrphaned /\ eng' = [eng EXCEPT !["run"].pc = "h_row", !["run"].rec = fs']
          ELSE UNCHANGED registry /\ Goto("run", "h_final")
    /\ UNCHANGED <<req, durable, lease, alive, commands, crashes>>

\* Wrong variant: the durable mirror is forgotten.
HandlerRow_Skipped ==
    /\ At("run", "h_row")
    /\ Goto("run", "h_final")
    /\ UNCHANGED <<req, durable, registry, lease, alive, commands, crashes>>

HandlerRow ==
    /\ At("run", "h_row")
    /\ IF RowAccepts(eng["run"].rec)
          THEN /\ UpdateRow(eng["run"].rec)
               /\ eng' = [eng EXCEPT !["run"].pc = "h_final",
                                     !["run"].snap = [@ EXCEPT !.wt = eng["run"].rec]]
          ELSE UNCHANGED durable /\ Goto("run", "h_final")
    /\ UNCHANGED <<req, registry, lease, alive, commands, crashes>>

\* The terminal event, FAILED or, when cancellation was requested, CANCELLED;
\* a refused transition is swallowed too.
HandlerFinal(status) ==
    /\ At("run", "h_final")
    /\ LET new == In("run", status) IN
       IF StoreAccepts(new, eng["run"].ver)
          THEN StoreTransition(new, eng["run"].ver)
          ELSE UNCHANGED durable
    /\ Return("run", "raised")
    /\ UNCHANGED <<req, registry, lease, alive, commands, crashes>>

-----------------------------------------------------------------------------
(* The heartbeat thread, time and crashes *)

\* Steps taken inside the lease's with-block.
LeaseHeld(o) ==
    /\ HoldsLease(o) /\ alive[eng[o].pid]
    /\ eng[o].pc \notin OutsideBody

\* One beat: the lease file, then the registry record if it is still active.
HeartbeatLease(o) ==
    /\ LeaseHeld(o) /\ lease.aged
    /\ lease' = [lease EXCEPT !.aged = FALSE]
    /\ UNCHANGED <<req, durable, registry, alive, eng, commands, crashes>>

HeartbeatRecord(o) ==
    /\ LeaseHeld(o) /\ ~lease.aged
    /\ fs.status = "active" /\ clock < MaxClock
    /\ WriteRecord([fs EXCEPT !.pid = eng[o].pid])
    /\ UNCHANGED <<req, durable, lease, alive, eng, commands, crashes>>

\* The call has not started, has ended, or its process is gone.
Over(o) == eng[o].pc \in {"idle", "done", "raised"} \/ ~alive[eng[o].pid]

\* More than lease_stale_seconds pass without a beat: nobody is running, or the
\* process of a running call was suspended or lost its heartbeat thread.
TimePasses ==
    /\ \/ (\A o \in Ops : Over(o)) /\ UNCHANGED crashes
       \/ /\ Stalls /\ crashes < MaxCrashes /\ \E o \in Ops : ~Over(o)
          /\ crashes' = crashes + 1
    /\ \/ fs # NoRec /\ fs.status = "active" /\ ~aged
       \/ lease # NoLease /\ ~lease.aged
    /\ aged' = (fs # NoRec /\ fs.status = "active")
    /\ lease' = IF lease = NoLease THEN lease ELSE [lease EXCEPT !.aged = TRUE]
    /\ UNCHANGED <<req, durable, fs, tree, clock, alive, eng, commands>>

Crash(p) ==
    /\ alive[p] /\ crashes < MaxCrashes
    /\ alive' = [alive EXCEPT ![p] = FALSE]
    /\ crashes' = crashes + 1
    /\ UNCHANGED <<req, durable, registry, lease, eng, commands>>

-----------------------------------------------------------------------------
(* The recover command *)

RecOnly(local) ==
    /\ rec' = local
    /\ UNCHANGED <<req, durable, registry, lease, alive, eng, cln, crashes>>

RecoverStart ==
    /\ rec.pc = "idle" /\ rec.calls < MaxRecovers
    /\ fs # NoRec
    /\ RecOnly([rec EXCEPT !.pc = IF fs.status = "complete" THEN "state" ELSE "orphans",
                           !.calls = @ + 1])

\* A completed record of a task that is not completed must not stay cleanable.
RecoverState ==
    /\ rec.pc = "state"
    /\ RecOnly([rec EXCEPT !.pc =
          IF /\ task # NoTask /\ task.status # "completed"
             /\ row # NoRec /\ row.status \in {"active", "complete"}
          THEN "mark" ELSE "orphans"])

RecoverMark ==
    /\ rec.pc = "mark"
    /\ IF CanOrphan
          THEN MarkOrphaned /\ rec' = [rec EXCEPT !.pc = "row", !.seen = fs']
          ELSE UNCHANGED registry /\ rec' = [rec EXCEPT !.pc = "orphans"]
    /\ UNCHANGED <<req, durable, lease, alive, eng, cln, crashes>>

RecoverIdle == [rec EXCEPT !.pc = "idle", !.seen = NoRec, !.snap = NoTask, !.ver = 0]

\* WorktreeManager.recover_orphans, under the record lock.
StaleActive == fs.status = "active" /\ ~LiveLease /\ (aged \/ ~alive[fs.pid])

RecoverOrphans ==
    /\ rec.pc = "orphans"
    /\ IF StaleActive
          THEN MarkOrphaned /\ rec' = [rec EXCEPT !.pc = "row", !.seen = fs']
          ELSE UNCHANGED registry /\ rec' = RecoverIdle
    /\ UNCHANGED <<req, durable, lease, alive, eng, cln, crashes>>

\* The durable row; a rejection is counted as a synchronization error.
RecoverRow ==
    /\ rec.pc = "row"
    /\ IF RowAccepts(rec.seen)
          THEN UpdateRow(rec.seen) /\ rec' = [rec EXCEPT !.pc = "load"]
          ELSE UNCHANGED durable /\ rec' = RecoverIdle
    /\ UNCHANGED <<req, registry, lease, alive, eng, cln, crashes>>

OrphanTransitionable ==
    {"isolated", "executing", "verifying", "reviewing", "handoff_ready", "orphaned"}

RecoverLoad ==
    /\ rec.pc = "load"
    /\ RecOnly(IF task # NoTask /\ task.status \in OrphanTransitionable
                  THEN [rec EXCEPT !.pc = "version", !.snap = task] ELSE RecoverIdle)

RecoverVersion ==
    /\ rec.pc = "version"
    /\ RecOnly([rec EXCEPT !.pc = "final", !.ver = version])

RecoverFinal ==
    /\ rec.pc = "final"
    /\ LET new == [rec.snap EXCEPT !.status = "orphaned", !.wt = rec.seen] IN
       IF StoreAccepts(new, rec.ver) THEN StoreTransition(new, rec.ver) ELSE UNCHANGED durable
    /\ rec' = RecoverIdle
    /\ UNCHANGED <<req, registry, lease, alive, eng, cln, crashes>>

-----------------------------------------------------------------------------
(* The cleanup command, confirmed *)

ClnOnly(local) ==
    /\ cln' = local
    /\ UNCHANGED <<req, durable, registry, lease, alive, eng, rec, crashes>>

CleanupIdle == [cln EXCEPT !.pc = "idle", !.seen = NoRec]

BothComplete ==
    /\ fs # NoRec /\ fs.status = "complete"
    /\ row # NoRec /\ row.status = "complete"

\* Wrong variant: cleanup trusts the two worktree registries alone.
TaskCleanable_AnyTask == task # NoTask

TaskCleanable == task # NoTask /\ task.status = "completed" /\ task.wt # NoRec

CleanupCheck ==
    /\ cln.pc = "idle" /\ cln.calls < MaxCleanups
    /\ BothComplete /\ TaskCleanable
    /\ ClnOnly([cln EXCEPT !.pc = "confirm", !.calls = @ + 1])

\* Both registries are read again right before the owned operation.
CleanupConfirm ==
    /\ cln.pc = "confirm"
    /\ ClnOnly(IF BothComplete THEN [cln EXCEPT !.pc = "load"] ELSE CleanupIdle)

\* WorktreeManager.cleanup reads the record once and keeps it; it needs the tree.
CleanupLoad ==
    /\ cln.pc = "load"
    /\ ClnOnly(IF fs.status = "complete" /\ tree THEN [cln EXCEPT !.pc = "tree", !.seen = fs]
               ELSE CleanupIdle)

\* Changes in the worktree: nothing is deleted.
CleanupDirty ==
    /\ cln.pc = "tree"
    /\ WriteRecord([cln.seen EXCEPT !.status = "cleanup_blocked"])
    /\ cln' = [cln EXCEPT !.pc = "row", !.seen = fs']
    /\ UNCHANGED <<req, durable, lease, alive, eng, rec, crashes>>

CleanupRemoveTree ==
    /\ cln.pc = "tree"
    /\ tree' = FALSE
    /\ cln' = [cln EXCEPT !.pc = "record"]
    /\ UNCHANGED <<req, durable, fs, aged, clock, lease, alive, eng, rec, crashes>>

CleanupRecord ==
    /\ cln.pc = "record"
    /\ WriteRecord([cln.seen EXCEPT !.status = "removed"])
    /\ cln' = [cln EXCEPT !.pc = "row", !.seen = fs']
    /\ UNCHANGED <<req, durable, lease, alive, eng, rec, crashes>>

CleanupRow ==
    /\ cln.pc = "row"
    /\ IF RowAccepts(cln.seen) THEN UpdateRow(cln.seen) ELSE UNCHANGED durable
    /\ cln' = CleanupIdle
    /\ UNCHANGED <<req, registry, lease, alive, eng, rec, crashes>>

\* An operator command dies between two of its steps.
CommandCrash ==
    /\ crashes < MaxCrashes
    /\ \/ rec.pc # "idle" /\ rec' = RecoverIdle /\ UNCHANGED cln
       \/ cln.pc # "idle" /\ cln' = CleanupIdle /\ UNCHANGED rec
    /\ crashes' = crashes + 1
    /\ UNCHANGED <<req, durable, registry, lease, alive, eng>>

-----------------------------------------------------------------------------
(* The system *)

Setup(o) ==
    \/ o = "run" /\ (Create \/ Inspect \/ Plan \/ MakeWorktree \/ Register \/ Isolate \/ BuildContext)
    \/ o # "run" /\ (ResumeRecord(o) \/ ResumeVersion(o) \/ ResumeValidated(o))
    \/ LeaseCheck(o) \/ Acquire(o)

Attempt(o) ==
    \/ StartAttempt(o) \/ ExecutorOk(o) \/ ExecutorFailed(o) \/ RulesExpanded(o)
    \/ RevalidationFailed(o) \/ VerifyStart(o) \/ VerifyRecorded(o) \/ VerifyFailed(o)
    \/ PrivacyBlocked(o) \/ ReviewStart(o) \/ ReviewRejected(o) \/ AttemptPassed(o)
    \/ \E verdict \in Reviews \ {"none"} : ReviewRecorded(o, verdict)

Finish(o) ==
    \/ Commit(o) \/ CompleteFs(o) \/ CompleteRow(o) \/ Completed(o) \/ Block(o)
    \/ CancelSeen(o) \/ PreserveFs(o) \/ PreserveRow(o) \/ Cancelled(o)
    \/ HandoffPrivacyBlocked(o) \/ HandoffSyncRow(o)
    \/ HandoffSyncSnapshot(o) \/ HandoffPrepared(o) \/ HandoffReady(o)

Unwinding(o) ==
    \/ Raise(o) \/ Release(o)
    \/ o = "run" /\ (HandlerLoad \/ HandlerVersion \/ HandlerOrphan \/ HandlerRow)
    \/ o = "run" /\ \E status \in {"failed", "cancelled"} : HandlerFinal(status)

EngineStep(o) == Setup(o) \/ Attempt(o) \/ Finish(o) \/ Unwinding(o)

Recover ==
    \/ RecoverState \/ RecoverMark \/ RecoverOrphans \/ RecoverRow
    \/ RecoverLoad \/ RecoverVersion \/ RecoverFinal

Cleanup ==
    \/ CleanupConfirm \/ CleanupLoad \/ CleanupDirty \/ CleanupRemoveTree
    \/ CleanupRecord \/ CleanupRow

Environment ==
    \/ TimePasses \/ CommandCrash
    \/ \E o \in Ops : Fault(o) \/ ReleaseFails(o) \/ HeartbeatLease(o) \/ HeartbeatRecord(o)
    \/ \E p \in Pids : Crash(p)

Next ==
    \/ \E o \in Ops : EngineStep(o)
    \/ \E o \in Resumers, p \in Pids : ResumeLoad(o, p)
    \/ RecoverStart \/ Recover
    \/ CleanupCheck \/ Cleanup
    \/ Environment

Spec == Init /\ [][Next]_vars

(***************************************************************************)
(* A call that has started goes on while its process lives: every call it  *)
(* waits for (model, verifier, Git, lease) has a deadline.  No fault is    *)
(* counted on to get a call out of a wait, and nothing is assumed of the   *)
(* operator's commands.                                                    *)
(***************************************************************************)
Fairness == \A o \in Ops : WF_vars(eng[o].pc # "idle" /\ EngineStep(o))

FairSpec == Spec /\ Fairness

-----------------------------------------------------------------------------
(* Properties *)

\* No false success: a COMPLETED task carries an accepted review of its last
\* attempt, and the row of its worktree was completed first.
NoFalseSuccess ==
    task # NoTask /\ task.status = "completed" =>
        /\ task.review = "ok"
        /\ task.att # <<>> /\ task.att[Len(task.att)] = "passed"
        /\ task.wt.status = "complete" /\ row.completed = task.wt.completed

\* Cleanup never deletes a worktree whose task could still need it, however it
\* interleaves with run, resume, recover and their crashes.
OnlyCompletedTreesDeleted ==
    fs # NoRec /\ ~tree => task.status = "completed"

Quiet == rec.pc = "idle" /\ cln.pc = "idle" /\ \A o \in Ops : Over(o)

\* run() met no crash, no resume and no recover: their races with it are known.
RunAlone == crashes = 0 /\ rec.calls = 0 /\ \A o \in Resumers : eng[o].pc = "idle"

\* A failure of run() after the registry said "complete" is compensated: once it is
\* over, a cleanable record belongs to a COMPLETED task.
NeverLeftCleanable ==
    RunAlone /\ Quiet /\ fs # NoRec /\ fs.status = "complete" => task.status = "completed"

\* The two worktree registries agree once run() is over.
MirrorsAgree ==
    RunAlone /\ Quiet /\ fs # NoRec /\ row # NoRec => fs.status = row.status

\* Attempts are a history: no transition of run or resume drops or rewrites an
\* attempt that has ended.  recover is left out: it writes back the snapshot it
\* loaded before it read the version, over an attempt a stalled run began since.
AttemptsKept ==
    [][task # NoTask /\ rec' = rec =>
          \A i \in 1..Len(task.att) :
             /\ i <= Len(task'.att)
             /\ task.att[i] # "running" => task'.att[i] = task.att[i]]_vars

\* Recovery leaves alone the worktree of an engine call that holds a live lease.  The
\* code does not keep this: for a completed record recover asks no lease.
LiveOwnerLeftAlone ==
    [][rec.pc \in {"mark", "orphans"} /\ rec' # rec /\ fs' # fs => ~LiveLease]_vars

\* No call goes on for ever, not waiting for a lease whose holder died and not for
\* another call or command; and run(), left to itself, never ends with its task
\* still in progress.
CallsSettle ==
    <>[](\A o \in Ops :
           /\ Over(o)
           /\ o = "run" /\ RunAlone /\ eng[o].pc \in {"done", "raised"} =>
                 task.status \in TerminalStatuses \cup {"blocked", "handoff_ready", "orphaned"})

\* run(), left to itself, keeps its records in order, whichever of its steps fails:
\* nothing cleanable is left behind and the two registries agree.
RunConsistent == TypeOK /\ NeverLeftCleanable /\ MirrorsAgree
=============================================================================
