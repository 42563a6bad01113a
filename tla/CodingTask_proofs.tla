-------------------------- MODULE CodingTask_proofs --------------------------
(***************************************************************************)
(* What holds of a coding task whatever the number of processes, resumes,  *)
(* recoveries, cleanups and crashes.                                       *)
(***************************************************************************)
EXTENDS CodingTask, SequenceTheorems, TLAPS

IsCompleted == task # NoTask /\ task.status = "completed"

(***************************************************************************)
(* The inductive invariant behind OnlyCompletedTreesDeleted: cleanup has   *)
(* passed its check only for a completed task, and "completed" is final,   *)
(* so the check cannot go stale while the command is suspended.            *)
(***************************************************************************)
DeletionInv ==
    /\ cln.pc # "idle" => IsCompleted
    /\ fs # NoRec /\ ~tree => IsCompleted

\* A COMPLETED task has no outgoing transition, so the store refuses every
\* candidate offered for it (store.py: _ALLOWED_TRANSITIONS, transition).
LEMMA CompletedIsFinal ==
    ASSUME IsCompleted, NEW new, NEW ver
    PROVE  ~StoreAccepts(new, ver)
BY DEF IsCompleted, StoreAccepts, AllowedTransitions

\* Hence no engine transition happens in a COMPLETED task, and one that happens
\* leaves the registry and the commands alone (engine.py: _transition).
LEMMA EngineTransitionFrame ==
    ASSUME NEW o, NEW new, NEW pc, EngineTransition(o, new, pc)
    PROVE  ~IsCompleted /\ UNCHANGED <<fs, tree, cln>>
BY CompletedIsFinal DEF EngineTransition, StoreTransition, registry, commands

\* What a step must do to preserve DeletionInv.
Safe ==
    /\ IsCompleted => IsCompleted'
    /\ cln'.pc # "idle" => cln.pc # "idle" \/ IsCompleted
    /\ fs' # NoRec /\ ~tree' => (fs # NoRec /\ ~tree) \/ cln.pc # "idle"

\* Setting up run or resume writes the registry only to create, keep or refresh the
\* worktree (engine.py: _run_impl, resume).
LEMMA SetupSafe ==
    ASSUME NEW o \in Ops, Setup(o) PROVE Safe
<1>1. CASE Create
  BY <1>1 DEF Create, Safe, IsCompleted, registry, commands
<1>2. CASE Inspect \/ Plan \/ Isolate \/ BuildContext \/ ResumeValidated(o)
  BY <1>2, EngineTransitionFrame
  DEF Inspect, Plan, Isolate, BuildContext, ResumeValidated, Safe
<1>3. CASE MakeWorktree
  BY <1>3 DEF MakeWorktree, Safe, IsCompleted, durable, commands
<1>4. CASE Register
  BY <1>4 DEF Register, Safe, IsCompleted, registry, commands
<1>5. CASE ResumeRecord(o) \/ ResumeVersion(o) \/ LeaseCheck(o)
  BY <1>5 DEF ResumeRecord, ResumeVersion, LeaseCheck, Only, Safe, IsCompleted,
              durable, registry, commands
<1>6. CASE Acquire(o)
  BY <1>6 DEF Acquire, WriteRecord, Safe, IsCompleted, durable, registry, commands
<1> QED BY <1>1, <1>2, <1>3, <1>4, <1>5, <1>6 DEF Setup

\* An attempt touches the durable task alone (engine.py: _execute_flow).
LEMMA AttemptSafe ==
    ASSUME NEW o \in Ops, Attempt(o) PROVE Safe
<1>1. CASE StartAttempt(o)
  BY <1>1, CompletedIsFinal DEF StartAttempt, StoreTransition, Safe, registry, commands
<1>2. CASE \E verdict \in Reviews \ {"none"} : ReviewRecorded(o, verdict)
  BY <1>2, EngineTransitionFrame DEF ReviewRecorded, Safe
<1>3. CASE ExecutorOk(o) \/ ExecutorFailed(o) \/ RulesExpanded(o) \/ RevalidationFailed(o)
  BY <1>3, EngineTransitionFrame
  DEF ExecutorOk, ExecutorFailed, RulesExpanded, RevalidationFailed, Safe
<1>4. CASE VerifyStart(o) \/ VerifyRecorded(o) \/ VerifyFailed(o) \/ PrivacyBlocked(o)
  BY <1>4, EngineTransitionFrame
  DEF VerifyStart, VerifyRecorded, VerifyFailed, PrivacyBlocked, Safe
<1>5. CASE ReviewStart(o) \/ ReviewRejected(o) \/ AttemptPassed(o)
  BY <1>5, EngineTransitionFrame DEF ReviewStart, ReviewRejected, AttemptPassed, Safe
<1> QED BY <1>1, <1>2, <1>3, <1>4, <1>5 DEF Attempt

\* Completion, cancellation and handoff never remove the tree and only add
\* transitions the store accepts (engine.py: _execute_flow, _handoff).
LEMMA FinishSafe ==
    ASSUME NEW o \in Ops, Finish(o) PROVE Safe
<1>1. CASE Completed(o) \/ Block(o) \/ Cancelled(o)
  BY <1>1, EngineTransitionFrame DEF Completed, Block, Cancelled, Safe
<1>2. CASE HandoffPrivacyBlocked(o) \/ HandoffSyncSnapshot(o) \/ HandoffPrepared(o) \/ HandoffReady(o)
  BY <1>2, EngineTransitionFrame
  DEF HandoffPrivacyBlocked, HandoffSyncSnapshot, HandoffPrepared, HandoffReady, Safe
<1>3. CASE Commit(o) \/ CancelSeen(o)
  BY <1>3 DEF Commit, CancelSeen, Only, Safe, IsCompleted,
              durable, registry, commands
<1>4. CASE CompleteFs(o) \/ PreserveFs(o)
  BY <1>4 DEF CompleteFs, PreserveFs, MarkOrphaned, WriteRecord, Safe, IsCompleted,
              durable, commands
<1>5. CASE CompleteRow(o) \/ PreserveRow(o) \/ HandoffSyncRow(o)
  BY <1>5 DEF CompleteRow, PreserveRow, HandoffSyncRow, UpdateRow, Safe, IsCompleted,
              durable, registry, commands
<1> QED BY <1>1, <1>2, <1>3, <1>4, <1>5 DEF Finish

\* run()'s handler, which swallows refused writes, undoes no completion
\* (engine.py: run).
LEMMA UnwindingSafe ==
    ASSUME NEW o \in Ops, Unwinding(o) PROVE Safe
<1>1. CASE Raise(o) \/ Release(o)
  BY <1>1 DEF Raise, LeaveBody, Release, Safe, IsCompleted, durable, registry, commands
<1>2. CASE HandlerLoad \/ HandlerVersion
  BY <1>2 DEF HandlerLoad, HandlerVersion, Only, Safe, IsCompleted, durable, registry, commands
<1>3. CASE HandlerOrphan
  BY <1>3 DEF HandlerOrphan, MarkOrphaned, WriteRecord, Safe, IsCompleted,
              durable, registry, commands
<1>4. CASE HandlerRow
  BY <1>4 DEF HandlerRow, UpdateRow, Safe, IsCompleted, durable, registry, commands
<1>5. CASE \E status \in {"failed", "cancelled"} : HandlerFinal(status)
  BY <1>5, CompletedIsFinal
  DEF HandlerFinal, StoreTransition, Safe, IsCompleted, durable, registry, commands
<1> QED BY <1>1, <1>2, <1>3, <1>4, <1>5 DEF Unwinding

\* recover may orphan the record of a completed task but not the task itself, and
\* removes no tree (cli.py: _recover).
LEMMA RecoverSafe ==
    ASSUME RecoverStart \/ Recover PROVE Safe
<1>1. CASE RecoverStart \/ RecoverState \/ RecoverLoad \/ RecoverVersion
  BY <1>1 DEF RecoverStart, RecoverState, RecoverLoad, RecoverVersion, RecOnly, Safe,
              IsCompleted, durable, registry
<1>2. CASE RecoverMark \/ RecoverOrphans
  BY <1>2 DEF RecoverMark, RecoverOrphans, MarkOrphaned, WriteRecord, Safe, IsCompleted,
              durable, registry
<1>3. CASE RecoverRow
  BY <1>3 DEF RecoverRow, UpdateRow, Safe, IsCompleted, durable, registry
<1>4. CASE RecoverFinal
  BY <1>4, CompletedIsFinal
  DEF RecoverFinal, StoreTransition, Safe, IsCompleted, durable, registry
<1> QED BY <1>1, <1>2, <1>3, <1>4 DEF Recover

\* cleanup starts on a COMPLETED task, and only a cleanup under way removes the
\* tree (cli.py: _cleanup).
LEMMA CleanupSafe ==
    ASSUME CleanupCheck \/ Cleanup PROVE Safe
<1>1. CASE CleanupCheck
  BY <1>1 DEF CleanupCheck, TaskCleanable, ClnOnly, Safe, IsCompleted, durable, registry
<1>2. CASE CleanupConfirm \/ CleanupLoad
  BY <1>2 DEF CleanupConfirm, CleanupLoad, ClnOnly, Safe, IsCompleted, durable, registry
<1>3. CASE CleanupDirty \/ CleanupRecord
  BY <1>3 DEF CleanupDirty, CleanupRecord, WriteRecord, Safe, IsCompleted, durable
<1>4. CASE CleanupRemoveTree
  BY <1>4 DEF CleanupRemoveTree, Safe, IsCompleted, durable
<1>5. CASE CleanupRow
  BY <1>5 DEF CleanupRow, UpdateRow, Safe, IsCompleted, durable, registry
<1> QED BY <1>1, <1>2, <1>3, <1>4, <1>5 DEF Cleanup

\* Faults, heartbeats, time and crashes neither start a cleanup nor remove a tree.
LEMMA EnvironmentSafe ==
    ASSUME Environment PROVE Safe
<1>1. CASE TimePasses
  BY <1>1 DEF TimePasses, Safe, IsCompleted, durable, commands
<1>2. CASE CommandCrash
  BY <1>2 DEF CommandCrash, CleanupIdle, Safe, IsCompleted, durable, registry
<1>3. CASE \E o \in Ops : Fault(o) \/ ReleaseFails(o)
  BY <1>3 DEF Fault, LeaveBody, ReleaseFails, Safe, IsCompleted, durable, registry, commands
<1>4. CASE \E o \in Ops : HeartbeatLease(o) \/ HeartbeatRecord(o)
  BY <1>4 DEF HeartbeatLease, HeartbeatRecord, WriteRecord, Safe, IsCompleted,
              durable, registry, commands
<1>5. CASE \E p \in Pids : Crash(p)
  BY <1>5 DEF Crash, Safe, IsCompleted, durable, registry, commands
<1> QED BY <1>1, <1>2, <1>3, <1>4, <1>5 DEF Environment

\* The first read of resume changes nothing shared (engine.py: resume).
LEMMA ResumeLoadSafe ==
    ASSUME NEW o \in Resumers, NEW p \in Pids, ResumeLoad(o, p) PROVE Safe
BY DEF ResumeLoad, Only, Safe, IsCompleted, durable, registry, commands

\* No step breaks the invariant of deletion.
LEMMA DeletionPreserved == DeletionInv /\ [Next]_vars => DeletionInv'
<1> SUFFICES ASSUME DeletionInv, [Next]_vars PROVE DeletionInv'
  OBVIOUS
<1>1. CASE Next
  <2>1. Safe
    BY <1>1, SetupSafe, AttemptSafe, FinishSafe, UnwindingSafe, RecoverSafe, CleanupSafe,
       EnvironmentSafe, ResumeLoadSafe DEF Next, EngineStep
  <2> QED BY <2>1 DEF Safe, DeletionInv
<1>2. CASE UNCHANGED vars
  BY <1>2 DEF DeletionInv, IsCompleted, vars, durable, registry, commands
<1> QED BY <1>1, <1>2

\* Cleanup deletes a worktree only when its task is COMPLETED, for every number of
\* processes, resumes, recoveries, cleanups and crashes (cli.py: _cleanup;
\* worktrees.py: cleanup): no interleaving makes the check it passed stale.
THEOREM DeletionSafe == Spec => []OnlyCompletedTreesDeleted
<1>1. Init => DeletionInv
  BY DEF Init, DeletionInv
<1>2. DeletionInv /\ [Next]_vars => DeletionInv'
  BY DeletionPreserved
<1>3. DeletionInv => OnlyCompletedTreesDeleted
  BY DEF DeletionInv, OnlyCompletedTreesDeleted, IsCompleted
<1> QED BY <1>1, <1>2, <1>3, PTL DEF Spec

(***************************************************************************)
(* The inductive invariant behind NoFalseSuccess.  A call's local state is *)
(* sound: what it writes next is a snapshot, its last attempt is what its  *)
(* place in the flow says, and the record it carries is a record.          *)
(***************************************************************************)
SnapPcs == EnginePcs \ {"idle", "done", "raised", "h_load", "release", "release_raise"}

TriedPcs == {"executing", "executed", "verifying", "verified", "reviewing", "reviewed",
             "cancel", "cancel_row", "cancel_final"}

PassedPcs == {"passed", "committed", "fs_complete", "row_complete"}

RecPcs == {"made", "registered", "fs_complete", "row_complete", "cancel_row", "cancel_final",
           "h_row", "handoff_sync"}

Sound(pc, snap, r) ==
    /\ pc \in SnapPcs => snap \in Snapshots /\ snap.status \notin TerminalStatuses
    /\ pc \in TriedPcs \cup PassedPcs => snap.att # <<>>
    /\ pc \in PassedPcs => snap.att[Len(snap.att)] = "passed"
    /\ pc \in RecPcs => r \in WorktreeRecords
    /\ pc \in {"fs_complete", "row_complete"} => r.status = "complete" /\ r.completed # NoTime

SoundCall(o) == Sound(eng[o].pc, eng[o].snap, eng[o].rec)

\* The durable row a call completed keeps the completion time the call carries.
RowHolds(o) ==
    eng[o].pc = "row_complete" => row # NoRec /\ row.completed = eng[o].rec.completed

RecoverSound ==
    /\ rec.pc \in {"row", "load", "version", "final"} => rec.seen \in WorktreeRecords
    /\ rec.pc \in {"version", "final"} => rec.snap \in Snapshots

CleanupSound ==
    /\ cln.pc # "idle" => fs # NoRec
    /\ cln.pc \in {"tree", "record", "row"} => cln.seen \in WorktreeRecords

\* What a COMPLETED task carries; the completion time makes it stable.
Earned ==
    /\ task.review = "ok"
    /\ task.att # <<>> /\ task.att[Len(task.att)] = "passed"
    /\ task.wt \in WorktreeRecords
    /\ task.wt.status = "complete" /\ task.wt.completed # NoTime
    /\ row # NoRec /\ row.completed = task.wt.completed

SuccessInv ==
    /\ TypeOK
    /\ \A o \in Ops : SoundCall(o) /\ RowHolds(o)
    /\ RecoverSound /\ CleanupSound
    /\ IsCompleted => Earned

(***************************************************************************)
(* The inductive invariant behind RunConsistent: where the two registries  *)
(* stand at each step of a run() that nobody else interferes with.         *)
(***************************************************************************)
EarlyPcs == {"idle", "created", "inspected", "planned"}

\* Steps at which both registries say "active".
WorkingPcs ==
    {"registered", "lease_check", "lease_wait", "record", "version", "validate", "leased",
     "attempt", "executing", "executed", "verifying", "verified", "reviewing", "reviewed",
     "passed", "committed", "block", "cancel",
     "handoff", "handoff_sync", "handoff_prepare", "handoff_ready"}

\* Steps after the task was bound to its worktree.
BoundPcs == (WorkingPcs \ {"registered"}) \cup
            {"fs_complete", "row_complete", "cancel_row", "cancel_final"}

\* Steps at which run() has not given up its task.
UnfinishedPcs == SnapPcs \cup {"release_raise"}

Live == {"active", "complete", "orphaned"}

\* The registry record is in order and no older than its durable mirror.
Mirrored ==
    /\ fs # NoRec => /\ ValidLifetime(fs) /\ fs.pid = RunPid
                     /\ fs.heartbeat <= clock /\ fs.created <= clock
    /\ row # NoRec => /\ fs # NoRec
                      /\ row.pid = RunPid /\ row.heartbeat <= fs.heartbeat
                      /\ row.completed # NoTime => row.completed = fs.completed

\* The two registries agree and there is nothing to clean up.
Agreed ==
    /\ fs # NoRec => fs.status # "complete"
    /\ fs # NoRec /\ row # NoRec => fs.status = row.status

\* Where the registries stand, by the step run() is at.
Standing ==
    LET l == eng["run"] IN
    /\ l.pc \in EarlyPcs => fs = NoRec /\ row = NoRec
    /\ l.pc = "idle" => task = NoTask
    /\ l.pc = "made" =>
          /\ fs # NoRec /\ fs.status = "active" /\ row = NoRec
          /\ l.rec.status = "active" /\ l.rec.pid = RunPid /\ l.rec.completed = NoTime
          /\ l.rec.heartbeat <= fs.heartbeat
    /\ l.pc \in WorkingPcs => /\ fs # NoRec /\ fs.status = "active"
                              /\ row # NoRec /\ row.status = "active"
    /\ l.pc = "fs_complete" => fs = l.rec /\ row # NoRec /\ row.status = "active"
    /\ l.pc = "row_complete" => /\ fs # NoRec /\ fs.status = "complete"
                                /\ row # NoRec /\ row.status = "complete"
    /\ l.pc = "cancel_row" => /\ fs = l.rec /\ fs.status = "orphaned"
                              /\ row # NoRec /\ row.status = "active"
    /\ l.pc = "cancel_final" => /\ fs # NoRec /\ fs.status = "orphaned"
                                /\ row # NoRec /\ row.status = "orphaned"
    /\ l.pc = "h_row" => fs = l.rec /\ fs.status = "orphaned"
    /\ l.pc = "h_final" => Agreed
    /\ l.pc \in {"release", "done", "raised"} => Agreed \/ IsCompleted

\* What run() knows of the task and its worktree.
Bound ==
    LET l == eng["run"] IN
    /\ l.pid = RunPid
    /\ l.pc \in UnfinishedPcs => task # NoTask /\ task.status \notin TerminalStatuses
    /\ l.pc \in BoundPcs => task # NoTask /\ task.wt # NoRec /\ l.snap.wt # NoRec
    /\ l.pc = "h_version" => l.snap = task
    /\ l.pc \in {"h_orphan", "h_row"} => task # NoTask /\ task.wt # NoRec
    /\ l.pc \notin {"done", "raised"} /\ fs # NoRec /\ fs.status # "active" =>
          task # NoTask /\ task.wt # NoRec
    /\ task # NoTask /\ task.wt # NoRec => row # NoRec

\* A task that is not completed, and one that failed or was cancelled.
Uncompleted ==
    ~IsCompleted =>
       /\ fs # NoRec => fs.status \in Live
       /\ row # NoRec => row.status \in Live
       /\ fs # NoRec /\ fs.status = "active" /\ row # NoRec => row.status = "active"
       /\ task # NoTask /\ task.status \in TerminalStatuses => Agreed

\* A completed task: how far cleanup has taken its two records.
CleanedUp ==
    IsCompleted =>
       /\ fs # NoRec /\ row # NoRec
       /\ cln.pc \notin {"tree", "record", "row"} =>
             fs.status = row.status /\ fs.status \in {"complete", "removed", "cleanup_blocked"}
       /\ cln.pc \in {"tree", "record"} =>
             fs = cln.seen /\ fs.status = "complete" /\ row.status = "complete"
       /\ cln.pc = "row" =>
             fs = cln.seen /\ fs.status \in {"removed", "cleanup_blocked"} /\ row.status = "complete"

Alone ==
    /\ alive = [p \in Pids |-> TRUE] /\ rec.pc = "idle"
    /\ Mirrored /\ Standing /\ Bound
    /\ Uncompleted /\ CleanedUp

AloneInv == RunAlone => Alone

-----------------------------------------------------------------------------
(* Lemmas on snapshots *)

\* A snapshot moved to another status keeps everything else.
LEMMA InFields ==
    ASSUME NEW o \in Ops, Snap(o) \in Snapshots, NEW status \in TaskStatuses
    PROVE  /\ In(o, status) \in Snapshots
           /\ In(o, status).status = status
           /\ In(o, status).att = Snap(o).att
           /\ In(o, status).review = Snap(o).review
           /\ In(o, status).wt = Snap(o).wt
BY DEF In, Snapshots

\* Ending the current attempt rewrites the last entry of the history and no other.
LEMMA EndedFields ==
    ASSUME NEW o \in Ops, Snap(o) \in Snapshots, Snap(o).att # <<>>,
           NEW status \in TaskStatuses, NEW result \in AttemptStatuses
    PROVE  /\ Ended(o, status, result) \in Snapshots
           /\ Ended(o, status, result).status = status
           /\ Ended(o, status, result).att # <<>>
           /\ LET att == Ended(o, status, result).att IN att[Len(att)] = result
           /\ Ended(o, status, result).review = Snap(o).review
           /\ Ended(o, status, result).wt = Snap(o).wt
<1> DEFINE s == Snap(o)
           n == Len(s.att)
           a == [s.att EXCEPT ![n] = result]
<1>1. s.att \in Seq(AttemptStatuses) /\ n \in 1..Len(s.att)
  BY DEF Snapshots
<1>2. a \in Seq(AttemptStatuses) /\ Len(a) = n
  BY <1>1, ExceptSeq
<1>3. a # <<>> /\ a[n] = result
  BY <1>1, <1>2
<1>4. Ended(o, status, result) = [s EXCEPT !.status = status, !.att = a]
  BY DEF Ended, In, Snapshots
<1> HIDE DEF a
<1> QED BY <1>2, <1>3, <1>4 DEF Snapshots

-----------------------------------------------------------------------------
(* What a step of one engine call does, as far as NoFalseSuccess is concerned *)

RowKept ==
    /\ row # NoRec => row' # NoRec
    /\ row # NoRec /\ row.completed # NoTime => row'.completed = row.completed

TaskFollows == task' = task \/ (IsCompleted' => Earned')

Advances(o) ==
    /\ TypeOK' /\ SoundCall(o)' /\ RowHolds(o)'
    /\ \A q \in Ops \ {o} : eng'[q] = eng[q]
    /\ rec' = rec /\ cln' = cln
    /\ RowKept /\ (fs # NoRec => fs' # NoRec)
    /\ TaskFollows

\* The local state of an engine call.
Calls == [pc : EnginePcs, pid : Pids, snap : Snapshots \cup {NoTask},
          ver : Nat, tries : Nat, rec : WorktreeRecords \cup {NoRec}]

\* Moving a call on keeps it a call.
LEMMA CallMoved ==
    ASSUME NEW c \in Calls, NEW pc \in EnginePcs, NEW snap \in Snapshots, NEW v \in Nat
    PROVE  [c EXCEPT !.pc = pc, !.snap = snap, !.ver = v] \in Calls
BY DEF Calls

\* The calls of run and resume are what Calls says: the local variables of the engine.
LEMMA TypedCalls == TypeOK => eng \in [Ops -> Calls]
BY DEF TypeOK, Calls

\* A row's completion time is written once (store.py: update_worktree).
LEMMA UpdateKeepsRow ==
    ASSUME NEW r \in WorktreeRecords, UpdateRow(r)
    PROVE  RowKept /\ row' = r /\ task' = task /\ version' = version
BY TaskConstants DEF UpdateRow, RowAccepts, WorktreeUpdateAllowed, RowKept

\* Completion facts survive a step that keeps the task or earns them anew.
LEMMA EarnedKept ==
    ASSUME IsCompleted => Earned, RowKept, TaskFollows
    PROVE  IsCompleted' => Earned'
BY DEF IsCompleted, Earned, RowKept, TaskFollows

\* A step of one call leaves what the others know of the shared state true.
LEMMA AdvancePreserves ==
    ASSUME SuccessInv, NEW o \in Ops, Advances(o)
    PROVE  SuccessInv'
<1>1. TypeOK' /\ RecoverSound' /\ CleanupSound'
  BY DEF SuccessInv, Advances, RecoverSound, CleanupSound
<1>2. IsCompleted' => Earned'
  BY EarnedKept DEF SuccessInv, Advances
<1>3. ASSUME NEW q \in Ops PROVE SoundCall(q)' /\ RowHolds(q)'
  <2>1. CASE q = o BY <2>1 DEF Advances
  <2>2. CASE q # o
    <3>1. eng'[q] = eng[q] /\ SoundCall(q) /\ RowHolds(q) /\ RowKept
      BY <2>2 DEF SuccessInv, Advances
    <3> QED BY <3>1 DEF SoundCall, Sound, RowHolds, RowKept
  <2> QED BY <2>1, <2>2
<1> QED BY <1>1, <1>2, <1>3 DEF SuccessInv

\* A transition of the task by a call (engine.py: _transition).
LEMMA TransitionAdvances ==
    ASSUME SuccessInv, NEW o \in Ops, NEW new \in Snapshots, NEW pc \in EnginePcs,
           EngineTransition(o, new, pc),
           Sound(pc, new, eng[o].rec), pc # "row_complete", new.status # "completed"
    PROVE  Advances(o)
<1>1. /\ eng' = [eng EXCEPT ![o].pc = pc, ![o].snap = new, ![o].ver = version + 1]
      /\ task' = new /\ version' = version + 1
      /\ UNCHANGED <<row, req, fs, aged, tree, clock, lease, alive, rec, cln, crashes>>
  BY DEF EngineTransition, StoreTransition, registry, commands
<1>2. TypeOK'
  <2>1. TypeOK BY DEF SuccessInv
  <2>2. eng' \in [Ops -> Calls]
    <3> DEFINE c == [eng[o] EXCEPT !.pc = pc, !.snap = new, !.ver = version + 1]
    <3>1. eng[o] \in Calls /\ eng \in [Ops -> Calls] /\ version \in Nat
      BY <2>1, TypedCalls DEF TypeOK
    <3>2. c \in Calls
      <4>1. version + 1 \in Nat BY <3>1
      <4> QED BY <3>1, <4>1, CallMoved
    <3>3. eng' = [eng EXCEPT ![o] = c] BY <1>1
    <3> HIDE DEF c
    <3> QED BY <3>1, <3>2, <3>3
  <2> QED BY <1>1, <2>1, <2>2, TypedCalls DEF TypeOK, Calls
<1>3. /\ eng'[o].pc = pc /\ eng'[o].snap = new /\ eng'[o].rec = eng[o].rec
      /\ \A q \in Ops \ {o} : eng'[q] = eng[q]
  BY <1>1 DEF TypeOK, SuccessInv
<1> QED BY <1>1, <1>2, <1>3 DEF Advances, SoundCall, RowHolds, RowKept, TaskFollows, IsCompleted

\* A step that moves one call and touches no shared state but the lease.
LEMMA LocalAdvances ==
    ASSUME SuccessInv, NEW o \in Ops, TypeOK',
           UNCHANGED <<task, row, fs, rec, cln>>,
           \A q \in Ops \ {o} : eng'[q] = eng[q],
           Sound(eng'[o].pc, eng'[o].snap, eng'[o].rec),
           eng'[o].pc # "row_complete"
    PROVE  Advances(o)
BY DEF Advances, SoundCall, RowHolds, RowKept, TaskFollows

\* What a call holds where it is about to write.
LEMMA HeldSnapshot ==
    ASSUME SuccessInv, NEW o \in Ops, eng[o].pc \in SnapPcs
    PROVE  /\ Snap(o) \in Snapshots /\ Snap(o).status \in TaskStatuses \ TerminalStatuses
           /\ eng[o].pc \in TriedPcs => Snap(o).att # <<>>
<1>1. Snap(o) \in Snapshots
  BY DEF SuccessInv, SoundCall, Sound, Snap
<1>2. Snap(o).status \in TaskStatuses BY <1>1 DEF Snapshots
<1> QED BY <1>1, <1>2 DEF SuccessInv, SoundCall, Sound, Snap

\* A transition that only changes the status of the snapshot.
LEMMA StatusAdvances ==
    ASSUME SuccessInv, NEW o \in Ops, eng[o].pc \in SnapPcs,
           NEW status \in TaskStatuses, NEW pc \in EnginePcs,
           EngineTransition(o, In(o, status), pc),
           status \notin TerminalStatuses,
           pc \in TriedPcs => eng[o].pc \in TriedPcs,
           pc \notin PassedPcs \cup RecPcs \cup {"row_complete", "fs_complete"}
    PROVE  Advances(o)
<1>1. Snap(o) \in Snapshots /\ (eng[o].pc \in TriedPcs => Snap(o).att # <<>>)
  BY HeldSnapshot
<1>2. In(o, status) \in Snapshots /\ In(o, status).status = status /\ In(o, status).att = Snap(o).att
  BY <1>1, InFields
<1>3. Sound(pc, In(o, status), eng[o].rec)
  BY <1>1, <1>2 DEF Sound
<1> QED BY <1>2, <1>3, TransitionAdvances DEF TerminalStatuses

\* A transition that ends the current attempt.
LEMMA EndedAdvances ==
    ASSUME SuccessInv, NEW o \in Ops, eng[o].pc \in TriedPcs,
           NEW status \in TaskStatuses, NEW result \in AttemptStatuses, NEW pc \in EnginePcs,
           EngineTransition(o, Ended(o, status, result), pc),
           status \notin TerminalStatuses,
           pc \in PassedPcs => result = "passed",
           pc \notin RecPcs \cup {"row_complete", "fs_complete"}
    PROVE  Advances(o)
<1>0. eng[o].pc \in SnapPcs BY DEF TriedPcs, SnapPcs, EnginePcs
<1>1. Snap(o) \in Snapshots /\ Snap(o).att # <<>>
  BY <1>0, HeldSnapshot
<1> DEFINE new == Ended(o, status, result)
<1>2. new \in Snapshots /\ new.status = status /\ new.att # <<>> /\ new.att[Len(new.att)] = result
  BY <1>1, EndedFields
<1> HIDE DEF new
<1>3. Sound(pc, new, eng[o].rec)
  BY <1>2 DEF Sound
<1>4. Advances(o)
  BY <1>2, <1>3, TransitionAdvances DEF TerminalStatuses, new
<1> QED BY <1>4

\* A failed attempt is retried, handed off or blocked (engine.py: _execute_flow).
LEMMA AfterFailurePcs ==
    ASSUME NEW o \in Ops, NEW b \in BOOLEAN
    PROVE  AfterFailure(o, b) \in {"attempt", "handoff", "block"}
BY DEF AfterFailure

\* One attempt: the flow of _execute_flow keeps the call's snapshot sound.
LEMMA AttemptAdvances ==
    ASSUME SuccessInv, NEW o \in Ops, Attempt(o) PROVE Advances(o)
<1>1. CASE StartAttempt(o)
  <2> DEFINE new == [In(o, "executing") EXCEPT !.att = Append(@, "running")]
  <2>1. Snap(o) \in Snapshots /\ eng[o].pc = "attempt"
    BY <1>1, HeldSnapshot DEF StartAttempt, At, SnapPcs, EnginePcs
  <2>2. In(o, "executing") \in Snapshots BY <2>1, InFields DEF TaskStatuses
  <2>3. /\ new \in Snapshots /\ new.status = In(o, "executing").status
        /\ new.att = Append(In(o, "executing").att, "running")
    BY <2>2 DEF Snapshots, AttemptStatuses
  <2>4. new.att # <<>> BY <2>2, <2>3 DEF Snapshots
  <2>5. new.status = "executing" BY <2>1, <2>3, InFields DEF TaskStatuses
  <2>6. /\ StoreTransition(new, eng[o].ver)
        /\ eng' = [eng EXCEPT ![o].pc = "executing", ![o].snap = new, ![o].ver = version + 1,
                              ![o].tries = @ + 1]
        /\ UNCHANGED <<req, registry, lease, alive, commands, crashes>>
    BY <1>1 DEF StartAttempt
  <2> HIDE DEF new
  <2>7. TypeOK /\ eng \in [Ops -> Calls] /\ version + 1 \in Nat /\ eng[o] \in Calls
    BY TypedCalls DEF SuccessInv, TypeOK
  <2>8. PICK c \in Calls : /\ eng' = [eng EXCEPT ![o] = c]
                           /\ c.pc = "executing" /\ c.snap = new /\ c.rec = eng[o].rec
    <3>1. PICK e \in Calls : e = eng[o] BY <2>7
    <3>2. PICK v \in Nat : v = version + 1 BY <2>7
    <3>3. PICK t \in Nat : t = e.tries + 1 BY DEF Calls
    <3> DEFINE d == [e EXCEPT !.pc = "executing", !.snap = new, !.ver = v, !.tries = t]
    <3>4. d \in Calls /\ d.pc = "executing" /\ d.snap = new /\ d.rec = e.rec
      BY <2>3 DEF Calls, EnginePcs
    <3>5. eng' = [eng EXCEPT ![o] = d] BY <2>6, <2>7, <3>1, <3>2, <3>3
    <3> HIDE DEF d
    <3> QED BY <3>1, <3>4, <3>5
  <2>9. /\ eng' \in [Ops -> Calls] /\ eng'[o] = c
        /\ \A q \in Ops \ {o} : eng'[q] = eng[q]
    BY <2>7, <2>8
  <2>10. /\ task' = new /\ version' = version + 1
         /\ UNCHANGED <<row, req, fs, aged, tree, clock, lease, alive, rec, cln, crashes>>
    BY <2>6 DEF StoreTransition, registry, commands
  <2>11. TypeOK' BY <2>7, <2>9, <2>10, <2>3 DEF TypeOK, Calls
  <2>12. SoundCall(o)' BY <2>8, <2>9, <2>3, <2>4, <2>5 
    DEF SoundCall, Sound, TerminalStatuses, SnapPcs, TriedPcs, PassedPcs, RecPcs
  <2>13. RowHolds(o)' /\ RowKept /\ TaskFollows
    BY <2>5, <2>8, <2>9, <2>10 DEF RowHolds, RowKept, TaskFollows, IsCompleted
  <2> QED BY <2>9, <2>10, <2>11, <2>12, <2>13 DEF Advances
<1> USE DEF SnapPcs, TriedPcs, PassedPcs, RecPcs, EnginePcs, At,
            TaskStatuses, AttemptStatuses, TerminalStatuses
<1>2. CASE \E verdict \in Reviews \ {"none"} : ReviewRecorded(o, verdict)
  <2> PICK verdict \in Reviews \ {"none"} : ReviewRecorded(o, verdict) BY <1>2
  <2> DEFINE new == [In(o, "reviewing") EXCEPT !.review = verdict]
  <2>1. /\ Snap(o) \in Snapshots /\ Snap(o).att # <<>>
        /\ EngineTransition(o, new, "reviewed")
    BY HeldSnapshot DEF ReviewRecorded
  <2>2. /\ In(o, "reviewing") \in Snapshots /\ In(o, "reviewing").att # <<>>
        /\ In(o, "reviewing").status = "reviewing"
    BY <2>1, InFields
  <2>3. new \in Snapshots /\ new.att # <<>> /\ new.status = "reviewing"
    BY <2>2 DEF Snapshots
  <2> HIDE DEF new
  <2>4. Sound("reviewed", new, eng[o].rec) BY <2>3 DEF Sound
  <2> QED BY <2>1, <2>3, <2>4, TransitionAdvances
<1>3. CASE ExecutorOk(o) BY <1>3, StatusAdvances DEF ExecutorOk
<1>4. CASE ExecutorFailed(o)
  BY ZenonT(40), <1>4, EndedAdvances, AfterFailurePcs DEF ExecutorFailed
<1>5. CASE RulesExpanded(o)
  BY ZenonT(40), <1>5, EndedAdvances, AfterFailurePcs DEF RulesExpanded
<1>6. CASE RevalidationFailed(o) BY <1>6, EndedAdvances DEF RevalidationFailed
<1>7. CASE VerifyStart(o) BY <1>7, StatusAdvances DEF VerifyStart
<1>8. CASE VerifyRecorded(o) BY <1>8, StatusAdvances DEF VerifyRecorded
<1>9. CASE VerifyFailed(o) BY ZenonT(40), <1>9, EndedAdvances, AfterFailurePcs DEF VerifyFailed
<1>10. CASE PrivacyBlocked(o) BY <1>10, StatusAdvances DEF PrivacyBlocked
<1>11. CASE ReviewStart(o) BY <1>11, StatusAdvances DEF ReviewStart
<1>12. CASE ReviewRejected(o)
  BY ZenonT(40), <1>12, EndedAdvances, AfterFailurePcs DEF ReviewRejected
<1>13. CASE AttemptPassed(o) BY <1>13, EndedAdvances DEF AttemptPassed
<1> QED BY <1>1, <1>2, <1>3, <1>4, <1>5, <1>6, <1>7, <1>8, <1>9, <1>10, <1>11, <1>12, <1>13
        DEF Attempt

-----------------------------------------------------------------------------
(* The local moves and the registry writes the actions are built from *)

\* Only the call o moves, and to c.
Moves(o, c) ==
    /\ eng' \in [Ops -> Calls] /\ eng'[o] = c
    /\ \A q \in Ops \ {o} : eng'[q] = eng[q]

\* Writing one call leaves every other call as it was.
LEMMA SetCall ==
    ASSUME TypeOK, NEW o \in Ops, NEW c \in Calls, eng' = [eng EXCEPT ![o] = c]
    PROVE  Moves(o, c)
BY TypedCalls DEF Moves

\* Going to another place keeps what the call holds.
LEMMA GotoCall ==
    ASSUME TypeOK, NEW o \in Ops, NEW pc \in EnginePcs, Goto(o, pc)
    PROVE  \E c \in Calls : Moves(o, c) /\ c = [eng[o] EXCEPT !.pc = pc] /\ c.pc = pc
                            /\ c.snap = eng[o].snap /\ c.rec = eng[o].rec /\ c.pid = eng[o].pid
<1>1. PICK e \in Calls : e = eng[o] BY TypedCalls
<1> DEFINE c == [e EXCEPT !.pc = pc]
<1>2. c \in Calls /\ c.pc = pc /\ c.snap = e.snap /\ c.rec = e.rec /\ c.pid = e.pid
  BY DEF Calls
<1>3. eng' = [eng EXCEPT ![o] = c] BY <1>1 DEF Goto
<1>4. Moves(o, c) BY <1>2, <1>3, SetCall
<1> QED BY <1>1, <1>2, <1>4

\* A call that returns keeps its process and forgets its locals.
LEMMA ReturnCall ==
    ASSUME TypeOK, NEW o \in Ops, NEW pc \in EnginePcs, Return(o, pc)
    PROVE  \E c \in Calls : Moves(o, c) /\ c.pc = pc /\ c.pid = eng[o].pid
<1>1. PICK e \in Calls : e = eng[o] BY TypedCalls
<1> DEFINE c == [e EXCEPT !.pc = pc, !.snap = NoTask, !.ver = 0, !.tries = 0, !.rec = NoRec]
<1>2. c \in Calls /\ c.pc = pc /\ c.pid = e.pid BY DEF Calls
<1>3. eng' = [eng EXCEPT ![o] = c] BY <1>1 DEF Return
<1>4. Moves(o, c) BY <1>2, <1>3, SetCall
<1> QED BY <1>1, <1>2, <1>4

\* The call goes on with a record in hand.
Carry(o, pc, r) == eng' = [eng EXCEPT ![o].pc = pc, ![o].rec = r]

\* A call that takes a record along keeps its snapshot.
LEMMA CarryCall ==
    ASSUME TypeOK, NEW o \in Ops, NEW pc \in EnginePcs, NEW r \in WorktreeRecords,
           Carry(o, pc, r)
    PROVE  \E c \in Calls : Moves(o, c) /\ c.pc = pc /\ c.rec = r
                            /\ c.snap = eng[o].snap /\ c.pid = eng[o].pid
<1>1. PICK e \in Calls : e = eng[o] BY TypedCalls
<1> DEFINE c == [e EXCEPT !.pc = pc, !.rec = r]
<1>2. c \in Calls /\ c.pc = pc /\ c.rec = r /\ c.snap = e.snap /\ c.pid = e.pid
  BY DEF Calls
<1>3. eng' = [eng EXCEPT ![o] = c] BY <1>1 DEF Carry
<1>4. Moves(o, c) BY <1>2, <1>3, SetCall
<1> QED BY <1>1, <1>2, <1>4

\* A registry write keeps the record's identity and advances its clock
\* (worktrees.py: WorktreeRegistry writes).
LEMMA WrittenRecord ==
    ASSUME TypeOK, NEW r \in WorktreeRecords, WriteRecord(r)
    PROVE  /\ fs # NoRec /\ fs' \in WorktreeRecords /\ fs' # NoRec
           /\ fs'.status = r.status /\ fs'.pid = r.pid /\ fs'.created = r.created
           /\ fs'.completed = r.completed /\ fs'.heartbeat = clock + 1
           /\ clock' = clock + 1 /\ clock' \in Nat /\ aged' = FALSE /\ tree' = tree
<1>1. fs' = [r EXCEPT !.heartbeat = clock + 1] /\ fs # NoRec /\ clock' = clock + 1
      /\ aged' = FALSE /\ tree' = tree
  BY DEF WriteRecord
<1>2. PICK h \in Nat : h = clock + 1 BY DEF TypeOK
<1>3. [r EXCEPT !.heartbeat = h] \in WorktreeRecords BY DEF WorktreeRecords
<1>4. fs' = [r EXCEPT !.heartbeat = h] BY <1>1, <1>2
<1>5. /\ fs'.status = r.status /\ fs'.pid = r.pid /\ fs'.created = r.created
      /\ fs'.completed = r.completed /\ fs'.heartbeat = h
  BY <1>4 DEF WorktreeRecords
<1> QED BY <1>1, <1>2, <1>3, <1>4, <1>5, TaskConstants

\* mark_orphaned writes a well formed record (worktrees.py: mark_orphaned).
LEMMA OrphanedRecord ==
    ASSUME TypeOK, MarkOrphaned
    PROVE  /\ fs \in WorktreeRecords /\ fs' \in WorktreeRecords /\ fs' # NoRec
           /\ fs.status \in {"active", "complete", "orphaned"}
           /\ fs'.status = "orphaned" /\ fs'.pid = fs.pid /\ fs'.created = fs.created
           /\ fs'.completed = fs.completed /\ fs'.heartbeat = clock + 1
           /\ clock' = clock + 1 /\ clock' \in Nat /\ aged' = FALSE /\ tree' = tree
<1>1. fs \in WorktreeRecords /\ fs.status \in {"active", "complete", "orphaned"}
  BY DEF MarkOrphaned, CanOrphan, TypeOK
<1> DEFINE r == [fs EXCEPT !.status = "orphaned"]
<1>2. /\ r \in WorktreeRecords /\ r.status = "orphaned" /\ r.pid = fs.pid
      /\ r.created = fs.created /\ r.completed = fs.completed
  BY <1>1 DEF WorktreeRecords, WorktreeStatuses
<1>3. WriteRecord(r) BY DEF MarkOrphaned
<1> HIDE DEF r
<1> QED BY <1>1, <1>2, <1>3, WrittenRecord

\* The pid written by a lease or a heartbeat is the caller's.
LEMMA BeatRecord ==
    ASSUME TypeOK, NEW p \in Pids, WriteRecord([fs EXCEPT !.pid = p])
    PROVE  /\ fs \in WorktreeRecords /\ fs' \in WorktreeRecords /\ fs' # NoRec
           /\ fs'.status = fs.status /\ fs'.pid = p /\ fs'.created = fs.created
           /\ fs'.completed = fs.completed /\ fs'.heartbeat = clock + 1
           /\ clock' = clock + 1 /\ clock' \in Nat /\ aged' = FALSE /\ tree' = tree
<1>1. fs \in WorktreeRecords BY DEF WriteRecord, TypeOK
<1> DEFINE r == [fs EXCEPT !.pid = p]
<1>2. /\ r \in WorktreeRecords /\ r.status = fs.status /\ r.pid = p
      /\ r.created = fs.created /\ r.completed = fs.completed
  BY <1>1 DEF WorktreeRecords
<1>3. WriteRecord(r) OBVIOUS
<1> HIDE DEF r
<1> QED BY <1>1, <1>2, <1>3, WrittenRecord

\* Typing of a step that writes the registry file, not the durable tables.
LEMMA RegistryTyped ==
    ASSUME TypeOK, fs' \in WorktreeRecords, clock' \in Nat, aged' \in BOOLEAN, tree' \in BOOLEAN,
           eng' \in [Ops -> Calls], lease' \in [op : Ops, pid : Pids, aged : BOOLEAN] \cup {NoLease},
           UNCHANGED <<task, version, row, req, alive, rec, cln, crashes>>
    PROVE  TypeOK'
BY DEF TypeOK, Calls

\* A step of the registry alone, by a call: the record stays a record.
LEMMA RegistryAdvances ==
    ASSUME SuccessInv, NEW o \in Ops, TypeOK', UNCHANGED <<task, row, rec, cln>>,
           fs' # NoRec, NEW c \in Calls, Moves(o, c),
           Sound(c.pc, c.snap, c.rec), c.pc # "row_complete"
    PROVE  Advances(o)
BY DEF Advances, Moves, SoundCall, RowHolds, RowKept, TaskFollows

\* A step of a call that writes nothing but its lease.
LEMMA QuietAdvances ==
    ASSUME SuccessInv, NEW o \in Ops, NEW c \in Calls, Moves(o, c),
           UNCHANGED <<req, durable, registry, alive, commands, crashes>>,
           lease' \in [op : Ops, pid : Pids, aged : BOOLEAN] \cup {NoLease},
           Sound(c.pc, c.snap, c.rec), c.pc # "row_complete"
    PROVE  Advances(o)
<1>1. TypeOK'
  BY DEF SuccessInv, TypeOK, Moves, Calls, durable, registry, commands
<1> QED BY <1>1, LocalAdvances DEF Moves, durable, registry, commands

-----------------------------------------------------------------------------
(* Setting up run() and resume() *)

\* run() inserts the task as CREATED (engine.py: _run_impl; store.py: create_task).
LEMMA CreateAdvances ==
    ASSUME SuccessInv, Create PROVE Advances("run")
<1> DEFINE new == [status |-> "created", att |-> <<>>, review |-> "none", wt |-> NoRec]
<1>1. /\ TypeOK /\ eng["run"] \in Calls /\ "run" \in Ops
  BY TypedCalls DEF SuccessInv, Ops
<1>2. new \in Snapshots /\ new.status = "created"
  BY DEF Snapshots, TaskStatuses, AttemptStatuses, Reviews
<1>3. /\ task' = new /\ version' = 1
      /\ eng' = [eng EXCEPT !["run"].pc = "created", !["run"].snap = new, !["run"].ver = 1]
      /\ UNCHANGED <<row, req, fs, aged, tree, clock, lease, alive, rec, cln, crashes>>
  BY DEF Create, registry, commands
<1> HIDE DEF new
<1>4. PICK e \in Calls : e = eng["run"] BY <1>1
<1> DEFINE c == [e EXCEPT !.pc = "created", !.snap = new, !.ver = 1]
<1>5. c \in Calls /\ c.pc = "created" /\ c.snap = new BY <1>2 DEF Calls, EnginePcs
<1>6. eng' = [eng EXCEPT !["run"] = c] BY <1>3, <1>4
<1> HIDE DEF c
<1>7. Moves("run", c) BY <1>1, <1>5, <1>6, SetCall
<1>8. TypeOK' BY <1>1, <1>2, <1>3, <1>7 DEF TypeOK, Moves, Calls
<1>9. SoundCall("run")' /\ RowHolds("run")'
  BY <1>2, <1>5, <1>7
  DEF Moves, SoundCall, Sound, RowHolds, SnapPcs, TriedPcs, PassedPcs, RecPcs, TerminalStatuses
<1>10. RowKept /\ TaskFollows
  BY <1>2, <1>3 DEF RowKept, TaskFollows, IsCompleted
<1> QED BY <1>3, <1>7, <1>8, <1>9, <1>10 DEF Advances, Moves

\* run() enters ISOLATED with the record it registered (engine.py: _run_impl).
LEMMA IsolateAdvances ==
    ASSUME SuccessInv, Isolate PROVE Advances("run")
<1>1. "run" \in Ops /\ eng["run"].pc = "registered" BY DEF Isolate, At, Ops
<1>2. Snap("run") \in Snapshots BY <1>1, HeldSnapshot DEF SnapPcs, EnginePcs
<1>3. eng["run"].rec \in WorktreeRecords
  BY <1>1 DEF SuccessInv, SoundCall, Sound, RecPcs
<1> DEFINE new == [In("run", "isolated") EXCEPT !.wt = eng["run"].rec]
<1>4. In("run", "isolated") \in Snapshots /\ In("run", "isolated").status = "isolated"
  BY <1>1, <1>2, InFields DEF TaskStatuses
<1>5. new \in Snapshots /\ new.status = "isolated" BY <1>3, <1>4 DEF Snapshots
<1>6. EngineTransition("run", new, "lease_check") BY DEF Isolate
<1> HIDE DEF new
<1>7. Sound("lease_check", new, eng["run"].rec)
  BY <1>5 DEF Sound, SnapPcs, EnginePcs, TriedPcs, PassedPcs, RecPcs, TerminalStatuses
<1> QED BY <1>1, <1>5, <1>6, <1>7, TransitionAdvances DEF EnginePcs

\* run() creates the worktree and its registry file (worktrees.py: create).
LEMMA MakeWorktreeAdvances ==
    ASSUME SuccessInv, MakeWorktree PROVE Advances("run")
<1>1. /\ TypeOK /\ "run" \in Ops /\ eng["run"].pc = "planned"
  BY DEF SuccessInv, Ops, MakeWorktree, At
<1>2. PICK h \in Nat : h = clock + 1 BY <1>1 DEF TypeOK
<1> DEFINE r == [status |-> "active", pid |-> RunPid, created |-> h, heartbeat |-> h,
                 completed |-> NoTime]
<1>3. r \in WorktreeRecords BY TaskConstants DEF WorktreeRecords, WorktreeStatuses, NoTime
<1>4. /\ fs' = r /\ clock' = h /\ aged' = FALSE /\ tree' = TRUE
      /\ eng' = [eng EXCEPT !["run"].pc = "made", !["run"].rec = r]
      /\ UNCHANGED <<task, version, row, req, lease, alive, rec, cln, crashes>>
  BY <1>2 DEF MakeWorktree, durable, commands
<1> HIDE DEF r
<1>5. PICK c \in Calls : Moves("run", c) /\ c.pc = "made" /\ c.rec = r /\ c.snap = eng["run"].snap
  <2>1. PICK e \in Calls : e = eng["run"] BY <1>1, TypedCalls
  <2> DEFINE c == [e EXCEPT !.pc = "made", !.rec = r]
  <2>2. c \in Calls /\ c.pc = "made" /\ c.rec = r /\ c.snap = e.snap
    BY <1>3 DEF Calls, EnginePcs
  <2>3. eng' = [eng EXCEPT !["run"] = c] BY <1>4, <2>1
  <2> HIDE DEF c
  <2>4. Moves("run", c) BY <1>1, <2>2, <2>3, SetCall
  <2> QED BY <2>1, <2>2, <2>4
<1>6. TypeOK'
  <2>1. lease' \in [op : Ops, pid : Pids, aged : BOOLEAN] \cup {NoLease}
    BY <1>1, <1>4 DEF TypeOK
  <2> QED BY <1>1, <1>2, <1>3, <1>4, <1>5, <2>1, RegistryTyped DEF Moves
<1>7. Snap("run") \in Snapshots /\ Snap("run").status \notin TerminalStatuses
  BY <1>1, HeldSnapshot DEF SnapPcs, EnginePcs
<1>8. Sound(c.pc, c.snap, c.rec)
  BY <1>3, <1>5, <1>7 DEF Sound, Snap, SnapPcs, EnginePcs, TriedPcs, PassedPcs, RecPcs
<1>9. fs' # NoRec BY <1>3, <1>4, TaskConstants
<1> QED BY <1>1, <1>4, <1>5, <1>6, <1>8, <1>9, RegistryAdvances

\* run() writes the durable row of the worktree (engine.py: _run_impl).
LEMMA RegisterAdvances ==
    ASSUME SuccessInv, Register PROVE Advances("run")
<1>1. /\ TypeOK /\ "run" \in Ops /\ eng["run"].pc = "made" /\ row = NoRec
      /\ row' = eng["run"].rec /\ Goto("run", "registered")
      /\ UNCHANGED <<task, version, req, fs, aged, tree, clock, lease, alive, rec, cln, crashes>>
  BY DEF SuccessInv, Ops, Register, At, registry, commands
<1>2. eng["run"].rec \in WorktreeRecords
  BY <1>1 DEF SuccessInv, SoundCall, Sound, RecPcs
<1>3. PICK c \in Calls : Moves("run", c) /\ c.pc = "registered" /\ c.snap = eng["run"].snap
                         /\ c.rec = eng["run"].rec
  BY <1>1, GotoCall DEF EnginePcs
<1>4. TypeOK' BY <1>1, <1>2, <1>3 DEF TypeOK, Moves, Calls
<1>5. Snap("run") \in Snapshots /\ Snap("run").status \notin TerminalStatuses
  BY <1>1, HeldSnapshot DEF SnapPcs, EnginePcs
<1>6. SoundCall("run")' /\ RowHolds("run")'
  BY <1>2, <1>3, <1>5
  DEF Moves, SoundCall, Sound, RowHolds, Snap, SnapPcs, EnginePcs, TriedPcs, PassedPcs, RecPcs
<1> QED BY <1>1, <1>3, <1>4, <1>6 DEF Advances, Moves, RowKept, TaskFollows

\* The reads of resume() and the lease's look at the registry.
LEMMA ReadAdvances ==
    ASSUME SuccessInv, NEW o \in Ops,
           ResumeRecord(o) \/ ResumeVersion(o) \/ LeaseCheck(o) \/ Commit(o) \/ CancelSeen(o)
    PROVE  Advances(o)
<1> USE DEF At, SnapPcs, EnginePcs, TriedPcs, PassedPcs, RecPcs
<1>1. TypeOK /\ eng[o] \in Calls BY TypedCalls DEF SuccessInv
<1>2. PICK e \in Calls : e = eng[o] BY <1>1
<1>3. Sound(e.pc, e.snap, e.rec) BY <1>2 DEF SuccessInv, SoundCall
<1>4. ASSUME NEW c \in Calls, Only(o, c), Sound(c.pc, c.snap, c.rec), c.pc # "row_complete"
      PROVE  Advances(o)
  <2>1. Moves(o, c) BY <1>1, <1>4, SetCall DEF Only
  <2>2. lease' \in [op : Ops, pid : Pids, aged : BOOLEAN] \cup {NoLease}
    BY <1>1, <1>4 DEF TypeOK, Only
  <2> QED BY <1>4, <2>1, <2>2, QuietAdvances DEF Only
<1>5. CASE ResumeRecord(o)
  <2> DEFINE c == [e EXCEPT !.pc = "version", !.rec = fs]
  <2>1. c \in Calls /\ c.pc = "version" /\ c.snap = e.snap BY <1>1 DEF Calls, TypeOK
  <2>2. Only(o, c) /\ e.pc = "record" BY <1>2, <1>5 DEF ResumeRecord
  <2> HIDE DEF c
  <2>3. Sound(c.pc, c.snap, c.rec) BY <1>3, <2>1, <2>2 DEF Sound
  <2> QED BY <1>4, <2>1, <2>2, <2>3
<1>6. CASE ResumeVersion(o)
  <2> DEFINE c == [e EXCEPT !.pc = "lease_check", !.ver = version]
  <2>1. c \in Calls /\ c.pc = "lease_check" /\ c.snap = e.snap BY <1>1 DEF Calls, TypeOK
  <2>2. Only(o, c) /\ e.pc = "version" BY <1>2, <1>6 DEF ResumeVersion
  <2> HIDE DEF c
  <2>3. Sound(c.pc, c.snap, c.rec) BY <1>3, <2>1, <2>2 DEF Sound
  <2> QED BY <1>4, <2>1, <2>2, <2>3
<1>7. CASE LeaseCheck(o)
  <2> DEFINE c == [e EXCEPT !.pc = "lease_wait"]
  <2>1. c \in Calls /\ c.pc = "lease_wait" /\ c.snap = e.snap BY DEF Calls
  <2>2. Only(o, c) /\ e.pc = "lease_check" BY <1>2, <1>7 DEF LeaseCheck
  <2> HIDE DEF c
  <2>3. Sound(c.pc, c.snap, c.rec) BY <1>3, <2>1, <2>2 DEF Sound
  <2> QED BY <1>4, <2>1, <2>2, <2>3
<1>8. CASE Commit(o)
  <2> DEFINE c == [e EXCEPT !.pc = "committed"]
  <2>1. c \in Calls /\ c.pc = "committed" /\ c.snap = e.snap BY DEF Calls
  <2>2. Only(o, c) /\ e.pc = "passed" BY <1>2, <1>8 DEF Commit
  <2> HIDE DEF c
  <2>3. Sound(c.pc, c.snap, c.rec) BY <1>3, <2>1, <2>2 DEF Sound
  <2> QED BY <1>4, <2>1, <2>2, <2>3
<1>9. CASE CancelSeen(o)
  <2> DEFINE c == [e EXCEPT !.pc = "cancel"]
  <2>1. c \in Calls /\ c.pc = "cancel" /\ c.snap = e.snap BY DEF Calls
  <2>2. Only(o, c) /\ e.pc \in {"executing", "verified", "reviewing"}
    BY <1>2, <1>9 DEF CancelSeen
  <2> HIDE DEF c
  <2>3. Sound(c.pc, c.snap, c.rec) BY <1>3, <2>1, <2>2 DEF Sound
  <2> QED BY <1>4, <2>1, <2>2, <2>3
<1> QED BY <1>5, <1>6, <1>7, <1>8, <1>9

\* A call takes the lease only when it is free or stale (worktrees.py: acquire).
LEMMA AcquireAdvances ==
    ASSUME SuccessInv, NEW o \in Ops, Acquire(o) PROVE Advances(o)
<1>1. /\ TypeOK /\ eng[o] \in Calls /\ eng[o].pid \in Pids /\ eng[o].pc = "lease_wait"
  BY TypedCalls DEF SuccessInv, Calls, Acquire, At
<1>2. lease' \in [op : Ops, pid : Pids, aged : BOOLEAN] \cup {NoLease}
  BY <1>1 DEF Acquire
<1>3. PICK pc \in {"leased", "validate"} : Goto(o, pc) BY DEF Acquire
<1>4. PICK c \in Calls : Moves(o, c) /\ c.pc = pc /\ c.snap = eng[o].snap
  BY <1>1, <1>3, GotoCall DEF EnginePcs
<1>5. Snap(o) \in Snapshots /\ Snap(o).status \notin TerminalStatuses
  BY <1>1, HeldSnapshot DEF SnapPcs, EnginePcs
<1>6. Sound(c.pc, c.snap, c.rec)
  BY <1>3, <1>4, <1>5 DEF Sound, Snap, SnapPcs, EnginePcs, TriedPcs, PassedPcs, RecPcs
<1>7. CASE fs.status = "active"
  <2>1. WriteRecord([fs EXCEPT !.pid = eng[o].pid])
        /\ UNCHANGED <<task, version, row, req, alive, rec, cln, crashes>>
    BY <1>7 DEF Acquire, durable, commands
  <2>2. /\ fs' \in WorktreeRecords /\ fs' # NoRec /\ clock' \in Nat
        /\ aged' = FALSE /\ tree' = tree
    BY <1>1, <2>1, BeatRecord
  <2>3. TypeOK'
    <3>1. tree' \in BOOLEAN BY <1>1, <2>2 DEF TypeOK
    <3> QED BY <1>1, <1>2, <1>4, <2>1, <2>2, <3>1, RegistryTyped DEF Moves
  <2> QED BY <1>3, <1>4, <1>6, <2>1, <2>2, <2>3, RegistryAdvances
<1>8. CASE fs.status # "active"
  BY <1>2, <1>3, <1>4, <1>6, <1>8, QuietAdvances DEF Acquire
<1> QED BY <1>7, <1>8

\* Every step before the first attempt.
LEMMA SetupAdvances ==
    ASSUME SuccessInv, NEW o \in Ops, Setup(o) PROVE Advances(o)
<1> USE DEF SnapPcs, TriedPcs, PassedPcs, RecPcs, EnginePcs, At, TaskStatuses, TerminalStatuses
<1>1. CASE o = "run" /\ Create BY <1>1, CreateAdvances
<1>2. CASE o = "run" /\ Inspect BY <1>2, StatusAdvances DEF Inspect
<1>3. CASE o = "run" /\ Plan BY <1>3, StatusAdvances DEF Plan
<1>4. CASE o = "run" /\ MakeWorktree BY <1>4, MakeWorktreeAdvances
<1>5. CASE o = "run" /\ Register BY <1>5, RegisterAdvances
<1>6. CASE o = "run" /\ Isolate BY <1>6, IsolateAdvances
<1>7. CASE o = "run" /\ BuildContext BY <1>7, StatusAdvances DEF BuildContext
<1>8. CASE ResumeRecord(o) \/ ResumeVersion(o) \/ LeaseCheck(o) BY <1>8, ReadAdvances
<1>9. CASE ResumeValidated(o) BY <1>9, StatusAdvances DEF ResumeValidated
<1>10. CASE Acquire(o) BY <1>10, AcquireAdvances
<1> QED BY <1>1, <1>2, <1>3, <1>4, <1>5, <1>6, <1>7, <1>8, <1>9, <1>10 DEF Setup

\* resume() starts from a snapshot it has just read (engine.py: resume).
LEMMA ResumeLoadAdvances ==
    ASSUME SuccessInv, NEW o \in Resumers, NEW p \in Pids, ResumeLoad(o, p) PROVE Advances(o)
<1>1. TypeOK /\ o \in Ops /\ eng[o] \in Calls
  BY TypedCalls DEF SuccessInv, Ops
<1>2. PICK e \in Calls : e = eng[o] BY <1>1
<1>3. task \in Snapshots /\ task.status \notin TerminalStatuses
  BY <1>1 DEF ResumeLoad, TypeOK, TerminalStatuses
<1> DEFINE c == [e EXCEPT !.pc = "record", !.pid = p, !.snap = task]
<1>4. c \in Calls /\ c.pc = "record" /\ c.snap = task BY <1>3 DEF Calls, EnginePcs
<1>5. Only(o, c) BY <1>2 DEF ResumeLoad
<1> HIDE DEF c
<1>6. Moves(o, c) BY <1>1, <1>4, <1>5, SetCall DEF Only
<1>7. Sound(c.pc, c.snap, c.rec)
  BY <1>3, <1>4 DEF Sound, SnapPcs, TriedPcs, PassedPcs, RecPcs
<1>8. lease' \in [op : Ops, pid : Pids, aged : BOOLEAN] \cup {NoLease}
  BY <1>1, <1>5 DEF TypeOK, Only
<1> QED BY <1>1, <1>4, <1>5, <1>6, <1>7, <1>8, QuietAdvances DEF Only

-----------------------------------------------------------------------------
(* Completion, cancellation and handoff *)

\* A call that marked the registry record carries what it wrote.
LEMMA FsWriterAdvances ==
    ASSUME SuccessInv, NEW o \in Ops, NEW pc \in {"fs_complete", "cancel_row", "h_row"},
           eng[o].pc \in {"committed", "cancel", "h_orphan"},
           pc = "fs_complete" <=> eng[o].pc = "committed",
           pc = "cancel_row" <=> eng[o].pc = "cancel",
           fs' \in WorktreeRecords, clock' \in Nat, aged' = FALSE, tree' = tree,
           pc = "fs_complete" => fs'.status = "complete" /\ fs'.completed # NoTime,
           Carry(o, pc, fs'),
           UNCHANGED <<req, durable, lease, alive, commands, crashes>>
    PROVE  Advances(o)
<1>1. TypeOK BY DEF SuccessInv
<1>2. PICK r \in WorktreeRecords : r = fs' OBVIOUS
<1>3. PICK c \in Calls : Moves(o, c) /\ c.pc = pc /\ c.rec = r /\ c.snap = eng[o].snap
  BY <1>1, <1>2, CarryCall DEF EnginePcs
<1>4. TypeOK'
  <2>1. tree' \in BOOLEAN /\ lease' \in [op : Ops, pid : Pids, aged : BOOLEAN] \cup {NoLease}
    BY <1>1 DEF TypeOK
  <2> QED BY <1>1, <1>3, <2>1, RegistryTyped DEF Moves, durable, commands
<1>5. Sound(eng[o].pc, eng[o].snap, eng[o].rec) BY DEF SuccessInv, SoundCall
<1>6. Sound(c.pc, c.snap, c.rec)
  BY <1>2, <1>3, <1>5 DEF Sound, SnapPcs, EnginePcs, TriedPcs, PassedPcs, RecPcs
<1>7. fs' # NoRec BY TaskConstants
<1> QED BY <1>3, <1>4, <1>6, <1>7, RegistryAdvances DEF durable, commands

\* A call that marked the durable row with the record it carries.
LEMMA RowWriterAdvances ==
    ASSUME SuccessInv, NEW o \in Ops,
           NEW from \in {"fs_complete", "cancel_row"}, eng[o].pc = from,
           NEW pc \in {"row_complete", "cancel_final"},
           pc = "row_complete" <=> from = "fs_complete",
           UpdateRow(eng[o].rec), Goto(o, pc),
           UNCHANGED <<req, registry, lease, alive, commands, crashes>>
    PROVE  Advances(o)
<1>1. TypeOK /\ Sound(eng[o].pc, eng[o].snap, eng[o].rec) BY DEF SuccessInv, SoundCall
<1>2. PICK c \in Calls : Moves(o, c) /\ c.pc = pc /\ c.snap = eng[o].snap /\ c.rec = eng[o].rec
  BY <1>1, GotoCall DEF EnginePcs
<1>3. eng[o].rec \in WorktreeRecords BY <1>1 DEF Sound, RecPcs
<1>4. RowKept /\ row' = eng[o].rec /\ task' = task /\ version' = version
  BY <1>3, UpdateKeepsRow
<1>5. TypeOK'
  BY <1>1, <1>2, <1>3, <1>4 DEF TypeOK, Moves, Calls, registry, commands
<1>6. Sound(c.pc, c.snap, c.rec)
  BY <1>1, <1>2 DEF Sound, SnapPcs, EnginePcs, TriedPcs, PassedPcs, RecPcs
<1>7. row' # NoRec BY <1>3, <1>4, TaskConstants
<1>8. SoundCall(o)' /\ RowHolds(o)'
  BY <1>2, <1>4, <1>6, <1>7 DEF Moves, SoundCall, RowHolds
<1> QED BY <1>2, <1>4, <1>5, <1>8 DEF Advances, Moves, TaskFollows, registry, commands

\* The task is completed on what the call holds and the row already says.
LEMMA CompletedAdvances ==
    ASSUME SuccessInv, NEW o \in Ops, Completed(o) PROVE Advances(o)
<1>1. /\ eng[o].pc = "row_complete" /\ Snap(o).review = "ok"
      /\ EngineTransition(o, [In(o, "completed") EXCEPT !.wt = eng[o].rec], "release")
  BY DEF Completed, At
<1>2. Snap(o) \in Snapshots BY <1>1, HeldSnapshot DEF SnapPcs, EnginePcs
<1>3. /\ Sound(eng[o].pc, eng[o].snap, eng[o].rec) /\ RowHolds(o) /\ TypeOK
  BY DEF SuccessInv, SoundCall
<1>4. /\ eng[o].rec \in WorktreeRecords /\ eng[o].rec.status = "complete"
      /\ eng[o].rec.completed # NoTime
      /\ row # NoRec /\ row.completed = eng[o].rec.completed
      /\ Snap(o).att # <<>> /\ Snap(o).att[Len(Snap(o).att)] = "passed"
  BY <1>1, <1>3 DEF Sound, RowHolds, RecPcs, PassedPcs, TriedPcs, Snap
<1> DEFINE i == In(o, "completed")
           new == [i EXCEPT !.wt = eng[o].rec]
<1>5. i \in Snapshots /\ i.att = Snap(o).att /\ i.review = "ok"
  BY <1>1, <1>2, InFields DEF TaskStatuses
<1> HIDE DEF i
<1>6. new \in Snapshots /\ new.att = i.att /\ new.review = "ok" /\ new.wt = eng[o].rec
  BY <1>4, <1>5 DEF Snapshots
<1>7. EngineTransition(o, new, "release") BY <1>1 DEF i
<1> HIDE DEF new
<1>8. /\ eng' = [eng EXCEPT ![o].pc = "release", ![o].snap = new, ![o].ver = version + 1]
      /\ task' = new /\ version' = version + 1
      /\ UNCHANGED <<row, req, fs, aged, tree, clock, lease, alive, rec, cln, crashes>>
  BY <1>7 DEF EngineTransition, StoreTransition, registry, commands
<1>9. PICK c \in Calls : Moves(o, c) /\ c.pc = "release"
  <2>1. PICK e \in Calls : e = eng[o] BY <1>3, TypedCalls
  <2>2. PICK v \in Nat : v = version + 1 BY <1>3 DEF TypeOK
  <2> DEFINE c == [e EXCEPT !.pc = "release", !.snap = new, !.ver = v]
  <2>3. c \in Calls /\ c.pc = "release" BY <1>6 DEF Calls, EnginePcs
  <2>4. eng' = [eng EXCEPT ![o] = c] BY <1>8, <2>1, <2>2
  <2> HIDE DEF c
  <2>5. Moves(o, c) BY <1>3, <2>3, <2>4, SetCall
  <2> QED BY <2>3, <2>5
<1>10. TypeOK' BY <1>3, <1>6, <1>8, <1>9 DEF TypeOK, Moves, Calls
<1>11. SoundCall(o)' /\ RowHolds(o)'
  BY <1>9 DEF Moves, SoundCall, Sound, RowHolds, SnapPcs, TriedPcs, PassedPcs, RecPcs
<1>12. Earned' BY <1>4, <1>5, <1>6, <1>8 DEF Earned
<1> QED BY <1>8, <1>9, <1>10, <1>11, <1>12 DEF Advances, Moves, RowKept, TaskFollows

\* The handoff brings the row, then the snapshot, up to the registry.
LEMMA HandoffSyncAdvances ==
    ASSUME SuccessInv, NEW o \in Ops, HandoffSyncRow(o) PROVE Advances(o)
<1>1. TypeOK /\ eng[o].pc = "handoff" /\ fs # NoRec /\ fs \in WorktreeRecords
  BY DEF SuccessInv, HandoffSyncRow, ScopeOk, At, TypeOK
<1>2. Carry(o, "handoff_sync", fs)
      /\ UNCHANGED <<req, fs, aged, tree, clock, lease, alive, rec, cln, crashes>>
  BY DEF HandoffSyncRow, Carry, registry, commands
<1>3. PICK c \in Calls : Moves(o, c) /\ c.pc = "handoff_sync" /\ c.rec = fs /\ c.snap = eng[o].snap
  BY <1>1, <1>2, CarryCall DEF EnginePcs
<1>4. /\ RowKept /\ task' = task /\ version' = version
      /\ row' \in WorktreeRecords \cup {NoRec}
  <2>1. CASE fs = row BY <1>1, <2>1 DEF HandoffSyncRow, RowKept, durable
  <2>2. CASE fs # row
    <3>1. UpdateRow(fs) BY <2>2 DEF HandoffSyncRow
    <3> QED BY <1>1, <3>1, UpdateKeepsRow
  <2> QED BY <2>1, <2>2
<1>5. TypeOK' BY <1>1, <1>2, <1>3, <1>4 DEF TypeOK, Moves, Calls
<1>6. Snap(o) \in Snapshots /\ Snap(o).status \notin TerminalStatuses
  BY <1>1, HeldSnapshot DEF SnapPcs, EnginePcs
<1>7. SoundCall(o)' /\ RowHolds(o)'
  BY <1>1, <1>3, <1>6
  DEF Moves, SoundCall, Sound, RowHolds, Snap, SnapPcs, EnginePcs, TriedPcs, PassedPcs, RecPcs
<1> QED BY <1>2, <1>3, <1>4, <1>5, <1>7 DEF Advances, Moves, TaskFollows

\* Every step from the commit gate to the end of the flow (engine.py: _execute_flow).
LEMMA FinishAdvances ==
    ASSUME SuccessInv, NEW o \in Ops, Finish(o) PROVE Advances(o)
<1> USE DEF SnapPcs, TriedPcs, PassedPcs, RecPcs, EnginePcs, At
<1>1. CASE Commit(o) \/ CancelSeen(o) BY <1>1, ReadAdvances
<1>2. CASE CompleteFs(o)
  <2>1. TypeOK /\ fs \in WorktreeRecords /\ clock \in Nat
    BY <1>2 DEF SuccessInv, TypeOK, CompleteFs, WriteRecord
  <2>2. PICK h \in Nat : h = clock + 1 BY <2>1
  <2> DEFINE r == [fs EXCEPT !.status = "complete", !.completed = h]
  <2>3. r \in WorktreeRecords /\ r.status = "complete" /\ r.completed = h
    BY <2>1 DEF WorktreeRecords, WorktreeStatuses
  <2>4. WriteRecord(r) BY <1>2, <2>2 DEF CompleteFs
  <2> HIDE DEF r
  <2>5. /\ fs' \in WorktreeRecords /\ fs'.status = "complete" /\ fs'.completed = h
        /\ clock' \in Nat /\ aged' = FALSE /\ tree' = tree
    BY <2>1, <2>3, <2>4, WrittenRecord
  <2>6. fs'.completed # NoTime BY <2>1, <2>2, <2>5 DEF NoTime
  <2>7. Carry(o, "fs_complete", fs') BY <1>2 DEF CompleteFs, Carry
  <2> QED BY <1>2, <2>5, <2>6, <2>7, FsWriterAdvances DEF CompleteFs
<1>3. CASE PreserveFs(o)
  <2>1. TypeOK /\ MarkOrphaned BY <1>3 DEF SuccessInv, PreserveFs
  <2>2. fs' \in WorktreeRecords /\ clock' \in Nat /\ aged' = FALSE /\ tree' = tree
    BY <2>1, OrphanedRecord
  <2>3. Carry(o, "cancel_row", fs') BY <1>3 DEF PreserveFs, Carry
  <2> QED BY <1>3, <2>2, <2>3, FsWriterAdvances DEF PreserveFs
<1>4. CASE CompleteRow(o) BY <1>4, RowWriterAdvances DEF CompleteRow
<1>5. CASE PreserveRow(o) BY <1>5, RowWriterAdvances DEF PreserveRow
<1>6. CASE Completed(o) BY <1>6, CompletedAdvances
<1>7. CASE Cancelled(o)
  <2> DEFINE i == Ended(o, "cancelled", "cancelled")
             new == [i EXCEPT !.wt = eng[o].rec]
  <2>1. /\ Snap(o) \in Snapshots /\ Snap(o).att # <<>> /\ eng[o].pc = "cancel_final"
    BY <1>7, HeldSnapshot DEF Cancelled
  <2>2. eng[o].rec \in WorktreeRecords BY <2>1 DEF SuccessInv, SoundCall, Sound
  <2>3. i \in Snapshots /\ i.status = "cancelled"
    BY <2>1, EndedFields DEF TaskStatuses, AttemptStatuses
  <2>4. EngineTransition(o, new, "release") BY <1>7 DEF Cancelled
  <2> HIDE DEF i
  <2>5. new \in Snapshots /\ new.status = "cancelled" BY <2>2, <2>3 DEF Snapshots
  <2> HIDE DEF new
  <2>6. Sound("release", new, eng[o].rec) BY DEF Sound
  <2> QED BY <2>4, <2>5, <2>6, TransitionAdvances
<1>8. CASE HandoffSyncRow(o) BY <1>8, HandoffSyncAdvances
<1>9. CASE HandoffSyncSnapshot(o)
  <2> DEFINE new == [Snap(o) EXCEPT !.wt = eng[o].rec]
  <2>1. /\ Snap(o) \in Snapshots /\ Snap(o).status \notin TerminalStatuses
        /\ eng[o].pc = "handoff_sync"
    BY <1>9, HeldSnapshot DEF HandoffSyncSnapshot
  <2>2. eng[o].rec \in WorktreeRecords BY <2>1 DEF SuccessInv, SoundCall, Sound
  <2>3. new \in Snapshots /\ new.status = Snap(o).status BY <2>1, <2>2 DEF Snapshots
  <2>4. EngineTransition(o, new, "handoff_prepare") BY <1>9 DEF HandoffSyncSnapshot
  <2> HIDE DEF new
  <2>5. Sound("handoff_prepare", new, eng[o].rec) BY <2>1, <2>3 DEF Sound
  <2>6. new.status # "completed" BY <2>1, <2>3 DEF TerminalStatuses
  <2> QED BY <2>3, <2>4, <2>5, <2>6, TransitionAdvances
<1>10. CASE HandoffPrepared(o)
  <2>1. Snap(o) \in Snapshots /\ Snap(o).status \notin TerminalStatuses
    BY <1>10, HeldSnapshot DEF HandoffPrepared
  <2>2. Sound("handoff_ready", Snap(o), eng[o].rec) BY <2>1 DEF Sound
  <2>3. Snap(o).status # "completed" BY <2>1 DEF TerminalStatuses
  <2> QED BY <1>10, <2>1, <2>2, <2>3, TransitionAdvances DEF HandoffPrepared
<1> USE DEF TaskStatuses, TerminalStatuses
<1>11. CASE Block(o) BY <1>11, StatusAdvances DEF Block
<1>12. CASE HandoffPrivacyBlocked(o) BY <1>12, StatusAdvances DEF HandoffPrivacyBlocked
<1>13. CASE HandoffReady(o) BY <1>13, StatusAdvances DEF HandoffReady
<1> QED BY <1>1, <1>2, <1>3, <1>4, <1>5, <1>6, <1>7, <1>8, <1>9, <1>10, <1>11, <1>12, <1>13
        DEF Finish

-----------------------------------------------------------------------------
(* Exceptions and run()'s handler *)

\* A call that is leaving, or has left, carries nothing the invariant asks about.
LEMMA LeftIsSound ==
    ASSUME NEW pc \in {"release_raise", "h_load", "done", "raised"}, NEW snap, NEW r
    PROVE  Sound(pc, snap, r) /\ pc # "row_complete" /\ pc \in EnginePcs
BY DEF Sound, SnapPcs, TriedPcs, PassedPcs, RecPcs, EnginePcs

\* Leaving the body or the lease writes no task.
LEMMA LeavingAdvances ==
    ASSUME SuccessInv, NEW o \in Ops, NEW pc \in {"release_raise", "h_load", "done", "raised"},
           Goto(o, pc) \/ Return(o, pc),
           lease' \in {lease, NoLease},
           UNCHANGED <<req, durable, registry, alive, commands, crashes>>
    PROVE  Advances(o)
<1>1. TypeOK /\ pc \in EnginePcs BY LeftIsSound DEF SuccessInv
<1>2. PICK c \in Calls : Moves(o, c) /\ c.pc = pc BY <1>1, GotoCall, ReturnCall
<1>3. lease' \in [op : Ops, pid : Pids, aged : BOOLEAN] \cup {NoLease} BY <1>1 DEF TypeOK
<1>4. Sound(c.pc, c.snap, c.rec) /\ c.pc # "row_complete" BY <1>2, LeftIsSound
<1> QED BY <1>2, <1>3, <1>4, QuietAdvances

\* An exception leaves the body of run or resume.
LEMMA LeaveBodyAdvances ==
    ASSUME SuccessInv, NEW o \in Ops, LeaveBody(o) PROVE Advances(o)
<1>1. CASE HoldsLease(o) BY <1>1, LeavingAdvances DEF LeaveBody
<1>2. CASE ~HoldsLease(o) BY <1>2, LeavingAdvances DEF LeaveBody, Unwind
<1> QED BY <1>1, <1>2

\* Releasing the lease, or failing to (worktrees.py: release).
LEMMA ReleaseAdvances ==
    ASSUME SuccessInv, NEW o \in Ops, Release(o) \/ ReleaseFails(o) PROVE Advances(o)
<1>1. \E pc \in {"release_raise", "h_load", "done", "raised"} : Goto(o, pc) \/ Return(o, pc)
  BY DEF Release, ReleaseFails, Unwind
<1> QED BY <1>1, LeavingAdvances DEF Release, ReleaseFails

\* The handler of run() reads the task again (engine.py: run, except).
LEMMA HandlerLoadAdvances ==
    ASSUME SuccessInv, HandlerLoad PROVE Advances("run")
<1>1. "run" \in Ops /\ TypeOK BY DEF Ops, SuccessInv
<1>2. CASE task = NoTask \/ task.status \in TerminalStatuses
  BY <1>1, <1>2, LeavingAdvances DEF HandlerLoad
<1>3. CASE ~(task = NoTask \/ task.status \in TerminalStatuses)
  <2>1. task \in Snapshots /\ task.status \notin TerminalStatuses BY <1>1, <1>3 DEF TypeOK
  <2>2. PICK e \in Calls : e = eng["run"] BY <1>1, TypedCalls
  <2> DEFINE c == [e EXCEPT !.pc = "h_version", !.snap = task]
  <2>3. c \in Calls /\ c.pc = "h_version" /\ c.snap = task BY <2>1 DEF Calls, EnginePcs
  <2>4. eng' = [eng EXCEPT !["run"] = c]
    <3>1. eng' = [eng EXCEPT !["run"].pc = "h_version", !["run"].snap = task]
      BY <1>3 DEF HandlerLoad
    <3> QED BY <2>2, <3>1
  <2> HIDE DEF c
  <2>5. Moves("run", c) BY <1>1, <2>3, <2>4, SetCall
  <2>6. Sound(c.pc, c.snap, c.rec)
    BY <2>1, <2>3 DEF Sound, SnapPcs, TriedPcs, PassedPcs, RecPcs
  <2>7. lease' \in [op : Ops, pid : Pids, aged : BOOLEAN] \cup {NoLease}
    BY <1>1 DEF TypeOK, HandlerLoad
  <2> QED BY <1>1, <2>3, <2>5, <2>6, <2>7, QuietAdvances DEF HandlerLoad
<1> QED BY <1>2, <1>3

\* The handler of run() reads the version it will write with.
LEMMA HandlerVersionAdvances ==
    ASSUME SuccessInv, HandlerVersion PROVE Advances("run")
<1>1. "run" \in Ops /\ TypeOK /\ eng["run"].pc = "h_version"
  BY DEF Ops, SuccessInv, HandlerVersion, At
<1>2. PICK e \in Calls : e = eng["run"] BY <1>1, TypedCalls
<1>3. PICK pc \in {"h_final", "h_orphan"} :
         Only("run", [eng["run"] EXCEPT !.ver = version, !.pc = pc])
  BY DEF HandlerVersion
<1> DEFINE c == [e EXCEPT !.ver = version, !.pc = pc]
<1>4. c \in Calls /\ c.pc = pc /\ c.snap = e.snap BY <1>1 DEF Calls, EnginePcs, TypeOK
<1>5. Only("run", c) BY <1>2, <1>3
<1> HIDE DEF c
<1>6. Moves("run", c) BY <1>1, <1>4, <1>5, SetCall DEF Only
<1>7. Snap("run") \in Snapshots /\ Snap("run").status \notin TerminalStatuses
  BY <1>1, HeldSnapshot DEF SnapPcs, EnginePcs
<1>8. Sound(c.pc, c.snap, c.rec)
  BY <1>2, <1>4, <1>7 DEF Sound, Snap, SnapPcs, TriedPcs, PassedPcs, RecPcs
<1>9. lease' \in [op : Ops, pid : Pids, aged : BOOLEAN] \cup {NoLease}
  BY <1>1, <1>5 DEF TypeOK, Only
<1> QED BY <1>1, <1>4, <1>5, <1>6, <1>8, <1>9, QuietAdvances DEF Only

\* The handler of run() marks the registry file orphaned.
LEMMA HandlerOrphanAdvances ==
    ASSUME SuccessInv, HandlerOrphan PROVE Advances("run")
<1>1. "run" \in Ops /\ TypeOK /\ eng["run"].pc = "h_orphan"
  BY DEF Ops, SuccessInv, HandlerOrphan, At
<1>2. CASE CanOrphan
  <2>1. MarkOrphaned /\ Carry("run", "h_row", fs') BY <1>2 DEF HandlerOrphan, Carry
  <2>2. fs' \in WorktreeRecords /\ clock' \in Nat /\ aged' = FALSE /\ tree' = tree
    BY <1>1, <2>1, OrphanedRecord
  <2> QED BY <1>1, <2>1, <2>2, FsWriterAdvances DEF HandlerOrphan
<1>3. CASE ~CanOrphan
  <2>1. PICK c \in Calls : Moves("run", c) /\ c.pc = "h_final" /\ c.snap = eng["run"].snap
    BY <1>1, <1>3, GotoCall DEF HandlerOrphan, EnginePcs
  <2>2. Snap("run") \in Snapshots /\ Snap("run").status \notin TerminalStatuses
    BY <1>1, HeldSnapshot DEF SnapPcs, EnginePcs
  <2>3. Sound(c.pc, c.snap, c.rec)
    BY <2>1, <2>2 DEF Sound, Snap, SnapPcs, TriedPcs, PassedPcs, RecPcs
  <2>4. lease' \in [op : Ops, pid : Pids, aged : BOOLEAN] \cup {NoLease}
    BY <1>1 DEF TypeOK, HandlerOrphan
  <2> QED BY <1>1, <1>3, <2>1, <2>3, <2>4, QuietAdvances DEF HandlerOrphan
<1> QED BY <1>2, <1>3

\* The handler of run() marks the durable row orphaned.
LEMMA HandlerRowAdvances ==
    ASSUME SuccessInv, HandlerRow PROVE Advances("run")
<1>1. "run" \in Ops /\ TypeOK /\ eng["run"].pc = "h_row"
  BY DEF Ops, SuccessInv, HandlerRow, At
<1>2. /\ Snap("run") \in Snapshots /\ Snap("run").status \notin TerminalStatuses
      /\ eng["run"].rec \in WorktreeRecords
  BY <1>1, HeldSnapshot DEF SnapPcs, EnginePcs, SuccessInv, SoundCall, Sound, RecPcs
<1>3. UNCHANGED <<req, fs, aged, tree, clock, lease, alive, rec, cln, crashes>>
  BY DEF HandlerRow, registry, commands
<1>4. PICK e \in Calls : e = eng["run"] BY <1>1, TypedCalls
<1>5. CASE RowAccepts(eng["run"].rec)
  <2>1. /\ UpdateRow(e.rec)
        /\ eng' = [eng EXCEPT !["run"].pc = "h_final",
                              !["run"].snap = [@ EXCEPT !.wt = eng["run"].rec]]
    BY <1>4, <1>5 DEF HandlerRow
  <2>2. RowKept /\ row' = e.rec /\ task' = task /\ version' = version
    BY <1>2, <1>4, <2>1, UpdateKeepsRow
  <2> DEFINE s == [e.snap EXCEPT !.wt = e.rec]
  <2>3. s \in Snapshots /\ s.status \notin TerminalStatuses
    BY <1>2, <1>4 DEF Snapshots, Snap
  <2>4. eng' = [eng EXCEPT !["run"].pc = "h_final", !["run"].snap = s] BY <1>4, <2>1
  <2> HIDE DEF s
  <2> DEFINE c == [e EXCEPT !.pc = "h_final", !.snap = s]
  <2>5. c \in Calls /\ c.pc = "h_final" /\ c.snap = s BY <2>3 DEF Calls, EnginePcs
  <2>6. eng' = [eng EXCEPT !["run"] = c] BY <1>4, <2>4
  <2> HIDE DEF c
  <2>7. Moves("run", c) BY <1>1, <2>5, <2>6, SetCall
  <2>8. TypeOK' BY <1>1, <1>2, <1>3, <1>4, <2>2, <2>7 DEF TypeOK, Moves, Calls
  <2>9. SoundCall("run")' /\ RowHolds("run")'
    BY <2>3, <2>5, <2>7
    DEF Moves, SoundCall, Sound, RowHolds, SnapPcs, TriedPcs, PassedPcs, RecPcs
  <2> QED BY <1>3, <2>2, <2>7, <2>8, <2>9 DEF Advances, Moves, TaskFollows
<1>6. CASE ~RowAccepts(eng["run"].rec)
  <2>1. PICK c \in Calls : Moves("run", c) /\ c.pc = "h_final" /\ c.snap = eng["run"].snap
    BY <1>1, <1>6, GotoCall DEF HandlerRow, EnginePcs
  <2>2. Sound(c.pc, c.snap, c.rec)
    BY <1>2, <2>1 DEF Sound, Snap, SnapPcs, TriedPcs, PassedPcs, RecPcs
  <2>3. lease' \in [op : Ops, pid : Pids, aged : BOOLEAN] \cup {NoLease}
    BY <1>1, <1>3 DEF TypeOK
  <2> QED BY <1>1, <1>6, <2>1, <2>2, <2>3, QuietAdvances DEF HandlerRow
<1> QED BY <1>5, <1>6

\* The handler of run() ends the task as FAILED or CANCELLED.
LEMMA HandlerFinalAdvances ==
    ASSUME SuccessInv, NEW status \in {"failed", "cancelled"}, HandlerFinal(status)
    PROVE  Advances("run")
<1>1. "run" \in Ops /\ TypeOK /\ eng["run"].pc = "h_final" /\ Return("run", "raised")
  BY DEF Ops, SuccessInv, HandlerFinal, At
<1>2. Snap("run") \in Snapshots BY <1>1, HeldSnapshot DEF SnapPcs, EnginePcs
<1> DEFINE new == In("run", status)
<1>3. new \in Snapshots /\ new.status = status
  BY <1>1, <1>2, InFields DEF TaskStatuses
<1>4. UNCHANGED <<req, fs, aged, tree, clock, lease, alive, rec, cln, crashes>>
  BY DEF HandlerFinal, registry, commands
<1>5. ((task' = new /\ version' = version + 1) \/ UNCHANGED <<task, version>>) /\ row' = row
  BY DEF HandlerFinal, StoreTransition, durable
<1> HIDE DEF new
<1>6. PICK c \in Calls : Moves("run", c) /\ c.pc = "raised"
  BY <1>1, ReturnCall DEF EnginePcs
<1>7. TypeOK' BY <1>1, <1>3, <1>4, <1>5, <1>6 DEF TypeOK, Moves, Calls
<1>8. SoundCall("run")' /\ RowHolds("run")'
  BY <1>6 DEF Moves, SoundCall, Sound, RowHolds, SnapPcs, TriedPcs, PassedPcs, RecPcs
<1>9. RowKept /\ TaskFollows BY <1>3, <1>5 DEF RowKept, TaskFollows, IsCompleted
<1> QED BY <1>4, <1>6, <1>7, <1>8, <1>9 DEF Advances, Moves

\* Every step of the unwinding of a call.
LEMMA UnwindingAdvances ==
    ASSUME SuccessInv, NEW o \in Ops, Unwinding(o) PROVE Advances(o)
<1>1. CASE Raise(o) BY <1>1, LeaveBodyAdvances DEF Raise
<1>2. CASE Release(o) BY <1>2, ReleaseAdvances
<1>3. CASE o = "run" /\ (HandlerLoad \/ HandlerVersion \/ HandlerOrphan \/ HandlerRow)
  BY <1>3, HandlerLoadAdvances, HandlerVersionAdvances, HandlerOrphanAdvances, HandlerRowAdvances
<1>4. CASE o = "run" /\ \E status \in {"failed", "cancelled"} : HandlerFinal(status)
  BY <1>4, HandlerFinalAdvances
<1> QED BY <1>1, <1>2, <1>3, <1>4 DEF Unwinding

-----------------------------------------------------------------------------
(* The operator commands and the environment: no call moves *)

\* Every call keeps its local state.
LEMMA CallsKept ==
    ASSUME SuccessInv, eng' = eng, RowKept
    PROVE  \A o \in Ops : SoundCall(o)' /\ RowHolds(o)'
<1> SUFFICES ASSUME NEW o \in Ops PROVE SoundCall(o)' /\ RowHolds(o)'
  OBVIOUS
<1>1. SoundCall(o) /\ RowHolds(o) BY DEF SuccessInv
<1> QED BY <1>1 DEF SoundCall, Sound, RowHolds, RowKept

\* A recover step leaves cleanup alone, and the other way round.
LEMMA RecoverPreserves ==
    ASSUME SuccessInv, RecoverStart \/ Recover PROVE SuccessInv'
<1>1. TypeOK /\ RecoverSound /\ CleanupSound BY DEF SuccessInv
<1>2. /\ eng' = eng /\ cln' = cln /\ UNCHANGED <<req, lease, alive, crashes>>
  BY DEF RecoverStart, Recover, RecoverState, RecoverMark, RecoverOrphans, RecoverRow,
         RecoverLoad, RecoverVersion, RecoverFinal, RecOnly
<1> DEFINE RecPc == {"idle", "state", "mark", "orphans", "row", "load", "version", "final"}
           Recs == [pc : RecPc, seen : WorktreeRecords \cup {NoRec}, snap : Snapshots \cup {NoTask},
                    ver : Nat, calls : Nat]
<1>3. rec \in Recs BY <1>1 DEF TypeOK
<1>4. RecoverIdle \in Recs /\ RecoverIdle.pc = "idle" BY <1>3 DEF RecoverIdle
<1>5. ASSUME rec' \in Recs, RecoverSound',
             fs' \in WorktreeRecords \cup {NoRec}, fs # NoRec => fs' # NoRec,
             aged' \in BOOLEAN, tree' = tree, clock' \in Nat,
             task' \in Snapshots \cup {NoTask}, version' \in Nat, TaskFollows,
             row' \in WorktreeRecords \cup {NoRec}, RowKept
      PROVE  SuccessInv'
  <2>1. TypeOK' BY <1>1, <1>2, <1>5 DEF TypeOK
  <2>2. CleanupSound' BY <1>1, <1>2, <1>5 DEF CleanupSound
  <2>3. \A o \in Ops : SoundCall(o)' /\ RowHolds(o)' BY <1>2, <1>5, CallsKept
  <2>4. IsCompleted' => Earned' BY <1>5, EarnedKept DEF SuccessInv
  <2> QED BY <1>5, <2>1, <2>2, <2>3, <2>4 DEF SuccessInv
<1>6. ASSUME rec' \in Recs, RecoverSound', UNCHANGED <<durable, registry>>
      PROVE  SuccessInv'
  BY <1>1, <1>5, <1>6 DEF durable, registry, TypeOK, TaskFollows, RowKept
<1>7. ASSUME MarkOrphaned, rec' = [rec EXCEPT !.pc = "row", !.seen = fs'], UNCHANGED durable
      PROVE  SuccessInv'
  <2>1. /\ fs' \in WorktreeRecords /\ fs' # NoRec /\ clock' \in Nat
        /\ aged' = FALSE /\ tree' = tree
    BY <1>1, <1>7, OrphanedRecord
  <2>2. rec' \in Recs /\ rec'.pc = "row" /\ rec'.seen = fs' BY <1>3, <1>7, <2>1
  <2>3. RecoverSound' BY <2>1, <2>2 DEF RecoverSound
  <2> QED BY <1>1, <1>5, <1>7, <2>1, <2>2, <2>3 DEF durable, TypeOK, TaskFollows, RowKept
<1>8. CASE RecoverStart
  <2>1. PICK pc \in {"state", "orphans"}, n \in Nat : rec' = [rec EXCEPT !.pc = pc, !.calls = n]
    <3>1. rec.calls + 1 \in Nat BY <1>3
    <3> QED BY <1>8, <3>1 DEF RecoverStart, RecOnly
  <2>2. rec' \in Recs /\ rec'.pc = pc BY <1>3, <2>1
  <2>3. RecoverSound' BY <2>2 DEF RecoverSound
  <2> QED BY <1>6, <1>8, <2>2, <2>3 DEF RecoverStart, RecOnly
<1>9. CASE RecoverState
  <2>1. PICK pc \in {"mark", "orphans"} : rec' = [rec EXCEPT !.pc = pc]
    BY <1>9 DEF RecoverState, RecOnly
  <2>2. rec' \in Recs /\ rec'.pc = pc BY <1>3, <2>1
  <2>3. RecoverSound' BY <2>2 DEF RecoverSound
  <2> QED BY <1>6, <1>9, <2>2, <2>3 DEF RecoverState, RecOnly
<1>10. CASE RecoverMark
  <2>1. CASE CanOrphan BY <1>7, <1>10, <2>1 DEF RecoverMark
  <2>2. CASE ~CanOrphan
    <3>1. rec' \in Recs /\ rec'.pc = "orphans" BY <1>3, <1>10, <2>2 DEF RecoverMark
    <3>2. RecoverSound' BY <3>1 DEF RecoverSound
    <3> QED BY <1>6, <1>10, <2>2, <3>1, <3>2 DEF RecoverMark
  <2> QED BY <2>1, <2>2
<1>11. CASE RecoverOrphans
  <2>1. CASE StaleActive BY <1>7, <1>11, <2>1 DEF RecoverOrphans
  <2>2. CASE ~StaleActive
    <3>1. rec' \in Recs /\ rec'.pc = "idle" BY <1>4, <1>11, <2>2 DEF RecoverOrphans
    <3>2. RecoverSound' BY <3>1 DEF RecoverSound
    <3> QED BY <1>6, <1>11, <2>2, <3>1, <3>2 DEF RecoverOrphans
  <2> QED BY <2>1, <2>2
<1>12. CASE RecoverRow
  <2>1. rec.seen \in WorktreeRecords /\ rec.pc = "row"
    BY <1>1, <1>12 DEF RecoverRow, RecoverSound
  <2>2. CASE RowAccepts(rec.seen)
    <3>1. UpdateRow(rec.seen) /\ rec' = [rec EXCEPT !.pc = "load"] /\ UNCHANGED registry
      BY <1>12, <2>2 DEF RecoverRow
    <3>2. RowKept /\ row' = rec.seen /\ task' = task /\ version' = version
      BY <2>1, <3>1, UpdateKeepsRow
    <3>3. rec' \in Recs /\ rec'.pc = "load" /\ rec'.seen = rec.seen BY <1>3, <3>1
    <3>4. RecoverSound' BY <2>1, <3>3 DEF RecoverSound
    <3> QED BY <1>1, <1>5, <2>1, <3>1, <3>2, <3>3, <3>4 DEF registry, TypeOK, TaskFollows
  <2>3. CASE ~RowAccepts(rec.seen)
    <3>1. rec' \in Recs /\ rec'.pc = "idle" BY <1>4, <1>12, <2>3 DEF RecoverRow
    <3>2. RecoverSound' BY <3>1 DEF RecoverSound
    <3> QED BY <1>6, <1>12, <2>3, <3>1, <3>2 DEF RecoverRow
  <2> QED BY <2>2, <2>3
<1>13. CASE RecoverLoad
  <2>1. CASE task # NoTask /\ task.status \in OrphanTransitionable
    <3>1. rec' = [rec EXCEPT !.pc = "version", !.snap = task] /\ task \in Snapshots
      BY <1>1, <1>13, <2>1 DEF RecoverLoad, RecOnly, TypeOK
    <3>2. rec' \in Recs /\ rec'.pc = "version" /\ rec'.snap = task /\ rec'.seen = rec.seen
      BY <1>3, <3>1
    <3>3. RecoverSound' BY <1>1, <1>13, <3>1, <3>2 DEF RecoverSound, RecoverLoad
    <3> QED BY <1>6, <1>13, <3>2, <3>3 DEF RecoverLoad, RecOnly
  <2>2. CASE ~(task # NoTask /\ task.status \in OrphanTransitionable)
    <3>1. rec' = RecoverIdle BY <1>13, <2>2 DEF RecoverLoad, RecOnly
    <3>2. RecoverSound' BY <1>4, <3>1 DEF RecoverSound
    <3> QED BY <1>4, <1>6, <1>13, <3>1, <3>2 DEF RecoverLoad, RecOnly
  <2> QED BY <2>1, <2>2
<1>14. CASE RecoverVersion
  <2>1. rec' \in Recs /\ rec'.pc = "final" /\ rec'.seen = rec.seen /\ rec'.snap = rec.snap
    BY <1>1, <1>3, <1>14 DEF RecoverVersion, RecOnly, TypeOK
  <2>2. RecoverSound' BY <1>1, <1>14, <2>1 DEF RecoverVersion, RecoverSound
  <2> QED BY <1>6, <1>14, <2>1, <2>2 DEF RecoverVersion, RecOnly
<1>15. CASE RecoverFinal
  <2> DEFINE new == [rec.snap EXCEPT !.status = "orphaned", !.wt = rec.seen]
  <2>1. rec.snap \in Snapshots /\ rec.seen \in WorktreeRecords
    BY <1>1, <1>15 DEF RecoverFinal, RecoverSound
  <2>2. new \in Snapshots /\ new.status = "orphaned" BY <2>1 DEF Snapshots, TaskStatuses
  <2>3. /\ (task' = new /\ version' = version + 1) \/ UNCHANGED <<task, version>>
        /\ row' = row /\ rec' = RecoverIdle /\ UNCHANGED registry
    BY <1>15 DEF RecoverFinal, StoreTransition, durable
  <2> HIDE DEF new
  <2>4. TaskFollows /\ RowKept BY <2>2, <2>3 DEF TaskFollows, RowKept, IsCompleted
  <2>5. RecoverSound' BY <1>4, <2>3 DEF RecoverSound
  <2>6. task' \in Snapshots \cup {NoTask} /\ version' \in Nat BY <1>1, <2>2, <2>3 DEF TypeOK
  <2>7. fs' = fs /\ aged' = aged /\ tree' = tree /\ clock' = clock BY <2>3 DEF registry
  <2> QED BY <1>1, <1>4, <1>5, <2>3, <2>4, <2>5, <2>6, <2>7 DEF TypeOK
<1> QED BY <1>8, <1>9, <1>10, <1>11, <1>12, <1>13, <1>14, <1>15 DEF Recover

\* Every step of the operator's cleanup (cli.py: _cleanup).
LEMMA CleanupPreserves ==
    ASSUME SuccessInv, CleanupCheck \/ Cleanup PROVE SuccessInv'
<1>1. TypeOK /\ RecoverSound /\ CleanupSound BY DEF SuccessInv
<1>2. /\ eng' = eng /\ rec' = rec /\ UNCHANGED <<task, version, req, lease, alive, crashes>>
  BY DEF CleanupCheck, Cleanup, CleanupConfirm, CleanupLoad, CleanupDirty, CleanupRemoveTree,
         CleanupRecord, CleanupRow, ClnOnly, UpdateRow, durable
<1> DEFINE ClnPc == {"idle", "confirm", "load", "tree", "record", "row"}
           Clns == [pc : ClnPc, seen : WorktreeRecords \cup {NoRec}, calls : Nat]
<1>3. cln \in Clns BY <1>1 DEF TypeOK
<1>4. CleanupIdle \in Clns /\ CleanupIdle.pc = "idle" BY <1>3 DEF CleanupIdle
<1>5. ASSUME cln' \in Clns, CleanupSound',
             fs' \in WorktreeRecords \cup {NoRec}, aged' \in BOOLEAN, tree' \in BOOLEAN,
             clock' \in Nat, row' \in WorktreeRecords \cup {NoRec}, RowKept
      PROVE  SuccessInv'
  <2>1. TypeOK' BY <1>1, <1>2, <1>5 DEF TypeOK
  <2>2. RecoverSound' BY <1>1, <1>2 DEF RecoverSound
  <2>3. \A o \in Ops : SoundCall(o)' /\ RowHolds(o)' BY <1>2, <1>5, CallsKept
  <2>4. IsCompleted' => Earned' BY <1>2, <1>5, EarnedKept DEF SuccessInv, TaskFollows
  <2> QED BY <1>5, <2>1, <2>2, <2>3, <2>4 DEF SuccessInv
<1>6. ASSUME cln' \in Clns, CleanupSound', UNCHANGED <<durable, registry>>
      PROVE  SuccessInv'
  BY <1>1, <1>5, <1>6 DEF durable, registry, TypeOK, RowKept
<1>7. ASSUME NEW s \in WorktreeStatuses, cln.pc \in {"tree", "record"},
             WriteRecord([cln.seen EXCEPT !.status = s]),
             cln' = [cln EXCEPT !.pc = "row", !.seen = fs'], UNCHANGED durable
      PROVE  SuccessInv'
  <2> DEFINE r == [cln.seen EXCEPT !.status = s]
  <2>1. cln.seen \in WorktreeRecords BY <1>1, <1>7 DEF CleanupSound
  <2>2. r \in WorktreeRecords BY <2>1 DEF WorktreeRecords
  <2> HIDE DEF r
  <2>3. WriteRecord(r) BY <1>7 DEF r
  <2>4. /\ fs' \in WorktreeRecords /\ fs' # NoRec /\ clock' \in Nat
        /\ aged' = FALSE /\ tree' = tree
    BY <1>1, <2>2, <2>3, WrittenRecord
  <2>5. cln' \in Clns /\ cln'.seen = fs' BY <1>3, <1>7, <2>4
  <2>6. CleanupSound' BY <2>4, <2>5 DEF CleanupSound
  <2> QED BY <1>1, <1>5, <1>7, <2>4, <2>5, <2>6 DEF durable, TypeOK, RowKept
<1>8. CASE CleanupCheck
  <2>1. PICK n \in Nat : n = cln.calls + 1 BY <1>3
  <2>2. cln' = [cln EXCEPT !.pc = "confirm", !.calls = n]
    BY <1>8, <2>1, <1>3 DEF CleanupCheck, ClnOnly
  <2>3. cln' \in Clns /\ cln'.pc = "confirm" BY <1>3, <2>2
  <2>4. CleanupSound'
    BY <1>8, <2>3 DEF CleanupSound, CleanupCheck, ClnOnly, BothComplete, registry
  <2> QED BY <1>6, <1>8, <2>3, <2>4 DEF CleanupCheck, ClnOnly
<1>9. CASE CleanupConfirm
  <2>1. cln' \in Clns /\ cln'.pc \in {"idle", "load"}
    BY <1>3, <1>4, <1>9 DEF CleanupConfirm, ClnOnly
  <2>2. CleanupSound'
    BY <1>1, <1>9, <2>1 DEF CleanupSound, CleanupConfirm, ClnOnly, registry
  <2> QED BY <1>6, <1>9, <2>1, <2>2 DEF CleanupConfirm, ClnOnly
<1>10. CASE CleanupLoad
  <2>1. fs \in WorktreeRecords BY <1>1, <1>10 DEF CleanupLoad, CleanupSound, TypeOK
  <2>2. CASE fs.status = "complete" /\ tree
    <3>1. cln' = [cln EXCEPT !.pc = "tree", !.seen = fs]
      BY <1>10, <2>2 DEF CleanupLoad, ClnOnly
    <3>2. cln' \in Clns /\ cln'.pc = "tree" /\ cln'.seen = fs BY <1>3, <2>1, <3>1
    <3>3. CleanupSound'
      BY <1>10, <2>1, <3>2, TaskConstants DEF CleanupSound, CleanupLoad, ClnOnly, registry
    <3> QED BY <1>6, <1>10, <3>2, <3>3 DEF CleanupLoad, ClnOnly
  <2>3. CASE ~(fs.status = "complete" /\ tree)
    <3>1. cln' = CleanupIdle BY <1>10, <2>3 DEF CleanupLoad, ClnOnly
    <3>2. CleanupSound' BY <1>4, <3>1 DEF CleanupSound
    <3> QED BY <1>4, <1>6, <1>10, <3>1, <3>2 DEF CleanupLoad, ClnOnly
  <2> QED BY <2>2, <2>3
<1>11. CASE CleanupDirty BY <1>7, <1>11 DEF CleanupDirty, WorktreeStatuses
<1>12. CASE CleanupRecord BY <1>7, <1>12 DEF CleanupRecord, WorktreeStatuses
<1>13. CASE CleanupRemoveTree
  <2>1. cln' \in Clns /\ cln'.pc = "record" /\ cln'.seen = cln.seen
    BY <1>3, <1>13 DEF CleanupRemoveTree
  <2>2. CleanupSound' BY <1>1, <1>13, <2>1 DEF CleanupSound, CleanupRemoveTree
  <2> QED BY <1>1, <1>5, <1>13, <2>1, <2>2 DEF CleanupRemoveTree, durable, TypeOK, RowKept
<1>14. CASE CleanupRow
  <2>1. cln.seen \in WorktreeRecords BY <1>1, <1>14 DEF CleanupRow, CleanupSound
  <2>2. cln' = CleanupIdle /\ UNCHANGED registry BY <1>14 DEF CleanupRow
  <2>3. RowKept /\ row' \in WorktreeRecords \cup {NoRec}
    <3>1. CASE RowAccepts(cln.seen) BY <1>14, <2>1, <3>1, UpdateKeepsRow DEF CleanupRow
    <3>2. CASE ~RowAccepts(cln.seen)
      BY <1>1, <1>14, <3>2 DEF CleanupRow, RowKept, durable, TypeOK
    <3> QED BY <3>1, <3>2
  <2>4. CleanupSound' BY <1>4, <2>2 DEF CleanupSound
  <2> QED BY <1>1, <1>4, <1>5, <2>2, <2>3, <2>4 DEF registry, TypeOK
<1> QED BY <1>8, <1>9, <1>10, <1>11, <1>12, <1>13, <1>14 DEF Cleanup

\* Heartbeats, cancellation requests, crashes and time.
LEMMA EnvironmentPreserves ==
    ASSUME SuccessInv, Environment PROVE SuccessInv'
<1>1. TypeOK /\ RecoverSound /\ CleanupSound BY DEF SuccessInv
<1>2. ASSUME TypeOK', UNCHANGED <<task, row, eng, rec, cln>>, fs # NoRec => fs' # NoRec
      PROVE  SuccessInv'
  <2>1. RowKept /\ TaskFollows BY <1>2 DEF RowKept, TaskFollows
  <2>2. \A o \in Ops : SoundCall(o)' /\ RowHolds(o)' BY <1>2, <2>1, CallsKept
  <2>3. IsCompleted' => Earned' BY <2>1, EarnedKept DEF SuccessInv
  <2>4. RecoverSound' /\ CleanupSound' BY <1>1, <1>2 DEF RecoverSound, CleanupSound
  <2> QED BY <1>2, <2>2, <2>3, <2>4 DEF SuccessInv
<1>3. CASE TimePasses
  <2>1. lease' \in [op : Ops, pid : Pids, aged : BOOLEAN] \cup {NoLease}
    BY <1>1, <1>3 DEF TimePasses, TypeOK
  <2>2. crashes' \in Nat /\ aged' \in BOOLEAN BY <1>1, <1>3 DEF TimePasses, TypeOK
  <2>3. UNCHANGED <<req, task, version, row, fs, tree, clock, alive, eng, rec, cln>>
    BY <1>3 DEF TimePasses, durable, commands
  <2>4. TypeOK' BY <1>1, <2>1, <2>2, <2>3 DEF TypeOK
  <2> QED BY <1>2, <2>3, <2>4
<1>4. CASE CommandCrash
  <2>1. UNCHANGED <<req, task, version, row, fs, aged, tree, clock, lease, alive, eng>>
    BY <1>4 DEF CommandCrash, durable, registry
  <2>2. crashes' \in Nat BY <1>1, <1>4 DEF CommandCrash, TypeOK
  <2>3. RowKept /\ TaskFollows BY <2>1 DEF RowKept, TaskFollows
  <2>4. \A o \in Ops : SoundCall(o)' /\ RowHolds(o)' BY <2>1, <2>3, CallsKept
  <2>5. IsCompleted' => Earned' BY <2>3, EarnedKept DEF SuccessInv
  <2>6. CASE rec' = RecoverIdle /\ cln' = cln
    <3>0. /\ RecoverIdle.pc = "idle"
          /\ RecoverIdle \in [pc : {"idle", "state", "mark", "orphans", "row", "load", "version",
                                    "final"},
                              seen : WorktreeRecords \cup {NoRec}, snap : Snapshots \cup {NoTask},
                              ver : Nat, calls : Nat]
      BY <1>1 DEF RecoverIdle, TypeOK
    <3>1. RecoverIdle.pc = "idle" /\ TypeOK'
      BY <1>1, <2>1, <2>2, <2>6, <3>0 DEF TypeOK
    <3>2. RecoverSound' /\ CleanupSound'
      BY <1>1, <2>1, <2>6, <3>1 DEF RecoverSound, CleanupSound
    <3> QED BY <2>4, <2>5, <3>1, <3>2 DEF SuccessInv
  <2>7. CASE cln' = CleanupIdle /\ rec' = rec
    <3>0. /\ CleanupIdle.pc = "idle"
          /\ CleanupIdle \in [pc : {"idle", "confirm", "load", "tree", "record", "row"},
                              seen : WorktreeRecords \cup {NoRec}, calls : Nat]
      BY <1>1 DEF CleanupIdle, TypeOK
    <3>1. CleanupIdle.pc = "idle" /\ TypeOK'
      BY <1>1, <2>1, <2>2, <2>7, <3>0 DEF TypeOK
    <3>2. RecoverSound' /\ CleanupSound'
      BY <1>1, <2>1, <2>7, <3>1 DEF RecoverSound, CleanupSound
    <3> QED BY <2>4, <2>5, <3>1, <3>2 DEF SuccessInv
  <2> QED BY <1>4, <2>6, <2>7 DEF CommandCrash
<1>5. CASE \E o \in Ops : Fault(o) \/ ReleaseFails(o)
  BY <1>5, LeaveBodyAdvances, ReleaseAdvances, AdvancePreserves DEF Fault
<1>6. CASE \E o \in Ops : HeartbeatLease(o)
  <2>1. PICK o \in Ops : HeartbeatLease(o) BY <1>6
  <2>2. lease' \in [op : Ops, pid : Pids, aged : BOOLEAN] \cup {NoLease}
    BY <1>1, <2>1 DEF HeartbeatLease, LeaseHeld, HoldsLease, TypeOK
  <2>3. UNCHANGED <<req, task, version, row, fs, aged, tree, clock, alive, eng, rec, cln, crashes>>
    BY <2>1 DEF HeartbeatLease, durable, registry, commands
  <2>4. TypeOK' BY <1>1, <2>2, <2>3 DEF TypeOK
  <2> QED BY <1>2, <2>3, <2>4
<1>7. CASE \E o \in Ops : HeartbeatRecord(o)
  <2>1. PICK o \in Ops : HeartbeatRecord(o) BY <1>7
  <2>2. eng[o].pid \in Pids /\ WriteRecord([fs EXCEPT !.pid = eng[o].pid])
    BY <1>1, <2>1, TypedCalls DEF HeartbeatRecord, Calls
  <2>3. fs' \in WorktreeRecords /\ fs' # NoRec /\ clock' \in Nat /\ aged' = FALSE /\ tree' = tree
    BY <1>1, <2>2, BeatRecord
  <2>4. UNCHANGED <<req, task, version, row, lease, alive, eng, rec, cln, crashes>>
    BY <2>1 DEF HeartbeatRecord, durable, commands
  <2>5. TypeOK'
    <3>1. /\ lease' \in [op : Ops, pid : Pids, aged : BOOLEAN] \cup {NoLease}
          /\ tree' \in BOOLEAN /\ eng' \in [Ops -> Calls]
      BY <1>1, <2>3, <2>4, TypedCalls DEF TypeOK
    <3> QED BY <1>1, <2>3, <2>4, <3>1, RegistryTyped
  <2> QED BY <1>2, <2>3, <2>4, <2>5
<1>8. CASE \E p \in Pids : Crash(p)
  <2>1. PICK p \in Pids : Crash(p) BY <1>8
  <2>2. alive' \in [Pids -> BOOLEAN] /\ crashes' \in Nat BY <1>1, <2>1 DEF Crash, TypeOK
  <2>3. UNCHANGED <<req, task, version, row, fs, aged, tree, clock, lease, eng, rec, cln>>
    BY <2>1 DEF Crash, durable, registry, commands
  <2>4. TypeOK' BY <1>1, <2>2, <2>3 DEF TypeOK
  <2> QED BY <1>2, <2>3, <2>4
<1> QED BY <1>3, <1>4, <1>5, <1>6, <1>7, <1>8 DEF Environment

\* The invariant holds before the first call.
LEMMA SuccessInitial == Init => SuccessInv
<1> SUFFICES ASSUME Init PROVE SuccessInv
  OBVIOUS
<1>1. TypeOK
  <2>1. eng \in [Ops -> Calls]
    BY TaskConstants DEF Init, Calls, EnginePcs
  <2> QED BY <2>1 DEF Init, TypeOK, Calls
<1>2. \A o \in Ops : SoundCall(o) /\ RowHolds(o)
  BY DEF Init, SoundCall, Sound, RowHolds, SnapPcs, TriedPcs, PassedPcs, RecPcs
<1>3. RecoverSound /\ CleanupSound BY DEF Init, RecoverSound, CleanupSound
<1> QED BY <1>1, <1>2, <1>3 DEF Init, SuccessInv, IsCompleted

\* Every step of every caller keeps the invariant.
LEMMA SuccessPreserved == SuccessInv /\ [Next]_vars => SuccessInv'
<1> SUFFICES ASSUME SuccessInv, [Next]_vars PROVE SuccessInv'
  OBVIOUS
<1>1. CASE \E o \in Ops : EngineStep(o)
  BY <1>1, SetupAdvances, AttemptAdvances, FinishAdvances, UnwindingAdvances, AdvancePreserves
  DEF EngineStep
<1>2. CASE \E o \in Resumers, p \in Pids : ResumeLoad(o, p)
  BY <1>2, ResumeLoadAdvances, AdvancePreserves DEF Ops
<1>3. CASE RecoverStart \/ Recover BY <1>3, RecoverPreserves
<1>4. CASE CleanupCheck \/ Cleanup BY <1>4, CleanupPreserves
<1>5. CASE Environment BY <1>5, EnvironmentPreserves
<1>6. CASE UNCHANGED vars
  BY <1>6 DEF SuccessInv, TypeOK, SoundCall, RowHolds, RecoverSound, CleanupSound, IsCompleted,
              Earned, vars, durable, registry, commands
<1> QED BY <1>1, <1>2, <1>3, <1>4, <1>5, <1>6 DEF Next

\* A COMPLETED task carries an accepted review of its last attempt and its durable row
\* was completed with the very record the task names, for every number of processes,
\* resumes, recoveries, cleanups and crashes (engine.py: _execute_flow; store.py:
\* transition, update_worktree).
THEOREM SuccessIsEarned == Spec => []NoFalseSuccess
<1>1. SuccessInv => NoFalseSuccess
  BY DEF SuccessInv, NoFalseSuccess, IsCompleted, Earned
<1> QED BY <1>1, SuccessInitial, SuccessPreserved, PTL DEF Spec

-----------------------------------------------------------------------------
(* run() left to itself: which steps there are *)

\* What the lemmas below assume of the state a step starts from.
AloneHere == SuccessInv /\ DeletionInv /\ Alone

\* The steps of a run() that nobody interferes with.
RunStep ==
    \/ EngineStep("run") \/ Fault("run") \/ ReleaseFails("run")
    \/ HeartbeatLease("run") \/ HeartbeatRecord("run")
    \/ TimePasses
    \/ CleanupCheck \/ Cleanup

\* Where an engine step leads is never the beginning, and it crashes nobody.
Started(o) == eng'[o].pc # "idle" /\ crashes' = crashes /\ rec' = rec

\* A call that transitions the task has begun.
LEMMA TransitionStarted ==
    ASSUME TypeOK, NEW o \in Ops, NEW new, NEW pc, pc # "idle", EngineTransition(o, new, pc)
    PROVE  Started(o)
<1>1. eng \in [Ops -> Calls] BY TypedCalls
<1>2. eng'[o].pc = pc BY <1>1 DEF EngineTransition, Calls
<1> QED BY <1>2 DEF Started, EngineTransition, commands

\* A call that unwinds has begun.
LEMMA LeavingStarted ==
    ASSUME TypeOK, NEW o \in Ops, LeaveBody(o) \/ Release(o) \/ ReleaseFails(o)
    PROVE  Started(o)
<1>1. PICK pc \in {"release_raise", "h_load", "done", "raised"} : Goto(o, pc) \/ Return(o, pc)
  BY DEF LeaveBody, Release, ReleaseFails, Unwind
<1>2. PICK c \in Calls : Moves(o, c) /\ c.pc = pc
  BY <1>1, GotoCall, ReturnCall DEF EnginePcs
<1> QED BY <1>2 DEF Moves, Started, LeaveBody, Release, ReleaseFails, commands

\* A step of resume() leaves that call begun: run() is no longer alone.
LEMMA EngineStepStarted ==
    ASSUME TypeOK, NEW o \in Resumers, EngineStep(o) PROVE Started(o)
<1>0. o \in Ops /\ o # "run" /\ eng \in [Ops -> Calls]
  BY TaskConstants, TypedCalls DEF Ops
<1>1. CASE Setup(o)
  <2>1. CASE ResumeRecord(o) \/ ResumeVersion(o) \/ LeaseCheck(o)
    BY ZenonT(40), <1>0, <2>1
    DEF ResumeRecord, ResumeVersion, LeaseCheck, Only, Started, commands, Calls
  <2>2. CASE ResumeValidated(o) BY <1>0, <2>2, TransitionStarted DEF ResumeValidated
  <2>3. CASE Acquire(o)
    <3>1. PICK c \in Calls : Moves(o, c) /\ c.pc = "validate"
      BY <1>0, <2>3, GotoCall DEF Acquire, EnginePcs
    <3> QED BY <2>3, <3>1 DEF Moves, Acquire, Started, commands
  <2> QED BY <1>0, <1>1, <2>1, <2>2, <2>3 DEF Setup
<1>2. CASE Attempt(o)
  <2>1. CASE StartAttempt(o)
    BY <1>0, <2>1 DEF StartAttempt, Started, commands, Calls
  <2>2. CASE ExecutorOk(o) \/ RevalidationFailed(o) \/ VerifyStart(o) \/ VerifyRecorded(o)
             \/ PrivacyBlocked(o) \/ ReviewStart(o) \/ AttemptPassed(o)
    BY <1>0, <2>2, TransitionStarted
    DEF ExecutorOk, RevalidationFailed, VerifyStart, VerifyRecorded, PrivacyBlocked,
        ReviewStart, AttemptPassed
  <2>3. CASE ExecutorFailed(o) \/ RulesExpanded(o) \/ VerifyFailed(o) \/ ReviewRejected(o)
    BY <1>0, <2>3, TransitionStarted, AfterFailurePcs
    DEF ExecutorFailed, RulesExpanded, VerifyFailed, ReviewRejected
  <2>4. CASE \E verdict \in Reviews \ {"none"} : ReviewRecorded(o, verdict)
    BY <1>0, <2>4, TransitionStarted DEF ReviewRecorded
  <2> QED BY <1>2, <2>1, <2>2, <2>3, <2>4 DEF Attempt
<1>3. CASE Finish(o)
  <2>1. CASE Commit(o) \/ CancelSeen(o)
    BY <1>0, <2>1 DEF Commit, CancelSeen, Only, Started, commands, Calls
  <2>2. CASE CompleteFs(o) \/ PreserveFs(o) \/ HandoffSyncRow(o)
    BY <1>0, <2>2 DEF CompleteFs, PreserveFs, HandoffSyncRow, Started, commands, Calls
  <2>3. CASE CompleteRow(o) \/ PreserveRow(o)
    BY <1>0, <2>3 DEF CompleteRow, PreserveRow, Goto, Started, commands, Calls
  <2>4. CASE Completed(o) \/ Block(o) \/ Cancelled(o) \/ HandoffPrivacyBlocked(o)
             \/ HandoffSyncSnapshot(o) \/ HandoffPrepared(o) \/ HandoffReady(o)
    BY <1>0, <2>4, TransitionStarted
    DEF Completed, Block, Cancelled, HandoffPrivacyBlocked, HandoffSyncSnapshot,
        HandoffPrepared, HandoffReady
  <2> QED BY <1>3, <2>1, <2>2, <2>3, <2>4 DEF Finish
<1>4. CASE Unwinding(o)
  BY <1>0, <1>4, LeavingStarted DEF Unwinding, Raise
<1> QED BY <1>1, <1>2, <1>3, <1>4 DEF EngineStep

\* A step that ends with run() alone started with it alone, and is one of its steps.
LEMMA AloneBefore ==
    ASSUME SuccessInv, AloneInv, Next, RunAlone'
    PROVE  RunAlone /\ RunStep /\ crashes' = crashes /\ rec' = rec
<1>1. TypeOK /\ TypeOK' BY SuccessPreserved DEF SuccessInv
<1>2. /\ crashes \in Nat /\ crashes' = 0 /\ rec'.calls = 0
      /\ \A o \in Resumers : eng'[o].pc = "idle"
  BY <1>1 DEF TypeOK, RunAlone
<1>3. ASSUME crashes' = crashes, rec' = rec, \A o \in Resumers : eng'[o].pc = eng[o].pc
      PROVE  RunAlone
  BY <1>2, <1>3 DEF RunAlone
<1>4. CASE \E o \in Ops : EngineStep(o)
  <2>1. PICK o \in Ops : EngineStep(o) BY <1>4
  <2>2. o = "run" BY <1>1, <1>2, <2>1, EngineStepStarted DEF Ops, Started
  <2>3. Advances("run")
    BY <2>1, <2>2, SetupAdvances, AttemptAdvances, FinishAdvances, UnwindingAdvances
    DEF EngineStep
  <2>4. \A q \in Resumers : eng'[q] = eng[q] BY <2>3, TaskConstants DEF Advances, Ops
  <2>5. crashes' = crashes
    BY <2>1, <2>2
    DEF EngineStep, Setup, Create, Inspect, Plan, MakeWorktree, Register, Isolate, BuildContext,
        LeaseCheck, Acquire, Only, EngineTransition, Attempt, StartAttempt, ExecutorOk,
        ExecutorFailed, RulesExpanded, RevalidationFailed, VerifyStart, VerifyRecorded,
        VerifyFailed, PrivacyBlocked, ReviewStart, ReviewRejected, AttemptPassed, ReviewRecorded,
        Finish, Commit, CompleteFs, CompleteRow, Completed, Block, CancelSeen, PreserveFs,
        PreserveRow, Cancelled, HandoffPrivacyBlocked, HandoffSyncRow, HandoffSyncSnapshot,
        HandoffPrepared, HandoffReady, Unwinding, Raise, LeaveBody, Release, HandlerLoad,
        HandlerVersion, HandlerOrphan, HandlerRow, HandlerFinal
  <2>6. RunStep BY <2>1, <2>2 DEF RunStep
  <2> QED BY <1>3, <2>3, <2>4, <2>5, <2>6 DEF Advances
<1>5. ~ \E o \in Resumers, p \in Pids : ResumeLoad(o, p)
  <2> SUFFICES ASSUME NEW o \in Resumers, NEW p \in Pids, ResumeLoad(o, p) PROVE FALSE
    OBVIOUS
  <2>1. eng'[o].pc = "record"
    BY <1>1, TypedCalls DEF ResumeLoad, Only, Ops, Calls
  <2> QED BY <1>2, <2>1
<1>6. ~(RecoverStart \/ Recover)
  <2>1. rec.calls \in Nat BY <1>1 DEF TypeOK
  <2>2. ASSUME RecoverStart PROVE FALSE
    <3>1. rec'.calls = rec.calls + 1 BY <1>1, <2>2 DEF RecoverStart, RecOnly, TypeOK
    <3> QED BY <1>2, <2>1, <3>1
  <2>3. ASSUME Recover PROVE FALSE
    <3>1. eng' = eng /\ crashes' = crashes /\ rec.pc # "idle"
      BY <2>3 DEF Recover, RecoverState, RecoverMark, RecoverOrphans, RecoverRow,
                  RecoverLoad, RecoverVersion, RecoverFinal, RecOnly
    <3>2. rec'.calls = rec.calls
      <4>1. "calls" \in DOMAIN rec BY <1>1 DEF TypeOK
      <4>2. RecoverIdle.calls = rec.calls BY <4>1 DEF RecoverIdle
      <4>3. CASE RecoverState \/ RecoverMark
        BY <4>1, <4>2, <4>3 DEF RecoverState, RecoverMark, RecOnly
      <4>4. CASE RecoverOrphans BY <4>1, <4>2, <4>4 DEF RecoverOrphans, RecOnly
      <4>5. CASE RecoverRow BY <4>1, <4>2, <4>5 DEF RecoverRow, RecOnly
      <4>6. CASE RecoverLoad BY <4>1, <4>2, <4>6 DEF RecoverLoad, RecOnly
      <4>7. CASE RecoverVersion \/ RecoverFinal
        BY <4>1, <4>2, <4>7 DEF RecoverVersion, RecoverFinal, RecOnly
      <4> QED BY <2>3, <4>3, <4>4, <4>5, <4>6, <4>7 DEF Recover
    <3>3. RunAlone BY <1>2, <3>1, <3>2 DEF RunAlone
    <3> QED BY <3>1, <3>3 DEF AloneInv, Alone
  <2> QED BY <2>2, <2>3
<1>7. CASE CleanupCheck \/ Cleanup
  <2>1. eng' = eng /\ rec' = rec /\ crashes' = crashes
    BY <1>7 DEF CleanupCheck, Cleanup, CleanupConfirm, CleanupLoad, CleanupDirty,
                CleanupRemoveTree, CleanupRecord, CleanupRow, ClnOnly
  <2> QED BY <1>3, <1>7, <2>1 DEF RunStep
<1>8. CASE TimePasses
  <2>1. eng' = eng /\ rec' = rec BY <1>8 DEF TimePasses, commands
  <2>2. crashes' = crashes BY <1>2, <1>8 DEF TimePasses
  <2> QED BY <1>3, <1>8, <2>1, <2>2 DEF RunStep
<1>9. CASE \E o \in Ops : Fault(o) \/ ReleaseFails(o)
  <2>1. PICK o \in Ops : Fault(o) \/ ReleaseFails(o) BY <1>9
  <2>2. Started(o) BY <1>1, <2>1, LeavingStarted DEF Fault
  <2>3. o = "run" BY <1>2, <2>2 DEF Ops, Started
  <2>4. Advances("run") BY <2>1, <2>3, LeaveBodyAdvances, ReleaseAdvances DEF Fault
  <2>5. \A q \in Resumers : eng'[q] = eng[q] BY <2>4, TaskConstants DEF Advances, Ops
  <2> QED BY <1>3, <2>1, <2>2, <2>3, <2>5 DEF RunStep, Started
<1>10. CASE \E o \in Ops : HeartbeatLease(o) \/ HeartbeatRecord(o)
  <2>1. PICK o \in Ops : HeartbeatLease(o) \/ HeartbeatRecord(o) BY <1>10
  <2>2. eng' = eng /\ rec' = rec /\ crashes' = crashes /\ eng[o].pc # "idle"
    BY <2>1 DEF HeartbeatLease, HeartbeatRecord, LeaseHeld, OutsideBody, commands
  <2>3. o = "run" BY <1>2, <2>2 DEF Ops
  <2> QED BY <1>3, <2>1, <2>2, <2>3 DEF RunStep
<1>11. ~CommandCrash /\ ~ \E p \in Pids : Crash(p)
  BY <1>2 DEF CommandCrash, Crash
<1> QED BY <1>4, <1>5, <1>6, <1>7, <1>8, <1>9, <1>10, <1>11 DEF Next, Environment

-----------------------------------------------------------------------------
(* run() left to itself: while both registries say "active" *)

\* The step ends with both records active and the task open.
LEMMA WorkingStep ==
    ASSUME AloneHere, NEW c \in Calls, eng'["run"] = c,
           c.pc \in WorkingPcs \cup {"release", "release_raise", "h_load"}, c.pid = RunPid,
           alive' = alive, rec' = rec,
           Mirrored', fs' # NoRec, fs'.status = "active", row' # NoRec, row'.status = "active",
           task' # NoTask, task'.status \notin TerminalStatuses,
           c.pc \in BoundPcs => task'.wt # NoRec /\ c.snap.wt # NoRec
    PROVE  Alone'
<1> USE DEF WorkingPcs
<1>1. Agreed' /\ ~IsCompleted' BY DEF Agreed, IsCompleted, TerminalStatuses
<1>2. Standing' BY <1>1 DEF Standing, EarlyPcs
<1>3. Bound' BY DEF Bound, BoundPcs
<1>4. Uncompleted' /\ CleanedUp' BY <1>1 DEF Uncompleted, CleanedUp, Live
<1> QED BY <1>2, <1>3, <1>4 DEF AloneHere, Alone

\* What Alone says at a working step.
LEMMA AtWork ==
    ASSUME AloneHere, eng["run"].pc \in WorkingPcs
    PROVE  /\ fs # NoRec /\ fs.status = "active" /\ row # NoRec /\ row.status = "active"
           /\ task # NoTask /\ task.status \notin TerminalStatuses
           /\ eng["run"].pid = RunPid /\ Mirrored
           /\ eng["run"].pc # "registered" => task.wt # NoRec /\ eng["run"].snap.wt # NoRec
           /\ TypeOK /\ "run" \in Ops /\ eng["run"] \in Calls
           /\ fs \in WorktreeRecords /\ row \in WorktreeRecords
           /\ eng["run"].pc \in SnapPcs
<1>1. /\ TypeOK /\ "run" \in Ops /\ eng["run"] \in Calls
      /\ eng["run"].pc \in UnfinishedPcs /\ eng["run"].pc \in SnapPcs
  BY TypedCalls DEF AloneHere, SuccessInv, Ops, WorkingPcs, UnfinishedPcs, SnapPcs, EnginePcs
<1>2. /\ fs # NoRec /\ fs.status = "active" /\ row # NoRec /\ row.status = "active"
  BY DEF AloneHere, Alone, Standing
<1>3. /\ task # NoTask /\ task.status \notin TerminalStatuses /\ eng["run"].pid = RunPid
      /\ eng["run"].pc # "registered" => task.wt # NoRec /\ eng["run"].snap.wt # NoRec
  BY <1>1 DEF AloneHere, Alone, Bound, BoundPcs
<1> QED BY <1>1, <1>2, <1>3 DEF TypeOK, AloneHere, Alone

\* A transition between places at work keeps an undisturbed run() in order.
LEMMA WorkingTransition ==
    ASSUME AloneHere, eng["run"].pc \in WorkingPcs,
           NEW pc \in WorkingPcs \cup {"release", "release_raise"},
           NEW new \in Snapshots, new.status \notin TerminalStatuses, new.wt # NoRec,
           EngineTransition("run", new, pc)
    PROVE  Alone'
<1>1. /\ fs # NoRec /\ fs.status = "active" /\ row # NoRec /\ row.status = "active"
      /\ eng["run"].pid = RunPid /\ Mirrored /\ TypeOK /\ "run" \in Ops /\ eng["run"] \in Calls
  BY AtWork
<1>2. /\ eng' = [eng EXCEPT !["run"].pc = pc, !["run"].snap = new, !["run"].ver = version + 1]
      /\ task' = new
      /\ UNCHANGED <<row, fs, clock, alive, rec, cln>>
  BY DEF EngineTransition, StoreTransition, registry, commands
<1>3. PICK v \in Nat : v = version + 1 BY <1>1 DEF TypeOK
<1>4. PICK e \in Calls : e = eng["run"] BY <1>1
<1> DEFINE c == [e EXCEPT !.pc = pc, !.snap = new, !.ver = v]
<1>5. pc \in EnginePcs BY DEF WorkingPcs, EnginePcs
<1>6. c \in Calls /\ c.pc = pc /\ c.snap = new /\ c.pid = e.pid BY <1>5 DEF Calls
<1>7. eng'["run"] = c BY <1>1, <1>2, <1>3, <1>4, TypedCalls
<1> HIDE DEF c
<1>8. Mirrored' BY <1>1, <1>2 DEF Mirrored
<1>9. task' # NoTask BY <1>2, TaskConstants
<1> QED BY <1>1, <1>2, <1>4, <1>6, <1>7, <1>8, <1>9, WorkingStep

\* The same for a transition that only changes the status.
LEMMA WorkingStatus ==
    ASSUME AloneHere, eng["run"].pc \in WorkingPcs, eng["run"].pc # "registered",
           NEW pc \in WorkingPcs \cup {"release", "release_raise"},
           NEW status \in TaskStatuses, status \notin TerminalStatuses,
           EngineTransition("run", In("run", status), pc)
    PROVE  Alone'
<1>1. /\ "run" \in Ops /\ eng["run"].pc \in SnapPcs /\ Snap("run").wt # NoRec
  BY AtWork DEF Snap
<1>2. Snap("run") \in Snapshots BY <1>1, HeldSnapshot DEF AloneHere
<1> DEFINE new == In("run", status)
<1>3. new \in Snapshots /\ new.status = status /\ new.wt # NoRec BY <1>1, <1>2, InFields
<1> HIDE DEF new
<1>4. EngineTransition("run", new, pc) BY DEF new
<1> QED BY <1>3, <1>4, WorkingTransition

\* The same for one that ends the attempt.
LEMMA WorkingEnded ==
    ASSUME AloneHere, eng["run"].pc \in WorkingPcs, eng["run"].pc \in TriedPcs,
           NEW pc \in WorkingPcs \cup {"release", "release_raise"},
           NEW status \in TaskStatuses, status \notin TerminalStatuses,
           NEW result \in AttemptStatuses,
           EngineTransition("run", Ended("run", status, result), pc)
    PROVE  Alone'
<1>1. /\ "run" \in Ops /\ eng["run"].pc \in SnapPcs /\ Snap("run").wt # NoRec
  BY AtWork DEF Snap, TriedPcs
<1>2. Snap("run") \in Snapshots /\ Snap("run").att # <<>>
  BY <1>1, HeldSnapshot DEF AloneHere
<1> DEFINE new == Ended("run", status, result)
<1>3. new \in Snapshots /\ new.status = status /\ new.wt # NoRec
  BY <1>1, <1>2, EndedFields
<1> HIDE DEF new
<1>4. EngineTransition("run", new, pc) BY DEF new
<1> QED BY <1>3, <1>4, WorkingTransition

\* A move between two working steps that leaves the task and the row alone.
LEMMA WorkingMove ==
    ASSUME AloneHere, eng["run"].pc \in WorkingPcs, eng["run"].pc # "registered",
           NEW c \in Calls, eng'["run"] = c, c.pc \in WorkingPcs,
           c.pid = eng["run"].pid, c.snap = eng["run"].snap,
           UNCHANGED <<task, row, alive, rec>>,
           fs' # NoRec, fs'.status = "active", Mirrored'
    PROVE  Alone'
BY AtWork, WorkingStep

\* The lease and the heartbeat thread rewrite an active record of run()'s own.
LEMMA BeatMirrored ==
    ASSUME TypeOK, Mirrored, WriteRecord([fs EXCEPT !.pid = RunPid]), row' = row
    PROVE  Mirrored'
<1>1. /\ fs \in WorktreeRecords /\ fs' \in WorktreeRecords
      /\ fs'.status = fs.status /\ fs'.pid = RunPid /\ fs'.created = fs.created
      /\ fs'.completed = fs.completed /\ fs'.heartbeat = clock + 1 /\ clock' = clock + 1
      /\ fs # NoRec /\ fs' # NoRec
  BY BeatRecord, TaskConstants DEF WriteRecord
<1>2. /\ fs.created \in Nat /\ fs.heartbeat \in Nat /\ fs.completed \in Nat /\ clock \in Nat
      /\ row # NoRec => row.heartbeat \in Nat
  BY <1>1 DEF WorktreeRecords, TypeOK
<1> QED BY <1>1, <1>2 DEF Mirrored, ValidLifetime, NoTime

\* The same for a record that is marked orphaned.
LEMMA OrphanMirrored ==
    ASSUME TypeOK, Mirrored, MarkOrphaned, row' = row
    PROVE  Mirrored'
<1>1. /\ fs \in WorktreeRecords /\ fs' \in WorktreeRecords
      /\ fs'.status = "orphaned" /\ fs'.pid = fs.pid /\ fs'.created = fs.created
      /\ fs'.completed = fs.completed /\ fs'.heartbeat = clock + 1 /\ clock' = clock + 1
      /\ fs # NoRec /\ fs' # NoRec
  BY OrphanedRecord, TaskConstants
<1>2. /\ fs.created \in Nat /\ fs.heartbeat \in Nat /\ fs.completed \in Nat /\ clock \in Nat
      /\ row # NoRec => row.heartbeat \in Nat
  BY <1>1 DEF WorktreeRecords, TypeOK
<1> QED BY <1>1, <1>2 DEF Mirrored, ValidLifetime, NoTime

\* The steps of an attempt of an undisturbed run() (engine.py: _execute_flow).
LEMMA AttemptAlone ==
    ASSUME AloneHere, Attempt("run") PROVE Alone'
<1>1. CASE StartAttempt("run")
  <2> DEFINE i == In("run", "executing")
             new == [i EXCEPT !.att = Append(@, "running")]
  <2>1. eng["run"].pc = "attempt" /\ eng["run"].pc \in WorkingPcs
    BY <1>1 DEF StartAttempt, At, WorkingPcs
  <2>2. /\ fs # NoRec /\ fs.status = "active" /\ row # NoRec /\ row.status = "active"
        /\ eng["run"].pid = RunPid /\ Mirrored /\ TypeOK /\ "run" \in Ops /\ eng["run"] \in Calls
        /\ Snap("run").wt # NoRec /\ eng["run"].pc \in SnapPcs
    BY <2>1, AtWork DEF Snap
  <2>3. Snap("run") \in Snapshots BY <2>2, HeldSnapshot DEF AloneHere
  <2>4. i \in Snapshots /\ i.status = "executing" /\ i.wt # NoRec
    BY <2>2, <2>3, InFields DEF TaskStatuses
  <2>5. /\ StoreTransition(new, eng["run"].ver)
        /\ eng' = [eng EXCEPT !["run"].pc = "executing", !["run"].snap = new,
                              !["run"].ver = version + 1, !["run"].tries = @ + 1]
        /\ UNCHANGED <<fs, clock, alive, rec, cln>>
    BY <1>1 DEF StartAttempt, registry, commands
  <2> HIDE DEF i
  <2>6. new \in Snapshots /\ new.status = "executing" /\ new.wt # NoRec
    BY <2>4 DEF Snapshots, AttemptStatuses
  <2> HIDE DEF new
  <2>7. task' = new /\ row' = row BY <2>5 DEF StoreTransition
  <2>8. PICK c \in Calls : /\ eng'["run"] = c /\ c.pc = "executing" /\ c.snap = new
                           /\ c.pid = RunPid
    <3>1. PICK e \in Calls : e = eng["run"] BY <2>2
    <3>2. PICK v \in Nat : v = version + 1 BY <2>2 DEF TypeOK
    <3>3. PICK t \in Nat : t = e.tries + 1 BY DEF Calls
    <3> DEFINE d == [e EXCEPT !.pc = "executing", !.snap = new, !.ver = v, !.tries = t]
    <3>4. d \in Calls /\ d.pc = "executing" /\ d.snap = new /\ d.pid = e.pid
      BY <2>6 DEF Calls, EnginePcs
    <3>5. eng'["run"] = d BY <2>2, <2>5, <3>1, <3>2, <3>3, TypedCalls
    <3> HIDE DEF d
    <3> QED BY <2>2, <3>1, <3>4, <3>5
  <2>9. Mirrored' BY <2>2, <2>5, <2>7 DEF Mirrored
  <2>10. task' # NoTask /\ task'.status \notin TerminalStatuses /\ task'.wt # NoRec
    BY <2>6, <2>7, TaskConstants DEF TerminalStatuses
  <2>11. c.pc \in WorkingPcs BY <2>8 DEF WorkingPcs
  <2> QED BY <2>2, <2>5, <2>6, <2>7, <2>8, <2>9, <2>10, <2>11, WorkingStep
<1> USE DEF WorkingPcs, TriedPcs, At, TaskStatuses, AttemptStatuses, TerminalStatuses
<1>2. CASE \E verdict \in Reviews \ {"none"} : ReviewRecorded("run", verdict)
  <2> PICK verdict \in Reviews \ {"none"} : ReviewRecorded("run", verdict) BY <1>2
  <2> DEFINE i == In("run", "reviewing")
             new == [i EXCEPT !.review = verdict]
  <2>1. /\ "run" \in Ops /\ Snap("run").wt # NoRec /\ eng["run"].pc = "reviewing"
        /\ eng["run"].pc \in SnapPcs
    BY AtWork DEF Snap, ReviewRecorded
  <2>2. Snap("run") \in Snapshots BY <2>1, HeldSnapshot DEF AloneHere
  <2>3. i \in Snapshots /\ i.status = "reviewing" /\ i.wt # NoRec
    BY <2>1, <2>2, InFields
  <2>4. EngineTransition("run", new, "reviewed") BY DEF ReviewRecorded
  <2> HIDE DEF i
  <2>5. new \in Snapshots /\ new.status = "reviewing" /\ new.wt # NoRec BY <2>3 DEF Snapshots
  <2> HIDE DEF new
  <2> QED BY <2>1, <2>4, <2>5, WorkingTransition
<1>3. CASE ExecutorOk("run") BY <1>3, WorkingStatus DEF ExecutorOk
<1>4. AfterFailure("run", TRUE) \in WorkingPcs /\ \A b \in BOOLEAN : AfterFailure("run", b) \in WorkingPcs
  BY DEF AfterFailure
<1>5. CASE ExecutorFailed("run") BY <1>4, <1>5, WorkingEnded DEF ExecutorFailed
<1>6. CASE RulesExpanded("run") BY <1>4, <1>6, WorkingEnded DEF RulesExpanded
<1>7. ~RevalidationFailed("run") BY DEF RevalidationFailed
<1>8. CASE VerifyStart("run") BY <1>8, WorkingStatus DEF VerifyStart
<1>9. CASE VerifyRecorded("run") BY <1>9, WorkingStatus DEF VerifyRecorded
<1>10. CASE VerifyFailed("run") BY <1>4, <1>10, WorkingEnded DEF VerifyFailed
<1>11. CASE PrivacyBlocked("run") BY <1>11, WorkingStatus DEF PrivacyBlocked
<1>12. CASE ReviewStart("run") BY <1>12, WorkingStatus DEF ReviewStart
<1>13. CASE ReviewRejected("run") BY <1>4, <1>13, WorkingEnded DEF ReviewRejected
<1>14. CASE AttemptPassed("run") BY <1>14, WorkingEnded DEF AttemptPassed
<1> QED BY <1>1, <1>2, <1>3, <1>5, <1>6, <1>7, <1>8, <1>9, <1>10, <1>11, <1>12, <1>13, <1>14
        DEF Attempt

-----------------------------------------------------------------------------
(* run() left to itself: the worktree is made *)

\* A step of the first phase: no worktree yet.
LEMMA EarlyTransition ==
    ASSUME AloneHere, eng["run"].pc \in EarlyPcs, NEW new \in Snapshots, new.wt = NoRec,
           new.status \notin TerminalStatuses,
           NEW c \in Calls, eng'["run"] = c, c.pc \in {"created", "inspected", "planned"},
           c.pid = RunPid, task' = new, UNCHANGED <<row, fs, clock, alive, rec>>
    PROVE  Alone'
<1>1. fs = NoRec /\ row = NoRec /\ Mirrored /\ alive = [p \in Pids |-> TRUE] /\ rec.pc = "idle"
  BY DEF AloneHere, Alone, Standing
<1>2. task' # NoTask /\ ~IsCompleted'
  BY TaskConstants DEF IsCompleted, TerminalStatuses
<1>3. Mirrored' BY <1>1 DEF Mirrored
<1>4. Standing' BY <1>1 DEF Standing, EarlyPcs, WorkingPcs
<1>5. Bound' BY <1>1, <1>2 DEF Bound, BoundPcs, WorkingPcs
<1>6. Uncompleted' /\ CleanedUp' BY <1>1, <1>2 DEF Uncompleted, CleanedUp, Agreed
<1> QED BY <1>1, <1>3, <1>4, <1>5, <1>6 DEF Alone

\* Before ISOLATED the task has no worktree.
LEMMA EarlyWt ==
    ASSUME AloneHere, eng["run"].pc \in EarlyPcs PROVE task # NoTask => task.wt = NoRec
BY DEF AloneHere, Alone, Standing, Bound

\* The steps of an undisturbed run() up to its lease.
LEMMA SetupAlone ==
    ASSUME AloneHere, Setup("run") PROVE Alone'
<1>1. /\ TypeOK /\ "run" \in Ops /\ eng["run"] \in Calls /\ eng["run"].pid = RunPid
      /\ Mirrored /\ alive = [p \in Pids |-> TRUE] /\ rec.pc = "idle"
  BY TypedCalls DEF AloneHere, SuccessInv, Ops, Alone, Bound
<1>2. PICK e \in Calls : e = eng["run"] BY <1>1
<1>3. CASE Create
  <2> DEFINE new == [status |-> "created", att |-> <<>>, review |-> "none", wt |-> NoRec]
             c == [e EXCEPT !.pc = "created", !.snap = new, !.ver = 1]
  <2>1. new \in Snapshots /\ new.status \notin TerminalStatuses /\ new.wt = NoRec
    BY DEF Snapshots, TaskStatuses, AttemptStatuses, Reviews, TerminalStatuses
  <2>2. /\ task' = new
        /\ eng' = [eng EXCEPT !["run"].pc = "created", !["run"].snap = new, !["run"].ver = 1]
        /\ UNCHANGED <<row, fs, clock, alive, rec>>
    BY <1>3 DEF Create, registry, commands
  <2> HIDE DEF new
  <2>3. c \in Calls /\ c.pc = "created" /\ c.pid = e.pid BY <2>1 DEF Calls, EnginePcs
  <2>4. eng'["run"] = c BY <1>1, <1>2, <2>2, TypedCalls
  <2>5. eng["run"].pc \in EarlyPcs BY <1>3 DEF Create, At, EarlyPcs
  <2> HIDE DEF c
  <2> QED BY <1>1, <1>2, <2>1, <2>2, <2>3, <2>4, <2>5, EarlyTransition
<1>4. ASSUME NEW status \in {"inspected", "planned"}, eng["run"].pc \in {"created", "inspected"},
             EngineTransition("run", In("run", status), status)
      PROVE  Alone'
  <2> DEFINE new == In("run", status)
  <2>1. /\ eng["run"].pc \in EarlyPcs /\ eng["run"].pc \in SnapPcs
    BY <1>4 DEF EarlyPcs, SnapPcs, EnginePcs
  <2>2. Snap("run") \in Snapshots /\ row = NoRec
    BY <1>1, <2>1, HeldSnapshot DEF AloneHere, Alone, Standing
  <2>3. new \in Snapshots /\ new.status = status
    BY <1>1, <2>2, InFields DEF TaskStatuses
  <2> HIDE DEF new
  <2>9. new.wt = NoRec
    BY <1>4, <2>2 DEF new, EngineTransition, StoreTransition, StoreAccepts
  <2>4. /\ eng' = [eng EXCEPT !["run"].pc = status, !["run"].snap = new, !["run"].ver = version + 1]
        /\ task' = new
        /\ UNCHANGED <<row, fs, clock, alive, rec>>
    BY <1>4 DEF new, EngineTransition, StoreTransition, registry, commands
  <2>5. PICK v \in Nat : v = version + 1 BY <1>1 DEF TypeOK
  <2> DEFINE c == [e EXCEPT !.pc = status, !.snap = new, !.ver = v]
  <2>6. c \in Calls /\ c.pc = status /\ c.pid = e.pid BY <2>3 DEF Calls, EnginePcs
  <2>7. eng'["run"] = c BY <1>1, <1>2, <2>4, <2>5, TypedCalls
  <2> HIDE DEF c
  <2>8. status \notin TerminalStatuses BY DEF TerminalStatuses
  <2> QED BY <1>1, <1>2, <2>1, <2>3, <2>4, <2>6, <2>7, <2>8, <2>9, EarlyTransition
<1>5. CASE Inspect BY <1>4, <1>5 DEF Inspect, At
<1>6. CASE Plan BY <1>4, <1>6 DEF Plan, At
<1>7. CASE MakeWorktree
  <2>1. eng["run"].pc = "planned" /\ fs = NoRec /\ row = NoRec
    BY <1>7 DEF MakeWorktree, At, AloneHere, Alone, Standing, EarlyPcs
  <2>2. task # NoTask /\ task.status \notin TerminalStatuses /\ task.wt = NoRec
    BY <2>1, EarlyWt DEF AloneHere, Alone, Bound, UnfinishedPcs, SnapPcs, EnginePcs, EarlyPcs
  <2>3. PICK h \in Nat : h = clock + 1 BY <1>1 DEF TypeOK
  <2> DEFINE r == [status |-> "active", pid |-> RunPid, created |-> h, heartbeat |-> h,
                   completed |-> NoTime]
  <2>4. /\ r \in WorktreeRecords /\ r.status = "active" /\ r.pid = RunPid /\ r.created = h
        /\ r.heartbeat = h /\ r.completed = NoTime
    BY TaskConstants DEF WorktreeRecords, WorktreeStatuses, NoTime
  <2>5. /\ fs' = r /\ clock' = h
        /\ eng' = [eng EXCEPT !["run"].pc = "made", !["run"].rec = r]
        /\ UNCHANGED <<task, row, alive, rec, cln>>
    BY <1>7, <2>3 DEF MakeWorktree, durable, commands
  <2> HIDE DEF r
  <2> DEFINE c == [e EXCEPT !.pc = "made", !.rec = r]
  <2>6. c.pc = "made" /\ c.pid = e.pid /\ c.rec = r BY DEF Calls
  <2>7. eng'["run"] = c BY <1>1, <1>2, <2>5, TypedCalls
  <2> HIDE DEF c
  <2>8. fs' # NoRec BY <2>4, <2>5, TaskConstants
  <2>9. Mirrored' BY <2>1, <2>4, <2>5, <2>8 DEF Mirrored, ValidLifetime, NoTime
  <2>10. Standing' BY <2>1, <2>4, <2>5, <2>6, <2>7, <2>8 DEF Standing, EarlyPcs, WorkingPcs
  <2>11. Bound'
    BY <1>1, <1>2, <2>2, <2>4, <2>5, <2>6, <2>7 DEF Bound, BoundPcs, WorkingPcs
  <2>12. Uncompleted' /\ CleanedUp'
    BY <2>1, <2>2, <2>4, <2>5
    DEF Uncompleted, CleanedUp, Agreed, IsCompleted, Live, TerminalStatuses
  <2> QED BY <1>1, <2>5, <2>9, <2>10, <2>11, <2>12 DEF Alone
<1>8. CASE Register
  <2>1. /\ eng["run"].pc = "made" /\ row' = eng["run"].rec /\ Goto("run", "registered")
        /\ UNCHANGED <<task, fs, clock, alive, rec, cln>>
    BY <1>8 DEF Register, At, registry, commands
  <2>2. /\ fs # NoRec /\ fs.status = "active" /\ row = NoRec
        /\ e.rec.status = "active" /\ e.rec.pid = RunPid /\ e.rec.completed = NoTime
        /\ e.rec.heartbeat <= fs.heartbeat
    BY <1>2, <2>1 DEF AloneHere, Alone, Standing
  <2>3. e.rec \in WorktreeRecords /\ row' # NoRec
    BY <1>2, <2>1, TaskConstants DEF AloneHere, SuccessInv, SoundCall, Sound, RecPcs, Ops
  <2>4. task # NoTask /\ task.status \notin TerminalStatuses
    BY <2>1 DEF AloneHere, Alone, Bound, UnfinishedPcs, SnapPcs, EnginePcs
  <2>5. PICK c \in Calls : Moves("run", c) /\ c.pc = "registered" /\ c.pid = eng["run"].pid
    BY <1>1, <2>1, GotoCall DEF EnginePcs
  <2>6. Mirrored' BY <1>1, <1>2, <2>1, <2>2, <2>3 DEF Mirrored
  <2>7. c.pc \in WorkingPcs /\ c.pc \notin BoundPcs BY <2>5 DEF WorkingPcs, BoundPcs
  <2> QED BY <1>1, <1>2, <2>1, <2>2, <2>3, <2>4, <2>5, <2>6, <2>7, WorkingStep DEF Moves
<1>9. CASE Isolate
  <2> DEFINE i == In("run", "isolated")
             new == [i EXCEPT !.wt = eng["run"].rec]
  <2>1. eng["run"].pc = "registered" /\ EngineTransition("run", new, "lease_check")
    BY <1>9 DEF Isolate, At
  <2>2. /\ Snap("run") \in Snapshots /\ eng["run"].rec \in WorktreeRecords
    BY <1>1, <2>1, HeldSnapshot
    DEF AloneHere, SuccessInv, SoundCall, Sound, RecPcs, SnapPcs, EnginePcs
  <2>3. i \in Snapshots /\ i.status = "isolated" BY <1>1, <2>2, InFields DEF TaskStatuses
  <2> HIDE DEF i
  <2>4. new \in Snapshots /\ new.status = "isolated" /\ new.wt = eng["run"].rec
    BY <2>2, <2>3 DEF Snapshots
  <2> HIDE DEF new
  <2>5. new.wt # NoRec /\ new.status \notin TerminalStatuses
    BY <2>2, <2>4, TaskConstants DEF TerminalStatuses
  <2> QED BY <2>1, <2>4, <2>5, WorkingTransition DEF WorkingPcs
<1>10. CASE BuildContext
  BY <1>10, WorkingStatus DEF BuildContext, At, WorkingPcs, TaskStatuses, TerminalStatuses
<1>11. CASE LeaseCheck("run")
  <2> DEFINE c == [e EXCEPT !.pc = "lease_wait"]
  <2>1. c \in Calls /\ c.pc = "lease_wait" /\ c.snap = e.snap /\ c.pid = e.pid
    BY DEF Calls, EnginePcs
  <2>2. /\ eng["run"].pc = "lease_check" /\ eng' = [eng EXCEPT !["run"] = c]
        /\ UNCHANGED <<task, row, fs, clock, alive, rec>>
    BY <1>2, <1>11 DEF LeaseCheck, At, Only, durable, registry, commands
  <2> HIDE DEF c
  <2>3. eng'["run"] = c BY <1>1, <2>2, TypedCalls
  <2>4. fs # NoRec /\ fs.status = "active" BY <2>2, AtWork DEF WorkingPcs
  <2>5. Mirrored' BY <1>1, <2>2 DEF Mirrored
  <2> QED BY <1>2, <2>1, <2>2, <2>3, <2>4, <2>5, WorkingMove DEF WorkingPcs
<1>12. CASE Acquire("run")
  <2>1. /\ eng["run"].pc = "lease_wait" /\ Goto("run", "leased")
        /\ UNCHANGED <<task, row, alive, rec>>
    BY <1>12 DEF Acquire, At, durable, commands
  <2>2. fs # NoRec /\ fs.status = "active" BY <2>1, AtWork DEF WorkingPcs
  <2>3. WriteRecord([fs EXCEPT !.pid = RunPid]) BY <1>1, <1>12, <2>2 DEF Acquire
  <2>4. fs' # NoRec /\ fs'.status = "active" BY <1>1, <2>2, <2>3, BeatRecord, TaskConstants
  <2>5. Mirrored' BY <1>1, <2>1, <2>3, BeatMirrored
  <2>6. PICK c \in Calls : Moves("run", c) /\ c.pc = "leased" /\ c.pid = eng["run"].pid
                           /\ c.snap = eng["run"].snap
    BY <1>1, <2>1, GotoCall DEF EnginePcs
  <2> QED BY <2>1, <2>4, <2>5, <2>6, WorkingMove DEF WorkingPcs, Moves
<1> QED BY <1>3, <1>5, <1>6, <1>7, <1>8, <1>9, <1>10, <1>11, <1>12 DEF Setup

-----------------------------------------------------------------------------
(* run() left to itself: completion, cancellation and handoff *)

\* The registry file, the row and the task, completed in that order (engine.py: _execute_flow).
LEMMA CompletionAlone ==
    ASSUME AloneHere, CompleteFs("run") \/ CompleteRow("run") \/ Completed("run") PROVE Alone'
<1>1. /\ TypeOK /\ "run" \in Ops /\ eng["run"] \in Calls /\ eng["run"].pid = RunPid
      /\ Mirrored /\ alive = [p \in Pids |-> TRUE] /\ rec.pc = "idle"
      /\ Sound(eng["run"].pc, eng["run"].snap, eng["run"].rec)
  BY TypedCalls DEF AloneHere, SuccessInv, Ops, Alone, Bound, SoundCall
<1>2. CASE CompleteFs("run")
  <2>1. eng["run"].pc = "committed" BY <1>2 DEF CompleteFs, At
  <2>2. /\ fs # NoRec /\ fs.status = "active" /\ row # NoRec /\ row.status = "active"
        /\ task # NoTask /\ task.status \notin TerminalStatuses
        /\ task.wt # NoRec /\ eng["run"].snap.wt # NoRec
        /\ fs \in WorktreeRecords /\ row \in WorktreeRecords
    BY <2>1, AtWork DEF WorkingPcs
  <2>3. PICK h \in Nat : h = clock + 1 BY <1>1 DEF TypeOK
  <2> DEFINE r == [fs EXCEPT !.status = "complete", !.completed = h]
  <2>4. /\ r \in WorktreeRecords /\ r.status = "complete" /\ r.completed = h
        /\ r.pid = fs.pid /\ r.created = fs.created
    BY <2>2 DEF WorktreeRecords, WorktreeStatuses
  <2>5. WriteRecord(r) /\ Carry("run", "fs_complete", fs')
        /\ UNCHANGED <<task, row, alive, rec, cln>>
    BY <1>2, <2>3 DEF CompleteFs, Carry, durable, commands
  <2> HIDE DEF r
  <2>6. /\ fs' \in WorktreeRecords /\ fs' # NoRec /\ fs'.status = "complete"
        /\ fs'.completed = h /\ fs'.pid = fs.pid /\ fs'.created = fs.created
        /\ fs'.heartbeat = clock + 1 /\ clock' = clock + 1
    BY <1>1, <2>4, <2>5, WrittenRecord
  <2>7. PICK f \in WorktreeRecords : f = fs' BY <2>6
  <2>8. PICK c \in Calls : Moves("run", c) /\ c.pc = "fs_complete" /\ c.rec = f
                           /\ c.snap = eng["run"].snap /\ c.pid = eng["run"].pid
    BY <1>1, <2>5, <2>7, CarryCall DEF EnginePcs
  <2>9. eng'["run"] = c BY <2>8 DEF Moves
  <2>10. fs.created \in Nat /\ fs.heartbeat \in Nat /\ clock \in Nat /\ row.heartbeat \in Nat
         /\ row.completed \in Nat /\ fs.completed \in Nat
    BY <1>1, <2>2 DEF WorktreeRecords, TypeOK
  <2>11. Mirrored'
    <3>1. fs.completed = NoTime /\ fs.created <= clock /\ row.heartbeat <= clock
          /\ row.completed = NoTime
      BY <1>1, <2>2, <2>10 DEF Mirrored, ValidLifetime, NoTime
    <3>2. ValidLifetime(fs') BY <2>3, <2>6, <2>10, <3>1 DEF ValidLifetime, NoTime
    <3>3. fs'.heartbeat <= clock' /\ fs'.created <= clock' /\ row.heartbeat <= fs'.heartbeat
      BY <2>6, <2>10, <3>1
    <3> QED BY <1>1, <2>2, <2>5, <2>6, <3>1, <3>2, <3>3 DEF Mirrored
  <2>12. Standing' BY <2>2, <2>5, <2>7, <2>8, <2>9 DEF Standing, EarlyPcs, WorkingPcs
  <2>13. Bound' BY <1>1, <2>2, <2>5, <2>8, <2>9 DEF Bound
  <2>14. Uncompleted' /\ CleanedUp'
    BY <2>2, <2>5, <2>6 DEF Uncompleted, CleanedUp, IsCompleted, Live, TerminalStatuses
  <2> QED BY <1>1, <2>5, <2>11, <2>12, <2>13, <2>14 DEF Alone
<1>3. CASE CompleteRow("run")
  <2>1. /\ eng["run"].pc = "fs_complete" /\ UpdateRow(eng["run"].rec)
        /\ Goto("run", "row_complete") /\ UNCHANGED <<fs, clock, alive, rec, cln>>
    BY <1>3 DEF CompleteRow, At, registry, commands
  <2>2. /\ fs = eng["run"].rec /\ row # NoRec
        /\ eng["run"].rec \in WorktreeRecords /\ eng["run"].rec.status = "complete"
    BY <1>1, <2>1 DEF AloneHere, Alone, Standing, Sound, RecPcs
  <2>3. row' = fs /\ task' = task BY <2>1, <2>2, UpdateKeepsRow
  <2>4. /\ task # NoTask /\ task.status \notin TerminalStatuses
        /\ task.wt # NoRec /\ eng["run"].snap.wt # NoRec
    BY <2>1 DEF AloneHere, Alone, Bound, BoundPcs, UnfinishedPcs, SnapPcs, EnginePcs
  <2>5. PICK c \in Calls : Moves("run", c) /\ c.pc = "row_complete"
                           /\ c.snap = eng["run"].snap /\ c.pid = eng["run"].pid
    BY <1>1, <2>1, GotoCall DEF EnginePcs
  <2>6. eng'["run"] = c /\ fs # NoRec BY <2>2, <2>5, TaskConstants DEF Moves
  <2>7. Mirrored'
    <3>1. fs.heartbeat \in Nat BY <2>2 DEF WorktreeRecords
    <3> QED BY <1>1, <2>1, <2>3, <2>6, <3>1 DEF Mirrored
  <2>8. Standing' BY <2>1, <2>2, <2>3, <2>5, <2>6 DEF Standing, EarlyPcs, WorkingPcs
  <2>9. Bound' BY <1>1, <2>1, <2>3, <2>4, <2>5, <2>6 DEF Bound
  <2>10. Uncompleted' /\ CleanedUp'
    BY <2>1, <2>2, <2>3, <2>4 DEF Uncompleted, CleanedUp, IsCompleted, Live, TerminalStatuses
  <2> QED BY <1>1, <2>1, <2>7, <2>8, <2>9, <2>10 DEF Alone
<1>4. CASE Completed("run")
  <2> DEFINE i == In("run", "completed")
             new == [i EXCEPT !.wt = eng["run"].rec]
  <2>1. eng["run"].pc = "row_complete" /\ EngineTransition("run", new, "release")
    BY <1>4 DEF Completed, At
  <2>2. Snap("run") \in Snapshots /\ eng["run"].rec \in WorktreeRecords
    BY <1>1, <2>1, HeldSnapshot DEF AloneHere, SnapPcs, EnginePcs, Sound, RecPcs
  <2>3. i \in Snapshots /\ i.status = "completed" BY <1>1, <2>2, InFields DEF TaskStatuses
  <2> HIDE DEF i
  <2>4. new \in Snapshots /\ new.status = "completed" /\ new.wt # NoRec
    BY <2>2, <2>3, TaskConstants DEF Snapshots
  <2> HIDE DEF new
  <2>5. /\ eng' = [eng EXCEPT !["run"].pc = "release", !["run"].snap = new,
                              !["run"].ver = version + 1]
        /\ task' = new
        /\ UNCHANGED <<row, fs, clock, alive, rec, cln>>
    BY <2>1 DEF EngineTransition, StoreTransition, registry, commands
  <2>6. /\ fs # NoRec /\ fs.status = "complete" /\ row # NoRec /\ row.status = "complete"
        /\ task # NoTask /\ task.status \notin TerminalStatuses
    BY <2>1 DEF AloneHere, Alone, Standing, Bound, UnfinishedPcs, SnapPcs, EnginePcs
  <2>7. cln.pc = "idle" BY <2>6 DEF AloneHere, DeletionInv, IsCompleted, TerminalStatuses
  <2>8. eng'["run"].pc = "release" /\ eng'["run"].pid = RunPid
    BY <1>1, <2>5, TypedCalls DEF Calls
  <2>9. IsCompleted' BY <2>4, <2>5, TaskConstants DEF IsCompleted
  <2>10. Mirrored' BY <1>1, <2>5 DEF Mirrored
  <2>11. Standing' BY <2>8, <2>9 DEF Standing, EarlyPcs, WorkingPcs
  <2>12. Bound'
    BY <2>4, <2>5, <2>6, <2>8, <2>9
    DEF Bound, BoundPcs, UnfinishedPcs, SnapPcs, WorkingPcs, IsCompleted
  <2>13. Uncompleted' /\ CleanedUp' BY <2>5, <2>6, <2>7, <2>9 DEF Uncompleted, CleanedUp
  <2> QED BY <1>1, <2>5, <2>10, <2>11, <2>12, <2>13 DEF Alone
<1> QED BY <1>2, <1>3, <1>4

\* The registry file, the row and the task on cancellation (engine.py: _preserve_cancelled_worktree).
LEMMA CancellationAlone ==
    ASSUME AloneHere, PreserveFs("run") \/ PreserveRow("run") \/ Cancelled("run") PROVE Alone'
<1>1. /\ TypeOK /\ "run" \in Ops /\ eng["run"] \in Calls /\ eng["run"].pid = RunPid
      /\ Mirrored /\ alive = [p \in Pids |-> TRUE] /\ rec.pc = "idle"
      /\ Sound(eng["run"].pc, eng["run"].snap, eng["run"].rec)
  BY TypedCalls DEF AloneHere, SuccessInv, Ops, Alone, Bound, SoundCall
<1>2. CASE PreserveFs("run")
  <2>1. /\ eng["run"].pc = "cancel" /\ MarkOrphaned /\ Carry("run", "cancel_row", fs')
        /\ UNCHANGED <<task, row, alive, rec, cln>>
    BY <1>2 DEF PreserveFs, At, Carry, durable, commands
  <2>2. /\ row # NoRec /\ row.status = "active"
        /\ task # NoTask /\ task.status \notin TerminalStatuses
        /\ task.wt # NoRec /\ eng["run"].snap.wt # NoRec
    BY <2>1, AtWork DEF WorkingPcs
  <2>3. fs' \in WorktreeRecords /\ fs' # NoRec /\ fs'.status = "orphaned"
    BY <1>1, <2>1, OrphanedRecord
  <2>4. PICK f \in WorktreeRecords : f = fs' BY <2>3
  <2>5. PICK c \in Calls : Moves("run", c) /\ c.pc = "cancel_row" /\ c.rec = f
                           /\ c.snap = eng["run"].snap /\ c.pid = eng["run"].pid
    BY <1>1, <2>1, <2>4, CarryCall DEF EnginePcs
  <2>6. eng'["run"] = c BY <2>5 DEF Moves
  <2>7. Mirrored' BY <1>1, <2>1, OrphanMirrored
  <2>8. Standing' BY <2>1, <2>2, <2>3, <2>4, <2>5, <2>6 DEF Standing, EarlyPcs, WorkingPcs
  <2>9. Bound' BY <1>1, <2>1, <2>2, <2>5, <2>6 DEF Bound
  <2>10. Uncompleted' /\ CleanedUp'
    BY <2>1, <2>2, <2>3 DEF Uncompleted, CleanedUp, IsCompleted, Live, TerminalStatuses
  <2> QED BY <1>1, <2>1, <2>7, <2>8, <2>9, <2>10 DEF Alone
<1>3. CASE PreserveRow("run")
  <2>1. /\ eng["run"].pc = "cancel_row" /\ UpdateRow(eng["run"].rec)
        /\ Goto("run", "cancel_final") /\ UNCHANGED <<fs, clock, alive, rec, cln>>
    BY <1>3 DEF PreserveRow, At, registry, commands
  <2>2. /\ fs = eng["run"].rec /\ fs.status = "orphaned" /\ eng["run"].rec \in WorktreeRecords
    BY <1>1, <2>1 DEF AloneHere, Alone, Standing, Sound, RecPcs
  <2>3. row' = fs /\ task' = task BY <2>1, <2>2, UpdateKeepsRow
  <2>4. /\ task # NoTask /\ task.status \notin TerminalStatuses
        /\ task.wt # NoRec /\ eng["run"].snap.wt # NoRec
    BY <2>1 DEF AloneHere, Alone, Bound, BoundPcs, UnfinishedPcs, SnapPcs, EnginePcs
  <2>5. PICK c \in Calls : Moves("run", c) /\ c.pc = "cancel_final"
                           /\ c.snap = eng["run"].snap /\ c.pid = eng["run"].pid
    BY <1>1, <2>1, GotoCall DEF EnginePcs
  <2>6. eng'["run"] = c /\ fs # NoRec BY <2>2, <2>5, TaskConstants DEF Moves
  <2>7. Mirrored'
    <3>1. fs.heartbeat \in Nat BY <2>2 DEF WorktreeRecords
    <3> QED BY <1>1, <2>1, <2>3, <2>6, <3>1 DEF Mirrored
  <2>8. Standing' BY <2>1, <2>2, <2>3, <2>5, <2>6 DEF Standing, EarlyPcs, WorkingPcs
  <2>9. Bound' BY <1>1, <2>1, <2>3, <2>4, <2>5, <2>6 DEF Bound
  <2>10. Uncompleted' /\ CleanedUp'
    BY <2>1, <2>2, <2>3, <2>4 DEF Uncompleted, CleanedUp, IsCompleted, Live, TerminalStatuses
  <2> QED BY <1>1, <2>1, <2>7, <2>8, <2>9, <2>10 DEF Alone
<1>4. CASE Cancelled("run")
  <2> DEFINE i == Ended("run", "cancelled", "cancelled")
             new == [i EXCEPT !.wt = eng["run"].rec]
  <2>1. eng["run"].pc = "cancel_final" /\ EngineTransition("run", new, "release")
    BY <1>4 DEF Cancelled, At
  <2>2. /\ Snap("run") \in Snapshots /\ Snap("run").att # <<>>
        /\ eng["run"].rec \in WorktreeRecords
    BY <1>1, <2>1, HeldSnapshot DEF AloneHere, SnapPcs, EnginePcs, Sound, RecPcs, TriedPcs
  <2>3. i \in Snapshots /\ i.status = "cancelled"
    BY <1>1, <2>2, EndedFields DEF TaskStatuses, AttemptStatuses
  <2> HIDE DEF i
  <2>4. new \in Snapshots /\ new.status = "cancelled" /\ new.wt # NoRec
    BY <2>2, <2>3, TaskConstants DEF Snapshots
  <2> HIDE DEF new
  <2>5. /\ eng' = [eng EXCEPT !["run"].pc = "release", !["run"].snap = new,
                              !["run"].ver = version + 1]
        /\ task' = new
        /\ UNCHANGED <<row, fs, clock, alive, rec, cln>>
    BY <2>1 DEF EngineTransition, StoreTransition, registry, commands
  <2>6. fs # NoRec /\ fs.status = "orphaned" /\ row # NoRec /\ row.status = "orphaned"
    BY <2>1 DEF AloneHere, Alone, Standing
  <2>7. eng'["run"].pc = "release" /\ eng'["run"].pid = RunPid
    BY <1>1, <2>5, TypedCalls DEF Calls
  <2>8. Agreed' /\ ~IsCompleted' BY <2>4, <2>5, <2>6 DEF Agreed, IsCompleted
  <2>9. Mirrored' BY <1>1, <2>5 DEF Mirrored
  <2>10. Standing' BY <2>7, <2>8 DEF Standing, EarlyPcs, WorkingPcs
  <2>11. Bound'
    BY <2>4, <2>5, <2>6, <2>7, TaskConstants
    DEF Bound, BoundPcs, UnfinishedPcs, SnapPcs, WorkingPcs
  <2>12. Uncompleted' /\ CleanedUp' BY <2>5, <2>6, <2>8 DEF Uncompleted, CleanedUp, Live
  <2> QED BY <1>1, <2>5, <2>9, <2>10, <2>11, <2>12 DEF Alone
<1> QED BY <1>2, <1>3, <1>4

\* Every last step of an undisturbed run().
LEMMA FinishAlone ==
    ASSUME AloneHere, Finish("run") PROVE Alone'
<1>1. /\ TypeOK /\ "run" \in Ops /\ eng["run"] \in Calls /\ Mirrored
  BY TypedCalls DEF AloneHere, SuccessInv, Ops, Alone
<1>2. PICK e \in Calls : e = eng["run"] BY <1>1
<1>3. CASE Commit("run") \/ CancelSeen("run")
  <2>1. PICK pc \in {"committed", "cancel"} : Only("run", [eng["run"] EXCEPT !.pc = pc])
    BY <1>3 DEF Commit, CancelSeen
  <2> DEFINE c == [e EXCEPT !.pc = pc]
  <2>2. c \in Calls /\ c.pc = pc /\ c.snap = e.snap /\ c.pid = e.pid BY DEF Calls, EnginePcs
  <2>3. /\ eng' = [eng EXCEPT !["run"] = c] /\ UNCHANGED <<task, row, fs, clock, alive, rec>>
    BY <1>2, <2>1 DEF Only, durable, registry, commands
  <2> HIDE DEF c
  <2>4. eng'["run"] = c BY <1>1, <2>3, TypedCalls
  <2>5. eng["run"].pc \in WorkingPcs /\ eng["run"].pc # "registered" /\ pc \in WorkingPcs
    BY <1>3 DEF Commit, CancelSeen, At, WorkingPcs
  <2>6. fs # NoRec /\ fs.status = "active" BY <2>5, AtWork
  <2>7. Mirrored' BY <1>1, <2>3 DEF Mirrored
  <2> QED BY <1>2, <2>2, <2>3, <2>4, <2>5, <2>6, <2>7, WorkingMove
<1>4. CASE CompleteFs("run") \/ CompleteRow("run") \/ Completed("run")
  BY <1>4, CompletionAlone
<1>5. CASE PreserveFs("run") \/ PreserveRow("run") \/ Cancelled("run")
  BY <1>5, CancellationAlone
<1>6. CASE HandoffSyncRow("run")
  <2>1. /\ eng["run"].pc = "handoff" /\ Carry("run", "handoff_sync", fs)
        /\ UNCHANGED <<fs, clock, alive, rec>>
    BY <1>6 DEF HandoffSyncRow, At, Carry, registry, commands
  <2>2. /\ fs # NoRec /\ fs.status = "active" /\ row # NoRec /\ row.status = "active"
        /\ task # NoTask /\ task.status \notin TerminalStatuses /\ eng["run"].pid = RunPid
        /\ task.wt # NoRec /\ eng["run"].snap.wt # NoRec /\ fs \in WorktreeRecords
    BY <2>1, AtWork DEF WorkingPcs
  <2>3. row' \in {row, fs} /\ task' = task
    <3>1. CASE fs = row BY <1>6, <3>1 DEF HandoffSyncRow, durable
    <3>2. CASE fs # row BY <1>6, <2>2, <3>2, UpdateKeepsRow DEF HandoffSyncRow
    <3> QED BY <3>1, <3>2
  <2>4. PICK c \in Calls : Moves("run", c) /\ c.pc = "handoff_sync"
                           /\ c.snap = eng["run"].snap /\ c.pid = eng["run"].pid
    BY <1>1, <2>1, <2>2, CarryCall DEF EnginePcs
  <2>5. row' # NoRec /\ row'.status = "active" BY <2>2, <2>3
  <2>6. Mirrored'
    <3>1. fs.heartbeat \in Nat BY <2>2 DEF WorktreeRecords
    <3> QED BY <1>1, <2>1, <2>2, <2>3, <3>1 DEF Mirrored
  <2>7. c.pc \in WorkingPcs BY <2>4 DEF WorkingPcs
  <2> QED BY <2>1, <2>2, <2>3, <2>4, <2>5, <2>6, <2>7, WorkingStep DEF Moves
<1>7. CASE HandoffSyncSnapshot("run")
  <2> DEFINE new == [Snap("run") EXCEPT !.wt = eng["run"].rec]
  <2>1. eng["run"].pc = "handoff_sync" /\ EngineTransition("run", new, "handoff_prepare")
    BY <1>7 DEF HandoffSyncSnapshot, At
  <2>2. /\ Snap("run") \in Snapshots /\ Snap("run").status \notin TerminalStatuses
        /\ eng["run"].rec \in WorktreeRecords
    BY <1>1, <2>1, HeldSnapshot
    DEF AloneHere, SuccessInv, SoundCall, Sound, SnapPcs, EnginePcs, RecPcs
  <2>3. new \in Snapshots /\ new.status = Snap("run").status /\ new.wt # NoRec
    BY <2>2, TaskConstants DEF Snapshots
  <2> HIDE DEF new
  <2> QED BY <2>1, <2>2, <2>3, WorkingTransition DEF WorkingPcs
<1>8. CASE HandoffPrepared("run")
  <2>1. eng["run"].pc = "handoff_prepare" /\ EngineTransition("run", Snap("run"), "handoff_ready")
    BY <1>8 DEF HandoffPrepared, At
  <2>2. /\ Snap("run") \in Snapshots /\ Snap("run").status \notin TerminalStatuses
    BY <1>1, <2>1, HeldSnapshot DEF AloneHere, SnapPcs, EnginePcs
  <2>3. Snap("run").wt # NoRec BY <2>1, AtWork DEF WorkingPcs, Snap
  <2> QED BY <2>1, <2>2, <2>3, WorkingTransition DEF WorkingPcs
<1> USE DEF WorkingPcs, At, TaskStatuses, TerminalStatuses
<1>9. CASE Block("run") BY <1>9, WorkingStatus DEF Block
<1>10. CASE HandoffPrivacyBlocked("run") BY <1>10, WorkingStatus DEF HandoffPrivacyBlocked
<1>11. CASE HandoffReady("run") BY <1>11, WorkingStatus DEF HandoffReady
<1> QED BY <1>3, <1>4, <1>5, <1>6, <1>7, <1>8, <1>9, <1>10, <1>11 DEF Finish

-----------------------------------------------------------------------------
(* run() left to itself: its exceptions and its handler *)

\* A step that only moves run() away from its body, or out of its lease.
LEMMA LeavingAlone ==
    ASSUME AloneHere, NEW pc \in {"release_raise", "h_load"},
           pc = "release_raise" => eng["run"].pc \in UnfinishedPcs,
           eng["run"].pc \notin {"idle", "done", "raised"},
           Goto("run", pc), UNCHANGED <<durable, registry, alive, commands>>
    PROVE  Alone'
<1>1. /\ TypeOK /\ "run" \in Ops BY DEF AloneHere, SuccessInv, Ops
<1>2. UNCHANGED <<task, row, fs, clock, alive, rec, cln>> BY DEF durable, registry, commands
<1>3. PICK c \in Calls : Moves("run", c) /\ c.pc = pc /\ c.pid = eng["run"].pid
  BY <1>1, GotoCall DEF EnginePcs
<1>4. eng'["run"] = c BY <1>3 DEF Moves
<1>5. /\ Mirrored /\ alive = [p \in Pids |-> TRUE] /\ rec.pc = "idle" /\ Bound
      /\ Uncompleted /\ CleanedUp
  BY DEF AloneHere, Alone
<1>6. Mirrored' BY <1>2, <1>5 DEF Mirrored
<1>7. Standing' BY <1>3, <1>4 DEF Standing, EarlyPcs, WorkingPcs
<1>8. Bound'
  BY <1>2, <1>3, <1>4, <1>5 DEF Bound, BoundPcs, WorkingPcs, UnfinishedPcs, SnapPcs
<1>9. Uncompleted' /\ CleanedUp'
  BY <1>2, <1>5 DEF Uncompleted, CleanedUp, Agreed, IsCompleted
<1> QED BY <1>2, <1>5, <1>6, <1>7, <1>8, <1>9 DEF Alone

\* A step that ends run(), with registries that agree or a completed task.
LEMMA EndingAlone ==
    ASSUME AloneHere, NEW pc \in {"done", "raised"}, Return("run", pc),
           UNCHANGED <<durable, registry, alive, commands>>,
           Agreed \/ IsCompleted
    PROVE  Alone'
<1>1. /\ TypeOK /\ "run" \in Ops BY DEF AloneHere, SuccessInv, Ops
<1>2. UNCHANGED <<task, row, fs, clock, alive, rec, cln>> BY DEF durable, registry, commands
<1>3. PICK c \in Calls : Moves("run", c) /\ c.pc = pc /\ c.pid = eng["run"].pid
  BY <1>1, ReturnCall DEF EnginePcs
<1>4. eng'["run"] = c BY <1>3 DEF Moves
<1>5. /\ Mirrored /\ alive = [p \in Pids |-> TRUE] /\ rec.pc = "idle" /\ Bound
      /\ Uncompleted /\ CleanedUp
  BY DEF AloneHere, Alone
<1>6. Mirrored' BY <1>2, <1>5 DEF Mirrored
<1>7. Standing'
  <2>1. Agreed' \/ IsCompleted' BY <1>2 DEF Agreed, IsCompleted
  <2> QED BY <1>3, <1>4, <2>1 DEF Standing, EarlyPcs, WorkingPcs
<1>8. Bound'
  BY <1>2, <1>3, <1>4, <1>5 DEF Bound, BoundPcs, WorkingPcs, UnfinishedPcs, SnapPcs
<1>9. Uncompleted' /\ CleanedUp'
  BY <1>2, <1>5 DEF Uncompleted, CleanedUp, Agreed, IsCompleted
<1> QED BY <1>2, <1>5, <1>6, <1>7, <1>8, <1>9 DEF Alone

\* An exception of an undisturbed run() leaves its body.
LEMMA LeaveBodyAlone ==
    ASSUME AloneHere, LeaveBody("run") PROVE Alone'
<1>1. eng["run"].pc \in EnginePcs BY TypedCalls DEF AloneHere, SuccessInv, Calls, Ops
<1>2. eng["run"].pc \in UnfinishedPcs /\ eng["run"].pc \notin {"idle", "done", "raised"}
  BY <1>1 DEF LeaveBody, OutsideBody, UnfinishedPcs, SnapPcs
<1>3. Goto("run", "release_raise") \/ Goto("run", "h_load") BY DEF LeaveBody, Unwind
<1> QED BY <1>2, <1>3, LeavingAlone DEF LeaveBody

\* An undisturbed run() gives its lease back.
LEMMA ReleaseAlone ==
    ASSUME AloneHere, Release("run") \/ ReleaseFails("run") PROVE Alone'
<1>1. eng["run"].pc \in {"release", "release_raise"} BY DEF Release, ReleaseFails, At
<1>2. UNCHANGED <<durable, registry, alive, commands>> BY DEF Release, ReleaseFails
<1>3. CASE Return("run", "done") /\ eng["run"].pc = "release"
  BY <1>2, <1>3, EndingAlone DEF AloneHere, Alone, Standing
<1>4. CASE Goto("run", "h_load") BY <1>1, <1>2, <1>4, LeavingAlone
<1> QED BY <1>3, <1>4 DEF Release, ReleaseFails, Unwind, At

\* With nothing but an active record, or none, the registries agree.
LEMMA UnboundAgreed ==
    ASSUME AloneHere, ~IsCompleted, fs # NoRec => fs.status = "active" PROVE Agreed
BY DEF AloneHere, Alone, Uncompleted, Agreed

\* The handler of an undisturbed run() up to its last write.
LEMMA HandlerAlone ==
    ASSUME AloneHere, HandlerLoad \/ HandlerVersion \/ HandlerOrphan \/ HandlerRow PROVE Alone'
<1>1. /\ TypeOK /\ "run" \in Ops /\ eng["run"] \in Calls /\ eng["run"].pid = RunPid
      /\ Mirrored /\ alive = [p \in Pids |-> TRUE] /\ rec.pc = "idle"
      /\ Bound /\ Uncompleted /\ CleanedUp
      /\ Sound(eng["run"].pc, eng["run"].snap, eng["run"].rec)
  BY TypedCalls DEF AloneHere, SuccessInv, Ops, Alone, Bound, SoundCall
<1>2. PICK e \in Calls : e = eng["run"] BY <1>1
<1>3. ASSUME NEW c \in Calls, eng'["run"] = c, c.pc \in {"h_version", "h_orphan", "h_final"},
             c.pid = RunPid, c.pc = "h_version" => c.snap = task,
             task # NoTask, task.status \notin TerminalStatuses,
             c.pc = "h_orphan" => task.wt # NoRec, c.pc = "h_final" => Agreed,
             eng["run"].pc \notin {"done", "raised"},
             UNCHANGED <<task, row, fs, clock, alive, rec, cln>>
      PROVE  Alone'
  <2>1. Mirrored' BY <1>1, <1>3 DEF Mirrored
  <2>2. Agreed => Agreed' BY <1>3 DEF Agreed
  <2>3. Standing' BY <1>3, <2>2 DEF Standing, EarlyPcs, WorkingPcs
  <2>4. Bound' BY <1>1, <1>3 DEF Bound, BoundPcs, WorkingPcs
  <2>5. Uncompleted' /\ CleanedUp'
    BY <1>1, <1>3 DEF Uncompleted, CleanedUp, Agreed, IsCompleted
  <2> QED BY <1>1, <1>3, <2>1, <2>3, <2>4, <2>5 DEF Alone
<1>4. CASE HandlerLoad
  <2>1. eng["run"].pc = "h_load" /\ UNCHANGED <<durable, registry, alive, commands>>
    BY <1>4 DEF HandlerLoad, At
  <2>2. CASE task = NoTask \/ task.status \in TerminalStatuses
    <3>1. Return("run", "raised") BY <1>4, <2>2 DEF HandlerLoad
    <3>2. Agreed \/ IsCompleted
      <4>1. CASE task = NoTask
        <5>1. fs # NoRec => fs.status = "active" BY <1>1, <2>1, <4>1 DEF Bound
        <5> QED BY <4>1, <5>1, UnboundAgreed DEF IsCompleted
      <4>2. CASE task # NoTask BY <1>1, <2>2, <4>2 DEF Uncompleted
      <4> QED BY <4>1, <4>2
    <3> QED BY <2>1, <3>1, <3>2, EndingAlone
  <2>3. CASE ~(task = NoTask \/ task.status \in TerminalStatuses)
    <3>1. task \in Snapshots BY <1>1, <2>3 DEF TypeOK
    <3> DEFINE c == [e EXCEPT !.pc = "h_version", !.snap = task]
    <3>2. c \in Calls /\ c.pc = "h_version" /\ c.snap = task /\ c.pid = e.pid
      BY <3>1 DEF Calls, EnginePcs
    <3>3. eng' = [eng EXCEPT !["run"].pc = "h_version", !["run"].snap = task]
      BY <1>4, <2>3 DEF HandlerLoad
    <3>4. eng'["run"] = c BY <1>1, <1>2, <3>3, TypedCalls
    <3> HIDE DEF c
    <3> QED BY <1>1, <1>2, <1>3, <2>1, <2>3, <3>2, <3>4 DEF durable, registry, commands
  <2> QED BY <2>2, <2>3
<1>5. CASE HandlerVersion
  <2>1. eng["run"].pc = "h_version" BY <1>5 DEF HandlerVersion, At
  <2>2. /\ task # NoTask /\ task.status \notin TerminalStatuses /\ e.snap = task
    BY <1>1, <1>2, <2>1 DEF Bound, UnfinishedPcs, SnapPcs, EnginePcs
  <2>3. PICK pc \in {"h_final", "h_orphan"} :
           /\ Only("run", [eng["run"] EXCEPT !.ver = version, !.pc = pc])
           /\ pc = "h_final" <=> task.wt = NoRec
    BY <1>2, <1>5, <2>2 DEF HandlerVersion, Snap
  <2> DEFINE c == [e EXCEPT !.ver = version, !.pc = pc]
  <2>4. c \in Calls /\ c.pc = pc /\ c.pid = e.pid BY <1>1 DEF Calls, EnginePcs, TypeOK
  <2>5. eng' = [eng EXCEPT !["run"] = c] /\ UNCHANGED <<task, row, fs, clock, alive, rec, cln>>
    BY <1>2, <2>3 DEF Only, durable, registry, commands
  <2> HIDE DEF c
  <2>6. eng'["run"] = c BY <1>1, <2>5, TypedCalls
  <2>7. pc = "h_final" => Agreed
    <3> SUFFICES ASSUME pc = "h_final" PROVE Agreed
      OBVIOUS
    <3>1. fs # NoRec => fs.status = "active" BY <1>1, <2>1, <2>3 DEF Bound
    <3> QED BY <2>2, <3>1, UnboundAgreed DEF IsCompleted, TerminalStatuses
  <2> QED BY <1>1, <1>2, <1>3, <2>1, <2>2, <2>3, <2>4, <2>5, <2>6, <2>7
<1>6. CASE HandlerOrphan
  <2>1. eng["run"].pc = "h_orphan" BY <1>6 DEF HandlerOrphan, At
  <2>2. /\ task # NoTask /\ task.status \notin TerminalStatuses /\ task.wt # NoRec
        /\ row # NoRec
    BY <1>1, <2>1 DEF Bound, UnfinishedPcs, SnapPcs, EnginePcs
  <2>3. ~IsCompleted BY <2>2 DEF IsCompleted, TerminalStatuses
  <2>4. CanOrphan BY <1>1, <2>2, <2>3 DEF CanOrphan, Mirrored, Uncompleted, Live
  <2>5. /\ MarkOrphaned /\ Carry("run", "h_row", fs')
        /\ UNCHANGED <<task, row, alive, rec, cln>>
    BY <1>6, <2>4 DEF HandlerOrphan, Carry, durable, commands
  <2>6. fs' \in WorktreeRecords /\ fs' # NoRec /\ fs'.status = "orphaned"
    BY <1>1, <2>5, OrphanedRecord
  <2>7. PICK f \in WorktreeRecords : f = fs' BY <2>6
  <2>8. PICK c \in Calls : Moves("run", c) /\ c.pc = "h_row" /\ c.rec = f
                           /\ c.pid = eng["run"].pid
    BY <1>1, <2>5, <2>7, CarryCall DEF EnginePcs
  <2>9. eng'["run"] = c BY <2>8 DEF Moves
  <2>10. Mirrored' BY <1>1, <2>5, OrphanMirrored
  <2>11. Standing' BY <2>6, <2>7, <2>8, <2>9 DEF Standing, EarlyPcs, WorkingPcs
  <2>12. Bound' BY <1>1, <2>2, <2>5, <2>8, <2>9 DEF Bound, BoundPcs, WorkingPcs
  <2>13. Uncompleted' /\ CleanedUp'
    BY <1>1, <2>2, <2>3, <2>5, <2>6 DEF Uncompleted, CleanedUp, IsCompleted, Live
  <2> QED BY <1>1, <2>5, <2>10, <2>11, <2>12, <2>13 DEF Alone
<1>7. CASE HandlerRow
  <2>1. eng["run"].pc = "h_row" BY <1>7 DEF HandlerRow, At
  <2>2. /\ task # NoTask /\ task.status \notin TerminalStatuses /\ task.wt # NoRec
        /\ row # NoRec
    BY <1>1, <2>1 DEF Bound, UnfinishedPcs, SnapPcs, EnginePcs
  <2>3. fs = e.rec /\ fs.status = "orphaned" /\ e.rec \in WorktreeRecords /\ fs # NoRec
    BY <1>1, <1>2, <2>1, TaskConstants DEF AloneHere, Alone, Standing, Sound, RecPcs
  <2>4. ~IsCompleted BY <2>2 DEF IsCompleted, TerminalStatuses
  <2>5. row \in WorktreeRecords /\ row.status \in Live
    BY <1>1, <2>2, <2>4 DEF Uncompleted, TypeOK
  <2>6. RowAccepts(e.rec)
    <3>1. "orphaned" \in WorktreeTransitions[row.status]
      BY <2>5 DEF WorktreeTransitions, Live
    <3>2. fs.heartbeat \in Nat /\ row.heartbeat \in Nat BY <2>3, <2>5 DEF WorktreeRecords
    <3> QED BY <1>1, <2>2, <2>3, <3>1, <3>2
            DEF RowAccepts, WorktreeUpdateAllowed, OwnerKept, Mirrored
  <2>7. /\ UpdateRow(e.rec) /\ UNCHANGED <<fs, clock, alive, rec, cln>>
        /\ eng' = [eng EXCEPT !["run"].pc = "h_final",
                              !["run"].snap = [@ EXCEPT !.wt = eng["run"].rec]]
    BY <1>2, <1>7, <2>6 DEF HandlerRow, registry, commands
  <2>8. row' = fs /\ task' = task BY <2>3, <2>7, UpdateKeepsRow
  <2>9. eng'["run"].pc = "h_final" /\ eng'["run"].pid = RunPid
    BY <1>1, <2>7, TypedCalls DEF Calls
  <2>10. Mirrored'
    <3>1. fs.heartbeat \in Nat BY <2>3 DEF WorktreeRecords
    <3> QED BY <1>1, <2>3, <2>7, <2>8, <3>1 DEF Mirrored
  <2>11. Agreed' /\ ~IsCompleted'
    BY <2>2, <2>3, <2>7, <2>8 DEF Agreed, IsCompleted, TerminalStatuses
  <2>12. Standing' BY <2>9, <2>11 DEF Standing, EarlyPcs, WorkingPcs
  <2>13. Bound' BY <2>2, <2>3, <2>7, <2>8, <2>9 DEF Bound, BoundPcs, WorkingPcs
  <2>14. Uncompleted' /\ CleanedUp'
    BY <2>3, <2>7, <2>8, <2>11 DEF Uncompleted, CleanedUp, Live
  <2> QED BY <1>1, <2>7, <2>10, <2>12, <2>13, <2>14 DEF Alone
<1> QED BY <1>4, <1>5, <1>6, <1>7

\* The last write of that handler.
LEMMA HandlerFinalAlone ==
    ASSUME AloneHere, NEW status \in {"failed", "cancelled"}, HandlerFinal(status) PROVE Alone'
<1>1. /\ TypeOK /\ "run" \in Ops /\ eng["run"].pid = RunPid
      /\ Mirrored /\ alive = [p \in Pids |-> TRUE] /\ rec.pc = "idle" /\ Bound /\ Uncompleted
      /\ eng["run"].pc = "h_final" /\ Return("run", "raised")
      /\ UNCHANGED <<fs, clock, alive, rec, cln>>
  BY DEF AloneHere, SuccessInv, Ops, Alone, Bound, HandlerFinal, At, registry, commands
<1>2. Agreed BY <1>1 DEF AloneHere, Alone, Standing
<1>3. task # NoTask /\ task.status \notin TerminalStatuses
  BY <1>1 DEF Bound, UnfinishedPcs, SnapPcs, EnginePcs
<1> DEFINE new == In("run", status)
<1>4. new \in Snapshots /\ new.status = status
  <2>1. Snap("run") \in Snapshots BY <1>1, HeldSnapshot DEF AloneHere, SnapPcs, EnginePcs
  <2> QED BY <1>1, <2>1, InFields DEF TaskStatuses
<1>5. /\ row' = row
      /\ task' = task \/ (task' = new /\ (new.wt # NoRec => row # NoRec))
  BY DEF HandlerFinal, StoreTransition, StoreAccepts, durable
<1> HIDE DEF new
<1>6. ~IsCompleted /\ ~IsCompleted' BY <1>3, <1>4, <1>5 DEF IsCompleted, TerminalStatuses
<1>7. PICK c \in Calls : Moves("run", c) /\ c.pc = "raised" /\ c.pid = eng["run"].pid
  BY <1>1, ReturnCall DEF EnginePcs
<1>8. eng'["run"] = c BY <1>7 DEF Moves
<1>9. Mirrored' BY <1>1, <1>5 DEF Mirrored
<1>10. Agreed' BY <1>1, <1>2, <1>5 DEF Agreed
<1>11. Standing' BY <1>7, <1>8, <1>10 DEF Standing, EarlyPcs, WorkingPcs
<1>12. Bound'
  BY <1>1, <1>5, <1>7, <1>8 DEF Bound, BoundPcs, WorkingPcs, UnfinishedPcs, SnapPcs
<1>13. Uncompleted' /\ CleanedUp'
  BY <1>1, <1>5, <1>6, <1>10 DEF Uncompleted, CleanedUp
<1> QED BY <1>1, <1>9, <1>11, <1>12, <1>13 DEF Alone

-----------------------------------------------------------------------------
(* run() left to itself: cleanup, the heartbeat and time *)

\* cleanup beside an undisturbed run() (cli.py: _cleanup).
LEMMA CleanupAlone ==
    ASSUME AloneHere, CleanupCheck \/ Cleanup PROVE Alone'
<1>1. /\ TypeOK /\ Mirrored /\ alive = [p \in Pids |-> TRUE] /\ rec.pc = "idle"
      /\ Standing /\ Bound /\ Uncompleted /\ CleanedUp /\ CleanupSound
  BY DEF AloneHere, SuccessInv, Alone
<1>2. eng' = eng /\ rec' = rec /\ task' = task /\ alive' = alive
  BY DEF CleanupCheck, Cleanup, CleanupConfirm, CleanupLoad, CleanupDirty, CleanupRemoveTree,
         CleanupRecord, CleanupRow, ClnOnly, UpdateRow, durable
<1>3. IsCompleted /\ IsCompleted'
  <2>1. IsCompleted
    BY DEF CleanupCheck, TaskCleanable, Cleanup, CleanupConfirm, CleanupLoad, CleanupDirty,
           CleanupRemoveTree, CleanupRecord, CleanupRow, AloneHere, DeletionInv, IsCompleted
  <2> QED BY <1>2, <2>1 DEF IsCompleted
<1>4. /\ fs # NoRec /\ row # NoRec /\ fs \in WorktreeRecords /\ row \in WorktreeRecords
  BY <1>1, <1>3 DEF CleanedUp, TypeOK
<1>5. eng["run"].pc \notin UnfinishedPcs /\ eng["run"].pc # "idle"
  BY <1>1, <1>3, TaskConstants DEF Bound, Standing, IsCompleted, TerminalStatuses
<1>6. eng["run"].pc \in {"done", "raised", "release", "h_load"}
  BY <1>1, <1>5, TypedCalls DEF UnfinishedPcs, SnapPcs, Calls, Ops
<1>7. ASSUME Mirrored', CleanedUp', fs' # NoRec, row' # NoRec PROVE Alone'
  <2>1. Standing' BY <1>2, <1>3, <1>6 DEF Standing, EarlyPcs, WorkingPcs
  <2>2. task # NoTask /\ task.wt # NoRec
    BY <1>3, TaskConstants DEF AloneHere, SuccessInv, Earned, IsCompleted
  <2>3. Bound'
    BY <1>1, <1>2, <1>6, <1>7, <2>2
    DEF Bound, BoundPcs, WorkingPcs, UnfinishedPcs, SnapPcs
  <2>4. Uncompleted' BY <1>3 DEF Uncompleted
  <2> QED BY <1>1, <1>2, <1>7, <2>1, <2>3, <2>4 DEF Alone
<1>8. ASSUME UNCHANGED <<fs, clock, row>>, CleanedUp' PROVE Alone'
  BY <1>1, <1>4, <1>7, <1>8 DEF Mirrored
<1>9. ASSUME NEW s \in {"removed", "cleanup_blocked"}, cln.pc \in {"tree", "record"},
             WriteRecord([cln.seen EXCEPT !.status = s]),
             cln' = [cln EXCEPT !.pc = "row", !.seen = fs'], row' = row
      PROVE  Alone'
  <2>1. fs = cln.seen /\ fs.status = "complete" /\ row.status = "complete"
    BY <1>1, <1>3, <1>9 DEF CleanedUp
  <2> DEFINE r == [fs EXCEPT !.status = s]
  <2>2. /\ r \in WorktreeRecords /\ r.status = s /\ r.pid = fs.pid /\ r.created = fs.created
        /\ r.completed = fs.completed
    BY <1>4 DEF WorktreeRecords, WorktreeStatuses
  <2>3. WriteRecord(r) BY <1>9, <2>1
  <2> HIDE DEF r
  <2>4. /\ fs' \in WorktreeRecords /\ fs' # NoRec /\ fs'.status = s /\ fs'.pid = fs.pid
        /\ fs'.created = fs.created /\ fs'.completed = fs.completed
        /\ fs'.heartbeat = clock + 1 /\ clock' = clock + 1
    BY <1>1, <2>2, <2>3, WrittenRecord
  <2>5. /\ fs.created \in Nat /\ fs.heartbeat \in Nat /\ fs.completed \in Nat /\ clock \in Nat
        /\ row.heartbeat \in Nat
    BY <1>1, <1>4 DEF WorktreeRecords, TypeOK
  <2>6. Mirrored'
    <3>1. /\ fs.created <= clock /\ fs.heartbeat <= clock /\ row.heartbeat <= clock
          /\ fs.completed # NoTime /\ fs.created <= fs.completed /\ fs.completed <= clock
      BY <1>1, <1>4, <2>1, <2>5 DEF Mirrored, ValidLifetime, NoTime
    <3>2. ValidLifetime(fs') BY <1>9, <2>4, <2>5, <3>1 DEF ValidLifetime, NoTime
    <3>3. /\ fs'.heartbeat <= clock' /\ fs'.created <= clock' /\ row.heartbeat <= fs'.heartbeat
      BY <2>4, <2>5, <3>1
    <3> QED BY <1>1, <1>4, <1>9, <2>4, <3>2, <3>3 DEF Mirrored
  <2>7. cln'.pc = "row" /\ cln'.seen = fs' BY <1>1, <1>9 DEF TypeOK
  <2>8. CleanedUp' BY <1>4, <1>9, <2>1, <2>4, <2>7 DEF CleanedUp
  <2> QED BY <1>4, <1>7, <1>9, <2>4, <2>6, <2>8
<1>10. CASE CleanupCheck \/ CleanupConfirm
  <2>1. cln.pc \in {"idle", "confirm"} /\ cln'.pc \in {"idle", "confirm", "load"}
        /\ UNCHANGED <<fs, clock, row>>
    BY <1>1, <1>10 DEF CleanupCheck, CleanupConfirm, ClnOnly, CleanupIdle, TypeOK, durable, registry
  <2>2. CleanedUp' BY <1>1, <1>3, <2>1 DEF CleanedUp
  <2> QED BY <1>8, <2>1, <2>2
<1>11. CASE CleanupLoad
  <2>1. cln.pc = "load" /\ UNCHANGED <<fs, clock, row>>
    BY <1>11 DEF CleanupLoad, ClnOnly, durable, registry
  <2>2. \/ cln'.pc = "idle"
        \/ cln'.pc = "tree" /\ cln'.seen = fs /\ fs.status = "complete"
    BY <1>1, <1>11 DEF CleanupLoad, ClnOnly, CleanupIdle, TypeOK
  <2>3. CleanedUp' BY <1>1, <1>3, <2>1, <2>2 DEF CleanedUp
  <2> QED BY <1>8, <2>1, <2>3
<1>12. CASE CleanupDirty BY <1>9, <1>12 DEF CleanupDirty, durable
<1>13. CASE CleanupRecord BY <1>9, <1>13 DEF CleanupRecord, durable
<1>14. CASE CleanupRemoveTree
  <2>1. cln.pc = "tree" /\ cln'.pc = "record" /\ cln'.seen = cln.seen
        /\ UNCHANGED <<fs, clock, row>>
    BY <1>1, <1>14 DEF CleanupRemoveTree, TypeOK, durable
  <2>2. CleanedUp' BY <1>1, <1>3, <2>1 DEF CleanedUp
  <2> QED BY <1>8, <2>1, <2>2
<1>15. CASE CleanupRow
  <2>1. /\ cln.pc = "row" /\ cln' = CleanupIdle /\ UNCHANGED <<fs, clock>>
    BY <1>15 DEF CleanupRow, registry
  <2>2. /\ fs = cln.seen /\ fs.status \in {"removed", "cleanup_blocked"} /\ row.status = "complete"
    BY <1>1, <1>3, <2>1 DEF CleanedUp
  <2>3. RowAccepts(cln.seen)
    <3>1. fs.status \in WorktreeTransitions[row.status] BY <2>2 DEF WorktreeTransitions
    <3>2. fs.heartbeat \in Nat /\ row.heartbeat \in Nat BY <1>4 DEF WorktreeRecords
    <3> QED BY <1>1, <1>4, <2>2, <3>1, <3>2
            DEF RowAccepts, WorktreeUpdateAllowed, OwnerKept, Mirrored
  <2>4. row' = fs BY <1>4, <1>15, <2>2, <2>3, UpdateKeepsRow DEF CleanupRow
  <2>5. cln'.pc = "idle" BY <1>1, <2>1 DEF CleanupIdle, TypeOK
  <2>6. Mirrored'
    <3>1. fs.heartbeat \in Nat BY <1>4 DEF WorktreeRecords
    <3> QED BY <1>1, <1>4, <2>1, <2>4, <3>1 DEF Mirrored
  <2>7. CleanedUp' BY <1>4, <2>1, <2>2, <2>4, <2>5 DEF CleanedUp
  <2> QED BY <1>4, <1>7, <2>1, <2>4, <2>6, <2>7
<1> QED BY <1>10, <1>11, <1>12, <1>13, <1>14, <1>15 DEF Cleanup

\* The heartbeat thread of run() rewrites the registry file (worktrees.py: lease).
LEMMA BeatAlone ==
    ASSUME AloneHere, HeartbeatRecord("run") PROVE Alone'
<1>1. /\ TypeOK /\ Mirrored /\ alive = [p \in Pids |-> TRUE] /\ rec.pc = "idle"
      /\ Standing /\ Bound /\ Uncompleted /\ CleanedUp /\ eng["run"].pid = RunPid
      /\ "run" \in Ops /\ Sound(eng["run"].pc, eng["run"].snap, eng["run"].rec)
  BY DEF AloneHere, SuccessInv, Alone, Bound, Ops, SoundCall
<1>2. /\ WriteRecord([fs EXCEPT !.pid = RunPid]) /\ fs.status = "active" /\ fs # NoRec
      /\ eng["run"].pc \notin OutsideBody
      /\ UNCHANGED <<task, row, alive, eng, rec, cln>>
  BY <1>1 DEF HeartbeatRecord, LeaseHeld, WriteRecord, durable, commands
<1>3. /\ fs \in WorktreeRecords /\ fs' \in WorktreeRecords /\ fs' # NoRec
      /\ fs'.status = "active" /\ fs'.heartbeat = clock + 1
  BY <1>1, <1>2, BeatRecord, TaskConstants
<1>4. Mirrored' BY <1>1, <1>2, BeatMirrored
<1>5. eng["run"].pc \in UnfinishedPcs
  BY <1>1, <1>2, TypedCalls DEF UnfinishedPcs, SnapPcs, OutsideBody, Calls
<1>6. ~IsCompleted /\ ~IsCompleted'
  BY <1>1, <1>2, <1>5 DEF Bound, IsCompleted, TerminalStatuses
<1>7. eng["run"].pc \notin EarlyPcs \cup {"fs_complete", "row_complete", "cancel_row", "cancel_final"}
  BY <1>1, <1>2 DEF Standing, Sound
<1>8. eng["run"].pc = "made" => eng["run"].rec.heartbeat <= fs'.heartbeat
  <2> SUFFICES ASSUME eng["run"].pc = "made" PROVE eng["run"].rec.heartbeat <= fs'.heartbeat
    OBVIOUS
  <2>1. eng["run"].rec \in WorktreeRecords BY <1>1 DEF Sound, RecPcs
  <2>2. /\ eng["run"].rec.heartbeat \in Nat /\ fs.heartbeat \in Nat /\ clock \in Nat
    BY <1>1, <1>3, <2>1 DEF WorktreeRecords, TypeOK
  <2>3. eng["run"].rec.heartbeat <= fs.heartbeat /\ fs.heartbeat <= clock
    BY <1>1, <1>2 DEF Standing, Mirrored
  <2> QED BY <1>3, <2>2, <2>3
<1>9. Standing' BY <1>1, <1>2, <1>3, <1>7, <1>8 DEF Standing, OutsideBody
<1>10. Bound' BY <1>1, <1>2, <1>3 DEF Bound
<1>11. Uncompleted' /\ CleanedUp'
  <2>1. task # NoTask /\ task.status \notin TerminalStatuses BY <1>1, <1>5 DEF Bound
  <2> QED BY <1>1, <1>2, <1>3, <1>6, <2>1 DEF Uncompleted, CleanedUp, Live
<1> QED BY <1>1, <1>2, <1>4, <1>9, <1>10, <1>11 DEF Alone

\* Steps that touch neither the task nor its records.
LEMMA IdleAlone ==
    ASSUME AloneHere, UNCHANGED <<task, row, fs, clock, alive, eng, rec, cln>> PROVE Alone'
<1>1. Alone BY DEF AloneHere
<1>2. Mirrored' /\ Standing' /\ Bound'
  BY <1>1 DEF Alone, Mirrored, Standing, Bound, Agreed, IsCompleted
<1>3. Uncompleted' /\ CleanedUp'
  BY <1>1 DEF Alone, Uncompleted, CleanedUp, Agreed, IsCompleted
<1> QED BY <1>1, <1>2, <1>3 DEF Alone

\* Every step that leaves run() undisturbed keeps its records in order.
LEMMA RunStepAlone ==
    ASSUME AloneHere, RunStep PROVE Alone'
<1>1. CASE EngineStep("run")
  <2>1. CASE Setup("run") BY <2>1, SetupAlone
  <2>2. CASE Attempt("run") BY <2>2, AttemptAlone
  <2>3. CASE Finish("run") BY <2>3, FinishAlone
  <2>4. CASE Unwinding("run")
    BY <2>4, LeaveBodyAlone, ReleaseAlone, HandlerAlone, HandlerFinalAlone DEF Unwinding, Raise
  <2> QED BY <1>1, <2>1, <2>2, <2>3, <2>4 DEF EngineStep
<1>2. CASE Fault("run") \/ ReleaseFails("run")
  BY <1>2, LeaveBodyAlone, ReleaseAlone DEF Fault
<1>3. CASE HeartbeatLease("run") \/ TimePasses
  BY <1>3, IdleAlone DEF HeartbeatLease, TimePasses, durable, registry, commands
<1>4. CASE HeartbeatRecord("run") BY <1>4, BeatAlone
<1>5. CASE CleanupCheck \/ Cleanup BY <1>5, CleanupAlone
<1> QED BY <1>1, <1>2, <1>3, <1>4, <1>5 DEF RunStep

\* Nothing is registered before run() starts.
LEMMA AloneInitial == Init => AloneInv
<1> SUFFICES ASSUME Init PROVE Alone
  BY DEF AloneInv
<1>1. "run" \in Ops BY DEF Ops
<1>2. Mirrored /\ Uncompleted /\ CleanedUp
  BY DEF Init, Mirrored, Uncompleted, CleanedUp, Agreed, IsCompleted
<1>3. Standing BY <1>1 DEF Init, Standing, WorkingPcs
<1>4. Bound BY <1>1 DEF Init, Bound, BoundPcs, WorkingPcs, UnfinishedPcs, SnapPcs
<1> QED BY <1>2, <1>3, <1>4 DEF Init, Alone

\* A run() that nobody interferes with keeps its records in order, whichever of its
\* steps fails and however cleanup interleaves: once it is over, a cleanable record
\* belongs to a COMPLETED task and the registry file agrees with the durable row
\* (engine.py: run, _execute_flow; cli.py: _cleanup).
THEOREM RunKeepsOrder == Spec => []RunConsistent
<1> DEFINE IInv == SuccessInv /\ DeletionInv /\ AloneInv
<1>1. Init => IInv
  BY SuccessInitial, AloneInitial DEF Init, DeletionInv
<1>2. IInv /\ [Next]_vars => IInv'
  <2> SUFFICES ASSUME IInv, [Next]_vars PROVE IInv'
    OBVIOUS
  <2>1. SuccessInv' /\ DeletionInv' BY SuccessPreserved, DeletionPreserved
  <2>2. AloneInv'
    <3>1. CASE Next
      <4> SUFFICES ASSUME RunAlone' PROVE Alone'
        BY DEF AloneInv
      <4>1. RunAlone /\ RunStep BY <3>1, AloneBefore
      <4>2. AloneHere BY <4>1 DEF AloneInv, AloneHere
      <4> QED BY <4>1, <4>2, RunStepAlone
    <3>2. CASE UNCHANGED vars
      <4> SUFFICES ASSUME RunAlone' PROVE Alone'
        BY DEF AloneInv
      <4>1. UNCHANGED <<task, row, fs, clock, alive, eng, rec, cln, crashes>>
        BY <3>2 DEF vars, durable, registry, commands
      <4>2. RunAlone BY <4>1 DEF RunAlone
      <4>3. AloneHere BY <4>2 DEF AloneInv, AloneHere
      <4> QED BY <4>1, <4>3, IdleAlone
    <3> QED BY <3>1, <3>2
  <2> QED BY <2>1, <2>2
<1>3. IInv => RunConsistent
  <2> SUFFICES ASSUME IInv PROVE RunConsistent
    OBVIOUS
  <2>1. TypeOK BY DEF SuccessInv
  <2>2. ASSUME RunAlone, Quiet, fs # NoRec
        PROVE  /\ fs.status = "complete" => task.status = "completed"
               /\ row # NoRec => fs.status = row.status
    <3>1. Alone BY <2>2 DEF AloneInv
    <3>2. eng["run"].pc \in {"idle", "done", "raised"} /\ cln.pc = "idle"
      <4>1. Over("run") /\ cln.pc = "idle" BY <2>2 DEF Quiet, Ops
      <4>2. eng["run"].pid \in Pids BY <2>1, TypedCalls DEF Calls, Ops
      <4>3. alive[eng["run"].pid] BY <3>1, <4>2 DEF Alone
      <4> QED BY <4>1, <4>3 DEF Over
    <3>3. eng["run"].pc # "idle" BY <2>2, <3>1 DEF Alone, Standing, EarlyPcs
    <3>4. Agreed \/ IsCompleted BY <3>1, <3>2, <3>3 DEF Alone, Standing
    <3> QED BY <2>2, <3>1, <3>2, <3>4 DEF Alone, Agreed, IsCompleted, CleanedUp
  <2> QED BY <2>1, <2>2 DEF RunConsistent, NeverLeftCleanable, MirrorsAgree
<1> HIDE DEF IInv
<1> QED BY <1>1, <1>2, <1>3, PTL DEF Spec

-----------------------------------------------------------------------------
(***************************************************************************)
(* The inductive invariant behind AttemptsKept.  The versions a call holds *)
(* do not protect the history: snapshot and version are read separately.   *)
(* What does is that a call which may still write holds a snapshot at      *)
(* least as long as the task's, and that no two calls may: run() has       *)
(* delivered its task when a resume() starts, and what its handler can     *)
(* still write after that comes with a lease nobody can take over.         *)
(***************************************************************************)
OneResumer == \A a, b \in Resumers : a = b

HandlerPcs == {"h_load", "h_version", "h_orphan", "h_row", "h_final"}

\* A call before it has the lease, run() before it asks for it, and whoever holds it.
WaitPcs == {"record", "version", "lease_check", "lease_wait"}

BeginPcs == {"created", "inspected", "planned", "made", "registered"}

LeasePcs == EnginePcs \ (WaitPcs \cup BeginPcs \cup HandlerPcs \cup {"idle", "done", "raised"})

\* The history b goes on from a: no attempt is dropped, no ended one rewritten.
Kept(a, b) ==
    /\ Len(a) <= Len(b)
    /\ \A i \in 1..Len(a) : a[i] # "running" => b[i] = a[i]

\* run() has handed its task over, or its handler runs under a lease that stays.
Delivered ==
    \/ eng["run"].pc \in {"release", "done", "raised"}
    \/ eng["run"].pc \in HandlerPcs /\ HoldsLease("run")

\* Nobody else will ever hold the lease.
Stuck == eng["run"].pc \in HandlerPcs \cup {"raised"} /\ HoldsLease("run")

\* A call that still waits for the lease of a stuck run().
Barred(o) == o # "run" /\ eng[o].pc \in WaitPcs /\ Stuck

LeaseOwned == \A o \in Ops : eng[o].pc \in LeasePcs => HoldsLease(o)

ResumedLate ==
    \A o \in Resumers : /\ eng[o].pc # "idle" => Delivered
                        /\ eng[o].pc \notin BeginPcs \cup HandlerPcs

SnapsCurrent ==
    \A o \in Ops : eng[o].pc \in SnapPcs =>
        task # NoTask /\ (Kept(task.att, eng[o].snap.att) \/ Barred(o))

RecoverBehind ==
    rec.pc \in {"version", "final"} => task # NoTask /\ Kept(rec.snap.att, task.att)

ReadyDelivered == task # NoTask /\ task.status = "handoff_ready" => Delivered

\* The attempt under way is the last one, and "running".
AttemptOpen ==
    \A o \in Ops : eng[o].pc \in TriedPcs =>
        eng[o].snap.att[Len(eng[o].snap.att)] = "running"

NotReadyYet ==
    eng["run"].pc \in SnapPcs \ HandlerPcs => eng["run"].snap.status # "handoff_ready"

HistoryInv ==
    /\ LeaseOwned /\ ResumedLate /\ SnapsCurrent /\ RecoverBehind
    /\ ReadyDelivered /\ AttemptOpen /\ NotReadyYet

HistoryHere == SuccessInv /\ HistoryInv /\ OneResumer

\* The task's history goes on.
Continues == task # NoTask => task' # NoTask /\ Kept(task.att, task'.att)

\* Going on is a preorder.
LEMMA KeptIsPreorder ==
    ASSUME NEW S, NEW a \in Seq(S), NEW b \in Seq(S), NEW c \in Seq(S)
    PROVE  Kept(a, a) /\ (Kept(a, b) /\ Kept(b, c) => Kept(a, c))
<1>1. Len(a) \in Nat /\ Len(b) \in Nat /\ Len(c) \in Nat
  BY LenProperties
<1>2. Kept(a, a)
  BY <1>1 DEF Kept
<1>3. ASSUME Kept(a, b), Kept(b, c) PROVE Kept(a, c)
  <2>1. Len(a) <= Len(c)
    BY <1>1, <1>3 DEF Kept
  <2>2. ASSUME NEW i \in 1..Len(a), a[i] # "running" PROVE c[i] = a[i]
    <3>1. i \in 1..Len(b) /\ b[i] = a[i]
      BY <1>1, <1>3, <2>2 DEF Kept
    <3> QED BY <1>3, <2>2, <3>1 DEF Kept
  <2> QED BY <2>1, <2>2 DEF Kept
<1> QED BY <1>2, <1>3

\* The histories in sight are sequences of attempts.
LEMMA Histories ==
    ASSUME SuccessInv
    PROVE  /\ task # NoTask => task.att \in Seq(AttemptStatuses)
           /\ \A o \in Ops : eng[o].pc \in SnapPcs => eng[o].snap.att \in Seq(AttemptStatuses)
           /\ rec.pc \in {"version", "final"} => rec.snap.att \in Seq(AttemptStatuses)
<1>1. \A s \in Snapshots : s.att \in Seq(AttemptStatuses)
  BY DEF Snapshots
<1>2. task # NoTask => task \in Snapshots
  BY DEF SuccessInv, TypeOK
<1>3. \A o \in Ops : eng[o].pc \in SnapPcs => eng[o].snap \in Snapshots
  BY DEF SuccessInv, SoundCall, Sound
<1>4. rec.pc \in {"version", "final"} => rec.snap \in Snapshots
  BY DEF SuccessInv, RecoverSound
<1> QED BY <1>1, <1>2, <1>3, <1>4

\* A step of one call: what it has to see to so that the histories go on.
LEMMA CallContinues ==
    ASSUME HistoryHere, SuccessInv', NEW o \in Ops,
           \A q \in Ops \ {o} : eng'[q] = eng[q], rec' = rec,
           \A q \in Ops \ {o} : HoldsLease(q) => HoldsLease(q)',
           eng'[o].pc \in LeasePcs => HoldsLease(o)',
           o = "run" => (Delivered => Delivered') /\ (Stuck => Stuck'),
           o # "run" /\ eng'[o].pc # "idle" => Delivered,
           o # "run" => eng'[o].pc \notin BeginPcs \cup HandlerPcs,
           Continues,
           task' # task => \A q \in Ops \ {o} : eng[q].pc \in SnapPcs => Barred(q),
           eng'[o].pc \in SnapPcs =>
              task' # NoTask /\ (Kept(task'.att, eng'[o].snap.att) \/ Barred(o)'),
           task' # task /\ task' # NoTask /\ task'.status = "handoff_ready" => Delivered',
           eng'[o].pc \in TriedPcs => eng'[o].snap.att[Len(eng'[o].snap.att)] = "running",
           o = "run" /\ eng'[o].pc \in SnapPcs \ HandlerPcs => eng'[o].snap.status # "handoff_ready"
    PROVE  HistoryInv'
<1>0. /\ LeaseOwned /\ ResumedLate /\ SnapsCurrent /\ RecoverBehind /\ ReadyDelivered
      /\ AttemptOpen /\ NotReadyYet /\ "run" \in Ops
  BY DEF HistoryHere, HistoryInv, Ops
<1>1. (Delivered => Delivered') /\ (Stuck => Stuck')
  <2>1. CASE o = "run"
    BY <2>1
  <2>2. CASE o # "run"
    BY <1>0, <2>2 DEF Delivered, Stuck
  <2> QED BY <2>1, <2>2
<1>2. LeaseOwned' /\ AttemptOpen'
  BY <1>0 DEF LeaseOwned, AttemptOpen
<1>3. ResumedLate'
  <2> SUFFICES ASSUME NEW q \in Resumers
               PROVE  /\ eng'[q].pc # "idle" => Delivered'
                      /\ eng'[q].pc \notin BeginPcs \cup HandlerPcs
    BY DEF ResumedLate
  <2>1. q \in Ops /\ q # "run"
    BY TaskConstants DEF Ops
  <2> QED BY <1>0, <1>1, <2>1 DEF ResumedLate
<1>4. SnapsCurrent'
  <2> SUFFICES ASSUME NEW q \in Ops, q # o, eng'[q].pc \in SnapPcs
               PROVE  task' # NoTask /\ (Kept(task'.att, eng'[q].snap.att) \/ Barred(q)')
    BY DEF SnapsCurrent
  <2>1. eng'[q] = eng[q] /\ task # NoTask /\ task' # NoTask
    BY <1>0 DEF SnapsCurrent, Continues
  <2>2. Barred(q) => Barred(q)'
    BY <1>1, <2>1 DEF Barred
  <2> QED BY <1>0, <2>1, <2>2 DEF SnapsCurrent
<1>5. RecoverBehind'
  <2> SUFFICES ASSUME rec.pc \in {"version", "final"}
               PROVE  task' # NoTask /\ Kept(rec.snap.att, task'.att)
    BY DEF RecoverBehind
  <2>1. task # NoTask /\ task' # NoTask /\ Kept(rec.snap.att, task.att) /\ Kept(task.att, task'.att)
    BY <1>0 DEF RecoverBehind, Continues
  <2>2. /\ rec.snap.att \in Seq(AttemptStatuses) /\ task.att \in Seq(AttemptStatuses)
        /\ task'.att \in Seq(AttemptStatuses)
    <3>1. task' \in Snapshots
      BY <2>1 DEF SuccessInv, TypeOK
    <3> QED BY <2>1, <3>1, Histories DEF HistoryHere, Snapshots
  <2> QED BY <2>1, <2>2, KeptIsPreorder
<1>6. ReadyDelivered'
  BY <1>0, <1>1 DEF ReadyDelivered
<1>7. NotReadyYet'
  BY <1>0 DEF NotReadyYet
<1> QED BY <1>2, <1>3, <1>4, <1>5, <1>6, <1>7 DEF HistoryInv

\* A call that writes the task is the only one that may: another one is stuck, or has
\* nothing to write.
LEMMA WriterIsAlone ==
    ASSUME HistoryHere, NEW o \in Ops, eng[o].pc \in SnapPcs,
           o # "run" => eng[o].pc \in LeasePcs,
           NEW q \in Ops \ {o}, eng[q].pc \in SnapPcs
    PROVE  Barred(q)
<1>0. LeaseOwned /\ ResumedLate /\ OneResumer /\ eng[q].pc # "idle" /\ eng[o].pc # "idle"
  BY DEF HistoryHere, HistoryInv, SnapPcs
<1>1. CASE o = "run"
  <2>1. q \in Resumers
    BY <1>1 DEF Ops
  <2>2. Delivered
    BY <1>0, <2>1 DEF ResumedLate
  <2>3. eng["run"].pc \in HandlerPcs /\ HoldsLease("run")
    BY <1>1, <2>2 DEF Delivered, SnapPcs
  <2>4. eng[q].pc \in WaitPcs
    <3>1. eng[q].pc \in EnginePcs
      BY DEF SnapPcs
    <3>2. eng[q].pc \notin LeasePcs
      BY <1>0, <1>1, <2>3 DEF LeaseOwned, HoldsLease
    <3>3. eng[q].pc \notin BeginPcs \cup HandlerPcs
      BY <1>0, <2>1 DEF ResumedLate
    <3> QED BY <1>0, <3>1, <3>2, <3>3 DEF LeasePcs, SnapPcs
  <2> QED BY <1>1, <2>3, <2>4 DEF Barred, Stuck
<1>2. CASE o # "run"
  <2>1. q = "run" /\ o \in Resumers
    BY <1>0, <1>2 DEF Ops, OneResumer
  <2>2. HoldsLease(o) /\ Delivered
    BY <1>0, <1>2, <2>1 DEF LeaseOwned, ResumedLate
  <2>3. eng["run"].pc \in {"release", "done", "raised"}
    BY <1>2, <2>2 DEF Delivered, HoldsLease
  <2> QED BY <2>1, <2>3 DEF SnapPcs
<1> QED BY <1>1, <1>2

\* The version's owner writes the task and goes on with what it wrote.
LEMMA WriteContinues ==
    ASSUME HistoryHere, SuccessInv', NEW o \in Ops, NEW new \in Snapshots, NEW pc \in EnginePcs,
           eng[o].pc \in SnapPcs \ (HandlerPcs \cup WaitPcs),
           o # "run" => eng[o].pc \in LeasePcs,
           pc \in SnapPcs \cup {"release", "release_raise"},
           pc \notin BeginPcs => pc \in LeasePcs \cup WaitPcs,
           pc \in LeasePcs => eng[o].pc \in LeasePcs,
           o # "run" => pc \in LeasePcs,
           Kept(Snap(o).att, new.att),
           pc \in TriedPcs => new.att[Len(new.att)] = "running",
           new.status = "handoff_ready" => pc = "release" \/ o # "run",
           eng'[o].pc = pc, eng'[o].snap = new, \A q \in Ops \ {o} : eng'[q] = eng[q],
           task' = new, rec' = rec, lease' = lease
    PROVE  HistoryInv' /\ Continues
<1>0. /\ LeaseOwned /\ ResumedLate /\ SnapsCurrent /\ "run" \in Ops
      /\ eng[o].pc \notin HandlerPcs \cup {"idle", "release", "done", "raised"}
  BY DEF HistoryHere, HistoryInv, Ops, SnapPcs
<1>1. Continues /\ task' # NoTask
  <2>1. task # NoTask /\ Kept(task.att, Snap(o).att)
    BY <1>0 DEF SnapsCurrent, Barred, Snap
  <2>2. /\ task.att \in Seq(AttemptStatuses) /\ Snap(o).att \in Seq(AttemptStatuses)
        /\ new.att \in Seq(AttemptStatuses)
    BY <2>1, Histories DEF HistoryHere, Snap, Snapshots
  <2> QED BY <2>1, <2>2, KeptIsPreorder, TaskConstants DEF Continues
<1>2. \A q \in Ops \ {o} : eng[q].pc \in SnapPcs => Barred(q)
  BY WriterIsAlone
<1>3. \A q \in Ops : HoldsLease(q)' = HoldsLease(q)
  BY DEF HoldsLease
<1>4. pc \in LeasePcs => HoldsLease(o)'
  BY <1>0, <1>3 DEF LeaseOwned
<1>5. o = "run" => ~Delivered /\ ~Stuck
  BY <1>0 DEF Delivered, Stuck
<1>6. o # "run" => Delivered
  BY <1>0 DEF Ops, ResumedLate
<1>7. Kept(new.att, new.att)
  BY KeptIsPreorder DEF Snapshots
<1>8. new.status = "handoff_ready" => Delivered'
  <2>1. CASE o = "run" BY <2>1 DEF Delivered
  <2>2. CASE o # "run" BY <1>0, <1>3, <1>6, <2>2 DEF Delivered
  <2> QED BY <2>1, <2>2
<1>9. o # "run" => pc \notin BeginPcs \cup HandlerPcs
  BY DEF LeasePcs
<1>10. o = "run" /\ pc \in SnapPcs => new.status # "handoff_ready"
  BY DEF SnapPcs
<1>11. HistoryInv'
  BY <1>1, <1>2, <1>3, <1>4, <1>5, <1>6, <1>7, <1>8, <1>9, <1>10, CallContinues
<1> QED BY <1>1, <1>11

\* A transition as the store makes it (engine.py: _transition).
LEMMA TransitionContinues ==
    ASSUME HistoryHere, SuccessInv', NEW o \in Ops, NEW new \in Snapshots, NEW pc \in EnginePcs,
           EngineTransition(o, new, pc),
           eng[o].pc \in SnapPcs \ (HandlerPcs \cup WaitPcs),
           o # "run" => eng[o].pc \in LeasePcs,
           pc \in SnapPcs \cup {"release", "release_raise"},
           pc \notin BeginPcs => pc \in LeasePcs \cup WaitPcs,
           pc \in LeasePcs => eng[o].pc \in LeasePcs,
           o # "run" => pc \in LeasePcs,
           Kept(Snap(o).att, new.att),
           pc \in TriedPcs => new.att[Len(new.att)] = "running",
           new.status = "handoff_ready" => pc = "release" \/ o # "run"
    PROVE  HistoryInv' /\ Continues
<1>1. /\ eng' = [eng EXCEPT ![o].pc = pc, ![o].snap = new, ![o].ver = version + 1]
      /\ task' = new /\ rec' = rec /\ lease' = lease
  BY DEF EngineTransition, StoreTransition, commands
<1>2. eng'[o].pc = pc /\ eng'[o].snap = new /\ \A q \in Ops \ {o} : eng'[q] = eng[q]
  <2>1. PICK e \in Calls : e = eng[o] BY TypedCalls DEF HistoryHere, SuccessInv
  <2>2. eng \in [Ops -> Calls] BY TypedCalls DEF HistoryHere, SuccessInv
  <2> QED BY <1>1, <2>1, <2>2 DEF Calls
<1> QED BY <1>1, <1>2, WriteContinues

\* The steps that keep the history as it is and change the status.
LEMMA StatusContinues ==
    ASSUME HistoryHere, SuccessInv', NEW o \in Ops,
           NEW status \in TaskStatuses, NEW pc \in EnginePcs,
           EngineTransition(o, In(o, status), pc),
           eng[o].pc \in SnapPcs \ (HandlerPcs \cup WaitPcs),
           o # "run" => eng[o].pc \in LeasePcs,
           pc \in SnapPcs \cup {"release", "release_raise"},
           pc \notin BeginPcs => pc \in LeasePcs \cup WaitPcs,
           pc \in LeasePcs => eng[o].pc \in LeasePcs,
           o # "run" => pc \in LeasePcs,
           pc \in TriedPcs => eng[o].pc \in TriedPcs,
           status = "handoff_ready" => pc = "release" \/ o # "run"
    PROVE  HistoryInv' /\ Continues
<1>1. Snap(o) \in Snapshots BY HeldSnapshot DEF HistoryHere
<1> DEFINE new == In(o, status)
<1>2. new \in Snapshots /\ new.status = status /\ new.att = Snap(o).att BY <1>1, InFields
<1>3. Kept(Snap(o).att, new.att) BY <1>1, <1>2, KeptIsPreorder DEF Snapshots
<1>4. pc \in TriedPcs => new.att[Len(new.att)] = "running"
  BY <1>2 DEF HistoryHere, HistoryInv, AttemptOpen, Snap
<1> HIDE DEF new
<1>5. EngineTransition(o, new, pc) BY DEF new
<1> QED BY <1>2, <1>3, <1>4, <1>5, TransitionContinues

\* The steps that end the attempt under way.
LEMMA EndedContinues ==
    ASSUME HistoryHere, SuccessInv', NEW o \in Ops, NEW status \in TaskStatuses,
           NEW result \in AttemptStatuses, NEW pc \in LeasePcs \ TriedPcs, NEW new \in Snapshots,
           EngineTransition(o, new, pc), new.att = Ended(o, status, result).att,
           new.status = status,
           eng[o].pc \in TriedPcs,
           status = "handoff_ready" => pc = "release" \/ o # "run"
    PROVE  HistoryInv' /\ Continues
<1>1. Snap(o) \in Snapshots /\ Snap(o).att # <<>>
  BY HeldSnapshot DEF HistoryHere, TriedPcs, SnapPcs, EnginePcs
<1> DEFINE a == Snap(o).att
           n == Len(a)
<1>2. a \in Seq(AttemptStatuses) /\ n \in 1..Len(a) /\ a[n] = "running"
  <2>1. a \in Seq(AttemptStatuses) BY <1>1 DEF Snapshots
  <2>2. n \in 1..Len(a) BY <1>1, <2>1, EmptySeq, LenProperties
  <2> QED BY <2>1, <2>2 DEF HistoryHere, HistoryInv, AttemptOpen, Snap
<1>3. new.att = [a EXCEPT ![n] = result] BY <1>1 DEF Ended, In, Snapshots
<1> HIDE DEF a
<1>4. Kept(a, new.att)
  <2>1. Len(new.att) = Len(a) /\ \A i \in 1..Len(a) : i # n => new.att[i] = a[i]
    BY <1>2, <1>3, ExceptSeq
  <2> QED BY <1>2, <2>1, LenProperties DEF Kept
<1>5. eng[o].pc \in LeasePcs /\ eng[o].pc \in SnapPcs \ (HandlerPcs \cup WaitPcs)
  BY DEF TriedPcs, LeasePcs, SnapPcs, HandlerPcs, WaitPcs, BeginPcs, EnginePcs
<1>6. pc \in SnapPcs \cup {"release", "release_raise"} /\ pc \in EnginePcs
  BY DEF LeasePcs, SnapPcs, HandlerPcs
<1> QED BY <1>4, <1>5, <1>6, TransitionContinues DEF a

\* A step of one call that writes neither task nor lease: its history is what it was.
LEMMA MoveContinues ==
    ASSUME HistoryHere, SuccessInv', NEW o \in Ops, NEW c \in Calls, Moves(o, c),
           task' = task, lease' = lease, rec' = rec,
           eng[o].pc \notin {"idle", "done", "raised"}, c.pc # "idle",
           c.pc \in LeasePcs => eng[o].pc \in LeasePcs \/ HoldsLease(o),
           c.pc \in SnapPcs => /\ eng[o].pc \in SnapPcs
                               /\ c.snap.att = eng[o].snap.att
                               /\ c.snap.status = eng[o].snap.status,
           c.pc \in SnapPcs /\ eng[o].pc \in WaitPcs => c.pc \in WaitPcs,
           c.pc \in TriedPcs => eng[o].pc \in TriedPcs,
           eng[o].pc = "release" => c.pc \in {"done", "raised", "h_load"},
           eng[o].pc \in HandlerPcs => c.pc \in HandlerPcs \cup {"raised"},
           o # "run" => c.pc \notin BeginPcs \cup HandlerPcs
    PROVE  HistoryInv' /\ Continues
<1>0. /\ LeaseOwned /\ ResumedLate /\ SnapsCurrent /\ AttemptOpen /\ NotReadyYet /\ "run" \in Ops
      /\ eng'[o] = c /\ \A q \in Ops \ {o} : eng'[q] = eng[q]
  BY DEF HistoryHere, HistoryInv, Ops, Moves
<1>1. \A q \in Ops : HoldsLease(q)' = HoldsLease(q)
  BY DEF HoldsLease
<1>2. Continues
  <2>1. task # NoTask => task.att \in Seq(AttemptStatuses) BY Histories DEF HistoryHere
  <2> QED BY <2>1, KeptIsPreorder DEF Continues
<1>3. c.pc \in LeasePcs => HoldsLease(o)'
  BY <1>0, <1>1 DEF LeaseOwned
<1>4. o = "run" => (Delivered => Delivered') /\ (Stuck => Stuck')
  <2> SUFFICES ASSUME o = "run" PROVE (Delivered => Delivered') /\ (Stuck => Stuck')
    OBVIOUS
  <2>1. Stuck => Stuck' BY <1>0, <1>1 DEF Stuck
  <2>2. CASE eng["run"].pc = "release"
    <3>1. HoldsLease("run")' BY <1>0, <1>1, <2>2 DEF LeaseOwned, LeasePcs, EnginePcs, WaitPcs,
      BeginPcs, HandlerPcs
    <3> QED BY <1>0, <2>1, <2>2, <3>1 DEF Delivered, HandlerPcs
  <2>3. CASE eng["run"].pc # "release"
    BY <1>0, <1>1, <2>1, <2>3 DEF Delivered
  <2> QED BY <2>2, <2>3
<1>5. o # "run" => Delivered
  BY <1>0 DEF Ops, ResumedLate
<1>6. c.pc \in SnapPcs => task' # NoTask /\ (Kept(task'.att, c.snap.att) \/ Barred(o)')
  <2> SUFFICES ASSUME c.pc \in SnapPcs
               PROVE  task' # NoTask /\ (Kept(task'.att, c.snap.att) \/ Barred(o)')
    OBVIOUS
  <2>1. task # NoTask /\ (Kept(task.att, eng[o].snap.att) \/ Barred(o))
    BY <1>0 DEF SnapsCurrent
  <2>2. Barred(o) => Barred(o)'
    BY <1>0, <1>1 DEF Barred, Stuck
  <2> QED BY <2>1, <2>2
<1>7. c.pc \in TriedPcs => c.snap.att[Len(c.snap.att)] = "running"
  BY <1>0 DEF AttemptOpen, TriedPcs, SnapPcs, EnginePcs
<1>8. o = "run" /\ c.pc \in SnapPcs \ HandlerPcs => c.snap.status # "handoff_ready"
  BY <1>0 DEF NotReadyYet, SnapPcs
<1>9. HistoryInv'
  BY <1>0, <1>1, <1>2, <1>3, <1>4, <1>5, <1>6, <1>7, <1>8, CallContinues
<1> QED BY <1>2, <1>9

-----------------------------------------------------------------------------
(* The steps before the first attempt *)

\* run() inserts the task: there was no history to keep (engine.py: _run_impl).
LEMMA CreateContinues ==
    ASSUME HistoryHere, SuccessInv', Create PROVE HistoryInv' /\ Continues
<1> DEFINE new == [status |-> "created", att |-> <<>>, review |-> "none", wt |-> NoRec]
<1>0. /\ "run" \in Ops /\ TypeOK /\ task = NoTask /\ eng["run"].pc = "idle"
      /\ SnapsCurrent /\ LeaseOwned /\ ResumedLate
  BY DEF HistoryHere, HistoryInv, SuccessInv, Ops, Create, At
<1>1. /\ task' = new /\ rec' = rec /\ lease' = lease
      /\ eng' = [eng EXCEPT !["run"].pc = "created", !["run"].snap = new, !["run"].ver = 1]
  BY DEF Create, commands
<1>2. new \in Snapshots /\ new.att = <<>> /\ new.status = "created"
  BY DEF Snapshots, TaskStatuses, AttemptStatuses, Reviews
<1> HIDE DEF new
<1>3. PICK e \in Calls : e = eng["run"] BY <1>0, TypedCalls
<1>4. /\ eng'["run"].pc = "created" /\ eng'["run"].snap = new
      /\ \A q \in Ops \ {"run"} : eng'[q] = eng[q]
  <2>1. eng \in [Ops -> Calls] BY <1>0, TypedCalls
  <2> QED BY <1>0, <1>1, <1>3, <2>1 DEF Calls
<1>5. \A q \in Ops : HoldsLease(q)' = HoldsLease(q)
  BY <1>1 DEF HoldsLease
<1>6. Continues BY <1>0 DEF Continues
<1>7. \A q \in Ops \ {"run"} : eng[q].pc \in SnapPcs => Barred(q)
  BY <1>0 DEF SnapsCurrent
<1>8. Kept(new.att, new.att) /\ new # NoTask
  BY <1>2, KeptIsPreorder, TaskConstants DEF Snapshots
<1>9. ~Delivered /\ ~Stuck
  BY <1>0 DEF Delivered, Stuck, HandlerPcs
<1>10. "created" \notin LeasePcs \cup TriedPcs
  BY DEF LeasePcs, BeginPcs, TriedPcs
<1>11. HistoryInv'
  BY <1>0, <1>1, <1>2, <1>4, <1>5, <1>6, <1>7, <1>8, <1>9, <1>10, CallContinues
<1> QED BY <1>6, <1>11

\* run() enters ISOLATED: the record is new, the history is not (engine.py: _run_impl).
LEMMA IsolateContinues ==
    ASSUME HistoryHere, SuccessInv', Isolate PROVE HistoryInv' /\ Continues
<1> USE DEF SnapPcs, EnginePcs, LeasePcs, WaitPcs, BeginPcs, HandlerPcs, TriedPcs
<1>1. "run" \in Ops /\ eng["run"].pc = "registered" /\ SuccessInv
  BY DEF Isolate, At, Ops, HistoryHere
<1>2. Snap("run") \in Snapshots BY <1>1, HeldSnapshot
<1>3. eng["run"].rec \in WorktreeRecords
  BY <1>1 DEF SuccessInv, SoundCall, Sound, RecPcs
<1> DEFINE i == In("run", "isolated")
           new == [i EXCEPT !.wt = eng["run"].rec]
<1>4. i \in Snapshots /\ i.status = "isolated" /\ i.att = Snap("run").att
  BY <1>1, <1>2, InFields DEF TaskStatuses
<1>5. EngineTransition("run", new, "lease_check") BY DEF Isolate
<1> HIDE DEF i
<1>6. new \in Snapshots /\ new.status = "isolated" /\ new.att = i.att
  BY <1>3, <1>4 DEF Snapshots
<1> HIDE DEF new
<1>7. Kept(Snap("run").att, new.att) BY <1>2, <1>4, <1>6, KeptIsPreorder DEF Snapshots
<1> QED BY <1>1, <1>5, <1>6, <1>7, TransitionContinues

\* The reads of resume(), the lease's look at the registry, the commit and a cancellation
\* that was seen: the call goes on with the snapshot it has.
LEMMA ReadContinues ==
    ASSUME HistoryHere, SuccessInv', NEW o \in Ops,
           \/ o # "run" /\ (ResumeRecord(o) \/ ResumeVersion(o))
           \/ LeaseCheck(o) \/ Commit(o) \/ CancelSeen(o)
    PROVE  HistoryInv' /\ Continues
<1> USE DEF At, SnapPcs, EnginePcs, LeasePcs, WaitPcs, BeginPcs, HandlerPcs, TriedPcs
<1>1. TypeOK /\ fs \in WorktreeRecords \cup {NoRec} /\ version \in Nat
  BY DEF HistoryHere, SuccessInv, TypeOK
<1>2. PICK e \in Calls : e = eng[o] BY <1>1, TypedCalls
<1>3. PICK c \in Calls : /\ Only(o, c) /\ c.snap = e.snap
                         /\ \/ e.pc = "record" /\ c.pc = "version" /\ o # "run"
                            \/ e.pc = "version" /\ c.pc = "lease_check" /\ o # "run"
                            \/ e.pc = "lease_check" /\ c.pc = "lease_wait"
                            \/ e.pc = "passed" /\ c.pc = "committed"
                            \/ e.pc \in {"executing", "verified", "reviewing"} /\ c.pc = "cancel"
  <2>1. CASE o # "run" /\ ResumeRecord(o)
    <3> DEFINE c == [e EXCEPT !.pc = "version", !.rec = fs]
    <3>1. c \in Calls /\ c.pc = "version" /\ c.snap = e.snap BY <1>1 DEF Calls
    <3>2. Only(o, c) /\ e.pc = "record" BY <1>2, <2>1 DEF ResumeRecord
    <3> HIDE DEF c
    <3> QED BY <2>1, <3>1, <3>2
  <2>2. CASE o # "run" /\ ResumeVersion(o)
    <3> DEFINE c == [e EXCEPT !.pc = "lease_check", !.ver = version]
    <3>1. c \in Calls /\ c.pc = "lease_check" /\ c.snap = e.snap BY <1>1 DEF Calls
    <3>2. Only(o, c) /\ e.pc = "version" BY <1>2, <2>2 DEF ResumeVersion
    <3> HIDE DEF c
    <3> QED BY <2>2, <3>1, <3>2
  <2>3. CASE LeaseCheck(o)
    <3> DEFINE c == [e EXCEPT !.pc = "lease_wait"]
    <3>1. c \in Calls /\ c.pc = "lease_wait" /\ c.snap = e.snap BY DEF Calls
    <3>2. Only(o, c) /\ e.pc = "lease_check" BY <1>2, <2>3 DEF LeaseCheck
    <3> HIDE DEF c
    <3> QED BY <3>1, <3>2
  <2>4. CASE Commit(o)
    <3> DEFINE c == [e EXCEPT !.pc = "committed"]
    <3>1. c \in Calls /\ c.pc = "committed" /\ c.snap = e.snap BY DEF Calls
    <3>2. Only(o, c) /\ e.pc = "passed" BY <1>2, <2>4 DEF Commit
    <3> HIDE DEF c
    <3> QED BY <3>1, <3>2
  <2>5. CASE CancelSeen(o)
    <3> DEFINE c == [e EXCEPT !.pc = "cancel"]
    <3>1. c \in Calls /\ c.pc = "cancel" /\ c.snap = e.snap BY DEF Calls
    <3>2. Only(o, c) /\ e.pc \in {"executing", "verified", "reviewing"}
      BY <1>2, <2>5 DEF CancelSeen
    <3> HIDE DEF c
    <3> QED BY <3>1, <3>2
  <2> QED BY <2>1, <2>2, <2>3, <2>4, <2>5
<1>4. Moves(o, c) BY <1>1, <1>3, SetCall DEF Only
<1>5. task' = task /\ lease' = lease /\ rec' = rec BY <1>3 DEF Only, durable, commands
<1> QED BY <1>2, <1>3, <1>4, <1>5, MoveContinues

\* The lease is free: nobody else is in its body, and run() is not stuck on it.
LEMMA AcquireContinues ==
    ASSUME HistoryHere, SuccessInv', NEW o \in Ops, Acquire(o) PROVE HistoryInv' /\ Continues
<1> USE DEF SnapPcs, EnginePcs, LeasePcs, WaitPcs, BeginPcs, HandlerPcs, TriedPcs
<1>0. /\ TypeOK /\ eng[o].pc = "lease_wait" /\ lease = NoLease
      /\ SnapsCurrent /\ ResumedLate /\ NotReadyYet /\ "run" \in Ops
  BY DEF HistoryHere, HistoryInv, SuccessInv, Acquire, At, Ops
<1>12. HoldsLease(o)'
  <2>1. eng[o].pid \in Pids BY <1>0, TypedCalls DEF Calls
  <2>2. lease' = [op |-> o, pid |-> eng[o].pid, aged |-> FALSE] BY DEF Acquire
  <2> DEFINE l == [op |-> o, pid |-> eng[o].pid, aged |-> FALSE]
  <2>3. l \in [op : Ops, pid : Pids, aged : BOOLEAN] /\ l.op = o BY <2>1
  <2>4. l # NoLease BY <2>3, TaskConstants
  <2> HIDE DEF l
  <2>5. lease' = l BY <2>2 DEF l
  <2> QED BY <2>3, <2>4, <2>5 DEF HoldsLease
<1>1. task' = task /\ rec' = rec BY DEF Acquire, durable, commands
<1>2. Goto(o, IF o = "run" THEN "leased" ELSE "validate") BY DEF Acquire
<1>3. PICK c \in Calls : /\ Moves(o, c) /\ c.pc = (IF o = "run" THEN "leased" ELSE "validate")
                         /\ c.snap = eng[o].snap
  BY <1>0, <1>2, GotoCall
<1>4. eng'[o] = c /\ \A q \in Ops \ {o} : eng'[q] = eng[q]
  BY <1>3 DEF Moves
<1>5. \A q \in Ops : ~HoldsLease(q) BY <1>0 DEF HoldsLease
<1>6. Continues
  <2>1. task # NoTask => task.att \in Seq(AttemptStatuses) BY Histories DEF HistoryHere
  <2> QED BY <1>1, <2>1, KeptIsPreorder DEF Continues
<1>7. ~Stuck /\ (o = "run" => ~Delivered)
  BY <1>0, <1>5 DEF Stuck, Delivered
<1>8. o # "run" => Delivered
  BY <1>0 DEF Ops, ResumedLate
<1>9. task # NoTask /\ Kept(task.att, eng[o].snap.att)
  BY <1>0, <1>7 DEF SnapsCurrent, Barred
<1>10. o = "run" => eng[o].snap.status # "handoff_ready"
  BY <1>0 DEF NotReadyYet
<1>11. HistoryInv'
  BY <1>0, <1>1, <1>3, <1>4, <1>5, <1>6, <1>7, <1>8, <1>9, <1>10, <1>12, CallContinues
<1> QED BY <1>6, <1>11

\* Every step before the first attempt keeps the history.
LEMMA SetupContinues ==
    ASSUME HistoryHere, SuccessInv', NEW o \in Ops, Setup(o) PROVE HistoryInv' /\ Continues
<1> USE DEF At, SnapPcs, EnginePcs, LeasePcs, WaitPcs, BeginPcs, HandlerPcs, TriedPcs, TaskStatuses
<1>0. TypeOK /\ SuccessInv BY DEF HistoryHere, SuccessInv
<1>1. CASE o = "run" /\ Create BY <1>1, CreateContinues
<1>2. CASE o = "run" /\ Inspect BY <1>2, StatusContinues DEF Inspect
<1>3. CASE o = "run" /\ Plan BY <1>3, StatusContinues DEF Plan
<1>4. CASE o = "run" /\ MakeWorktree
  <2>1. eng["run"].pc = "planned" /\ Carry("run", "made", fs') /\ "run" \in Ops
    BY <1>4 DEF MakeWorktree, Carry, Ops
  <2>2. PICK r \in WorktreeRecords : r = fs'
    <3>1. PICK h \in Nat : h = clock + 1 BY <1>0 DEF TypeOK
    <3>2. fs' = [status |-> "active", pid |-> RunPid, created |-> h, heartbeat |-> h,
                 completed |-> NoTime]
      BY <1>4, <3>1 DEF MakeWorktree
    <3> QED BY <3>2, TaskConstants DEF WorktreeRecords, WorktreeStatuses, NoTime
  <2>3. PICK c \in Calls : Moves(o, c) /\ c.pc = "made" /\ c.snap = eng[o].snap
    BY <1>0, <1>4, <2>1, <2>2, CarryCall
  <2>4. task' = task /\ lease' = lease /\ rec' = rec
    BY <1>4 DEF MakeWorktree, durable, commands
  <2> QED BY <1>4, <2>1, <2>3, <2>4, MoveContinues
<1>5. CASE o = "run" /\ Register
  <2>1. eng["run"].pc = "made" /\ Goto("run", "registered") BY <1>5 DEF Register
  <2>2. PICK c \in Calls : Moves(o, c) /\ c.pc = "registered" /\ c.snap = eng[o].snap
    BY <1>0, <1>5, <2>1, GotoCall
  <2>3. task' = task /\ lease' = lease /\ rec' = rec BY <1>5 DEF Register, commands
  <2> QED BY <1>5, <2>1, <2>2, <2>3, MoveContinues
<1>6. CASE o = "run" /\ Isolate BY <1>6, IsolateContinues
<1>7. CASE o = "run" /\ BuildContext
  <2>1. PICK pc \in {"handoff", "attempt"} : EngineTransition("run", In("run", "isolated"), pc)
    BY <1>7 DEF BuildContext
  <2>2. eng["run"].pc = "leased" BY <1>7 DEF BuildContext
  <2> QED BY <1>7, <2>1, <2>2, StatusContinues
<1>8. CASE (o # "run" /\ (ResumeRecord(o) \/ ResumeVersion(o))) \/ LeaseCheck(o)
  BY <1>8, ReadContinues
<1>9. CASE o # "run" /\ ResumeValidated(o) BY <1>9, StatusContinues DEF ResumeValidated
<1>10. CASE Acquire(o) BY <1>10, AcquireContinues
<1> QED BY <1>1, <1>2, <1>3, <1>4, <1>5, <1>6, <1>7, <1>8, <1>9, <1>10 DEF Setup

\* An attempt starts: the history grows by one that is running.
LEMMA StartContinues ==
    ASSUME HistoryHere, SuccessInv', NEW o \in Ops, StartAttempt(o)
    PROVE  HistoryInv' /\ Continues
<1> DEFINE i == In(o, "executing")
           new == [i EXCEPT !.att = Append(@, "running")]
<1>1. Snap(o) \in Snapshots /\ eng[o].pc = "attempt"
  BY HeldSnapshot DEF StartAttempt, At, SnapPcs, EnginePcs, HistoryHere
<1>2. i \in Snapshots /\ i.status = "executing" /\ i.att = Snap(o).att
  BY <1>1, InFields DEF TaskStatuses
<1>3. /\ StoreTransition(new, eng[o].ver)
      /\ eng' = [eng EXCEPT ![o].pc = "executing", ![o].snap = new, ![o].ver = version + 1,
                            ![o].tries = @ + 1]
      /\ UNCHANGED <<lease, commands>>
  BY DEF StartAttempt
<1> HIDE DEF i
<1>4. new \in Snapshots /\ new.status = "executing" /\ new.att = Append(i.att, "running")
  BY <1>2 DEF Snapshots, AttemptStatuses
<1> HIDE DEF new
<1> DEFINE a == Snap(o).att
<1>5. a \in Seq(AttemptStatuses) /\ new.att = Append(a, "running") /\ "running" \in AttemptStatuses
  BY <1>1, <1>2, <1>4 DEF Snapshots, AttemptStatuses
<1> HIDE DEF a
<1>6. Kept(a, new.att) /\ new.att[Len(new.att)] = "running"
  BY <1>5 DEF Kept
<1>7. task' = new /\ rec' = rec /\ lease' = lease
  BY <1>3 DEF StoreTransition, commands
<1>8. eng'[o].pc = "executing" /\ eng'[o].snap = new /\ \A q \in Ops \ {o} : eng'[q] = eng[q]
  <2>1. eng \in [Ops -> Calls] BY TypedCalls DEF HistoryHere, SuccessInv
  <2>2. PICK e \in Calls : e = eng[o] BY <2>1
  <2> QED BY <1>3, <2>1, <2>2 DEF Calls
<1> QED BY <1>1, <1>4, <1>6, <1>7, <1>8, WriteContinues
        DEF a, SnapPcs, EnginePcs, LeasePcs, WaitPcs, BeginPcs, HandlerPcs, TriedPcs

\* A step that ends the attempt under way and writes nothing else.
LEMMA FailedContinues ==
    ASSUME HistoryHere, SuccessInv', NEW o \in Ops, NEW status \in TaskStatuses,
           NEW result \in AttemptStatuses, NEW pc \in LeasePcs \ TriedPcs,
           EngineTransition(o, Ended(o, status, result), pc), eng[o].pc \in TriedPcs,
           status = "handoff_ready" => pc = "release" \/ o # "run"
    PROVE  HistoryInv' /\ Continues
<1> DEFINE new == Ended(o, status, result)
<1>1. Snap(o) \in Snapshots /\ Snap(o).att # <<>>
  BY HeldSnapshot DEF HistoryHere, TriedPcs, SnapPcs, EnginePcs
<1>2. new \in Snapshots /\ new.status = status /\ new.att = Ended(o, status, result).att
  BY <1>1, EndedFields
<1>3. EngineTransition(o, new, pc) OBVIOUS
<1> HIDE DEF new
<1> QED BY <1>2, <1>3, EndedContinues

\* Every step of an attempt keeps the history.
LEMMA AttemptContinues ==
    ASSUME HistoryHere, SuccessInv', NEW o \in Ops, Attempt(o) PROVE HistoryInv' /\ Continues
<1> USE DEF At, SnapPcs, EnginePcs, LeasePcs, WaitPcs, BeginPcs, HandlerPcs, TriedPcs,
            TaskStatuses, AttemptStatuses
<1>1. CASE StartAttempt(o) BY <1>1, StartContinues
<1>2. CASE \E verdict \in Reviews \ {"none"} : ReviewRecorded(o, verdict)
  <2> PICK verdict \in Reviews \ {"none"} : ReviewRecorded(o, verdict) BY <1>2
  <2> DEFINE i == In(o, "reviewing")
             new == [i EXCEPT !.review = verdict]
  <2>1. Snap(o) \in Snapshots /\ eng[o].pc = "reviewing" /\ EngineTransition(o, new, "reviewed")
    BY HeldSnapshot DEF ReviewRecorded, HistoryHere
  <2>2. i \in Snapshots /\ i.att = Snap(o).att /\ i.status = "reviewing" BY <2>1, InFields
  <2> HIDE DEF i
  <2>3. new \in Snapshots /\ new.att = i.att /\ new.status = "reviewing"
    BY <2>2 DEF Snapshots
  <2> HIDE DEF new
  <2>4. Kept(Snap(o).att, new.att) BY <2>1, <2>2, <2>3, KeptIsPreorder DEF Snapshots
  <2>5. new.att[Len(new.att)] = "running"
    BY <2>1, <2>2, <2>3 DEF HistoryHere, HistoryInv, AttemptOpen, Snap
  <2> QED BY <2>1, <2>3, <2>4, <2>5, TransitionContinues
<1>3. CASE ExecutorOk(o) BY <1>3, StatusContinues DEF ExecutorOk
<1>4. ASSUME eng[o].pc \in {"executing", "executed", "verified", "reviewed"},
             NEW pc \in {"attempt", "handoff", "block"},
             EngineTransition(o, Ended(o, "executing", "failed"), pc)
      PROVE  HistoryInv' /\ Continues
  BY <1>4, FailedContinues
<1>5. CASE ExecutorFailed(o) \/ RulesExpanded(o) \/ VerifyFailed(o) \/ ReviewRejected(o)
  <2>1. /\ eng[o].pc \in {"executing", "executed", "verified", "reviewed"}
        /\ \E b \in BOOLEAN :
              EngineTransition(o, Ended(o, "executing", "failed"), AfterFailure(o, b))
    BY <1>5 DEF ExecutorFailed, RulesExpanded, VerifyFailed, ReviewRejected
  <2> QED BY ZenonT(40), <1>4, <2>1, AfterFailurePcs
<1>6. CASE RevalidationFailed(o) BY <1>6, FailedContinues DEF RevalidationFailed
<1>7. CASE VerifyStart(o) BY <1>7, StatusContinues DEF VerifyStart
<1>8. CASE VerifyRecorded(o) BY <1>8, StatusContinues DEF VerifyRecorded
<1>9. CASE PrivacyBlocked(o) BY <1>9, StatusContinues DEF PrivacyBlocked
<1>10. CASE ReviewStart(o) BY <1>10, StatusContinues DEF ReviewStart
<1>11. CASE AttemptPassed(o) BY <1>11, FailedContinues DEF AttemptPassed
<1> QED BY <1>1, <1>2, <1>3, <1>5, <1>6, <1>7, <1>8, <1>9, <1>10, <1>11 DEF Attempt

\* A call that writes a registry or a row and goes on within its lease.
LEMMA MirrorContinues ==
    ASSUME HistoryHere, SuccessInv', NEW o \in Ops, NEW c \in Calls, Moves(o, c),
           task' = task, lease' = lease, rec' = rec, c.snap = eng[o].snap,
           eng[o].pc \in LeasePcs \cap SnapPcs, c.pc \in LeasePcs \cap SnapPcs,
           c.pc \in TriedPcs => eng[o].pc \in TriedPcs
    PROVE  HistoryInv' /\ Continues
<1>1. /\ eng[o].pc \notin {"idle", "done", "raised", "release"} \cup WaitPcs \cup HandlerPcs
      /\ c.pc \notin BeginPcs \cup HandlerPcs \cup {"idle"}
  BY DEF LeasePcs, SnapPcs
<1> QED BY <1>1, MoveContinues

\* Every step from the commit to the end of the flow keeps the history.
LEMMA FinishContinues ==
    ASSUME HistoryHere, SuccessInv', NEW o \in Ops, Finish(o) PROVE HistoryInv' /\ Continues
<1> USE DEF At, SnapPcs, EnginePcs, LeasePcs, WaitPcs, BeginPcs, HandlerPcs, TriedPcs
<1>0. TypeOK /\ SuccessInv /\ SuccessInv' BY DEF HistoryHere, SuccessInv
<1>1. CASE Commit(o) \/ CancelSeen(o) BY <1>1, ReadContinues
<1>2. CASE CompleteFs(o) \/ PreserveFs(o) \/ HandoffSyncRow(o)
  <2>1. PICK pc \in {"fs_complete", "cancel_row", "handoff_sync"} :
           /\ Carry(o, pc, fs') /\ fs' # NoRec
           /\ \/ pc = "fs_complete" /\ eng[o].pc = "committed"
              \/ pc = "cancel_row" /\ eng[o].pc = "cancel"
              \/ pc = "handoff_sync" /\ eng[o].pc = "handoff"
    <3>1. CASE CompleteFs(o)
      <4>0. fs \in WorktreeRecords BY <1>0, <3>1 DEF TypeOK, CompleteFs, WriteRecord
      <4> PICK h \in Nat : h = clock + 1 BY <1>0 DEF TypeOK
      <4> DEFINE r == [fs EXCEPT !.status = "complete", !.completed = h]
      <4>2. r \in WorktreeRecords BY <4>0 DEF WorktreeRecords, WorktreeStatuses
      <4>3. WriteRecord(r) BY <3>1 DEF CompleteFs
      <4> HIDE DEF r
      <4>1. fs' # NoRec BY <1>0, <4>2, <4>3, WrittenRecord
      <4> QED BY <3>1, <4>1 DEF CompleteFs, Carry
    <3>2. CASE PreserveFs(o)
      <4>1. fs' # NoRec BY <1>0, <3>2, OrphanedRecord DEF PreserveFs
      <4> QED BY <3>2, <4>1 DEF PreserveFs, Carry
    <3>3. CASE HandoffSyncRow(o)
      BY <3>3 DEF HandoffSyncRow, Carry, ScopeOk, registry
    <3> QED BY <1>2, <3>1, <3>2, <3>3
  <2>2. PICK r \in WorktreeRecords : r = fs' BY <1>0, <2>1 DEF SuccessInv, TypeOK
  <2>3. PICK c \in Calls : Moves(o, c) /\ c.pc = pc /\ c.snap = eng[o].snap
    BY <1>0, <2>1, <2>2, CarryCall
  <2>4. task' = task /\ lease' = lease /\ rec' = rec
    BY <1>2 DEF CompleteFs, PreserveFs, HandoffSyncRow, UpdateRow, durable, commands
  <2> QED BY <2>1, <2>3, <2>4, MirrorContinues
<1>3. CASE CompleteRow(o) \/ PreserveRow(o)
  <2>1. PICK pc \in {"row_complete", "cancel_final"} :
           /\ Goto(o, pc)
           /\ \/ pc = "row_complete" /\ eng[o].pc = "fs_complete"
              \/ pc = "cancel_final" /\ eng[o].pc = "cancel_row"
    BY <1>3 DEF CompleteRow, PreserveRow
  <2>2. PICK c \in Calls : Moves(o, c) /\ c.pc = pc /\ c.snap = eng[o].snap
    BY <1>0, <2>1, GotoCall
  <2>3. task' = task /\ lease' = lease /\ rec' = rec
    BY <1>3 DEF CompleteRow, PreserveRow, UpdateRow, commands
  <2> QED BY <2>1, <2>2, <2>3, MirrorContinues
<1>4. CASE Completed(o)
  <2> DEFINE i == In(o, "completed")
             new == [i EXCEPT !.wt = eng[o].rec]
  <2>1. /\ eng[o].pc = "row_complete" /\ EngineTransition(o, new, "release")
        /\ Snap(o) \in Snapshots
    BY <1>0, <1>4, HeldSnapshot DEF Completed
  <2>2. eng[o].rec \in WorktreeRecords
    BY <1>0, <2>1 DEF SuccessInv, SoundCall, Sound, RecPcs
  <2>3. i \in Snapshots /\ i.att = Snap(o).att /\ i.status = "completed"
    BY <2>1, InFields DEF TaskStatuses
  <2> HIDE DEF i
  <2>4. new \in Snapshots /\ new.att = i.att /\ new.status = "completed"
    BY <2>2, <2>3 DEF Snapshots
  <2> HIDE DEF new
  <2>5. Kept(Snap(o).att, new.att) BY <2>1, <2>3, <2>4, KeptIsPreorder DEF Snapshots
  <2> QED BY <2>1, <2>4, <2>5, TransitionContinues
<1>5. CASE Cancelled(o)
  <2> DEFINE i == Ended(o, "cancelled", "cancelled")
             new == [i EXCEPT !.wt = eng[o].rec]
  <2>1. /\ Snap(o) \in Snapshots /\ Snap(o).att # <<>> /\ eng[o].pc = "cancel_final"
        /\ EngineTransition(o, new, "release")
    BY <1>0, <1>5, HeldSnapshot DEF Cancelled
  <2>2. eng[o].rec \in WorktreeRecords
    BY <1>0, <2>1 DEF SuccessInv, SoundCall, Sound, RecPcs
  <2>3. /\ "cancelled" \in TaskStatuses /\ "cancelled" \in AttemptStatuses
        /\ i \in Snapshots /\ i.status = "cancelled"
    BY <2>1, EndedFields DEF TaskStatuses, AttemptStatuses
  <2>4. i.att = Ended(o, "cancelled", "cancelled").att OBVIOUS
  <2> HIDE DEF i
  <2>5. new \in Snapshots /\ new.status = "cancelled" /\ new.att = i.att
    BY <2>2, <2>3 DEF Snapshots
  <2> HIDE DEF new
  <2> QED BY <2>1, <2>3, <2>4, <2>5, EndedContinues
<1>6. ASSUME NEW pc \in {"handoff_prepare", "handoff_ready"}, NEW new \in Snapshots,
             EngineTransition(o, new, pc), new.att = Snap(o).att, new.status = Snap(o).status,
             eng[o].pc \in {"handoff_sync", "handoff_prepare"}
      PROVE  HistoryInv' /\ Continues
  <2>1. Kept(Snap(o).att, new.att) BY <1>6, KeptIsPreorder DEF Snapshots
  <2>2. o = "run" => new.status # "handoff_ready"
    BY <1>6 DEF HistoryHere, HistoryInv, NotReadyYet, Snap
  <2> QED BY <1>6, <2>1, <2>2, TransitionContinues
<1>7. CASE HandoffSyncSnapshot(o)
  <2> DEFINE new == [Snap(o) EXCEPT !.wt = eng[o].rec]
  <2>1. Snap(o) \in Snapshots /\ eng[o].pc = "handoff_sync"
    BY <1>0, <1>7, HeldSnapshot DEF HandoffSyncSnapshot
  <2>2. eng[o].rec \in WorktreeRecords
    BY <1>0, <2>1 DEF SuccessInv, SoundCall, Sound, RecPcs
  <2>3. new \in Snapshots /\ new.status = Snap(o).status /\ new.att = Snap(o).att
    BY <2>1, <2>2 DEF Snapshots
  <2>4. EngineTransition(o, new, "handoff_prepare") BY <1>7 DEF HandoffSyncSnapshot
  <2> HIDE DEF new
  <2> QED BY <1>6, <2>1, <2>3, <2>4
<1>8. CASE HandoffPrepared(o)
  <2>1. Snap(o) \in Snapshots /\ eng[o].pc = "handoff_prepare"
    BY <1>0, <1>8, HeldSnapshot DEF HandoffPrepared
  <2> QED BY <1>6, <1>8, <2>1 DEF HandoffPrepared
<1> USE DEF TaskStatuses
<1>9. CASE Block(o) BY <1>9, StatusContinues DEF Block
<1>10. CASE HandoffPrivacyBlocked(o) BY <1>10, StatusContinues DEF HandoffPrivacyBlocked
<1>11. CASE HandoffReady(o) BY <1>11, StatusContinues DEF HandoffReady
<1> QED BY <1>1, <1>2, <1>3, <1>4, <1>5, <1>7, <1>8, <1>9, <1>10, <1>11 DEF Finish

\* A step that leaves the task alone goes on with it.
LEMMA SameContinues == ASSUME SuccessInv, task' = task PROVE Continues
<1>1. task # NoTask => task.att \in Seq(AttemptStatuses) BY Histories
<1> QED BY <1>1, KeptIsPreorder DEF Continues

-----------------------------------------------------------------------------
(* resume() starts, a call unwinds *)

\* A task that can be resumed has been handed over (engine.py: resume).
LEMMA ResumeLoadContinues ==
    ASSUME HistoryHere, SuccessInv', NEW o \in Resumers, NEW p \in Pids, ResumeLoad(o, p)
    PROVE  HistoryInv' /\ Continues
<1>0. /\ TypeOK /\ o \in Ops /\ o # "run" /\ "run" \in Ops /\ ReadyDelivered
      /\ task # NoTask /\ task.status = "handoff_ready" /\ task \in Snapshots
      /\ task' = task /\ lease' = lease /\ rec' = rec
  BY TaskConstants
  DEF HistoryHere, HistoryInv, SuccessInv, TypeOK, Ops, ResumeLoad, Only, durable, commands
<1>1. PICK e \in Calls : e = eng[o] BY <1>0, TypedCalls
<1> DEFINE c == [e EXCEPT !.pc = "record", !.pid = p, !.snap = task]
<1>2. c \in Calls /\ c.pc = "record" /\ c.snap = task BY <1>0 DEF Calls, EnginePcs
<1>3. Only(o, c) BY <1>1 DEF ResumeLoad
<1> HIDE DEF c
<1>4. Moves(o, c) BY <1>0, <1>2, <1>3, SetCall DEF Only
<1>5. eng'[o] = c /\ \A q \in Ops \ {o} : eng'[q] = eng[q] BY <1>4 DEF Moves
<1>6. \A q \in Ops : HoldsLease(q)' = HoldsLease(q) BY <1>0 DEF HoldsLease
<1>7. Delivered BY <1>0 DEF ReadyDelivered
<1>8. Continues BY <1>0, SameContinues DEF HistoryHere
<1>9. Kept(task.att, task.att) BY <1>0, KeptIsPreorder DEF Snapshots
<1>10. "record" \notin LeasePcs \cup BeginPcs \cup HandlerPcs \cup TriedPcs
  BY DEF LeasePcs, WaitPcs, BeginPcs, HandlerPcs, TriedPcs
<1>11. HistoryInv'
  BY <1>0, <1>2, <1>5, <1>6, <1>7, <1>8, <1>9, <1>10, CallContinues
<1> QED BY <1>8, <1>11

\* A call that leaves its body, its lease still held or never taken, or whose release
\* failed.
LEMMA LeavingContinues ==
    ASSUME HistoryHere, SuccessInv', NEW o \in Ops, LeaveBody(o) \/ ReleaseFails(o)
    PROVE  HistoryInv' /\ Continues
<1>0. /\ TypeOK /\ task' = task /\ lease' = lease /\ rec' = rec
      /\ eng[o].pc \notin {"idle", "done", "raised"} \cup HandlerPcs
  BY DEF HistoryHere, SuccessInv, LeaveBody, ReleaseFails, durable, commands, At, OutsideBody,
         HandlerPcs
<1>1. PICK pc \in {"release_raise", "h_load", "raised"} :
         /\ Goto(o, pc) \/ Return(o, pc)
         /\ pc = "release_raise" => HoldsLease(o) /\ eng[o].pc # "release"
         /\ pc = "h_load" => o = "run"
  BY DEF LeaveBody, ReleaseFails, Unwind, OutsideBody
<1>2. pc \in EnginePcs \ (SnapPcs \cup BeginPcs \cup TriedPcs)
  BY DEF EnginePcs, SnapPcs, BeginPcs, TriedPcs
<1>3. PICK c \in Calls : Moves(o, c) /\ c.pc = pc
  BY <1>0, <1>1, <1>2, GotoCall, ReturnCall
<1> QED BY <1>0, <1>1, <1>2, <1>3, MoveContinues DEF LeasePcs, HandlerPcs

\* The lease was its own: nobody else is in its body (worktrees.py: __exit__).
LEMMA ReleaseContinues ==
    ASSUME HistoryHere, SuccessInv', NEW o \in Ops, Release(o) PROVE HistoryInv' /\ Continues
<1>0. /\ TypeOK /\ LeaseOwned /\ ResumedLate /\ "run" \in Ops
      /\ task' = task /\ lease' = NoLease /\ rec' = rec
      /\ eng[o].pc \in {"release", "release_raise"}
  BY DEF HistoryHere, HistoryInv, SuccessInv, Ops, Release, durable, commands, At
<1>1. PICK pc \in {"done", "h_load", "raised"} :
         /\ Goto(o, pc) \/ Return(o, pc)
         /\ eng[o].pc = "release" => pc = "done"
         /\ pc = "h_load" => o = "run"
  BY DEF Release, Unwind, At
<1>2. pc \in EnginePcs \ (SnapPcs \cup BeginPcs \cup TriedPcs \cup LeasePcs \cup {"idle"})
  BY DEF EnginePcs, SnapPcs, BeginPcs, TriedPcs, LeasePcs, HandlerPcs
<1>3. PICK c \in Calls : Moves(o, c) /\ c.pc = pc
  BY <1>0, <1>1, <1>2, GotoCall, ReturnCall
<1>4. eng'[o].pc = pc /\ \A q \in Ops \ {o} : eng'[q] = eng[q] BY <1>3 DEF Moves
<1>5. HoldsLease(o) /\ \A q \in Ops \ {o} : ~HoldsLease(q)
  <2>1. HoldsLease(o)
    BY <1>0 DEF LeaseOwned, LeasePcs, EnginePcs, WaitPcs, BeginPcs, HandlerPcs
  <2> QED BY <2>1 DEF HoldsLease
<1>6. o = "run" => (Delivered => Delivered') /\ ~Stuck
  BY <1>0, <1>1, <1>4 DEF Delivered, Stuck, HandlerPcs
<1>7. o # "run" => Delivered /\ pc \notin HandlerPcs
  BY <1>0, <1>1 DEF Ops, ResumedLate, HandlerPcs
<1>8. Continues BY <1>0, SameContinues DEF HistoryHere
<1>9. HistoryInv'
  BY <1>0, <1>2, <1>4, <1>5, <1>6, <1>7, <1>8, CallContinues
<1> QED BY <1>8, <1>9

-----------------------------------------------------------------------------
(* run()'s handler *)

\* The handler reads the task again, and goes on from what it read (engine.py: run, except).
LEMMA HandlerLoadContinues ==
    ASSUME HistoryHere, SuccessInv', HandlerLoad PROVE HistoryInv' /\ Continues
<1>0. /\ TypeOK /\ "run" \in Ops /\ eng["run"].pc = "h_load" /\ LeaseOwned
      /\ task' = task /\ lease' = lease /\ rec' = rec
  BY DEF HistoryHere, HistoryInv, SuccessInv, Ops, HandlerLoad, durable, commands, At
<1>1. CASE task = NoTask \/ task.status \in TerminalStatuses
  <2>1. Return("run", "raised") BY <1>1 DEF HandlerLoad
  <2>2. PICK c \in Calls : Moves("run", c) /\ c.pc = "raised"
    BY <1>0, <2>1, ReturnCall DEF EnginePcs
  <2> QED BY <1>0, <2>2, MoveContinues DEF SnapPcs, LeasePcs, EnginePcs, TriedPcs, HandlerPcs
<1>2. CASE ~(task = NoTask \/ task.status \in TerminalStatuses)
  <2>1. task \in Snapshots /\ task # NoTask BY <1>0, <1>2 DEF TypeOK
  <2>2. PICK e \in Calls : e = eng["run"] BY <1>0, TypedCalls
  <2> DEFINE c == [e EXCEPT !.pc = "h_version", !.snap = task]
  <2>3. c \in Calls /\ c.pc = "h_version" /\ c.snap = task BY <2>1 DEF Calls, EnginePcs
  <2>4. eng' = [eng EXCEPT !["run"] = c]
    <3>1. eng' = [eng EXCEPT !["run"].pc = "h_version", !["run"].snap = task]
      BY <1>2 DEF HandlerLoad
    <3> QED BY <2>2, <3>1
  <2> HIDE DEF c
  <2>5. eng'["run"] = c /\ \A q \in Ops \ {"run"} : eng'[q] = eng[q]
    BY <1>0, <2>3, <2>4, SetCall DEF Moves
  <2>6. \A q \in Ops : HoldsLease(q)' = HoldsLease(q) BY <1>0 DEF HoldsLease
  <2>7. Continues BY <1>0, SameContinues DEF HistoryHere
  <2>8. Kept(task.att, task.att) BY <2>1, KeptIsPreorder DEF Snapshots
  <2>9. (Delivered => Delivered') /\ (Stuck => Stuck')
    BY <1>0, <2>3, <2>5, <2>6 DEF Delivered, Stuck, HandlerPcs
  <2>10. "h_version" \in HandlerPcs /\ "h_version" \notin LeasePcs \cup TriedPcs
    BY DEF HandlerPcs, LeasePcs, TriedPcs
  <2>11. HistoryInv'
    BY <1>0, <2>1, <2>3, <2>5, <2>6, <2>7, <2>8, <2>9, <2>10, CallContinues
  <2> QED BY <2>7, <2>11
<1> QED BY <1>1, <1>2

\* The handler's steps between its read and its last write.
LEMMA HandlerMoves ==
    ASSUME HistoryHere, SuccessInv', HandlerVersion \/ HandlerOrphan \/ HandlerRow
    PROVE  HistoryInv' /\ Continues
<1> USE DEF HandlerPcs, SnapPcs, EnginePcs, At
<1>0. /\ TypeOK /\ TypeOK' /\ SuccessInv /\ "run" \in Ops
      /\ task' = task /\ lease' = lease /\ rec' = rec
  BY DEF HistoryHere, SuccessInv, Ops, HandlerVersion, HandlerOrphan, HandlerRow, Only, UpdateRow,
         durable, commands
<1>1. eng["run"].pc \in {"h_version", "h_orphan", "h_row"}
  BY DEF HandlerVersion, HandlerOrphan, HandlerRow
<1>2. PICK e \in Calls : e = eng["run"] BY <1>0, TypedCalls
<1>3. e.snap \in Snapshots BY <1>0, <1>1, <1>2, HeldSnapshot DEF Snap
<1>4. PICK c \in Calls : /\ Moves("run", c) /\ c.pc \in {"h_final", "h_orphan", "h_row"}
                         /\ c.snap.att = e.snap.att /\ c.snap.status = e.snap.status
  <2>1. CASE HandlerVersion
    <3>1. PICK pc \in {"h_final", "h_orphan"} :
             Only("run", [eng["run"] EXCEPT !.ver = version, !.pc = pc])
      BY <2>1 DEF HandlerVersion
    <3> DEFINE c == [e EXCEPT !.ver = version, !.pc = pc]
    <3>2. c \in Calls /\ c.pc = pc /\ c.snap = e.snap BY <1>0 DEF Calls, TypeOK
    <3>3. eng' = [eng EXCEPT !["run"] = c] BY <1>2, <3>1 DEF Only
    <3> HIDE DEF c
    <3> QED BY <1>0, <3>1, <3>2, <3>3, SetCall
  <2>2. CASE HandlerOrphan /\ CanOrphan
    <3>1. Carry("run", "h_row", fs') /\ MarkOrphaned BY <2>2 DEF HandlerOrphan, Carry
    <3>2. PICK r \in WorktreeRecords : r = fs' BY <1>0, <3>1, OrphanedRecord
    <3> QED BY <1>0, <1>2, <3>1, <3>2, CarryCall
  <2>3. CASE Goto("run", "h_final") BY <1>0, <1>2, <2>3, GotoCall
  <2>4. CASE HandlerRow /\ RowAccepts(eng["run"].rec)
    <3>0. e.rec \in WorktreeRecords
      BY <1>0, <1>2, <2>4 DEF HandlerRow, SuccessInv, SoundCall, Sound, RecPcs
    <3> DEFINE s == [e.snap EXCEPT !.wt = e.rec]
    <3>1. s \in Snapshots /\ s.att = e.snap.att /\ s.status = e.snap.status
      BY <1>3, <3>0 DEF Snapshots
    <3>2. eng' = [eng EXCEPT !["run"].pc = "h_final", !["run"].snap = s]
      BY <1>2, <2>4 DEF HandlerRow
    <3> HIDE DEF s
    <3> DEFINE c == [e EXCEPT !.pc = "h_final", !.snap = s]
    <3>3. c \in Calls /\ c.pc = "h_final" /\ c.snap = s BY <3>1 DEF Calls
    <3>4. eng' = [eng EXCEPT !["run"] = c] BY <1>2, <3>2
    <3> HIDE DEF c
    <3> QED BY <1>0, <3>1, <3>3, <3>4, SetCall
  <2>5. \/ HandlerVersion \/ Goto("run", "h_final")
        \/ HandlerOrphan /\ CanOrphan
        \/ HandlerRow /\ RowAccepts(eng["run"].rec)
    <3>1. HandlerOrphan /\ ~CanOrphan => Goto("run", "h_final") BY DEF HandlerOrphan
    <3>2. HandlerRow /\ ~RowAccepts(eng["run"].rec) => Goto("run", "h_final") BY DEF HandlerRow
    <3> QED BY <3>1, <3>2
  <2> QED BY <2>1, <2>2, <2>3, <2>4, <2>5
<1>5. c.pc \notin LeasePcs \cup TriedPcs /\ eng["run"].pc \notin WaitPcs
  BY <1>1, <1>4 DEF LeasePcs, TriedPcs, WaitPcs
<1> QED BY <1>0, <1>1, <1>2, <1>4, <1>5, MoveContinues

\* The handler closes the task with the history it read: nobody wrote since.
LEMMA HandlerFinalContinues ==
    ASSUME HistoryHere, SuccessInv', NEW status \in {"failed", "cancelled"}, HandlerFinal(status)
    PROVE  HistoryInv' /\ Continues
<1>0. /\ TypeOK /\ "run" \in Ops /\ eng["run"].pc = "h_final" /\ Return("run", "raised")
      /\ lease' = lease /\ rec' = rec /\ SnapsCurrent /\ SuccessInv
  BY DEF HistoryHere, HistoryInv, SuccessInv, Ops, HandlerFinal, At, commands
<1>1. eng["run"].pc \in SnapPcs BY <1>0 DEF SnapPcs, EnginePcs
<1>2. Snap("run") \in Snapshots BY <1>0, <1>1, HeldSnapshot
<1> DEFINE new == In("run", status)
<1>3. new \in Snapshots /\ new.status = status /\ new.att = Snap("run").att
  BY <1>0, <1>2, InFields DEF TaskStatuses
<1>4. task' = new \/ task' = task
  BY DEF HandlerFinal, StoreTransition, durable
<1> HIDE DEF new
<1>5. PICK c \in Calls : Moves("run", c) /\ c.pc = "raised"
  BY <1>0, ReturnCall DEF EnginePcs
<1>6. eng'["run"].pc = "raised" /\ \A q \in Ops \ {"run"} : eng'[q] = eng[q]
  BY <1>5 DEF Moves
<1>7. task # NoTask /\ Kept(task.att, Snap("run").att)
  BY <1>0, <1>1 DEF SnapsCurrent, Barred, Snap
<1>8. Continues
  <2>1. CASE task' = new BY <1>3, <1>7, <2>1, TaskConstants DEF Continues
  <2>2. CASE task' = task BY <1>0, <2>2, SameContinues
  <2> QED BY <1>4, <2>1, <2>2
<1>9. \A q \in Ops \ {"run"} : eng[q].pc \in SnapPcs => Barred(q)
  BY <1>0, <1>1, WriterIsAlone
<1>10. \A q \in Ops : HoldsLease(q)' = HoldsLease(q) BY <1>0 DEF HoldsLease
<1>11. (Delivered => Delivered') /\ (Stuck => Stuck')
  BY <1>0, <1>6, <1>10 DEF Delivered, Stuck, HandlerPcs
<1>12. "raised" \notin LeasePcs \cup SnapPcs \cup TriedPcs
  BY DEF LeasePcs, SnapPcs, TriedPcs
<1>13. task' # task => task'.status # "handoff_ready" BY <1>3, <1>4
<1>14. HistoryInv'
  BY <1>0, <1>6, <1>8, <1>9, <1>10, <1>11, <1>12, <1>13, CallContinues
<1> QED BY <1>8, <1>14

\* Every step of the unwinding of a call keeps the history.
LEMMA UnwindingContinues ==
    ASSUME HistoryHere, SuccessInv', NEW o \in Ops, Unwinding(o) PROVE HistoryInv' /\ Continues
<1>1. CASE Raise(o) BY <1>1, LeavingContinues DEF Raise
<1>2. CASE Release(o) BY <1>2, ReleaseContinues
<1>3. CASE o = "run" /\ (HandlerLoad \/ HandlerVersion \/ HandlerOrphan \/ HandlerRow)
  BY <1>3, HandlerLoadContinues, HandlerMoves
<1>4. CASE o = "run" /\ \E status \in {"failed", "cancelled"} : HandlerFinal(status)
  BY <1>4, HandlerFinalContinues
<1> QED BY <1>1, <1>2, <1>3, <1>4 DEF Unwinding

-----------------------------------------------------------------------------
(* The operator's commands and the environment: no call moves *)

\* A step no call takes: the task goes on or, with recover, falls back on its history.
LEMMA FrameContinues ==
    ASSUME HistoryHere, SuccessInv', eng' = eng,
           \A q \in Ops : HoldsLease(q)' = HoldsLease(q),
           task' = task \/ /\ task # NoTask /\ task' # NoTask /\ Kept(task'.att, task.att)
                           /\ task'.status # "handoff_ready",
           rec'.pc \in {"version", "final"} => task' # NoTask /\ Kept(rec'.snap.att, task'.att)
    PROVE  HistoryInv'
<1>0. /\ LeaseOwned /\ ResumedLate /\ SnapsCurrent /\ RecoverBehind /\ ReadyDelivered
      /\ AttemptOpen /\ NotReadyYet /\ "run" \in Ops /\ Resumers \subseteq Ops
  BY DEF HistoryHere, HistoryInv, Ops
<1>1. Delivered' = Delivered /\ Stuck' = Stuck
  BY <1>0 DEF Delivered, Stuck
<1>2. LeaseOwned' /\ AttemptOpen' /\ NotReadyYet' /\ RecoverBehind'
  BY <1>0 DEF LeaseOwned, AttemptOpen, NotReadyYet, RecoverBehind
<1>3. ResumedLate' BY <1>0, <1>1 DEF ResumedLate
<1>4. ReadyDelivered' BY <1>0, <1>1 DEF ReadyDelivered
<1>5. SnapsCurrent'
  <2> SUFFICES ASSUME NEW q \in Ops, eng[q].pc \in SnapPcs
               PROVE  task' # NoTask /\ (Kept(task'.att, eng[q].snap.att) \/ Barred(q)')
    BY DEF SnapsCurrent
  <2>1. task # NoTask /\ (Kept(task.att, eng[q].snap.att) \/ Barred(q))
    BY <1>0 DEF SnapsCurrent
  <2>2. Barred(q)' = Barred(q) BY <1>1 DEF Barred
  <2>3. CASE task' = task BY <2>1, <2>2, <2>3
  <2>4. CASE task' # task
    <3>1. task' # NoTask /\ Kept(task'.att, task.att) BY <2>4
    <3>2. /\ task.att \in Seq(AttemptStatuses) /\ eng[q].snap.att \in Seq(AttemptStatuses)
          /\ task'.att \in Seq(AttemptStatuses)
      <4>1. task' \in Snapshots BY <3>1 DEF SuccessInv, TypeOK
      <4> QED BY <2>1, <4>1, Histories DEF HistoryHere, Snapshots
    <3> QED BY <2>1, <2>2, <3>1, <3>2, KeptIsPreorder
  <2> QED BY <2>3, <2>4
<1> QED BY <1>2, <1>3, <1>4, <1>5 DEF HistoryInv

\* Only the last step of recover writes the task; it is a step of recover's own.
LEMMA RecoverContinues ==
    ASSUME HistoryHere, SuccessInv', RecoverStart \/ Recover
    PROVE  HistoryInv' /\ (rec' = rec => Continues)
<1>0. /\ SuccessInv /\ TypeOK /\ RecoverSound /\ RecoverBehind /\ eng' = eng
      /\ \A q \in Ops : HoldsLease(q)' = HoldsLease(q)
  BY DEF HistoryHere, HistoryInv, SuccessInv, RecoverStart, Recover, RecoverState, RecoverMark,
         RecoverOrphans, RecoverRow, RecoverLoad, RecoverVersion, RecoverFinal, RecOnly, HoldsLease
<1> DEFINE RecPc == {"idle", "state", "mark", "orphans", "row", "load", "version", "final"}
           Recs == [pc : RecPc, seen : WorktreeRecords \cup {NoRec}, snap : Snapshots \cup {NoTask},
                    ver : Nat, calls : Nat]
<1>1. rec \in Recs BY <1>0 DEF TypeOK
<1>2. RecoverIdle.pc = "idle" BY <1>1 DEF RecoverIdle
<1>3. ASSUME task' = task,
             rec'.pc \in {"version", "final"} => task # NoTask /\ Kept(rec'.snap.att, task.att)
      PROVE  HistoryInv' /\ Continues
  BY <1>0, <1>3, FrameContinues, SameContinues
<1>4. CASE RecoverStart \/ RecoverState \/ RecoverMark \/ RecoverOrphans \/ RecoverRow
  <2>1. task' = task
    BY <1>4 DEF RecoverStart, RecoverState, RecoverMark, RecoverOrphans, RecoverRow, RecOnly,
                UpdateRow, durable
  <2>2. rec'.pc \in {"idle", "state", "mark", "orphans", "row", "load"}
    <3>1. CASE RecoverStart BY <1>1, <3>1 DEF RecoverStart, RecOnly
    <3>2. CASE RecoverState BY <1>1, <3>2 DEF RecoverState, RecOnly
    <3>3. CASE RecoverMark BY <1>1, <3>3 DEF RecoverMark
    <3>4. CASE RecoverOrphans BY <1>1, <1>2, <3>4 DEF RecoverOrphans
    <3>5. CASE RecoverRow BY <1>1, <1>2, <3>5 DEF RecoverRow
    <3> QED BY <1>4, <3>1, <3>2, <3>3, <3>4, <3>5
  <2> QED BY <1>3, <2>1, <2>2
<1>5. CASE RecoverLoad
  <2>1. task' = task BY <1>5 DEF RecoverLoad, RecOnly, durable
  <2>2. CASE task # NoTask /\ task.status \in OrphanTransitionable
    <3>1. rec'.snap = task BY <1>1, <1>5, <2>2 DEF RecoverLoad, RecOnly
    <3>2. Kept(task.att, task.att)
      <4>1. task.att \in Seq(AttemptStatuses) BY <1>0, <2>2, Histories
      <4> QED BY <4>1, KeptIsPreorder
    <3> QED BY <1>3, <2>1, <2>2, <3>1, <3>2
  <2>3. CASE ~(task # NoTask /\ task.status \in OrphanTransitionable)
    BY <1>2, <1>3, <1>5, <2>1, <2>3 DEF RecoverLoad, RecOnly
  <2> QED BY <2>2, <2>3
<1>6. CASE RecoverVersion
  <2>1. task' = task /\ rec.pc = "version" BY <1>6 DEF RecoverVersion, RecOnly, durable
  <2>2. rec'.snap = rec.snap BY <1>1, <1>6 DEF RecoverVersion, RecOnly
  <2> QED BY <1>0, <1>3, <2>1, <2>2 DEF RecoverBehind
<1>7. CASE RecoverFinal
  <2> DEFINE new == [rec.snap EXCEPT !.status = "orphaned", !.wt = rec.seen]
  <2>1. /\ rec.pc = "final" /\ rec' = RecoverIdle
        /\ rec.snap \in Snapshots /\ rec.seen \in WorktreeRecords
    BY <1>0, <1>7 DEF RecoverFinal, RecoverSound
  <2>2. new.status = "orphaned" /\ new.att = rec.snap.att /\ new \in Snapshots
    BY <2>1 DEF Snapshots, TaskStatuses
  <2>3. task' = task \/ task' = new BY <1>7 DEF RecoverFinal, StoreTransition, durable
  <2> HIDE DEF new
  <2>4. task # NoTask /\ Kept(rec.snap.att, task.att) BY <1>0, <2>1 DEF RecoverBehind
  <2>5. rec' # rec BY <1>2, <2>1
  <2>6. HistoryInv' BY <1>0, <1>2, <2>1, <2>2, <2>3, <2>4, FrameContinues, TaskConstants
  <2> QED BY <2>5, <2>6
<1> QED BY <1>4, <1>5, <1>6, <1>7 DEF Recover

\* cleanup, the heartbeats, time and crashes leave the histories alone.
LEMMA QuietContinues ==
    ASSUME HistoryHere, SuccessInv', task' = task, eng' = eng, rec' = rec \/ rec' = RecoverIdle,
           \A q \in Ops : HoldsLease(q)' = HoldsLease(q)
    PROVE  HistoryInv' /\ Continues
<1>1. RecoverIdle.pc = "idle" BY DEF HistoryHere, SuccessInv, TypeOK, RecoverIdle
<1>2. HistoryInv' BY <1>1, FrameContinues DEF HistoryHere, HistoryInv, RecoverBehind
<1> QED BY <1>2, SameContinues DEF HistoryHere

\* Every step of cleanup and of the environment keeps the history.
LEMMA EnvironmentContinues ==
    ASSUME HistoryHere, SuccessInv', CleanupCheck \/ Cleanup \/ Environment
    PROVE  HistoryInv' /\ Continues
<1>1. CASE CleanupCheck \/ Cleanup
  <2>1. task' = task /\ eng' = eng /\ rec' = rec /\ lease' = lease
    BY <1>1 DEF CleanupCheck, Cleanup, CleanupConfirm, CleanupLoad, CleanupDirty, CleanupRemoveTree,
                CleanupRecord, CleanupRow, ClnOnly, UpdateRow, durable
  <2> QED BY <2>1, QuietContinues DEF HoldsLease
<1>2. CASE \E o \in Ops : Fault(o) \/ ReleaseFails(o)
  BY <1>2, LeavingContinues DEF Fault
<1>3. CASE CommandCrash \/ \E p \in Pids : Crash(p)
  <2>1. task' = task /\ eng' = eng /\ lease' = lease /\ (rec' = rec \/ rec' = RecoverIdle)
    BY <1>3 DEF CommandCrash, Crash, durable, commands
  <2> QED BY <2>1, QuietContinues DEF HoldsLease
<1>4. CASE TimePasses \/ \E o \in Ops : HeartbeatLease(o) \/ HeartbeatRecord(o)
  <2>1. task' = task /\ eng' = eng /\ rec' = rec
    BY <1>4 DEF TimePasses, HeartbeatLease, HeartbeatRecord, durable, commands
  <2>2. lease' = lease \/ \E b \in BOOLEAN : lease # NoLease /\ lease' = [lease EXCEPT !.aged = b]
    BY <1>4 DEF TimePasses, HeartbeatLease, HeartbeatRecord, LeaseHeld, HoldsLease
  <2>3. lease \in [op : Ops, pid : Pids, aged : BOOLEAN] \cup {NoLease}
    BY DEF HistoryHere, SuccessInv, TypeOK
  <2>4. \A q \in Ops : HoldsLease(q)' = HoldsLease(q)
    <3>1. CASE lease' = lease BY <3>1 DEF HoldsLease
    <3>2. CASE \E b \in BOOLEAN : lease # NoLease /\ lease' = [lease EXCEPT !.aged = b]
      <4>1. PICK b \in BOOLEAN : lease # NoLease /\ lease' = [lease EXCEPT !.aged = b] BY <3>2
      <4>2. PICK l \in [op : Ops, pid : Pids, aged : BOOLEAN] : l = lease BY <2>3, <4>1
      <4> DEFINE m == [l EXCEPT !.aged = b]
      <4>3. m \in [op : Ops, pid : Pids, aged : BOOLEAN] /\ m.op = l.op OBVIOUS
      <4>4. lease' = m BY <4>1, <4>2
      <4> HIDE DEF m
      <4> QED BY <4>1, <4>2, <4>3, <4>4, TaskConstants DEF HoldsLease
    <3> QED BY <2>2, <3>1, <3>2
  <2> QED BY <2>1, <2>4, QuietContinues
<1> QED BY <1>1, <1>2, <1>3, <1>4 DEF Environment

-----------------------------------------------------------------------------

\* Before the first call there is no history.
LEMMA HistoryInitial == Init => HistoryInv
<1> SUFFICES ASSUME Init PROVE HistoryInv
  OBVIOUS
<1>1. /\ \A o \in Ops : eng[o].pc = "idle"
      /\ task = NoTask /\ rec.pc = "idle" /\ "run" \in Ops /\ Resumers \subseteq Ops
  BY DEF Init, Ops
<1>2. "idle" \notin LeasePcs \cup BeginPcs \cup HandlerPcs \cup SnapPcs \cup TriedPcs
  BY DEF LeasePcs, BeginPcs, HandlerPcs, SnapPcs, TriedPcs
<1> QED BY <1>1, <1>2 DEF HistoryInv, LeaseOwned, ResumedLate, SnapsCurrent, RecoverBehind,
                          ReadyDelivered, AttemptOpen, NotReadyYet

\* Every step keeps the invariant, and every step but recover's write goes on.
LEMMA HistoryStep ==
    ASSUME HistoryHere, [Next]_vars PROVE HistoryInv' /\ (rec' = rec => Continues)
<1>0. SuccessInv /\ SuccessInv' BY SuccessPreserved DEF HistoryHere
<1>1. CASE \E o \in Ops : EngineStep(o)
  BY <1>0, <1>1, SetupContinues, AttemptContinues, FinishContinues, UnwindingContinues
  DEF EngineStep
<1>2. CASE \E o \in Resumers, p \in Pids : ResumeLoad(o, p)
  BY <1>0, <1>2, ResumeLoadContinues
<1>3. CASE RecoverStart \/ Recover BY <1>0, <1>3, RecoverContinues
<1>4. CASE CleanupCheck \/ Cleanup \/ Environment BY <1>0, <1>4, EnvironmentContinues
<1>5. CASE UNCHANGED vars
  <2>1. task' = task /\ eng' = eng /\ rec' = rec /\ lease' = lease
    BY <1>5 DEF vars, durable, commands
  <2> QED BY <1>0, <2>1, QuietContinues DEF HoldsLease
<1> QED BY <1>1, <1>2, <1>3, <1>4, <1>5 DEF Next

\* With one resume() at most, no transition of run or resume drops or rewrites an attempt
\* that has ended, however the calls crash, stall, fail and meet recover and cleanup, for
\* every number of processes and every bound on attempts (engine.py: _execute_flow, run,
\* resume).  With two resumes it is false: both may hold the task.
THEOREM AttemptsStay ==
    ASSUME OneResumer PROVE Spec => AttemptsKept
<1> DEFINE Inv == SuccessInv /\ HistoryInv
<1>1. Init => Inv BY SuccessInitial, HistoryInitial
<1>2. Inv /\ [Next]_vars => Inv' BY SuccessPreserved, HistoryStep DEF HistoryHere
<1>3. Inv /\ [Next]_vars =>
         [task # NoTask /\ rec' = rec =>
            \A i \in 1..Len(task.att) :
               /\ i <= Len(task'.att)
               /\ task.att[i] # "running" => task'.att[i] = task.att[i]]_vars
  <2> SUFFICES ASSUME Inv, [Next]_vars, task # NoTask, rec' = rec, NEW i \in 1..Len(task.att)
               PROVE  /\ i <= Len(task'.att)
                      /\ task.att[i] # "running" => task'.att[i] = task.att[i]
    OBVIOUS
  <2>1. task' # NoTask /\ Kept(task.att, task'.att)
    BY HistoryStep DEF HistoryHere, Continues
  <2>2. task.att \in Seq(AttemptStatuses) /\ task'.att \in Seq(AttemptStatuses)
    <3>1. SuccessInv' BY SuccessPreserved
    <3> QED BY <2>1, <3>1, Histories DEF SuccessInv, TypeOK, Snapshots
  <2>3. Len(task.att) \in Nat /\ Len(task'.att) \in Nat BY <2>2, LenProperties
  <2> QED BY <2>1, <2>3 DEF Kept
<1> QED BY <1>1, <1>2, <1>3, PTL DEF Spec, AttemptsKept
=============================================================================
