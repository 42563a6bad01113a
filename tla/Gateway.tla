------------------------------ MODULE Gateway ------------------------------
(***************************************************************************)
(* The gateway's requests, their locks and their journal:                  *)
(* services/gateway/app.py and save_task of services/common.py.            *)
(*                                                                         *)
(* One event loop runs all requests; each waits for the asyncio locks of   *)
(* its branch, then for a model or for a worker thread.  An asyncio lock   *)
(* is a queue whose head holds it, and it has no owner: a release lets the *)
(* next one in, whoever calls it.  A request may be cancelled at every     *)
(* await, more than once.  A save of the journal may fail.                 *)
(***************************************************************************)
EXTENDS Naturals, Sequences, SequencesExt, GatewayTables

CONSTANTS Requests,
          MayAsk,       \* the branches each request may take
          MaxAttempts,  \* decision.max_attempts of the legacy path
          MaxCancels,   \* bound on the cancellations of one request
          MaxFaults     \* bound on failing saves

ASSUME GatewayConstants ==
    /\ MayAsk \in [Requests -> SUBSET (Branches \ {"refuse"})]
    /\ MaxAttempts \in Nat \ {0} /\ MaxCancels \in Nat /\ MaxFaults \in Nat

VARIABLES pc,       \* where each request is
          branch,   \* the branch it took
          at,       \* the lock it waits for, or the last one it holds
          left,     \* threads or attempts still to come
          thread,   \* its worker thread
          result,   \* what the thread, model or stream ended with
          cancels,  \* how often it was cancelled
          answer,   \* what its client got
          journal,  \* its row in tasks
          queue,    \* the locks: holder first, then who waits
          faults    \* failing saves so far

vars == <<pc, branch, at, left, thread, result, cancels, answer, journal, queue, faults>>

\* Branches whose work is one or more threads; the others await a model.
Threaded == {"local_code", "docs", "codex", "legacy", "image", "browser"}

\* Branches that save inside their own try.
InTry == {"fast", "strong", "voice", "browser", "image"}

Order(r) == LockOrder[branch[r]]
Holds(r, l) == queue[l] # <<>> /\ Head(queue[l]) = r

-----------------------------------------------------------------------------
(* The journal *)

NoRow == [status |-> "none", history |-> <<>>]

\* _build_task_state: running opens an attempt, a terminal status closes the open
\* one or records one that never ran, the other statuses leave the history alone.
Saved(row, status) ==
    LET n == Len(row.history)
        open == n > 0 /\ row.history[n] = "running"
    IN [status |-> status,
        history |->
            CASE status = "running" -> Append(row.history, "running")
              [] status \in {"complete", "failed", "cancelled"} ->
                   IF open THEN [row.history EXCEPT ![n] = status] ELSE Append(row.history, status)
              [] OTHER -> row.history]

\* Wrong variant: a handoff is projected at once.
Saves_Ready(b, outcome) ==
    CASE outcome = "ok" -> <<"complete">>
      [] outcome = "handoff" -> <<"ready">>
      [] outcome = "blocked" -> <<"failed", "blocked">>
      [] outcome = "cancelled" -> <<"cancelled">>
      [] OTHER -> IF b = "codex" THEN <<"failed", "ready">> ELSE <<"failed">>

\* What a branch saves when its work ends.
Saves(b, outcome) ==
    CASE outcome = "ok" -> <<"complete">>
      [] outcome = "handoff" -> <<"failed", "ready">>
      [] outcome = "blocked" -> <<"failed", "blocked">>
      [] outcome = "cancelled" -> <<"cancelled">>
      [] OTHER -> IF b = "codex" THEN <<"failed", "ready">> ELSE <<"failed">>

\* What is saved instead when a save raises: the branch's own except clause, or
\* the bundle that chat() writes for a failed Codex.
OnFault(b, status) ==
    CASE b \in InTry /\ status = "complete" -> <<"failed">>
      [] b \in {"voice", "browser", "image"} /\ status = "running" -> <<"failed">>
      [] b = "codex" /\ status # "ready" -> <<"ready">>
      [] OTHER -> <<>>

\* The row after the saves of one step: two at most.
SavedAll(row, todo) ==
    LET first == IF Len(todo) = 0 THEN row ELSE Saved(row, todo[1])
    IN IF Len(todo) <= 1 THEN first ELSE Saved(first, todo[2])

\* The saves of one step, the i-th of which fails (0: none does).
Write(r, b, todo, i) ==
    /\ i = 0 \/ faults < MaxFaults
    /\ faults' = IF i = 0 THEN faults ELSE faults + 1
    /\ journal' = [journal EXCEPT ![r] =
           SavedAll(@, IF i = 0 THEN todo
                       ELSE SubSeq(todo, 1, i - 1) \o OnFault(b, todo[i]))]

-----------------------------------------------------------------------------
(* The locks *)

\* The locks a request holds: all before the one it waits for, or all it asked for.
Held(r) == {Order(r)[i] : i \in 1..(IF pc[r] = "queue" THEN at[r] - 1 ELSE at[r])}

\* Every release hands the lock to the next in line.
Released(ls) == [l \in Locks |-> IF l \in ls THEN Tail(queue[l]) ELSE queue[l]]

\* Where a request stands in a line; it lines up for a lock once.
Place(q, r) == CHOOSE i \in DOMAIN q : q[i] = r

\* A cancelled waiter leaves the line of the lock it waits for.
LeaveLine(r) ==
    [l \in Locks |-> IF l \in Held(r) THEN Tail(queue[l])
                     ELSE IF l = Order(r)[at[r]] THEN RemoveAt(queue[l], Place(queue[l], r))
                     ELSE queue[l]]

Enqueued(q, r, l) == [q EXCEPT ![l] = Append(@, r)]

-----------------------------------------------------------------------------
(* chat() up to its work *)

Init ==
    /\ pc = [r \in Requests |-> "idle"] /\ branch = [r \in Requests |-> "refuse"]
    /\ at = [r \in Requests |-> 0] /\ left = [r \in Requests |-> 0]
    /\ thread = [r \in Requests |-> "none"] /\ result = [r \in Requests |-> "none"]
    /\ cancels = [r \in Requests |-> 0] /\ answer = [r \in Requests |-> "none"]
    /\ journal = [r \in Requests |-> NoRow]
    /\ queue = [l \in Locks |-> <<>>] /\ faults = 0

Finished(r, a) ==
    /\ pc' = [pc EXCEPT ![r] = "done"] /\ at' = [at EXCEPT ![r] = 0]
    /\ left' = [left EXCEPT ![r] = 0] /\ result' = [result EXCEPT ![r] = "none"]
    /\ answer' = [answer EXCEPT ![r] = a]

\* A branch with work to do: the running row, then the first lock's line, or the
\* work itself when there is no lock.
Begin(r) ==
    /\ pc[r] = "idle"
    /\ \E b \in MayAsk[r] \ {"bundle"} :
        LET first == LockOrder[b] IN
        /\ branch' = [branch EXCEPT ![r] = b]
        /\ Write(r, b, IF b = "legacy" THEN <<>> ELSE <<"running">>, 0)
        /\ pc' = [pc EXCEPT ![r] = IF first = <<>> THEN "work" ELSE "queue"]
        /\ at' = [at EXCEPT ![r] = IF first = <<>> THEN 0 ELSE 1]
        /\ left' = [left EXCEPT ![r] = CASE b = "image" -> 2 [] b = "legacy" -> MaxAttempts [] OTHER -> 1]
        /\ thread' = [thread EXCEPT ![r] = IF first = <<>> /\ b \in Threaded THEN "run" ELSE "none"]
        /\ queue' = IF first = <<>> THEN queue ELSE Enqueued(queue, r, first[1])
    /\ UNCHANGED <<result, cancels, answer>>

\* The running row cannot be saved: the request ends with an error.
BeginFails(r) ==
    /\ pc[r] = "idle"
    /\ \E b \in MayAsk[r] \ {"bundle", "legacy"} :
        branch' = [branch EXCEPT ![r] = b] /\ Write(r, b, <<"running">>, 1)
    /\ Finished(r, "error") /\ UNCHANGED <<thread, cancels, queue>>

\* No approval or no Codex: a bundle is written and the row is ready.
Bundle(r) ==
    /\ pc[r] = "idle" /\ "bundle" \in MayAsk[r]
    /\ branch' = [branch EXCEPT ![r] = "bundle"]
    /\ \E i \in 0..1 : Write(r, "bundle", <<"ready">>, i)
    /\ Finished(r, "error") /\ UNCHANGED <<thread, cancels, queue>>

\* The lock is this request's: it asks for the next one, or starts its work.  The
\* legacy path saves its running row only now that it has the worktree.
Acquire(r) ==
    /\ pc[r] = "queue" /\ Holds(r, Order(r)[at[r]])
    /\ Write(r, branch[r], IF branch[r] = "legacy" /\ at[r] = 1 THEN <<"running">> ELSE <<>>, 0)
    /\ \/ /\ at[r] < Len(Order(r))
          /\ at' = [at EXCEPT ![r] = @ + 1]
          /\ queue' = Enqueued(queue, r, Order(r)[at[r] + 1])
          /\ UNCHANGED <<pc, thread>>
       \/ /\ at[r] = Len(Order(r))
          /\ pc' = [pc EXCEPT ![r] = "work"]
          /\ thread' = [thread EXCEPT ![r] = IF branch[r] \in Threaded THEN "run" ELSE "none"]
          /\ UNCHANGED <<at, queue>>
    /\ UNCHANGED <<branch, left, result, cancels, answer>>

\* The legacy path cannot save its running row: the worktree is released.
AcquireFails(r) ==
    /\ pc[r] = "queue" /\ branch[r] = "legacy" /\ at[r] = 1 /\ Holds(r, "worktree")
    /\ Write(r, branch[r], <<"running">>, 1)
    /\ queue' = Released({"worktree"})
    /\ Finished(r, "error") /\ UNCHANGED <<branch, thread, cancels>>

-----------------------------------------------------------------------------
(* The work and its end *)

\* Wrong variant: a thread that outlived its request reports its end to the journal.
ThreadEnds_Reports(r) ==
    /\ thread[r] = "run"
    /\ thread' = [thread EXCEPT ![r] = "ended"]
    /\ \E o \in {"ok", "bad"} : result' = [result EXCEPT ![r] = IF pc[r] = "done" THEN "none" ELSE o]
    /\ journal' = IF pc[r] = "done" THEN [journal EXCEPT ![r].status = "failed"] ELSE journal
    /\ UNCHANGED <<pc, branch, at, left, cancels, answer, queue, faults>>

\* The thread returns, raises, or (the engine) returns one of its statuses.
ThreadEnds(r) ==
    /\ thread[r] = "run"
    /\ thread' = [thread EXCEPT ![r] = "ended"]
    /\ \E o \in {"ok", "bad"} \cup (IF branch[r] = "local_code" THEN {"handoff", "blocked", "cancelled"} ELSE {}) :
        result' = [result EXCEPT ![r] = IF pc[r] = "done" THEN "none" ELSE o]
    /\ UNCHANGED <<pc, branch, at, left, cancels, answer, journal, queue, faults>>

\* The model answers or fails; an answer that streams is open but not yet read.
ModelAnswers(r) ==
    /\ pc[r] = "work" /\ branch[r] \notin Threaded /\ result[r] = "none"
    /\ \/ branch[r] = "stream"
          /\ pc' = [pc EXCEPT ![r] = "opened"] /\ answer' = [answer EXCEPT ![r] = "stream"]
          /\ UNCHANGED result
       \/ branch[r] = "stream"
          /\ pc' = [pc EXCEPT ![r] = "closing"] /\ result' = [result EXCEPT ![r] = "bad"]
          /\ UNCHANGED answer
       \/ branch[r] # "stream"
          /\ \E o \in {"ok", "bad"} : result' = [result EXCEPT ![r] = o]
          /\ UNCHANGED <<pc, answer>>
    /\ UNCHANGED <<branch, at, left, thread, cancels, journal, queue, faults>>

Ended(r) == thread[r] = "ended" \/ (branch[r] \notin Threaded /\ result[r] # "none")

\* The second thread of an image, within the same locks.
NextThread(r) ==
    /\ pc[r] = "work" /\ Ended(r) /\ branch[r] = "image" /\ result[r] = "ok" /\ left[r] = 2
    /\ left' = [left EXCEPT ![r] = 1] /\ thread' = [thread EXCEPT ![r] = "run"]
    /\ result' = [result EXCEPT ![r] = "none"]
    /\ UNCHANGED <<pc, branch, at, cancels, answer, journal, queue, faults>>

MayRetry(r) == branch[r] = "legacy" /\ result[r] = "bad" /\ left[r] > 1

\* A failed attempt of the legacy path: the worktree is kept, agent and GPU are
\* released, and the next attempt lines up for them.
Retry(r) ==
    /\ pc[r] = "work" /\ Ended(r) /\ MayRetry(r)
    /\ Write(r, branch[r], <<"failed", "running">>, 0)
    /\ queue' = Enqueued(Released({"agent", "gpu"}), r, "agent")
    /\ pc' = [pc EXCEPT ![r] = "queue"] /\ at' = [at EXCEPT ![r] = 2]
    /\ left' = [left EXCEPT ![r] = @ - 1]
    /\ thread' = [thread EXCEPT ![r] = "none"] /\ result' = [result EXCEPT ![r] = "none"]
    /\ UNCHANGED <<branch, cancels, answer>>

\* A save fails in between: the exception leaves the loop and the worktree.
RetryFails(r) ==
    /\ pc[r] = "work" /\ Ended(r) /\ MayRetry(r)
    /\ \E i \in 1..2 : Write(r, branch[r], <<"failed", "running">>, i)
    /\ queue' = Released(Held(r))
    /\ thread' = [thread EXCEPT ![r] = "none"]
    /\ Finished(r, "error") /\ UNCHANGED <<branch, cancels>>

\* The work is over: the locks are released from the inside out, the rows saved
\* and the client answered without an await in between.  The legacy path ends its
\* last failed attempt with a bundle, and releases its worktree after the saves.
Settle(r) ==
    /\ pc[r] = "work" /\ Ended(r) /\ ~MayRetry(r)
    /\ ~(branch[r] = "image" /\ result[r] = "ok" /\ left[r] = 2)
    /\ LET todo == IF branch[r] = "legacy" /\ result[r] = "bad" THEN <<"failed", "ready">>
                   ELSE Saves(branch[r], result[r])
       IN \E i \in 0..Len(todo) :
            /\ Write(r, branch[r], todo, i)
            /\ Finished(r, IF result[r] = "ok" /\ i = 0 THEN "ok" ELSE "error")
    /\ queue' = Released(Held(r))
    /\ thread' = [thread EXCEPT ![r] = "none"]
    /\ UNCHANGED <<branch, cancels>>

-----------------------------------------------------------------------------
(* A streamed answer *)

\* The response is read for the first time; its generators start.
StreamStarts(r) ==
    /\ pc[r] = "opened" /\ pc' = [pc EXCEPT ![r] = "stream"]
    /\ UNCHANGED <<branch, at, left, thread, result, cancels, answer, journal, queue, faults>>

\* The upstream ends, with or without its terminal event, or fails.
StreamEnds(r) ==
    /\ pc[r] = "stream" /\ pc' = [pc EXCEPT ![r] = "closing"]
    /\ \E o \in {"ok", "bad"} : result' = [result EXCEPT ![r] = o]
    /\ UNCHANGED <<branch, at, left, thread, cancels, answer, journal, queue, faults>>

\* cleanup(): the lock is released if anybody holds it.
StreamRelease == [queue EXCEPT !["gpu"] = IF @ # <<>> THEN Tail(@) ELSE @]

\* cleanup() has closed the upstream; a second cancellation in it is swallowed.
StreamClosed(r) ==
    /\ pc[r] = "closing"
    /\ queue' = StreamRelease
    /\ \E i \in 0..1 : Write(r, branch[r], Saves("stream", result[r]), i)
    /\ Finished(r, IF answer[r] = "none" THEN "error" ELSE answer[r])
    /\ UNCHANGED <<branch, thread, cancels>>

\* Wrong variant: the tracker cleans up as well.
TrackerFinalized_Releases(r) ==
    /\ pc[r] = "abandoned" /\ pc' = [pc EXCEPT ![r] = "orphan"]
    /\ \E i \in 0..1 : Write(r, branch[r], <<"failed">>, i)
    /\ queue' = StreamRelease
    /\ UNCHANGED <<branch, at, left, thread, result, cancels, answer>>

\* The reader was cancelled between two chunks: the tracker is closed by the
\* collector, then the generator inside it.
TrackerFinalized(r) ==
    /\ pc[r] = "abandoned" /\ pc' = [pc EXCEPT ![r] = "orphan"]
    /\ \E i \in 0..1 : Write(r, branch[r], <<"failed">>, i)
    /\ UNCHANGED <<branch, at, left, thread, result, cancels, answer, queue>>

GeneratorFinalized(r) ==
    /\ pc[r] = "orphan"
    /\ queue' = StreamRelease
    /\ Finished(r, answer[r]) /\ UNCHANGED <<branch, thread, cancels, journal, faults>>

-----------------------------------------------------------------------------
(* Cancellation *)

Counted(r) == cancels[r] < MaxCancels /\ cancels' = [cancels EXCEPT ![r] = @ + 1]

\* Wrong variant: a request cancelled in line for a lock leaves without a word.
QueuedSaves_None == <<>>

\* Every branch saves cancelled when it is cancelled before its work.
QueuedSaves == <<"cancelled">>

\* While it waits for a lock.
CancelQueued(r) ==
    /\ pc[r] = "queue" /\ Counted(r)
    /\ queue' = LeaveLine(r)
    /\ \E i \in 0..Len(QueuedSaves) : Write(r, branch[r], QueuedSaves, i)
    /\ Finished(r, "gone") /\ UNCHANGED <<branch, thread>>

\* Wrong variant: the thread is awaited without a shield.
Shielded_Not(r) == FALSE

\* run_blocking_safely and _run_coding_engine_safely wait for their thread.
Shielded(r) == branch[r] \in Threaded

CancelWork(r) ==
    /\ pc[r] = "work" /\ Shielded(r) /\ Counted(r)
    /\ pc' = [pc EXCEPT ![r] = "drain"]
    /\ UNCHANGED <<branch, at, left, thread, result, answer, journal, queue, faults>>

\* A model's answer is awaited without a shield; so is the thread once the caller
\* was cancelled before: the second cancellation leaves it running.
CancelAwait(r) ==
    /\ \/ pc[r] = "work" /\ ~Shielded(r) /\ branch[r] # "stream"
       \/ pc[r] = "drain" /\ thread[r] = "run"
    /\ Counted(r)
    /\ queue' = Released(Held(r))
    /\ \E i \in 0..1 : Write(r, branch[r], <<"cancelled">>, i)
    /\ Finished(r, "gone") /\ UNCHANGED <<branch, thread>>

\* Wrong variant: the drained thread's own result is recorded.
DrainedSaves_Result(r) == Saves(branch[r], result[r])

\* The caller's cancellation is authoritative, whatever the thread ended with.
DrainedSaves(r) == <<"cancelled">>

Drained(r) ==
    /\ pc[r] = "drain" /\ thread[r] = "ended"
    /\ queue' = Released(Held(r))
    /\ \E i \in 0..1 : Write(r, branch[r], DrainedSaves(r), i)
    /\ thread' = [thread EXCEPT ![r] = "none"]
    /\ Finished(r, "gone") /\ UNCHANGED <<branch, cancels>>

\* A stream is cancelled while it opens or waits for a chunk, while it hands one
\* over, or before it was ever read: then nothing closes it.
CancelStream(r) ==
    /\ Counted(r)
    /\ \/ /\ pc[r] = "stream" \/ (pc[r] = "work" /\ branch[r] = "stream")
          /\ pc' = [pc EXCEPT ![r] = "closing"] /\ result' = [result EXCEPT ![r] = "cancelled"]
       \/ /\ pc[r] = "stream"
          /\ pc' = [pc EXCEPT ![r] = "abandoned"] /\ UNCHANGED result
       \/ /\ pc[r] = "opened"
          /\ pc' = [pc EXCEPT ![r] = "lost"] /\ UNCHANGED result
    /\ UNCHANGED <<branch, at, left, thread, answer, journal, queue, faults>>

-----------------------------------------------------------------------------
Loop(r) ==
    \/ Acquire(r) \/ ModelAnswers(r) \/ NextThread(r) \/ Retry(r) \/ Settle(r) \/ Drained(r)
    \/ StreamStarts(r) \/ StreamEnds(r) \/ StreamClosed(r) \/ TrackerFinalized(r) \/ GeneratorFinalized(r)

Disturb(r) ==
    \/ BeginFails(r) \/ AcquireFails(r) \/ RetryFails(r)
    \/ CancelQueued(r) \/ CancelWork(r) \/ CancelAwait(r) \/ CancelStream(r)

AllDone == \A r \in Requests : pc[r] \in {"done", "lost"} /\ thread[r] # "run"

\* Everything is served, or waits behind a stream that nothing will close.
Idle ==
    /\ AllDone \/ (\E s \in Requests : pc[s] = "lost")
    /\ UNCHANGED vars

Next ==
    \/ \E r \in Requests : Begin(r) \/ Bundle(r) \/ Loop(r) \/ ThreadEnds(r) \/ Disturb(r)
    \/ Idle

\* The loop runs what is ready, locks are handed over in order, and threads end:
\* their processes have time-outs.
Fairness == \A r \in Requests : WF_vars(Loop(r) \/ ThreadEnds(r))

Spec == Init /\ [][Next]_vars /\ Fairness

-----------------------------------------------------------------------------
(* Properties *)

Statuses == {"running", "complete", "failed", "cancelled", "ready", "blocked"}

\* Types; a row has at most one attempt more than the branch may make.
TypeOK ==
    /\ branch \in [Requests -> Branches]
    /\ at \in [Requests -> 0..3] /\ left \in [Requests -> 0..(MaxAttempts + 2)]
    /\ thread \in [Requests -> {"none", "run", "ended"}]
    /\ result \in [Requests -> {"none", "ok", "bad", "handoff", "blocked", "cancelled"}]
    /\ cancels \in [Requests -> 0..MaxCancels] /\ faults \in 0..MaxFaults
    /\ answer \in [Requests -> {"none", "ok", "error", "gone", "stream"}]
    /\ \A r \in Requests :
        /\ pc[r] \in {"idle", "queue", "work", "drain", "opened", "stream", "closing",
                      "abandoned", "orphan", "lost", "done"}
        /\ journal[r].status \in Statuses \cup {"none"}
        /\ Len(journal[r].history) <= IF branch[r] = "legacy" THEN MaxAttempts ELSE 1
    /\ \A l \in Locks : queue[l] \in Seq(Requests)

\* Who works, drains or streams holds every lock of its branch, although any
\* request's release opens the lock for the next in line.
MineWhileWorking ==
    \A r \in Requests :
        pc[r] \notin {"idle", "queue", "done"} => \A i \in DOMAIN Order(r) : Holds(r, Order(r)[i])

\* "Do not release a worktree lock while a cancelled worker thread still runs":
\* true of a request cancelled once.
LockOutlastsThread ==
    \A r \in Requests :
        thread[r] = "run" /\ cancels[r] <= 1 => \A i \in DOMAIN Order(r) : Holds(r, Order(r)[i])

\* The same, however often the request is cancelled.  The code does not keep this: a
\* second cancellation ends the wait for the thread.
LockAlwaysOutlastsThread ==
    \A r \in Requests : thread[r] = "run" => \A i \in DOMAIN Order(r) : Holds(r, Order(r)[i])

\* A request that is over has a row that says so, unless a save failed.
JournalSettles ==
    faults = 0 => \A r \in Requests : pc[r] = "done" => journal[r].status \in Statuses \ {"running"}

\* A client is told ok only for a completed row, and a row is complete only when
\* nobody cancelled the request before, failing saves or not.
CompleteMeansServed ==
    \A r \in Requests :
        /\ answer[r] = "ok" => journal[r].status = "complete"
        /\ journal[r].status = "complete" => answer[r] \in {"ok", "stream"}

\* An attempt is open only at the end of the history of a running row, unless a
\* save failed.
OpenAttemptIsRunning ==
    faults = 0 =>
        \A r \in Requests : \A i \in DOMAIN journal[r].history :
            journal[r].history[i] = "running" =>
                i = Len(journal[r].history) /\ journal[r].status = "running"

\* A row that is no longer running keeps its decision, but for a handoff or a
\* block, which follow the failure they explain, and the next legacy attempt.
DecidedStays ==
    [][\A r \in Requests :
        journal[r].status \in {"complete", "cancelled", "ready", "blocked"} => journal'[r] = journal[r]]_vars

\* Every request that begins is over some day, unless a stream was lost with its
\* lock: no branch waits for another in a circle.
AllServed ==
    \A r \in Requests :
        pc[r] # "idle" ~> pc[r] = "done" \/ \E s \in Requests : pc[s] = "lost"

\* Every branch works under all its locks, and they outlast a worker thread whose
\* request was cancelled.
LocksHeld == TypeOK /\ MineWhileWorking /\ LockOutlastsThread

\* The journal tells what happened: a finished request has a decided row, a
\* complete row was served, and no attempt is left open.
JournalSound == JournalSettles /\ CompleteMeansServed /\ OpenAttemptIsRunning
=============================================================================
