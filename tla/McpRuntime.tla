----------------------------- MODULE McpRuntime -----------------------------
(***************************************************************************)
(* Ownership of one managed MCP server: services/mcp_hub/runtime.py, the   *)
(* launcher process (launcher.py) and the hub calls that start launchers   *)
(* (hub.py).                                                               *)
(*                                                                         *)
(* A launcher publishes a lock file with its nonce, starts the server as   *)
(* its child and then writes the owner record that also names the child.   *)
(* A reaper removes what a dead launcher left; the stop command ends what  *)
(* is running.  Readers take no lock: lock file and owner record are read  *)
(* one after the other.  Writers hold the generation guard.  A nonce is    *)
(* the launcher that drew it.                                              *)
(***************************************************************************)
EXTENDS Naturals, FiniteSets

CONSTANTS Hubs,          \* hub calls: discover() or call(), a process each
          Consumers,     \* launchers started directly by a consumer
          Pool,          \* launcher processes the hub calls may start
          Stops,         \* invocations of the stop command
          MaxAttempts,   \* ToolSpec.max_attempts
          Threshold,     \* circuit_failure_threshold
          MaxPolls,      \* bound on the polls before a deadline
          MaxDisturbances,  \* bound on kills and stop commands together
          None

Launchers == Consumers \cup Pool
Actors == Launchers \cup Hubs \cup Stops

ASSUME RuntimeConstants ==
    /\ MaxAttempts \in Nat \ {0} /\ Threshold \in Nat \ {0}
    /\ MaxPolls \in Nat /\ MaxDisturbances \in Nat
    /\ None \notin Actors
    /\ Consumers \cap Pool = {} /\ Launchers \cap Hubs = {}
    /\ Launchers \cap Stops = {} /\ Hubs \cap Stops = {}

VARIABLES lock,       \* nonce in the lock file
          owner,      \* nonce in the owner record
          gen,        \* who is inside the generation guard
          gate,       \* who holds the operation guard
          status,     \* the status file: circuit breaker
          lau,        \* launcher processes and their children
          rt,         \* each actor's call into the runtime module
          hub,        \* hub calls
          effects,    \* how often the tool of a hub call has run
          stray,      \* history: children that no record has ever named
          disturbed

records == <<lock, owner, gen>>
vars == <<lock, owner, gen, gate, status, lau, rt, hub, effects, stray, disturbed>>

-----------------------------------------------------------------------------
(* The status file.  "closed" stands for on_demand, ready and degraded, which *)
(* only the report tells apart; "elapsed" is circuit_open past its cool-down. *)

CircuitStates == {"closed", "circuit_open", "elapsed"}

DefaultStatus == [state |-> "closed", failures |-> 0]

\* _read_status_unlocked: an elapsed cool-down reads as a fresh status.
ReadStatus == IF status.state = "elapsed" THEN DefaultStatus ELSE status

CircuitOpen == ReadStatus.state = "circuit_open"

\* _status_guard: a read-modify-write of the file is one step.
UpdateStatus(new) == status' = new

\* Consecutive failures, counted to a thousand.
Failures == IF ReadStatus.failures < 1000 THEN ReadStatus.failures + 1 ELSE 1000

\* Wrong variant: the circuit opens one failure late.
RecordFailure_Late ==
    UpdateStatus([state |-> IF Failures > Threshold THEN "circuit_open" ELSE "closed",
                  failures |-> Failures])

RecordFailure ==
    UpdateStatus([state |-> IF Failures >= Threshold THEN "circuit_open" ELSE "closed",
                  failures |-> Failures])

RecordSuccess == UpdateStatus(DefaultStatus)

\* circuit_open() persists an elapsed cool-down.
PersistStatus == UpdateStatus(ReadStatus)

CoolDownElapses ==
    /\ status.state = "circuit_open"
    /\ status' = [status EXCEPT !.state = "elapsed"]
    /\ UNCHANGED <<records, gate, lau, rt, hub, effects, stray, disturbed>>

-----------------------------------------------------------------------------
(* Processes and the two guards *)

\* The generation guard: nobody else is inside a publication or a removal.
GuardFree == gen = None

\* try_acquire_operation_guard, and its release by whoever holds it.
GateFree == gate = None
Released(a) == gate' = IF gate = a THEN None ELSE gate

Alive(l) == lau[l].pc \notin {"unborn", "exited"}

ChildGone(r) == [r EXCEPT !.child = "none", !.req = "none"]

Gone(r) == [ChildGone(r) EXCEPT !.pc = "exited", !.polls = 0]

\* The process and the runtime calls it was making are gone; the system drops
\* the locks it held.  Its child stays unless it dies with it.
Dies(l, childToo) ==
    /\ lau' = [lau EXCEPT ![l] = IF childToo THEN Gone(lau[l])
                                 ELSE [lau[l] EXCEPT !.pc = "exited", !.polls = 0]]
    /\ gen' = IF gen = l THEN None ELSE gen
    /\ stray' = IF lau[l].child = "live" /\ ~childToo /\ owner # l THEN stray \cup {l} ELSE stray

Killed(l, childToo) ==
    /\ Dies(l, childToo)
    /\ Released(l)

-----------------------------------------------------------------------------
(* Calls into runtime.py: owner_inventory ("look"), reap_stale_server       *)
(* ("reap"), stop_owned_servers ("stop") and remove_runtime_record          *)
(* ("remove").  One record per actor is the state of the call it makes.     *)

NoCall == [goal |-> "none", pc |-> "idle", lck |-> None, nonce |-> None,
           targets |-> {}, result |-> "none"]

CallTo(goal, nonce) ==
    [NoCall EXCEPT !.goal = goal, !.nonce = nonce,
        !.pc = CASE goal = "stop" -> "stop_lock" [] goal = "remove" -> "rm_owner"
                 [] OTHER -> "inv_lock"]

\* The stop command only prints its result.
Return(a, result) ==
    rt' = [rt EXCEPT ![a] = [NoCall EXCEPT !.result = IF a \in Stops THEN "done" ELSE result]]

RtOnly == UNCHANGED <<records, gate, status, lau, hub, effects, stray, disturbed>>

\* The lock file is read first, by owner_inventory and by stop_owned_servers.
ReadLockFile(a) ==
    /\ rt[a].pc \in {"inv_lock", "stop_lock"}
    /\ rt' = [rt EXCEPT ![a].lck = lock,
                        ![a].pc = IF @ = "inv_lock" THEN "inv_owner" ELSE "stop_owner"]
    /\ RtOnly

\* What the two records say, given the lock file as it was read before.
Evidence(lck) ==
    CASE owner = None /\ lock = None -> "none"
      [] owner = None /\ lock # None /\ lck = None -> "invalid"
      [] owner # None /\ owner # lck -> "invalid"
      [] OTHER -> "names"

Observed(lck) ==
    IF Evidence(lck) # "names" THEN Evidence(lck)
    ELSE IF Alive(lck) THEN "owned" ELSE "stale"

\* owner_inventory's second half; reap_stale_server goes on for stale evidence.
Inventory(a) ==
    /\ rt[a].pc = "inv_owner"
    /\ LET seen == Observed(rt[a].lck) IN
       CASE rt[a].goal = "look" -> Return(a, seen)
         [] rt[a].goal = "reap" /\ seen = "stale" ->
               rt' = [rt EXCEPT ![a].pc = "stop_lock"]
         [] OTHER -> Return(a, IF seen = "invalid" THEN "refused" ELSE "done")
    /\ RtOnly

\* _owned_targets: the launcher with its process tree, and the child if the
\* owner record names it.
OwnedTargets(l) ==
    (IF Alive(l) THEN {"launcher"} ELSE {})
    \cup (IF lau[l].child = "live" /\ (Alive(l) \/ owner = l) THEN {"child"} ELSE {})

\* stop_owned_servers reads the records again and captures what they name.
StopRead(a) ==
    /\ rt[a].pc = "stop_owner"
    /\ LET lck == rt[a].lck IN
       CASE Evidence(lck) = "none" -> Return(a, "done")
         [] Evidence(lck) = "invalid" -> Return(a, "refused")
         [] OTHER -> rt' = [rt EXCEPT ![a].nonce = lck, ![a].targets = OwnedTargets(lck),
                               ![a].pc = IF OwnedTargets(lck) = {} THEN "rm_owner" ELSE "kill"]
    /\ RtOnly

\* _terminate_owned_processes.
Terminate(a) ==
    /\ rt[a].pc = "kill"
    /\ LET l == rt[a].nonce
           childToo == "child" \in rt[a].targets
           cleared == [rt EXCEPT ![a].pc = "rm_owner"] IN
       /\ IF "launcher" \in rt[a].targets /\ Alive(l)
             THEN Killed(l, childToo) /\ rt' = [cleared EXCEPT ![l] = NoCall]
             ELSE /\ lau' = [lau EXCEPT ![l] = IF childToo THEN ChildGone(lau[l]) ELSE lau[l]]
                  /\ rt' = cleared
                  /\ UNCHANGED <<gate, gen, stray>>
    /\ UNCHANGED <<lock, owner, status, hub, effects, disturbed>>

\* A process survives the kill: the records stay.
TerminateFails(a) ==
    /\ rt[a].pc = "kill"
    /\ Return(a, "refused")
    /\ RtOnly

\* Wrong variant: delete without comparing.
SameGeneration_Unchecked(nonce) == nonce \in Launchers

SameGeneration(nonce) == owner \in {None, nonce} /\ lock \in {None, nonce}

\* Wrong variant: the files are unlinked in the other order.
RemoveRecord_LockFirst(a) ==
    \/ /\ rt[a].pc = "rm_owner" /\ GuardFree /\ SameGeneration(rt[a].nonce)
       /\ lock' = None /\ gen' = a /\ UNCHANGED owner
       /\ rt' = [rt EXCEPT ![a].pc = "rm_lock"]
    \/ /\ rt[a].pc = "rm_lock"
       /\ owner' = None /\ gen' = None /\ UNCHANGED lock
       /\ Return(a, "done")

\* remove_runtime_record: compare both under the guard, unlink owner, then lock.
RemoveRecord(a) ==
    \/ /\ rt[a].pc = "rm_owner" /\ GuardFree /\ SameGeneration(rt[a].nonce)
       /\ owner' = None /\ gen' = a /\ UNCHANGED lock
       /\ rt' = [rt EXCEPT ![a].pc = "rm_lock"]
    \/ /\ rt[a].pc = "rm_lock"
       /\ lock' = None /\ gen' = None /\ UNCHANGED owner
       /\ Return(a, "done")

Remove(a) ==
    /\ RemoveRecord(a)
    /\ UNCHANGED <<gate, status, lau, hub, effects, stray, disturbed>>

\* Another generation, or the guard stayed busy for its two seconds.
RemoveRefused(a) ==
    /\ rt[a].pc = "rm_owner"
    /\ ~GuardFree \/ ~SameGeneration(rt[a].nonce)
    /\ Return(a, "refused")
    /\ RtOnly

RuntimeStep(a) ==
    \/ ReadLockFile(a) \/ Inventory(a) \/ StopRead(a) \/ Terminate(a)
    \/ Remove(a) \/ RemoveRefused(a)

-----------------------------------------------------------------------------
(* The launcher: run_managed_server and _run_registered_server *)

Quiet(a) == rt[a].pc = "idle"

LauGoto(l, pc) == lau' = [lau EXCEPT ![l].pc = pc]

\* Leaving run_managed_server: a direct launcher releases the operation guard.
Exit(l) ==
    /\ lau' = [lau EXCEPT ![l].pc = "exited", ![l].polls = 0]
    /\ Released(l)

\* Wrong variant: a direct consumer does not wait for the operation guard.
LauncherGate_Free(l) ==
    /\ l \in Consumers /\ lau[l].pc = "unborn"
    /\ LauGoto(l, "circuit")
    /\ UNCHANGED <<records, gate, status, rt, hub, effects, stray, disturbed>>

\* acquire_operation_guard, for a direct consumer only.
LauncherGate(l) ==
    /\ l \in Consumers /\ lau[l].pc = "unborn"
    /\ GateFree
    /\ gate' = l /\ LauGoto(l, "circuit")
    /\ UNCHANGED <<records, status, rt, hub, effects, stray, disturbed>>

LauncherCircuit(l) ==
    /\ lau[l].pc = "circuit"
    /\ PersistStatus
    /\ IF CircuitOpen THEN Exit(l) ELSE LauGoto(l, "lock") /\ UNCHANGED gate
    /\ UNCHANGED <<records, rt, hub, effects, stray, disturbed>>

\* validate_installed_source fails.
LauncherSourceBad(l) ==
    /\ lau[l].pc = "circuit" /\ ~CircuitOpen
    /\ IF l \in Consumers THEN RecordFailure ELSE PersistStatus
    /\ Exit(l)
    /\ UNCHANGED <<records, rt, hub, effects, stray, disturbed>>

\* create_runtime_lock publishes the finished file by a hard link.
LauncherLock(l) ==
    /\ lau[l].pc = "lock" /\ Quiet(l)
    /\ GuardFree /\ lock = None
    /\ lock' = l /\ LauGoto(l, "recheck")
    /\ UNCHANGED <<owner, gen, gate, status, rt, hub, effects, stray, disturbed>>

\* The file is there, or the guard stayed busy: look who owns it.
LauncherLockTaken(l) ==
    /\ lau[l].pc = "lock" /\ Quiet(l)
    /\ ~GuardFree \/ lock # None
    /\ LauGoto(l, "look")
    /\ rt' = [rt EXCEPT ![l] = CallTo("look", None)]
    /\ UNCHANGED <<records, gate, status, hub, effects, stray, disturbed>>

\* Stale evidence is reaped and the lock tried again; anything else is polled
\* until the deadline.
LauncherLook(l) ==
    /\ lau[l].pc = "look" /\ Quiet(l)
    /\ IF rt[l].result = "stale"
          THEN /\ LauGoto(l, "reap") /\ UNCHANGED gate
               /\ rt' = [rt EXCEPT ![l] = CallTo("reap", None)]
          ELSE /\ rt' = [rt EXCEPT ![l] = NoCall]
               /\ \/ /\ lau[l].polls < MaxPolls
                     /\ lau' = [lau EXCEPT ![l].pc = "lock", ![l].polls = @ + 1]
                     /\ UNCHANGED gate
                  \/ Exit(l)
    /\ UNCHANGED <<records, status, hub, effects, stray, disturbed>>

LauncherReaped(l) ==
    /\ lau[l].pc = "reap" /\ Quiet(l)
    /\ IF rt[l].result = "refused" THEN Exit(l) ELSE LauGoto(l, "lock") /\ UNCHANGED gate
    /\ rt' = [rt EXCEPT ![l] = NoCall]
    /\ UNCHANGED <<records, status, hub, effects, stray, disturbed>>

\* The circuit may have opened during acquisition.
LauncherRecheck(l) ==
    /\ lau[l].pc = "recheck"
    /\ PersistStatus
    /\ IF CircuitOpen
          THEN LauGoto(l, "remove") /\ rt' = [rt EXCEPT ![l] = CallTo("remove", l)]
          ELSE LauGoto(l, "spawn") /\ UNCHANGED rt
    /\ UNCHANGED <<records, gate, hub, effects, stray, disturbed>>

LauncherSpawn(l) ==
    /\ lau[l].pc = "spawn"
    /\ lau' = [lau EXCEPT ![l].pc = "promote", ![l].child = "live"]
    /\ UNCHANGED <<records, gate, status, rt, hub, effects, stray, disturbed>>

LauncherSpawnFails(l) ==
    /\ lau[l].pc = "spawn"
    /\ LauGoto(l, "final")
    /\ UNCHANGED <<records, gate, status, rt, hub, effects, stray, disturbed>>

\* promote_runtime_owner; a generation lost meanwhile raises.
LauncherPromote(l) ==
    /\ lau[l].pc = "promote"
    /\ IF GuardFree /\ lock = l
          THEN owner' = l /\ LauGoto(l, "serving")
          ELSE LauGoto(l, "final") /\ UNCHANGED owner
    /\ UNCHANGED <<lock, gen, gate, status, rt, hub, effects, stray, disturbed>>

\* The child exits, perhaps leaving descendants; a direct launcher records a
\* transport failure, or the success of the calls it served.
LauncherServed(l, ok) ==
    /\ lau[l].pc = "serving"
    /\ \E left \in BOOLEAN :
          lau' = [lau EXCEPT ![l] = [IF left THEN lau[l] ELSE ChildGone(lau[l]) EXCEPT !.pc = "final"]]
    /\ IF l \notin Consumers THEN UNCHANGED status
       ELSE IF ok THEN RecordSuccess ELSE RecordFailure
    /\ UNCHANGED <<records, gate, rt, hub, effects, stray, disturbed>>

\* Wrong variant: the records go although members of the process tree live on.
LauncherFinal_Always(l) ==
    /\ lau[l].pc = "final"
    /\ \E left \in BOOLEAN :
          lau' = [lau EXCEPT ![l] = [IF left THEN lau[l] ELSE ChildGone(lau[l]) EXCEPT !.pc = "remove"]]
    /\ rt' = [rt EXCEPT ![l] = CallTo("remove", l)]
    /\ UNCHANGED <<records, gate, status, hub, effects, stray, disturbed>>

\* The finally block: end the tree, and remove the generation only if it ended.
LauncherFinal(l) ==
    /\ lau[l].pc = "final"
    /\ \/ /\ lau' = [lau EXCEPT ![l] = [ChildGone(lau[l]) EXCEPT !.pc = "remove"]]
          /\ rt' = [rt EXCEPT ![l] = CallTo("remove", l)]
          /\ UNCHANGED <<gate, stray>>
       \/ /\ lau[l].child = "live"
          /\ Exit(l)
          /\ stray' = IF owner = l THEN stray ELSE stray \cup {l}
          /\ UNCHANGED rt
    /\ UNCHANGED <<records, status, hub, effects, disturbed>>

LauncherRemoved(l) ==
    /\ lau[l].pc = "remove" /\ Quiet(l)
    /\ Exit(l)
    /\ rt' = [rt EXCEPT ![l] = NoCall]
    /\ UNCHANGED <<records, status, hub, effects, stray, disturbed>>

LauncherStep(l) ==
    \/ LauncherCircuit(l) \/ LauncherLock(l) \/ LauncherLockTaken(l) \/ LauncherLook(l)
    \/ LauncherReaped(l) \/ LauncherRecheck(l) \/ LauncherSpawn(l) \/ LauncherPromote(l)
    \/ LauncherFinal(l) \/ LauncherRemoved(l)

-----------------------------------------------------------------------------
(* The hub: discover() ("list") and call() ("once": a tool that is not       *)
(* idempotent, "again": one that is)                                         *)

Kinds == {"list", "once", "again"}

Fresh == [pc |-> "idle", kind |-> "list", n |-> 0, l |-> None, polls |-> 0, out |-> "none"]

HubSet(h, change) == hub' = [hub EXCEPT ![h] = change]

\* The call returns or raises; only the kind of the call is kept.
Finish(h) ==
    /\ HubSet(h, [Fresh EXCEPT !.pc = "done", !.kind = hub[h].kind])
    /\ Released(h)

\* Entry: the server is enabled, its circuit closed, the arguments valid.
HubEnter(h, kind) ==
    /\ hub[h].pc = "idle"
    /\ PersistStatus
    /\ IF CircuitOpen THEN Finish(h)
       ELSE HubSet(h, [hub[h] EXCEPT !.pc = "gate", !.kind = kind]) /\ UNCHANGED gate
    /\ UNCHANGED <<records, lau, rt, effects, stray, disturbed>>

\* The operation gate, or busy; the circuit is read again under the gate.
HubGate(h) ==
    /\ hub[h].pc = "gate"
    /\ \/ ~GateFree /\ Finish(h) /\ UNCHANGED <<status, rt>>
       \/ /\ GateFree /\ PersistStatus
          /\ IF CircuitOpen THEN Finish(h) /\ UNCHANGED rt
             ELSE /\ gate' = h /\ HubSet(h, [hub[h] EXCEPT !.pc = "slot"])
                  /\ rt' = [rt EXCEPT ![h] = CallTo("look", None)]
    /\ UNCHANGED <<records, lau, effects, stray, disturbed>>

\* Wrong variant: waits for an owner without a deadline.
HubSlot_Forever(h) ==
    /\ hub[h].pc = "slot" /\ Quiet(h)
    /\ IF rt[h].result = "none"
          THEN /\ HubSet(h, [hub[h] EXCEPT !.pc = "spawn"])
               /\ rt' = [rt EXCEPT ![h] = NoCall]
          ELSE rt' = [rt EXCEPT ![h] = CallTo("look", None)] /\ UNCHANGED hub
    /\ UNCHANGED <<records, gate, status, lau, effects, stray, disturbed>>

\* _wait_for_slot.
HubSlot(h) ==
    /\ hub[h].pc = "slot" /\ Quiet(h)
    /\ LET seen == rt[h].result IN
       \/ /\ seen = "none"
          /\ HubSet(h, [hub[h] EXCEPT !.pc = "spawn"])
          /\ rt' = [rt EXCEPT ![h] = NoCall] /\ UNCHANGED gate
       \/ /\ seen = "stale"
          /\ HubSet(h, [hub[h] EXCEPT !.pc = "slotreap"])
          /\ rt' = [rt EXCEPT ![h] = CallTo("reap", None)] /\ UNCHANGED gate
       \/ /\ seen = "owned" /\ hub[h].polls < MaxPolls
          /\ HubSet(h, [hub[h] EXCEPT !.polls = @ + 1])
          /\ rt' = [rt EXCEPT ![h] = CallTo("look", None)] /\ UNCHANGED gate
       \/ /\ seen \in {"owned", "invalid"}
          /\ Finish(h)
          /\ rt' = [rt EXCEPT ![h] = NoCall]
    /\ UNCHANGED <<records, status, lau, effects, stray, disturbed>>

HubSlotReaped(h) ==
    /\ hub[h].pc = "slotreap" /\ Quiet(h)
    /\ IF rt[h].result = "refused"
          THEN Finish(h) /\ rt' = [rt EXCEPT ![h] = NoCall]
          ELSE /\ HubSet(h, [hub[h] EXCEPT !.pc = "slot"]) /\ UNCHANGED gate
               /\ rt' = [rt EXCEPT ![h] = CallTo("look", None)]
    /\ UNCHANGED <<records, status, lau, effects, stray, disturbed>>

\* stdio_client starts a launcher with --hub-client.
HubSpawn(h) ==
    /\ hub[h].pc = "spawn" /\ \E l \in Pool : lau[l].pc = "unborn"
    /\ LET l == CHOOSE l \in Pool : lau[l].pc = "unborn" IN
       /\ lau' = [lau EXCEPT ![l].pc = "circuit", ![l].by = h]
       /\ HubSet(h, [hub[h] EXCEPT !.pc = "wait", !.l = l, !.n = @ + 1])
    /\ UNCHANGED <<records, gate, status, rt, effects, stray, disturbed>>

\* Initialised and listed; a call is sent on.
HubSend(h) ==
    /\ hub[h].pc = "wait" /\ hub[h].kind # "list"
    /\ lau[hub[h].l].pc = "serving" /\ lau[hub[h].l].req = "none"
    /\ lau' = [lau EXCEPT ![hub[h].l].req = "sent"]
    /\ UNCHANGED <<records, gate, status, rt, hub, effects, stray, disturbed>>

\* The server runs the tool, whether or not anybody still waits.
ToolRuns(l) ==
    /\ lau[l].child = "live" /\ lau[l].req = "sent"
    /\ lau' = [lau EXCEPT ![l].req = "ran"]
    /\ effects' = [effects EXCEPT ![lau[l].by] = @ + 1]
    /\ UNCHANGED <<records, gate, status, rt, hub, stray, disturbed>>

\* The attempt ends: an answer, a time-out, or a transport error when the
\* launcher or its child is gone.
HubOutcome(h, out) ==
    /\ hub[h].pc = "wait"
    /\ LET l == hub[h].l IN
       \/ out = "ok" /\ lau[l].pc = "serving" /\ (hub[h].kind = "list" \/ lau[l].req = "ran")
       \/ out = "transport" /\ lau[l].pc \in {"exited", "final", "remove"}
       \/ out \in {"timeout", "failed", "cancelled"}
    /\ HubSet(h, [hub[h] EXCEPT !.pc = "close", !.out = out])
    /\ UNCHANGED <<records, gate, status, lau, rt, effects, stray, disturbed>>

\* stdio_client is left: the launcher has exited or is ended, with or without
\* its child.  Then a success is recorded (not for a listing) and the call
\* returns; a failed attempt reaps.
HubClose(h, childToo) ==
    /\ hub[h].pc = "close"
    /\ LET l == hub[h].l
           ok == hub[h].out = "ok"
           call == [rt EXCEPT ![h] = IF ok THEN NoCall ELSE CallTo("reap", None)] IN
       /\ HubSet(h, IF ok THEN [Fresh EXCEPT !.pc = "done", !.kind = hub[h].kind]
                    ELSE [hub[h] EXCEPT !.pc = "reap"])
       /\ IF ok /\ hub[h].kind # "list" THEN RecordSuccess ELSE UNCHANGED status
       /\ gate' = IF ok /\ gate = h THEN None ELSE gate
       /\ IF Alive(l)
             THEN Dies(l, childToo) /\ rt' = [call EXCEPT ![l] = NoCall]
             ELSE ~childToo /\ rt' = call /\ UNCHANGED <<lau, gen, stray>>
    /\ UNCHANGED <<lock, owner, effects, disturbed>>

\* The reason is refined: an open circuit, or (for a call) a live owner.
HubReaped(h) ==
    /\ hub[h].pc = "reap" /\ Quiet(h)
    /\ LET transport == hub[h].out = "transport" IN
       /\ IF transport THEN PersistStatus ELSE UNCHANGED status
       /\ IF transport /\ CircuitOpen
             THEN /\ HubSet(h, [hub[h] EXCEPT !.pc = "decide", !.out = "circuit_open"])
                  /\ rt' = [rt EXCEPT ![h] = NoCall]
          ELSE /\ HubSet(h, [hub[h] EXCEPT !.pc = "decide"])
               /\ rt' = [rt EXCEPT ![h] = IF transport /\ hub[h].kind # "list"
                                             THEN CallTo("look", None) ELSE NoCall]
    /\ UNCHANGED <<records, gate, lau, effects, stray, disturbed>>

Retryable == {"timeout", "transport"}

\* Wrong variant: any tool is tried again.
MayRetry_AnyTool(h, reason) ==
    hub[h].kind # "list" /\ hub[h].n < MaxAttempts /\ reason \in Retryable

\* Another attempt: only an idempotent tool, only after a failure of transport.
MayRetry(h, reason) ==
    hub[h].kind = "again" /\ hub[h].n < MaxAttempts /\ reason \in Retryable

\* Retry without waiting for the slot again, or give up and count the failure.
HubDecide(h) ==
    /\ hub[h].pc = "decide" /\ Quiet(h)
    /\ LET reason == IF rt[h].result = "owned" THEN "busy" ELSE hub[h].out IN
       IF MayRetry(h, reason)
          THEN HubSet(h, [hub[h] EXCEPT !.pc = "spawn", !.out = "none"]) /\ UNCHANGED <<gate, status>>
          ELSE /\ Finish(h)
               /\ IF reason \in {"busy", "circuit_open", "cancelled"} THEN UNCHANGED status
                  ELSE RecordFailure
    /\ rt' = [rt EXCEPT ![h] = NoCall]
    /\ UNCHANGED <<records, lau, effects, stray, disturbed>>

\* Cancelled while it waits for the gate or the slot, or sleeps before a retry.
HubCancelled(h) ==
    /\ hub[h].pc \in {"gate", "slot", "spawn"} /\ Quiet(h)
    /\ Finish(h)
    /\ rt' = [rt EXCEPT ![h] = NoCall]
    /\ UNCHANGED <<records, status, lau, effects, stray, disturbed>>

HubStep(h) ==
    \/ HubGate(h) \/ HubSlot(h) \/ HubSlotReaped(h)
    \/ HubSpawn(h) \/ HubSend(h)
    \/ \E out \in {"ok", "transport", "timeout", "failed"} : HubOutcome(h, out)
    \/ \E childToo \in BOOLEAN : HubClose(h, childToo)
    \/ HubReaped(h) \/ HubDecide(h)

-----------------------------------------------------------------------------
(* The stop command, and what happens to processes *)

StopCommand(s) ==
    /\ disturbed < MaxDisturbances /\ rt[s] = NoCall
    /\ rt' = [rt EXCEPT ![s] = CallTo("stop", None)]
    /\ disturbed' = disturbed + 1
    /\ UNCHANGED <<records, gate, status, lau, hub, effects, stray>>

\* A launcher is killed at any point; its child may outlive it.
LauncherKilled(l) ==
    /\ disturbed < MaxDisturbances /\ Alive(l)
    /\ Killed(l, FALSE)
    /\ rt' = [rt EXCEPT ![l] = NoCall]
    /\ disturbed' = disturbed + 1
    /\ UNCHANGED <<lock, owner, status, hub, effects>>

\* The process of a hub call is killed; its launcher is left alone.
HubKilled(h) ==
    /\ disturbed < MaxDisturbances /\ hub[h].pc \notin {"idle", "done"}
    /\ HubSet(h, [Fresh EXCEPT !.pc = "done", !.kind = hub[h].kind, !.out = "crashed"])
    /\ Released(h)
    /\ rt' = [rt EXCEPT ![h] = NoCall]
    /\ gen' = IF gen = h THEN None ELSE gen
    /\ disturbed' = disturbed + 1
    /\ UNCHANGED <<lock, owner, status, lau, effects, stray>>

\* A server whose launcher is gone reads the end of its input and exits.
OrphanExits(l) ==
    /\ ~Alive(l) /\ lau[l].child = "live"
    /\ lau' = [lau EXCEPT ![l] = ChildGone(lau[l])]
    /\ UNCHANGED <<records, gate, status, rt, hub, effects, stray, disturbed>>

Environment ==
    \/ CoolDownElapses
    \/ \E l \in Launchers : LauncherKilled(l) \/ OrphanExits(l)
                             \/ LauncherSourceBad(l) \/ LauncherSpawnFails(l)
                             \/ \E ok \in BOOLEAN : LauncherServed(l, ok)
    \/ \E l \in Consumers : LauncherGate(l)
    \/ \E l \in Pool : ToolRuns(l)
    \/ \E h \in Hubs : HubKilled(h) \/ HubCancelled(h) \/ HubOutcome(h, "cancelled")
                        \/ (\E kind \in Kinds : HubEnter(h, kind))
    \/ \E s \in Stops : StopCommand(s)
    \/ \E a \in Actors : TerminateFails(a)

Init ==
    /\ lock = None /\ owner = None /\ gen = None /\ gate = None
    /\ status = DefaultStatus
    /\ lau = [l \in Launchers |-> [pc |-> "unborn", child |-> "none", req |-> "none",
                               by |-> None, polls |-> 0]]
    /\ rt = [a \in Actors |-> NoCall]
    /\ hub = [h \in Hubs |-> Fresh]
    /\ effects = [h \in Hubs |-> 0]
    /\ stray = {} /\ disturbed = 0

Next ==
    \/ \E a \in Actors : RuntimeStep(a)
    \/ \E l \in Launchers : LauncherStep(l)
    \/ \E h \in Hubs : HubStep(h)
    \/ Environment

Spec == Init /\ [][Next]_vars

(***************************************************************************)
(* A process that is not killed goes on: every wait of launcher, hub and   *)
(* runtime has a deadline.  A serving launcher may serve for ever, nobody  *)
(* has to call, and no failure is counted on.                              *)
(***************************************************************************)
Fairness ==
    /\ \A l \in Launchers : WF_vars(RuntimeStep(l) \/ LauncherStep(l))
    /\ \A h \in Hubs : WF_vars(RuntimeStep(h) \/ HubStep(h))

FairSpec == Spec /\ Fairness

-----------------------------------------------------------------------------
(* Properties *)

LauncherPcs == {"unborn", "circuit", "lock", "look", "reap", "recheck", "spawn",
                "promote", "serving", "final", "remove", "exited"}
HubPcs == {"idle", "gate", "slot", "slotreap", "spawn", "wait", "close",
           "reap", "decide", "done"}
Outcomes == {"none", "ok", "transport", "timeout", "failed", "cancelled", "circuit_open",
             "crashed"}

CallType ==
    [goal : {"none", "look", "reap", "stop", "remove"},
     pc : {"idle", "inv_lock", "inv_owner", "stop_lock", "stop_owner", "kill", "rm_owner", "rm_lock"},
     lck : Launchers \cup {None}, nonce : Launchers \cup {None},
     targets : SUBSET {"launcher", "child"},
     result : {"none", "invalid", "owned", "stale", "done", "refused"}]

\* Types of the files, the processes and the calls in progress.
TypeOK ==
    /\ lock \in Launchers \cup {None} /\ owner \in Launchers \cup {None}
    /\ gen \in Actors \cup {None} /\ gate \in Consumers \cup Hubs \cup {None}
    /\ status \in [state : CircuitStates, failures : 0..1000]
    /\ lau \in [Launchers -> [pc : LauncherPcs, child : {"none", "live"}, by : Hubs \cup {None},
                              req : {"none", "sent", "ran"}, polls : 0..MaxPolls]]
    /\ rt \in [Actors -> CallType]
    /\ hub \in [Hubs -> [pc : HubPcs, kind : Kinds, n : 0..MaxAttempts, l : Pool \cup {None},
                         polls : 0..MaxPolls, out : Outcomes]]
    /\ effects \in [Hubs -> Nat]
    /\ stray \subseteq Launchers /\ disturbed \in 0..MaxDisturbances

\* The two ownership records never contradict each other, also when a process
\* dies between two unlinks: contradicting evidence is refused by every reaper
\* and would block the server until a user deletes files (runtime.py).
OwnerBacked == owner # None => lock = owner

\* A launcher that is alive keeps its generation until it gives it up itself:
\* no reaper, no stop command and no older launcher deletes a newer lock.
GenerationKept ==
    [][\A l \in Launchers : lock = l /\ lock' # l => ~Alive(l) \/ lau[l].pc = "remove"]_vars

HubCrashed == \E h \in Hubs : hub[h].out = "crashed"

\* Without the stop command, and while the operation gate covers every launcher
\* (no hub process was killed), two servers never run at once, retries included,
\* except for a child whose launcher died before any record named it.
OneServer ==
    ~HubCrashed /\ (\A s \in Stops : rt[s] = NoCall) =>
        \A l, m \in Launchers \ stray : lau[l].child = "live" /\ lau[m].child = "live" => l = m

\* reap_stale_server "never interrupts a live consumer": under
\* the same condition, what a reaper ends has a dead launcher, although it reads the records twice.
ReapSparesLive ==
    [][\A a \in Launchers \cup Hubs :
          rt[a].pc = "kill" /\ rt'[a].pc = "rm_owner" /\ ~HubCrashed => ~Alive(rt[a].nonce)]_vars

\* The breaker is open exactly from the threshold on, also across a cool-down.
CircuitCounts ==
    /\ status.state \in {"circuit_open", "elapsed"} => status.failures >= Threshold
    /\ status.state = "closed" => status.failures < Threshold

\* A tool that is not idempotent runs at most once per hub call, whatever
\* time-outs, late effects and launcher deaths the call meets.
NotIdempotentOnce == \A h \in Hubs : hub[h].kind = "once" => effects[h] <= 1

\* A hub call ends and a launcher that was started serves or exits: stale
\* records, busy guards and dead owners hold nobody for ever.
NobodyStuck ==
    \A a \in Hubs \cup Consumers :
        IF a \in Hubs THEN hub[a].pc # "idle" ~> hub[a].pc = "done"
                      ELSE Alive(a) ~> lau[a].pc \in {"serving", "exited"}

\* One server at a time, with ownership records and a breaker that never
\* contradict themselves.
OwnershipSound == TypeOK /\ OwnerBacked /\ CircuitCounts /\ OneServer

\* Nobody but its own launcher takes a live generation away, and a reaper only
\* ends what a dead launcher left.
LiveGenerationSpared == GenerationKept /\ ReapSparesLive
=============================================================================
