---------------------------- MODULE Mcp_proofs ----------------------------
(***************************************************************************)
(* The MCP hub.  First the ownership of a managed server, for any number   *)
(* of hub calls, launchers, stop commands, kills, attempts and polls; then *)
(* one session of a direct launcher, for any number of requests and ids,   *)
(* however often the audit log cannot be written.                          *)
(***************************************************************************)
EXTENDS McpRuntime, McpProtocol, FiniteSetTheorems, TLAPS

LauncherType ==
    [pc : LauncherPcs, child : {"none", "live"}, by : Hubs \cup {None},
     req : {"none", "sent", "ran"}, polls : 0..MaxPolls]
HubType ==
    [pc : HubPcs, kind : Kinds, n : 0..MaxAttempts, l : Pool \cup {None},
     polls : 0..MaxPolls, out : Outcomes]

(***************************************************************************)
(* The inductive invariant, one predicate for each kind of process.        *)
(***************************************************************************)

\* A launcher that has published its lock file, and stays past that point.
Holding == {"recheck", "spawn", "promote", "serving", "final"}
Published(l) == lau[l].pc \in Holding \cup {"remove", "exited"}
Removing == {"rm_owner", "rm_lock"}
Serving == {"serving", "final", "remove", "exited"}

\* Only processes behind the operation gate act: no hub call was killed in the
\* middle and no stop command was given.
NoStop == \A s \in Stops : rt[s] = NoCall
Covered == ~HubCrashed /\ NoStop

\* The launcher holds the operation gate itself, or its hub call does.
Gated(l) ==
    \/ l \in Consumers /\ gate = l
    \/ \E h \in Hubs : gate = h /\ hub[h].l = l /\ hub[h].pc \in {"wait", "close"}

\* A launcher holds the lock file while it works, and a child that is not stray
\* is named by the records.
LauncherInv(l) ==
    /\ lau[l].pc \in Holding => lock = l
    /\ lock = l => Published(l)
    /\ lau[l].pc \notin {"promote"} \cup Serving => lau[l].child = "none"
    /\ lau[l].pc \notin Serving => lau[l].req = "none"
    /\ lau[l].pc = "unborn" => lau[l].by = None
    /\ ~HubCrashed /\ Alive(l) => Gated(l)
    /\ Covered /\ l \notin stray /\ lau[l].child = "live" =>
        /\ lock = l /\ lau[l].pc # "remove"
        /\ lau[l].pc # "promote" => owner = l

\* What a call into runtime.py has read stays true, and what it goes on to end
\* or to remove belongs to a launcher that is dead or is removing it itself.
CallInv(a) ==
    /\ rt[a].lck # None => Published(rt[a].lck)
    /\ rt[a].nonce # None => Published(rt[a].nonce)
    /\ rt[a].pc \in {"kill"} \cup Removing => rt[a].nonce # None
    /\ rt[a].pc = "kill" /\ "launcher" \notin rt[a].targets => ~Alive(rt[a].nonce)
    /\ rt[a].pc \in Removing => ~Alive(rt[a].nonce) \/ (a = rt[a].nonce /\ lau[a].pc = "remove")
    /\ rt[a].pc = "rm_lock" => gen = a /\ owner = None /\ lock \in {None, rt[a].nonce}
    /\ a \in Launchers /\ rt[a].pc # "idle" =>
        \/ lau[a].pc \in {"look", "reap"}
        \/ lau[a].pc = "remove" /\ rt[a].pc \in Removing
    /\ a \in Hubs /\ rt[a].pc # "idle" => hub[a].pc \in {"slot", "slotreap", "reap", "decide"}
    /\ a \notin Stops /\ ~HubCrashed =>
        /\ rt[a].pc = "stop_owner" /\ rt[a].lck # None => ~Alive(rt[a].lck)
        /\ rt[a].pc = "kill" => ~Alive(rt[a].nonce)
    /\ Covered =>
        /\ rt[a].pc = "kill" /\ rt[a].nonce \notin stray /\ lau[rt[a].nonce].child = "live" =>
              "child" \in rt[a].targets
        /\ rt[a].pc \in Removing /\ rt[a].nonce \notin stray => lau[rt[a].nonce].child = "none"

\* A hub call holds the gate from the slot on, and the tool of a call that is
\* not idempotent has one launcher and runs once in it.
HubInv(h) ==
    /\ hub[h].pc \in {"idle", "gate", "slot", "slotreap"} => hub[h].n = 0
    /\ hub[h].pc = "spawn" => hub[h].n < MaxAttempts /\ (hub[h].kind # "again" => hub[h].n = 0)
    /\ hub[h].pc \in {"wait", "close"} => hub[h].l # None /\ lau[hub[h].l].by = h
    /\ hub[h].pc \notin {"idle", "gate", "done"} => gate = h
    /\ hub[h].out = "crashed" => hub[h].pc = "done"
    /\ hub[h].pc # "done" /\ hub[h].n = 0 => effects[h] = 0 /\ \A l \in Launchers : lau[l].by # h
    /\ hub[h].kind = "once" =>
        /\ effects[h] <= 1
        /\ \A l, m \in Launchers : lau[l].by = h /\ lau[m].by = h => l = m
        /\ effects[h] = 1 => \A l \in Launchers : lau[l].by = h =>
             /\ lau[l].pc \in Serving /\ lau[l].req # "sent"
             /\ lau[l].pc = "serving" => lau[l].req = "ran"

RecordsInv ==
    /\ OwnerBacked
    /\ gen # None => rt[gen].pc = "rm_lock"
    /\ CircuitCounts

RuntimeInv ==
    /\ TypeOK /\ RecordsInv
    /\ \A l \in Launchers : LauncherInv(l)
    /\ \A a \in Actors : CallInv(a)
    /\ \A h \in Hubs : HubInv(h)

-----------------------------------------------------------------------------
(* What a step may do to the processes it does not move *)

\* What a launcher may become: a published one stays published, a dead one
\* dead, and a request is neither sent twice nor forgotten.
Onward(m) ==
    /\ Published(m) => Published(m)'
    /\ lau[m].pc = "exited" => lau'[m].pc = "exited"
    /\ lau[m].pc \in {"remove", "exited"} /\ lau[m].child = "none" => lau'[m].child = "none"
    /\ lau[m].pc \in Serving => lau'[m].pc \in Serving /\ (lau'[m].pc = "serving" => lau[m].pc = "serving")
    /\ lau'[m].pc = "serving" /\ lau[m].req = "ran" => lau'[m].req = "ran"

\* The step moves no launcher outside Z, no call of an actor outside X and no
\* hub call outside Y.
Frame(Z, X, Y) ==
    /\ \A m \in Launchers : Onward(m)
    /\ \A m \in Launchers \ Z :
          /\ lau'[m] = lau[m]
          /\ lock' = m => lock = m
          /\ lau[m].pc \in Holding /\ lock = m => lock' = m
          /\ Covered' /\ m \notin stray' /\ lau[m].child = "live" =>
                (lock = m => lock' = m) /\ (owner = m => owner' = m)
          /\ ~HubCrashed' /\ Alive(m) /\ Gated(m) => Gated(m)'
    /\ \A b \in Actors \ X :
          /\ rt'[b] = rt[b]
          /\ rt[b].pc = "rm_lock" => gen' = gen /\ owner' = owner /\ lock' = lock
          /\ b \in Launchers /\ rt[b].pc # "idle" => lau'[b].pc = lau[b].pc
          /\ b \in Hubs /\ rt[b].pc # "idle" => hub'[b].pc = hub[b].pc
    /\ \A h \in Hubs \ Y :
          /\ hub'[h] = hub[h] /\ effects'[h] = effects[h]
          /\ gate = h => gate' = h
          /\ \A m \in Launchers :
                /\ lau'[m].by = h <=> lau[m].by = h
                /\ lau'[m].by = h /\ lau'[m].req = "sent" /\ hub[h].kind = "once" /\ effects[h] = 1
                      => lau[m].req = "sent"
    /\ HubCrashed => HubCrashed'
    /\ Covered' => Covered
    /\ stray \subseteq stray'

\* Launchers that the step does not move keep their part of the invariant.
LEMMA LaunchersKept ==
    ASSUME RuntimeInv, NEW Z, NEW X, NEW Y, Frame(Z, X, Y), NEW m \in Launchers, m \notin Z
    PROVE  LauncherInv(m)'
<1>1. LauncherInv(m) /\ lau'[m] = lau[m]
  BY DEF RuntimeInv, Frame
<1>2. Published(m)' <=> Published(m)
  BY <1>1 DEF Published
<1>3. Alive(m)' <=> Alive(m)
  BY <1>1 DEF Alive
<1>4. (HubCrashed => HubCrashed') /\ (Covered' => Covered) /\ stray \subseteq stray'
  BY DEF Frame
<1>5. /\ lock' = m => lock = m
      /\ lau[m].pc \in Holding /\ lock = m => lock' = m
      /\ Covered' /\ m \notin stray' /\ lau[m].child = "live" =>
            (lock = m => lock' = m) /\ (owner = m => owner' = m)
      /\ ~HubCrashed' /\ Alive(m) /\ Gated(m) => Gated(m)'
  BY DEF Frame
<1> QED
  BY <1>1, <1>2, <1>3, <1>4, <1>5 DEF LauncherInv

\* A dead launcher is one that has exited, once it has published.
LEMMA DeadStays ==
    ASSUME NEW m \in Launchers, Onward(m), Published(m), ~Alive(m)
    PROVE  ~Alive(m)' /\ lau[m].pc = "exited" /\ lau'[m].pc = "exited"
BY DEF Onward, Published, Alive, Holding

\* Calls that the step does not move keep their part of the invariant.
LEMMA CallsKept ==
    ASSUME RuntimeInv, NEW Z, NEW X, NEW Y, Frame(Z, X, Y), NEW b \in Actors, b \notin X
    PROVE  CallInv(b)'
<1>1. CallInv(b) /\ rt'[b] = rt[b]
  BY DEF RuntimeInv, Frame
<1>2. rt[b].lck \in Launchers \cup {None} /\ rt[b].nonce \in Launchers \cup {None}
  BY DEF RuntimeInv, TypeOK, CallType
<1>3. (HubCrashed => HubCrashed') /\ (Covered' => Covered) /\ stray \subseteq stray'
  BY DEF Frame
<1>4. /\ rt[b].pc = "rm_lock" => gen' = gen /\ owner' = owner /\ lock' = lock
      /\ b \in Launchers /\ rt[b].pc # "idle" => lau'[b].pc = lau[b].pc
      /\ b \in Hubs /\ rt[b].pc # "idle" => hub'[b].pc = hub[b].pc
  BY DEF Frame
<1>5. \A m \in Launchers : Onward(m)
  BY DEF Frame
<1>6. rt[b].lck # None => Published(rt[b].lck) /\ Published(rt[b].lck)'
  BY <1>1, <1>2, <1>5 DEF CallInv, Onward, Published
<1>7. rt[b].nonce # None => Published(rt[b].nonce) /\ Published(rt[b].nonce)'
  BY <1>1, <1>2, <1>5 DEF CallInv, Onward, Published
<1>8. \A m \in Launchers : Published(m) /\ ~Alive(m) =>
         ~Alive(m)' /\ lau[m].pc = "exited" /\ lau'[m].pc = "exited"
  BY <1>5, DeadStays
<1>9. /\ rt[b].pc \in {"kill"} \cup Removing => rt[b].nonce # None
      /\ rt[b].pc = "kill" /\ "launcher" \notin rt[b].targets => ~Alive(rt[b].nonce)'
  BY <1>1, <1>2, <1>7, <1>8 DEF CallInv
<1>10. rt[b].pc \in Removing =>
         ~Alive(rt[b].nonce)' \/ (b = rt[b].nonce /\ lau'[b].pc = "remove")
  BY <1>1, <1>2, <1>4, <1>7, <1>8, <1>9 DEF CallInv, Removing
<1>11. b \notin Stops /\ ~HubCrashed' =>
         /\ rt[b].pc = "stop_owner" /\ rt[b].lck # None => ~Alive(rt[b].lck)'
         /\ rt[b].pc = "kill" => ~Alive(rt[b].nonce)'
  BY <1>1, <1>2, <1>3, <1>6, <1>7, <1>8, <1>9 DEF CallInv
<1>12. ASSUME Covered', rt[b].pc = "kill", rt[b].nonce \notin stray', lau'[rt[b].nonce].child = "live"
       PROVE  "child" \in rt[b].targets
  <2>1. Covered /\ ~HubCrashed /\ rt[b].nonce \in Launchers /\ rt[b].nonce \notin stray
    BY <1>2, <1>3, <1>9, <1>12 DEF Covered
  <2>2. b \notin Stops
    BY <2>1, <1>12 DEF Covered, NoStop, NoCall
  <2>3. lau[rt[b].nonce].pc = "exited"
    BY <2>1, <2>2, <1>12, <1>1, <1>7, <1>8 DEF CallInv
  <2>4. lau[rt[b].nonce].child # "none"
    BY <2>1, <2>3, <1>12, <1>5 DEF Onward
  <2>5. lau[rt[b].nonce].child \in {"none", "live"}
    BY <2>1 DEF RuntimeInv, TypeOK
  <2> QED
    BY <2>1, <2>4, <2>5, <1>12, <1>1 DEF CallInv
<1>13. ASSUME Covered', rt[b].pc \in Removing, rt[b].nonce \notin stray'
       PROVE  lau'[rt[b].nonce].child = "none"
  <2>1. Covered /\ rt[b].nonce \in Launchers /\ rt[b].nonce \notin stray
    BY <1>2, <1>3, <1>9, <1>13
  <2>2. lau[rt[b].nonce].child = "none"
    BY <2>1, <1>1, <1>13 DEF CallInv
  <2>3. lau[rt[b].nonce].pc \in {"remove", "exited"}
    BY <2>1, <1>1, <1>7, <1>8, <1>13 DEF CallInv
  <2> QED
    BY <2>1, <2>2, <2>3, <1>5 DEF Onward
<1>14. /\ (rt[b].lck # None => Published(rt[b].lck))'
       /\ (rt[b].nonce # None => Published(rt[b].nonce))'
       /\ (rt[b].pc \in {"kill"} \cup Removing => rt[b].nonce # None)'
  BY <1>1, <1>6, <1>7, <1>9 DEF Published
<1>15. (rt[b].pc = "rm_lock" => gen = b /\ owner = None /\ lock \in {None, rt[b].nonce})'
  BY <1>1, <1>4 DEF CallInv
<1>16. /\ (b \in Launchers /\ rt[b].pc # "idle" =>
             \/ lau[b].pc \in {"look", "reap"}
             \/ lau[b].pc = "remove" /\ rt[b].pc \in Removing)'
       /\ (b \in Hubs /\ rt[b].pc # "idle" => hub[b].pc \in {"slot", "slotreap", "reap", "decide"})'
  BY <1>1, <1>4 DEF CallInv, Removing
<1>17. /\ (rt[b].pc = "kill" /\ "launcher" \notin rt[b].targets => ~Alive(rt[b].nonce))'
       /\ (rt[b].pc \in Removing => ~Alive(rt[b].nonce) \/ (b = rt[b].nonce /\ lau[b].pc = "remove"))'
  BY <1>1, <1>9, <1>10 DEF Alive, Removing
<1>18. (b \notin Stops /\ ~HubCrashed =>
         /\ rt[b].pc = "stop_owner" /\ rt[b].lck # None => ~Alive(rt[b].lck)
         /\ rt[b].pc = "kill" => ~Alive(rt[b].nonce))'
  BY <1>1, <1>11 DEF Alive
<1>19. (Covered =>
         /\ rt[b].pc = "kill" /\ rt[b].nonce \notin stray /\ lau[rt[b].nonce].child = "live" =>
               "child" \in rt[b].targets
         /\ rt[b].pc \in Removing /\ rt[b].nonce \notin stray => lau[rt[b].nonce].child = "none")'
  BY <1>1, <1>12, <1>13 DEF Removing
<1> QED
  BY <1>14, <1>15, <1>16, <1>17, <1>18, <1>19 DEF CallInv

\* Hub calls that the step does not move keep their part of the invariant.
LEMMA HubsKept ==
    ASSUME RuntimeInv, NEW Z, NEW X, NEW Y, Frame(Z, X, Y), NEW h \in Hubs, h \notin Y
    PROVE  HubInv(h)'
<1>1. HubInv(h) /\ hub'[h] = hub[h] /\ effects'[h] = effects[h]
  BY DEF RuntimeInv, Frame
<1>2. /\ gate = h => gate' = h
      /\ \A m \in Launchers :
            /\ lau'[m].by = h <=> lau[m].by = h
            /\ lau'[m].by = h /\ lau'[m].req = "sent" /\ hub[h].kind = "once" /\ effects[h] = 1
                  => lau[m].req = "sent"
  BY DEF Frame
<1>3. hub[h].l \in Launchers \cup {None}
  BY DEF RuntimeInv, TypeOK, Launchers
<1>4. \A m \in Launchers :
        /\ lau[m].pc \in Serving => lau'[m].pc \in Serving /\ (lau'[m].pc = "serving" => lau[m].pc = "serving")
        /\ lau'[m].pc = "serving" /\ lau[m].req = "ran" => lau'[m].req = "ran"
  BY DEF Frame, Onward
<1>5. ASSUME NEW m \in Launchers, hub[h].kind = "once", effects[h] = 1, lau'[m].by = h
      PROVE  /\ lau'[m].pc \in Serving /\ lau'[m].req # "sent"
             /\ lau'[m].pc = "serving" => lau'[m].req = "ran"
  <2>1. lau[m].by = h
    BY <1>2, <1>5
  <2>2. /\ lau[m].pc \in Serving /\ lau[m].req # "sent"
        /\ lau[m].pc = "serving" => lau[m].req = "ran"
    BY <2>1, <1>1, <1>5 DEF HubInv
  <2> QED
    BY <2>1, <2>2, <1>2, <1>4, <1>5
<1> QED
  BY <1>1, <1>2, <1>3, <1>5 DEF HubInv, Serving

-----------------------------------------------------------------------------
(* The circuit breaker *)

StatusType == [state : CircuitStates, failures : 0..1000]

\* Every way to write the status file keeps the breaker in step with the count.
LEMMA StatusKept ==
    ASSUME RuntimeInv,
           PersistStatus \/ RecordFailure \/ RecordSuccess \/ UNCHANGED status
    PROVE  status' \in StatusType /\ CircuitCounts'
<1>1. status \in StatusType /\ CircuitCounts
  BY DEF RuntimeInv, TypeOK, RecordsInv, StatusType
<1>2. Threshold \in Nat \ {0}
  BY RuntimeConstants
<1>3. DefaultStatus \in StatusType /\ DefaultStatus.state = "closed" /\ DefaultStatus.failures = 0
  BY DEF DefaultStatus, StatusType, CircuitStates
<1>4. /\ ReadStatus \in StatusType
      /\ ReadStatus.state = "circuit_open" => ReadStatus.failures >= Threshold
      /\ ReadStatus.state = "closed" => ReadStatus.failures < Threshold
      /\ ReadStatus.state # "elapsed"
  BY <1>1, <1>2, <1>3 DEF ReadStatus, CircuitCounts, StatusType, CircuitStates
<1>5. CASE PersistStatus
  BY <1>4, <1>5 DEF PersistStatus, UpdateStatus, CircuitCounts, StatusType, CircuitStates
<1>6. CASE RecordFailure
  <2>1. ReadStatus.failures \in 0..1000
    BY <1>4 DEF StatusType
  <2>2. Failures \in 0..1000
    BY SMTT(30), <2>1 DEF Failures
  <2>3. status' = [state |-> IF Failures >= Threshold THEN "circuit_open" ELSE "closed",
                   failures |-> Failures]
    BY <1>6 DEF RecordFailure, UpdateStatus
  <2> QED
    BY <2>2, <2>3, <1>2 DEF CircuitCounts, StatusType, CircuitStates
<1>7. CASE RecordSuccess
  BY <1>2, <1>3, <1>7 DEF RecordSuccess, UpdateStatus, CircuitCounts, StatusType, CircuitStates
<1>8. CASE UNCHANGED status
  BY <1>1, <1>8 DEF CircuitCounts
<1> QED
  BY <1>5, <1>6, <1>7, <1>8

-----------------------------------------------------------------------------
(* The operation gate *)

\* While the gate covers every launcher, a process that makes a call into
\* runtime.py is the only one alive.
LEMMA GateExcludes ==
    ASSUME RuntimeInv, ~HubCrashed, NEW a \in Launchers \cup Hubs, rt[a].pc # "idle",
           NEW m \in Launchers, Alive(m)
    PROVE  m = a
<1>1. Gated(m) /\ (a \in Launchers => lau[a].pc \in {"look", "reap", "remove"})
  BY DEF RuntimeInv, LauncherInv, CallInv, Actors
<1>2. CASE a \in Hubs
  <2>1. hub[a].pc \in {"slot", "slotreap", "reap", "decide"} /\ gate = a
    BY <1>2 DEF RuntimeInv, CallInv, HubInv, Actors
  <2> QED
    BY <2>1, <1>1, <1>2, RuntimeConstants DEF Gated, Launchers
<1>3. CASE a \in Launchers
  <2>1. Gated(a)
    BY <1>1, <1>3 DEF RuntimeInv, LauncherInv, Alive
  <2> QED
    BY <2>1, <1>1, <1>3, RuntimeConstants DEF Gated, Launchers
<1> QED
  BY <1>2, <1>3

\* While a hub call holds the gate, only the launcher it waits for is alive.
LEMMA HubExcludes ==
    ASSUME RuntimeInv, ~HubCrashed, NEW h \in Hubs, gate = h, NEW m \in Launchers, Alive(m)
    PROVE  hub[h].pc \in {"wait", "close"} /\ hub[h].l = m
<1>1. Gated(m)
  BY DEF RuntimeInv, LauncherInv
<1> QED
  BY <1>1, RuntimeConstants DEF Gated, Launchers

-----------------------------------------------------------------------------
(* Calls into runtime.py *)

\* A call that has read nothing is sound wherever its caller may make it.
LEMMA FreshCall ==
    ASSUME NEW a, rt'[a].lck = None, rt'[a].nonce = None,
           rt'[a].pc \in {"idle", "inv_lock", "stop_lock"},
           a \in Launchers /\ rt'[a].pc # "idle" => lau'[a].pc \in {"look", "reap"},
           a \in Hubs /\ rt'[a].pc # "idle" => hub'[a].pc \in {"slot", "slotreap", "reap", "decide"}
    PROVE  CallInv(a)'
BY DEF CallInv, Removing

\* A step of a call that only moves that call.
LEMMA CallMoves ==
    ASSUME RuntimeInv, NEW a \in Actors, NEW r \in CallType,
           rt' = [rt EXCEPT ![a] = r], rt[a].pc # "rm_lock",
           a \in Stops => r # NoCall, disturbed' \in 0..MaxDisturbances,
           UNCHANGED <<lock, owner, gen, gate, status, lau, hub, effects, stray>>,
           CallInv(a)'
    PROVE  RuntimeInv'
<1>1. TypeOK /\ RecordsInv
  BY DEF RuntimeInv
<1>2. rt \in [Actors -> CallType] /\ rt'[a] = r /\ \A b \in Actors : b # a => rt'[b] = rt[b]
  BY <1>1 DEF TypeOK
<1>3. TypeOK'
  BY <1>1, <1>2 DEF TypeOK
<1>4. gen # a
  BY <1>1, RuntimeConstants DEF RecordsInv
<1>5. gen \in Actors \cup {None}
  BY <1>1 DEF TypeOK
<1>6. RecordsInv'
  <2>1. OwnerBacked' /\ CircuitCounts'
    BY <1>1 DEF RecordsInv, OwnerBacked, CircuitCounts
  <2>2. gen' # None => rt'[gen'].pc = "rm_lock"
    BY <1>1, <1>2, <1>4, <1>5 DEF RecordsInv
  <2> QED
    BY <2>1, <2>2 DEF RecordsInv
<1>7. HubCrashed' <=> HubCrashed
  BY DEF HubCrashed
<1>8. Covered' => Covered
  <2>1. ASSUME NoStop', NEW s \in Stops  PROVE rt[s] = NoCall
    <3>1. s \in Actors /\ rt'[s] = NoCall
      BY <2>1 DEF NoStop, Actors
    <3> QED
      BY <3>1, <1>2
  <2> QED
    BY <2>1, <1>7 DEF Covered, NoStop
<1>9. Frame({}, {a}, {})
  <2>1. \A m \in Launchers : Onward(m)
    BY DEF Onward, Published
  <2>2. \A m \in Launchers : Gated(m)' <=> Gated(m)
    BY DEF Gated
  <2> QED
    BY <2>1, <2>2, <1>2, <1>7, <1>8 DEF Frame
<1> QED
  BY <1>3, <1>6, <1>9, LaunchersKept, CallsKept, HubsKept DEF RuntimeInv

\* A new call, and what Return leaves.
LEMMA CallFields ==
    /\ NoCall \in CallType /\ NoCall.pc = "idle" /\ NoCall.lck = None /\ NoCall.nonce = None
    /\ NoCall.result = "none"
    /\ \A goal \in {"look", "reap", "stop"} :
         /\ CallTo(goal, None) \in CallType /\ CallTo(goal, None) # NoCall
         /\ CallTo(goal, None).pc \in {"inv_lock", "stop_lock"}
         /\ CallTo(goal, None).lck = None /\ CallTo(goal, None).nonce = None
    /\ \A l \in Launchers :
         /\ CallTo("remove", l) \in CallType /\ CallTo("remove", l).pc = "rm_owner"
         /\ CallTo("remove", l).nonce = l /\ CallTo("remove", l).lck = None
    /\ \A a, result : result \in {"none", "invalid", "owned", "stale", "done", "refused"} =>
         LET r == [NoCall EXCEPT !.result = IF a \in Stops THEN "done" ELSE result] IN
         /\ r \in CallType /\ r.pc = "idle" /\ r.lck = None /\ r.nonce = None
         /\ a \in Stops => r # NoCall
BY ZenonT(40) DEF NoCall, CallTo, CallType

\* A call that returns without having changed anything.
LEMMA CallReturns ==
    ASSUME RuntimeInv, NEW a \in Actors, rt[a].pc # "rm_lock",
           NEW result \in {"none", "invalid", "owned", "stale", "done", "refused"},
           Return(a, result), RtOnly
    PROVE  RuntimeInv'
<1> DEFINE r == [NoCall EXCEPT !.result = IF a \in Stops THEN "done" ELSE result]
<1>1. rt' = [rt EXCEPT ![a] = r]
  BY DEF Return
<1>2. r \in CallType /\ r.pc = "idle" /\ r.lck = None /\ r.nonce = None /\ (a \in Stops => r # NoCall)
  BY SMTT(30), CallFields
<1>3. rt \in [Actors -> CallType] /\ disturbed \in 0..MaxDisturbances
  BY DEF RuntimeInv, TypeOK
<1> HIDE DEF r
<1>4. rt'[a] = r
  BY <1>1, <1>3
<1>5. CallInv(a)'
  BY <1>2, <1>4, FreshCall
<1> QED
  BY <1>1, <1>2, <1>3, <1>5, CallMoves DEF RtOnly, records

\* The parts of the invariant about one call, with the type of what it holds.
LEMMA CallFacts ==
    ASSUME RuntimeInv, NEW a \in Actors
    PROVE  /\ CallInv(a) /\ rt[a] \in CallType /\ rt \in [Actors -> CallType]
           /\ rt[a].lck \in Launchers \cup {None} /\ rt[a].nonce \in Launchers \cup {None}
           /\ lock \in Launchers \cup {None} /\ owner \in Launchers \cup {None}
           /\ disturbed \in 0..MaxDisturbances
           /\ \A l \in Launchers : LauncherInv(l)
BY DEF RuntimeInv, TypeOK, CallType

\* A read of the lock file: what it names has published, and behind the gate
\* it is dead when the call goes on to stop it.
LEMMA ReadLockFileKeeps ==
    ASSUME RuntimeInv, NEW a \in Actors, ReadLockFile(a)
    PROVE  RuntimeInv'
<1>1. /\ CallInv(a) /\ rt[a] \in CallType /\ rt \in [Actors -> CallType]
      /\ lock \in Launchers \cup {None} /\ disturbed \in 0..MaxDisturbances
      /\ \A l \in Launchers : LauncherInv(l)
  BY CallFacts
<1>2. PICK q \in CallType : q = rt[a]
  BY <1>1
<1> DEFINE pc == IF q.pc = "inv_lock" THEN "inv_owner" ELSE "stop_owner"
           r == [q EXCEPT !.lck = lock, !.pc = pc]
<1>3. q.pc \in {"inv_lock", "stop_lock"} /\ rt' = [rt EXCEPT ![a] = r]
  BY <1>2, <1>1 DEF ReadLockFile
<1>4. pc \in {"inv_owner", "stop_owner"} /\ (pc = "stop_owner" => q.pc = "stop_lock")
  BY <1>3
<1> HIDE DEF pc
<1>5. r \in CallType /\ r.pc = pc /\ r.lck = lock /\ r.nonce = q.nonce /\ r.targets = q.targets
  BY <1>1, <1>4 DEF CallType
<1> HIDE DEF r
<1>6. rt'[a] = r
  BY <1>1, <1>3
<1>7. UNCHANGED <<lock, owner, gen, gate, status, lau, hub, effects, stray, disturbed>>
  BY DEF ReadLockFile, RtOnly, records
<1>8. lock # None => Published(lock)
  BY <1>1 DEF LauncherInv
<1>9. a \notin Stops /\ ~HubCrashed /\ lock # None => ~Alive(lock)
  <2> SUFFICES ASSUME a \notin Stops, ~HubCrashed, lock # None, Alive(lock)
               PROVE  FALSE
    OBVIOUS
  <2>1. a \in Launchers \cup Hubs /\ rt[a].pc # "idle"
    BY <1>2, <1>3 DEF Actors
  <2>2. lock = a
    BY <2>1, <1>1, GateExcludes
  <2>3. lau[a].pc \in {"look", "reap"}
    BY <2>1, <2>2, <1>1, <1>2, <1>3 DEF CallInv, Removing
  <2> QED
    BY <2>2, <2>3, <1>8 DEF Published, Holding
<1>10. CallInv(a)'
  <2>1. \A l : (Published(l)' <=> Published(l)) /\ (Alive(l)' <=> Alive(l))
    BY <1>7 DEF Published, Alive
  <2>2. HubCrashed' <=> HubCrashed
    BY <1>7 DEF HubCrashed
  <2>3. (rt[a].lck # None => Published(rt[a].lck))' /\ (rt[a].nonce # None => Published(rt[a].nonce))'
    BY <1>1, <1>2, <1>5, <1>6, <1>7, <1>8 DEF CallInv, Published
  <2>4. /\ (a \in Launchers => lau[a].pc \in {"look", "reap"})'
        /\ (a \in Hubs => hub[a].pc \in {"slot", "slotreap", "reap", "decide"})'
    BY <1>1, <1>2, <1>3, <1>7 DEF CallInv, Removing
  <2>5. (a \notin Stops /\ ~HubCrashed => (rt[a].lck # None => ~Alive(rt[a].lck)))'
    BY <2>2, <1>5, <1>6, <1>7, <1>9 DEF Alive
  <2> QED
    BY <2>3, <2>4, <2>5, <1>4, <1>5, <1>6 DEF CallInv, Removing
<1>11. a \in Stops => r # NoCall
  BY <1>4, <1>5 DEF NoCall
<1> QED
  BY <1>1, <1>2, <1>3, <1>5, <1>7, <1>10, <1>11, CallMoves

\* owner_inventory returns, or reap_stale_server goes on.
LEMMA InventoryKeeps ==
    ASSUME RuntimeInv, NEW a \in Actors, Inventory(a)
    PROVE  RuntimeInv'
<1>1. /\ CallInv(a) /\ rt[a] \in CallType /\ rt \in [Actors -> CallType]
      /\ disturbed \in 0..MaxDisturbances
  BY CallFacts
<1>2. rt[a].pc = "inv_owner" /\ RtOnly
  BY DEF Inventory
<1> DEFINE seen == Observed(rt[a].lck)
<1>3. seen \in {"none", "invalid", "owned", "stale"}
  BY DEF Observed, Evidence
<1>4. \/ \E result \in {"none", "invalid", "owned", "stale", "done", "refused"} : Return(a, result)
      \/ rt' = [rt EXCEPT ![a].pc = "stop_lock"]
  <2>1. CASE rt[a].goal = "look"
    BY <2>1, <1>3 DEF Inventory
  <2>2. CASE rt[a].goal = "reap" /\ seen = "stale"
    BY <2>2 DEF Inventory
  <2>3. CASE ~(rt[a].goal = "look") /\ ~(rt[a].goal = "reap" /\ seen = "stale")
    BY <2>3 DEF Inventory
  <2> QED
    BY <2>1, <2>2, <2>3
<1>5. CASE \E result \in {"none", "invalid", "owned", "stale", "done", "refused"} : Return(a, result)
  BY <1>2, <1>5, CallReturns
<1>6. CASE rt' = [rt EXCEPT ![a].pc = "stop_lock"]
  <2>1. PICK q \in CallType : q = rt[a]
    BY <1>1
  <2> DEFINE r == [q EXCEPT !.pc = "stop_lock"]
  <2>2. /\ r \in CallType /\ r.pc = "stop_lock" /\ r.lck = q.lck /\ r.nonce = q.nonce
        /\ rt' = [rt EXCEPT ![a] = r] /\ r # NoCall
    BY <2>1, <1>1, <1>6 DEF CallType, NoCall
  <2> HIDE DEF r
  <2>3. rt'[a] = r
    BY <1>1, <2>2
  <2>4. UNCHANGED <<lock, owner, gen, gate, status, lau, hub, effects, stray, disturbed>>
    BY <1>2 DEF RtOnly, records
  <2>5. CallInv(a)'
    BY <1>1, <1>2, <2>1, <2>2, <2>3, <2>4 DEF CallInv, Published, Removing
  <2> QED
    BY <1>1, <1>2, <2>1, <2>2, <2>4, <2>5, CallMoves
<1> QED
  BY <1>4, <1>5, <1>6

\* stop_owned_servers captures what the records name: behind the gate a dead
\* launcher, with its child as a target when the child lives.
LEMMA StopReadKeeps ==
    ASSUME RuntimeInv, NEW a \in Actors, StopRead(a)
    PROVE  RuntimeInv'
<1>1. /\ CallInv(a) /\ rt[a] \in CallType /\ rt \in [Actors -> CallType]
      /\ rt[a].lck \in Launchers \cup {None} /\ owner \in Launchers \cup {None}
      /\ disturbed \in 0..MaxDisturbances /\ \A l \in Launchers : LauncherInv(l)
  BY CallFacts
<1>2. rt[a].pc = "stop_owner" /\ RtOnly
  BY DEF StopRead
<1>3. PICK k : k = rt[a].lck
  OBVIOUS
<1>4. PICK targets : targets = OwnedTargets(k)
  OBVIOUS
<1> DEFINE pc == IF targets = {} THEN "rm_owner" ELSE "kill"
<1>5. \/ Return(a, "done") \/ Return(a, "refused")
      \/ /\ Evidence(k) = "names"
         /\ rt' = [rt EXCEPT ![a].nonce = k, ![a].targets = targets, ![a].pc = pc]
  <2>1. Evidence(k) \in {"none", "invalid", "names"}
    BY DEF Evidence
  <2>2. CASE Evidence(k) = "none"
    BY <2>2, <1>3 DEF StopRead
  <2>3. CASE Evidence(k) = "invalid"
    BY <2>3, <1>3 DEF StopRead
  <2>4. CASE Evidence(k) = "names"
    BY <2>4, <1>3, <1>4 DEF StopRead
  <2> QED
    BY <2>1, <2>2, <2>3, <2>4
<1>6. CASE Return(a, "done") \/ Return(a, "refused")
  BY <1>2, <1>6, CallReturns
<1>7. CASE /\ Evidence(k) = "names"
           /\ rt' = [rt EXCEPT ![a].nonce = k, ![a].targets = targets, ![a].pc = pc]
  <2>1. PICK q \in CallType : q = rt[a]
    BY <1>1
  <2>2. k \in Launchers
    BY <1>1, <1>3, <1>7 DEF Evidence
  <2>3. Published(k) /\ LauncherInv(k)
    BY <1>1, <1>3, <2>2, RuntimeConstants DEF CallInv, Actors
  <2>4. /\ targets \in SUBSET {"launcher", "child"}
        /\ "launcher" \in targets <=> Alive(k)
        /\ "child" \in targets <=> (lau[k].child = "live" /\ (Alive(k) \/ owner = k))
    BY <1>4 DEF OwnedTargets
  <2> DEFINE r == [q EXCEPT !.nonce = k, !.targets = targets, !.pc = pc]
  <2>5. pc \in {"rm_owner", "kill"} /\ (pc = "rm_owner" <=> targets = {})
    OBVIOUS
  <2> HIDE DEF pc
  <2>6. /\ r \in CallType /\ r.pc = pc /\ r.lck = k /\ r.nonce = k /\ r.targets = targets
        /\ rt' = [rt EXCEPT ![a] = r] /\ r # NoCall
    BY ZenonT(40), <2>1, <2>2, <2>4, <2>5, <1>1, <1>3, <1>7 DEF CallType, NoCall
  <2> HIDE DEF r
  <2>7. rt'[a] = r
    BY <1>1, <2>6
  <2>8. UNCHANGED <<lock, owner, gen, gate, status, lau, hub, effects, stray, disturbed>>
    BY <1>2 DEF RtOnly, records
  <2>9. a \notin Stops /\ ~HubCrashed => ~Alive(k)
    BY <1>1, <1>2, <1>3, <2>2, RuntimeConstants DEF CallInv, Actors
  <2>10. Covered => a \notin Stops /\ ~HubCrashed
    BY <1>2 DEF Covered, NoStop, NoCall
  <2>11. ASSUME Covered, k \notin stray, lau[k].child = "live"
         PROVE  "child" \in targets
    <3>1. lau[k].pc = "exited"
      BY <2>3, <2>9, <2>10, <2>11 DEF Published, Alive, Holding
    <3> QED
      BY <3>1, <2>3, <2>4, <2>11 DEF LauncherInv
  <2>12. lau[k].child \in {"none", "live"}
    BY <2>2 DEF RuntimeInv, TypeOK
  <2>13. CallInv(a)'
    <3>1. /\ \A l : (Published(l)' <=> Published(l)) /\ (Alive(l)' <=> Alive(l))
          /\ (HubCrashed' <=> HubCrashed)
      BY <2>8 DEF Published, Alive, HubCrashed
    <3>2. Covered' => Covered
      <4>1. ASSUME NoStop', NEW s \in Stops  PROVE rt[s] = NoCall
        <5>1. s \in Actors /\ rt'[s] = NoCall
          BY <4>1 DEF NoStop, Actors
        <5> QED
          BY <5>1, <1>1, <2>6
      <4> QED
        BY <4>1, <3>1 DEF Covered, NoStop
    <3>3. (rt[a].lck # None => Published(rt[a].lck))' /\ (rt[a].nonce # None => Published(rt[a].nonce))'
      BY <2>3, <2>6, <2>7, <3>1
    <3>4. /\ (a \in Launchers => lau[a].pc \in {"look", "reap"})'
          /\ (a \in Hubs => hub[a].pc \in {"slot", "slotreap", "reap", "decide"})'
      BY <1>1, <1>2, <2>8 DEF CallInv, Removing
    <3>5. rt'[a].nonce # None /\ rt'[a].pc \in {"rm_owner", "kill"}
      BY <2>2, <2>5, <2>6, <2>7, RuntimeConstants DEF Actors
    <3>6. (rt[a].pc = "kill" /\ "launcher" \notin rt[a].targets => ~Alive(rt[a].nonce))'
      BY <2>4, <2>6, <2>7, <3>1
    <3>7. (rt[a].pc \in Removing => ~Alive(rt[a].nonce))'
      BY <2>4, <2>5, <2>6, <2>7, <3>1 DEF Removing
    <3>8. (a \notin Stops /\ ~HubCrashed => (rt[a].pc = "kill" => ~Alive(rt[a].nonce)))'
      BY <2>6, <2>7, <2>9, <3>1
    <3>9. (Covered =>
             /\ rt[a].pc = "kill" /\ rt[a].nonce \notin stray /\ lau[rt[a].nonce].child = "live" =>
                   "child" \in rt[a].targets
             /\ rt[a].pc \in Removing /\ rt[a].nonce \notin stray => lau[rt[a].nonce].child = "none")'
      BY <2>5, <2>6, <2>7, <2>8, <2>11, <2>12, <3>2 DEF Removing
    <3> QED
      BY <3>3, <3>4, <3>5, <3>6, <3>7, <3>8, <3>9 DEF CallInv, Removing
  <2> QED
    BY <1>1, <1>2, <2>6, <2>8, <2>13, CallMoves
<1> QED
  BY <1>5, <1>6, <1>7

\* A kill that failed and a refused removal leave everything as it was.
LEMMA RefusalKeeps ==
    ASSUME RuntimeInv, NEW a \in Actors, TerminateFails(a) \/ RemoveRefused(a)
    PROVE  RuntimeInv'
BY CallReturns DEF TerminateFails, RemoveRefused

\* The stop command begins.
LEMMA StopCommandKeeps ==
    ASSUME RuntimeInv, NEW s \in Stops, StopCommand(s)
    PROVE  RuntimeInv'
<1>1. /\ rt \in [Actors -> CallType] /\ disturbed \in 0..MaxDisturbances /\ s \in Actors
      /\ s \notin Launchers /\ s \notin Hubs
  BY CallFacts, RuntimeConstants DEF Actors
<1>2. PICK r : r = CallTo("stop", None)
  OBVIOUS
<1>3. /\ rt' = [rt EXCEPT ![s] = r] /\ rt[s] = NoCall
      /\ disturbed' = disturbed + 1 /\ disturbed < MaxDisturbances
      /\ UNCHANGED <<lock, owner, gen, gate, status, lau, hub, effects, stray>>
  BY <1>2 DEF StopCommand, records
<1>4. r \in CallType /\ r # NoCall /\ r.pc \in {"inv_lock", "stop_lock"} /\ r.lck = None /\ r.nonce = None
  BY <1>2, CallFields
<1>5. rt'[s] = r /\ rt[s].pc = "idle" /\ disturbed' \in 0..MaxDisturbances
  BY <1>1, <1>3, CallFields, RuntimeConstants
<1>6. CallInv(s)'
  BY <1>1, <1>4, <1>5, FreshCall
<1> QED
  BY <1>1, <1>3, <1>4, <1>5, <1>6, CallMoves

\* remove_runtime_record, both unlinks: what goes belongs to a launcher that is
\* dead, or removes it itself, and has no child.
LEMMA RemoveKeeps ==
    ASSUME RuntimeInv, NEW a \in Actors, Remove(a)
    PROVE  RuntimeInv'
<1>1. /\ CallInv(a) /\ rt[a] \in CallType /\ rt \in [Actors -> CallType]
      /\ rt[a].nonce \in Launchers \cup {None}
      /\ lock \in Launchers \cup {None} /\ owner \in Launchers \cup {None}
      /\ \A l \in Launchers : LauncherInv(l)
  BY CallFacts
<1>2. UNCHANGED <<gate, status, lau, hub, effects, stray, disturbed>>
  BY DEF Remove
<1>3. TypeOK /\ RecordsInv
  BY DEF RuntimeInv
<1>4. PICK q \in CallType : q = rt[a]
  BY <1>1
<1>5. q.pc \in Removing /\ q.nonce \in Launchers
  BY <1>1, <1>4 DEF Remove, RemoveRecord, Removing, CallInv
<1>6. lau[q.nonce].pc \in {"remove", "exited"}
  BY <1>1, <1>4, <1>5, RuntimeConstants DEF CallInv, Published, Alive, Holding, Actors
<1>7. Covered /\ q.nonce \notin stray => lau[q.nonce].child = "none"
  BY <1>1, <1>4, <1>5 DEF CallInv
<1>8. PICK r \in CallType :
        /\ rt' = [rt EXCEPT ![a] = r] /\ (a \in Stops => r # NoCall)
        /\ \/ /\ q.pc = "rm_owner" /\ gen = None /\ owner \in {None, q.nonce} /\ lock \in {None, q.nonce}
              /\ owner' = None /\ gen' = a /\ lock' = lock
              /\ r.pc = "rm_lock" /\ r.nonce = q.nonce /\ r.lck = q.lck
           \/ /\ q.pc = "rm_lock" /\ lock' = None /\ gen' = None /\ owner' = owner
              /\ r.pc = "idle" /\ r.nonce = None /\ r.lck = None
  <2>1. CASE rt[a].pc = "rm_owner"
    <3> DEFINE r == [q EXCEPT !.pc = "rm_lock"]
    <3>1. /\ r \in CallType /\ r.pc = "rm_lock" /\ r.nonce = q.nonce /\ r.lck = q.lck /\ r # NoCall
          /\ [rt EXCEPT ![a].pc = "rm_lock"] = [rt EXCEPT ![a] = r]
      BY <1>1, <1>4 DEF CallType, NoCall
    <3>2. /\ gen = None /\ owner \in {None, q.nonce} /\ lock \in {None, q.nonce}
          /\ owner' = None /\ gen' = a /\ lock' = lock /\ rt' = [rt EXCEPT ![a].pc = "rm_lock"]
      BY <2>1, <1>4 DEF Remove, RemoveRecord, GuardFree, SameGeneration
    <3> HIDE DEF r
    <3> QED
      BY <3>1, <3>2, <2>1, <1>4
  <2>2. CASE rt[a].pc = "rm_lock"
    <3> DEFINE r == [NoCall EXCEPT !.result = IF a \in Stops THEN "done" ELSE "done"]
    <3>1. /\ lock' = None /\ gen' = None /\ owner' = owner /\ rt' = [rt EXCEPT ![a] = r]
      BY <2>2 DEF Remove, RemoveRecord, Return
    <3>2. r \in CallType /\ r.pc = "idle" /\ r.lck = None /\ r.nonce = None /\ (a \in Stops => r # NoCall)
      BY CallFields
    <3> HIDE DEF r
    <3> QED
      BY <3>1, <3>2, <2>2, <1>4
  <2> QED
    BY <2>1, <2>2 DEF Remove, RemoveRecord
<1>9. rt'[a] = r /\ \A b \in Actors : b # a => rt'[b] = rt[b]
  BY <1>1, <1>8
<1>10. gen \in {None, a}
  BY <1>1, <1>3, <1>4, <1>8 DEF CallInv
<1>11. q.pc = "rm_lock" => owner = None /\ lock \in {None, q.nonce}
  BY <1>1, <1>4 DEF CallInv
<1>12. TypeOK'
  BY <1>2, <1>3, <1>8, RuntimeConstants DEF TypeOK, Actors
<1>13. RecordsInv'
  <2>1. OwnerBacked'
    BY <1>8, <1>11 DEF OwnerBacked
  <2>2. CircuitCounts'
    BY <1>2, <1>3 DEF RecordsInv, CircuitCounts
  <2>3. gen' # None => rt'[gen'].pc = "rm_lock"
    BY <1>8, <1>9
  <2> QED
    BY <2>1, <2>2, <2>3 DEF RecordsInv
<1>14. HubCrashed' <=> HubCrashed
  BY <1>2 DEF HubCrashed
<1>15. Covered' => Covered
  <2>1. ASSUME NoStop', NEW s \in Stops  PROVE rt[s] = NoCall
    <3>1. s \in Actors /\ rt'[s] = NoCall
      BY <2>1 DEF NoStop, Actors
    <3> QED
      BY <3>1, <1>8, <1>9
  <2> QED
    BY <2>1, <1>14 DEF Covered, NoStop
<1>16. Frame({}, {a}, {})
  <2>1. \A m \in Launchers : Onward(m)
    BY <1>2 DEF Onward, Published
  <2>2. \A m \in Launchers : Gated(m)' <=> Gated(m)
    BY <1>2 DEF Gated
  <2>3. ASSUME NEW m \in Launchers
        PROVE  /\ lock' = m => lock = m
               /\ lau[m].pc \in Holding /\ lock = m => lock' = m
               /\ Covered' /\ m \notin stray' /\ lau[m].child = "live" =>
                     (lock = m => lock' = m) /\ (owner = m => owner' = m)
    <3>1. m # None
      BY RuntimeConstants DEF Actors
    <3>2. lock' = m => lock = m
      BY <1>8, <3>1
    <3>3. ASSUME lau[m].pc \in Holding, lock = m  PROVE lock' = m
      BY <3>3, <3>1, <1>6, <1>8, <1>11 DEF Holding
    <3>4. ASSUME Covered', m \notin stray', lau[m].child = "live"
          PROVE  (lock = m => lock' = m) /\ (owner = m => owner' = m)
      BY <3>4, <3>1, <1>2, <1>7, <1>8, <1>11, <1>15
    <3> QED
      BY <3>2, <3>3, <3>4
  <2>4. ASSUME NEW b \in Actors, b # a
        PROVE  /\ rt'[b] = rt[b]
               /\ rt[b].pc = "rm_lock" => gen' = gen /\ owner' = owner /\ lock' = lock
    <3>1. CallInv(b)
      BY DEF RuntimeInv
    <3>2. rt[b].pc # "rm_lock"
      BY <3>1, <2>4, <1>10, RuntimeConstants DEF CallInv
    <3> QED
      BY <3>2, <2>4, <1>9
  <2> QED
    BY <2>1, <2>2, <2>3, <2>4, <1>2, <1>14, <1>15 DEF Frame
<1>17. CallInv(a)'
  <2>1. \A l : (Published(l)' <=> Published(l)) /\ (Alive(l)' <=> Alive(l))
    BY <1>2 DEF Published, Alive
  <2>2. CASE q.pc = "rm_lock"
    BY <2>2, <1>8, <1>9, FreshCall
  <2>3. CASE q.pc = "rm_owner"
    <3>1. r.pc = "rm_lock" /\ r.nonce = q.nonce /\ r.lck = q.lck /\ gen' = a /\ owner' = None
          /\ lock' \in {None, q.nonce}
      BY <2>3, <1>8
    <3>2. /\ r.lck # None => Published(r.lck)'
          /\ Published(r.nonce)' /\ r.nonce # None
      BY <3>1, <2>1, <1>1, <1>4, <1>5, RuntimeConstants DEF CallInv, Actors
    <3>3. ~Alive(r.nonce)' \/ (a = r.nonce /\ lau'[a].pc = "remove")
      BY <3>1, <2>1, <1>1, <1>2, <1>4, <1>5 DEF CallInv
    <3>4. /\ a \in Launchers => lau'[a].pc \in {"look", "reap", "remove"}
          /\ a \in Hubs => hub'[a].pc \in {"slot", "slotreap", "reap", "decide"}
      BY <2>3, <1>1, <1>2, <1>4 DEF CallInv
    <3>5. Covered' /\ r.nonce \notin stray' => lau'[r.nonce].child = "none"
      BY <3>1, <1>2, <1>7, <1>15
    <3>6. /\ (rt[a].lck # None => Published(rt[a].lck))'
          /\ (rt[a].nonce # None => Published(rt[a].nonce))'
      BY <3>2, <1>9 DEF Published
    <3>7. (~Alive(rt[a].nonce) \/ (a = rt[a].nonce /\ lau[a].pc = "remove"))'
      BY <3>3, <1>9 DEF Alive
    <3> QED
      BY <3>1, <3>2, <3>4, <3>5, <3>6, <3>7, <1>9 DEF CallInv, Removing
  <2> QED
    BY <2>2, <2>3, <1>5 DEF Removing
<1> QED
  BY <1>12, <1>13, <1>16, <1>17, LaunchersKept, CallsKept, HubsKept DEF RuntimeInv

-----------------------------------------------------------------------------
(* Steps that move one launcher *)

\* What a step of launcher l, or one that ends it, leaves alone.
LEMMA LauncherFrame ==
    ASSUME RuntimeInv, NEW l \in Launchers, NEW X,
           \A m \in Launchers : m # l => lau'[m] = lau[m],
           \A b \in Actors : b \notin X => rt'[b] = rt[b],
           l \in X \/ rt[l].pc = "idle",
           NoStop' => NoStop, UNCHANGED <<hub, effects>>, stray \subseteq stray',
           gate' = gate \/ (gate = l /\ gate' = None) \/ (gate = None /\ gate' = l),
           gen' = gen \/ (gen = l /\ gen' = None),
           lock' = lock \/ (lock = None /\ gen = None /\ lock' = l),
           owner' = owner \/ (lock = l /\ gen = None /\ owner' = l),
           Onward(l), lau'[l].by = lau[l].by,
           lau'[l].req = "sent" => \/ lau[l].req = "sent"
                                   \/ \A h \in Hubs : lau[l].by = h =>
                                         hub[h].kind # "once" \/ effects[h] # 1
    PROVE  Frame({l}, X, {})
<1>1. l \notin Hubs /\ l # None /\ None \notin Hubs /\ None \notin Launchers /\ None \notin Actors
  BY RuntimeConstants DEF Actors
<1>2. HubCrashed' <=> HubCrashed
  BY DEF HubCrashed
<1>3. Covered' => Covered
  BY <1>2 DEF Covered
<1>4. \A m \in Launchers : Onward(m)
  <2>1. ASSUME NEW m \in Launchers, m # l  PROVE Onward(m)
    BY <2>1 DEF Onward, Published
  <2> QED
    BY <2>1
<1>5. ASSUME NEW m \in Launchers, m # l, Gated(m)  PROVE Gated(m)'
  BY <1>1, <1>5 DEF Gated
<1>6. ASSUME NEW m \in Launchers, m # l
      PROVE  /\ lock' = m => lock = m
             /\ lau[m].pc \in Holding /\ lock = m => lock' = m
             /\ Covered' /\ m \notin stray' /\ lau[m].child = "live" =>
                   (lock = m => lock' = m) /\ (owner = m => owner' = m)
  <2>1. m # None /\ OwnerBacked
    BY <1>1 DEF RuntimeInv, RecordsInv
  <2> QED
    BY <2>1, <1>6 DEF OwnerBacked
<1>7. ASSUME NEW b \in Actors, b \notin X
      PROVE  /\ rt'[b] = rt[b]
             /\ rt[b].pc = "rm_lock" => gen' = gen /\ owner' = owner /\ lock' = lock
             /\ b \in Launchers /\ rt[b].pc # "idle" => lau'[b].pc = lau[b].pc
             /\ b \in Hubs /\ rt[b].pc # "idle" => hub'[b].pc = hub[b].pc
  <2>1. CallInv(b)
    BY DEF RuntimeInv
  <2>2. rt[b].pc # "idle" => b # l
    BY <1>7
  <2>3. rt[b].pc = "rm_lock" => gen = b /\ b # None /\ b # l
    BY <2>1, <2>2, <1>1 DEF CallInv
  <2> QED
    BY <2>2, <2>3, <1>7
<1>8. ASSUME NEW h \in Hubs
      PROVE  /\ gate = h => gate' = h
             /\ \A m \in Launchers :
                  /\ lau'[m].by = h <=> lau[m].by = h
                  /\ lau'[m].by = h /\ lau'[m].req = "sent" /\ hub[h].kind = "once" /\ effects[h] = 1
                        => lau[m].req = "sent"
  BY <1>1
<1> QED
  BY <1>2, <1>3, <1>4, <1>5, <1>6, <1>7, <1>8 DEF Frame

\* The types after a step that moves launcher l and calls.
LEMMA LauncherTypes ==
    ASSUME TypeOK, NEW l \in Launchers, NEW c \in LauncherType, lau' = [lau EXCEPT ![l] = c],
           rt' \in [Actors -> CallType], UNCHANGED <<hub, effects>>, stray' \subseteq stray \cup {l},
           gate' = gate \/ gate' = None \/ (l \in Consumers /\ gate' = l),
           gen' = gen \/ gen' = None, lock' \in {lock, l}, owner' \in {owner, l},
           status' \in StatusType, disturbed' \in 0..MaxDisturbances
    PROVE  TypeOK'
<1>1. lau' \in [Launchers -> LauncherType]
  BY DEF TypeOK, LauncherType
<1> QED
  BY <1>1 DEF TypeOK, LauncherType, StatusType

\* A step of launcher l, or one that ends it, that moves no other call.
LEMMA LauncherMoves ==
    ASSUME RuntimeInv, NEW l \in Launchers, NEW c \in LauncherType, lau' = [lau EXCEPT ![l] = c],
           \/ rt' = rt /\ rt[l].pc = "idle"
           \/ CallInv(l)' /\ \E r \in CallType : rt' = [rt EXCEPT ![l] = r],
           UNCHANGED <<hub, effects>>, stray' \in {stray, stray \cup {l}},
           gate' = gate \/ (gate = l /\ gate' = None) \/ (l \in Consumers /\ gate = None /\ gate' = l),
           gen' = gen \/ (gen = l /\ gen' = None), rt[l].pc # "rm_lock" \/ gen' # l,
           lock' = lock \/ (lock = None /\ gen = None /\ lock' = l),
           owner' = owner \/ (lock = l /\ gen = None /\ owner' = l /\ lock' = lock),
           status' \in StatusType, CircuitCounts', disturbed' \in 0..MaxDisturbances,
           Onward(l), c.by = lau[l].by,
           c.req = "sent" => \/ lau[l].req = "sent"
                             \/ \A h \in Hubs : lau[l].by = h =>
                                   hub[h].kind # "once" \/ effects[h] # 1,
           LauncherInv(l)'
    PROVE  RuntimeInv'
<1>1. TypeOK /\ RecordsInv /\ rt \in [Actors -> CallType] /\ lau \in [Launchers -> LauncherType]
      /\ l \in Actors /\ l \notin Stops /\ gen \in Actors \cup {None}
  BY RuntimeConstants DEF RuntimeInv, TypeOK, LauncherType, Actors
<1>2. lau'[l] = c /\ \A m \in Launchers : m # l => lau'[m] = lau[m]
  BY <1>1
<1>3. rt' \in [Actors -> CallType] /\ \A b \in Actors : b # l => rt'[b] = rt[b]
  BY <1>1
<1>4. NoStop' => NoStop
  BY <1>1, <1>3 DEF NoStop, Actors
<1>5. TypeOK'
  BY <1>1, <1>3, LauncherTypes
<1>6. RecordsInv'
  <2>1. OwnerBacked'
    BY <1>1, RuntimeConstants DEF RecordsInv, OwnerBacked, Actors
  <2>2. gen' # None => rt'[gen'].pc = "rm_lock"
    <3>1. gen' # l
      BY <1>1, RuntimeConstants DEF RecordsInv, Actors
    <3> QED
      BY <3>1, <1>1, <1>3 DEF RecordsInv
  <2> QED
    BY <2>1, <2>2 DEF RecordsInv
<1>7. CASE rt' = rt /\ rt[l].pc = "idle"
  <2>1. Frame({l}, {}, {})
    BY <1>2, <1>3, <1>4, <1>7, LauncherFrame
  <2> QED
    BY <2>1, <1>5, <1>6, LaunchersKept, CallsKept, HubsKept DEF RuntimeInv
<1>8. CASE CallInv(l)'
  <2>1. Frame({l}, {l}, {})
    BY <1>2, <1>3, <1>4, LauncherFrame
  <2> QED
    BY <2>1, <1>5, <1>6, <1>8, LaunchersKept, CallsKept, HubsKept DEF RuntimeInv
<1> QED
  BY <1>7, <1>8

\* What the invariant says of launcher l.
LEMMA LauncherFacts ==
    ASSUME RuntimeInv, NEW l \in Launchers
    PROVE  /\ LauncherInv(l) /\ CallInv(l) /\ lau[l] \in LauncherType /\ l \in Actors
           /\ lau \in [Launchers -> LauncherType] /\ rt \in [Actors -> CallType]
           /\ disturbed \in 0..MaxDisturbances /\ l # None /\ l \notin Stops /\ l \notin Hubs
           /\ lau[l].pc \notin {"look", "reap", "remove"} => rt[l].pc = "idle"
           /\ rt[l].pc = "rm_lock" => lau[l].pc \in {"look", "reap", "remove"}
           /\ gen = l => rt[l].pc = "rm_lock"
<1>1. /\ LauncherInv(l) /\ CallInv(l) /\ lau[l] \in LauncherType /\ l \in Actors
      /\ lau \in [Launchers -> LauncherType] /\ rt \in [Actors -> CallType]
      /\ disturbed \in 0..MaxDisturbances /\ RecordsInv
  BY DEF RuntimeInv, TypeOK, LauncherType, Actors
<1>2. l # None /\ l \notin Stops /\ l \notin Hubs
  BY RuntimeConstants DEF Actors
<1> QED
  BY <1>1, <1>2 DEF CallInv, RecordsInv

\* A launcher that stays alive and keeps the gate stays covered by it.
LEMMA StaysGated ==
    ASSUME RuntimeInv, NEW l \in Launchers, UNCHANGED hub,
           \A s \in Stops : rt'[s] = rt[s],
           \/ ~Alive(l)' \/ (Alive(l) /\ gate' = gate) \/ (l \in Consumers /\ gate' = l)
    PROVE  /\ ~HubCrashed' /\ Alive(l)' => Gated(l)'
           /\ Covered' => Covered
<1>1. HubCrashed' <=> HubCrashed
  BY DEF HubCrashed
<1>2. ~HubCrashed /\ Alive(l) => Gated(l)
  BY DEF RuntimeInv, LauncherInv
<1>3. gate' = gate /\ Gated(l) => Gated(l)'
  BY DEF Gated
<1>4. l \in Consumers /\ gate' = l => Gated(l)'
  BY DEF Gated
<1> QED
  BY <1>1, <1>2, <1>3, <1>4 DEF Covered, NoStop

Early == {"unborn", "circuit", "lock", "look", "reap"}

\* A step of a launcher that has not published anything.
LEMMA EarlyMoves ==
    ASSUME RuntimeInv, NEW l \in Launchers, lau[l].pc \in Early, NEW c \in LauncherType,
           lau' = [lau EXCEPT ![l] = c], c.pc \in {"circuit", "lock", "look", "reap", "exited"},
           c.child = lau[l].child, c.req = lau[l].req, c.by = lau[l].by,
           UNCHANGED <<lock, owner, gen, hub, effects, stray, disturbed>>,
           status' \in StatusType, CircuitCounts',
           \/ gate' = gate /\ lau[l].pc # "unborn"
           \/ c.pc = "exited" /\ gate = l /\ gate' = None
           \/ c.pc = "exited" /\ gate # l /\ gate' = gate
           \/ l \in Consumers /\ gate = None /\ gate' = l,
           rt[l].pc = "idle",
           \/ rt' = rt
           \/ \E r \in CallType :
                 /\ rt' = [rt EXCEPT ![l] = r] /\ r.lck = None /\ r.nonce = None
                 /\ r.pc \in {"idle", "inv_lock", "stop_lock"}
                 /\ r.pc # "idle" => c.pc \in {"look", "reap"}
    PROVE  RuntimeInv'
<1>1. /\ LauncherInv(l) /\ lau[l] \in LauncherType /\ lau \in [Launchers -> LauncherType]
      /\ rt \in [Actors -> CallType] /\ disturbed \in 0..MaxDisturbances
      /\ l \in Actors /\ l # None /\ l \notin Stops /\ l \notin Hubs
  BY LauncherFacts
<1>2. lau'[l] = c
  BY <1>1
<1>3. \A s \in Stops : rt'[s] = rt[s]
  BY <1>1 DEF Actors
<1>4. lock # l /\ lau[l].child = "none" /\ lau[l].req = "none"
  BY <1>1 DEF LauncherInv, Early, Published, Holding, Serving
<1>5. (Alive(l)' <=> c.pc # "exited") /\ (Alive(l) <=> lau[l].pc # "unborn")
  BY <1>2 DEF Alive, Early
<1>6. (~HubCrashed' /\ Alive(l)' => Gated(l)') /\ (Covered' => Covered)
  BY <1>3, <1>5, StaysGated
<1>7. LauncherInv(l)'
  BY <1>2, <1>4, <1>6 DEF LauncherInv, Holding, Serving
<1>8. Onward(l)
  BY <1>2 DEF Onward, Published, Holding, Serving, Early
<1>9. \/ rt' = rt /\ rt[l].pc = "idle"
      \/ CallInv(l)' /\ \E r \in CallType : rt' = [rt EXCEPT ![l] = r]
  <2>1. ASSUME NEW r \in CallType, rt' = [rt EXCEPT ![l] = r], r.lck = None, r.nonce = None,
               r.pc \in {"idle", "inv_lock", "stop_lock"},
               r.pc # "idle" => c.pc \in {"look", "reap"}
        PROVE  CallInv(l)'
    <3>1. rt'[l] = r
      BY <1>1, <2>1
    <3> QED
      BY <3>1, <2>1, <1>1, <1>2, FreshCall
  <2> QED
    BY <2>1
<1>10. c.req # "sent"
  BY <1>4
<1> QED
  BY <1>1, <1>7, <1>8, <1>9, <1>10, LauncherMoves

\* Leaving before anything was published.
LEMMA ExitFields ==
    ASSUME NEW l \in Launchers, lau \in [Launchers -> LauncherType], Exit(l)
    PROVE  \E c \in LauncherType :
             /\ lau' = [lau EXCEPT ![l] = c] /\ c.pc = "exited" /\ c.child = lau[l].child
             /\ c.req = lau[l].req /\ c.by = lau[l].by
             /\ (gate = l /\ gate' = None) \/ (gate # l /\ gate' = gate)
<1>1. PICK p \in LauncherType : p = lau[l]
  OBVIOUS
<1> DEFINE c == [p EXCEPT !.pc = "exited", !.polls = 0]
<1>2. c \in LauncherType /\ c.pc = "exited" /\ c.child = p.child /\ c.req = p.req /\ c.by = p.by
  <2>1. 0 \in 0..MaxPolls
    BY RuntimeConstants
  <2> QED
    BY <2>1 DEF LauncherType, LauncherPcs
<1>3. lau' = [lau EXCEPT ![l] = c]
  BY <1>1 DEF Exit
<1>4. (gate = l /\ gate' = None) \/ (gate # l /\ gate' = gate)
  BY DEF Exit, Released
<1> HIDE DEF c
<1> QED
  BY <1>1, <1>2, <1>3, <1>4

\* A launcher that only goes on.
LEMMA GotoFields ==
    ASSUME NEW l \in Launchers, lau \in [Launchers -> LauncherType], NEW pc \in LauncherPcs,
           LauGoto(l, pc)
    PROVE  \E c \in LauncherType :
             /\ lau' = [lau EXCEPT ![l] = c] /\ c.pc = pc /\ c.child = lau[l].child
             /\ c.req = lau[l].req /\ c.by = lau[l].by
<1>1. PICK p \in LauncherType : p = lau[l]
  OBVIOUS
<1> DEFINE c == [p EXCEPT !.pc = pc]
<1>2. c \in LauncherType /\ c.pc = pc /\ c.child = p.child /\ c.req = p.req /\ c.by = p.by
  BY DEF LauncherType
<1>3. lau' = [lau EXCEPT ![l] = c]
  BY <1>1 DEF LauGoto
<1> HIDE DEF c
<1> QED
  BY <1>1, <1>2, <1>3

\* The steps of a launcher up to the lock file.
LEMMA EarlyStepsKeep ==
    ASSUME RuntimeInv, NEW l \in Launchers,
           \/ LauncherGate(l) \/ LauncherCircuit(l) \/ LauncherSourceBad(l)
           \/ LauncherLockTaken(l) \/ LauncherLook(l) \/ LauncherReaped(l)
    PROVE  RuntimeInv'
<1>1. /\ lau \in [Launchers -> LauncherType] /\ rt \in [Actors -> CallType] /\ l \in Actors
      /\ lau[l].pc \notin {"look", "reap", "remove"} => rt[l].pc = "idle"
  BY LauncherFacts
<1>2. PersistStatus \/ RecordFailure \/ RecordSuccess \/ UNCHANGED status =>
         status' \in StatusType /\ CircuitCounts'
  BY StatusKept
<1>3. /\ NoCall \in CallType /\ NoCall.pc = "idle" /\ NoCall.lck = None /\ NoCall.nonce = None
      /\ \A goal \in {"look", "reap", "stop"} :
           /\ CallTo(goal, None) \in CallType
           /\ CallTo(goal, None).pc \in {"inv_lock", "stop_lock"}
           /\ CallTo(goal, None).lck = None /\ CallTo(goal, None).nonce = None
  BY CallFields
<1>4. CASE LauncherGate(l)
  <2>1. /\ LauGoto(l, "circuit") /\ lau[l].pc = "unborn" /\ gate = None /\ gate' = l /\ l \in Consumers
        /\ UNCHANGED <<lock, owner, gen, status, rt, hub, effects, stray, disturbed>>
    BY <1>4 DEF LauncherGate, GateFree, records
  <2>2. PICK c \in LauncherType :
          /\ lau' = [lau EXCEPT ![l] = c] /\ c.pc = "circuit" /\ c.child = lau[l].child
          /\ c.req = lau[l].req /\ c.by = lau[l].by
    BY <2>1, <1>1, GotoFields DEF LauncherPcs
  <2> QED
    BY <2>1, <2>2, <1>1, <1>2, EarlyMoves DEF Early
<1>5. CASE LauncherCircuit(l)
  <2>1. /\ lau[l].pc = "circuit" /\ PersistStatus
        /\ UNCHANGED <<lock, owner, gen, rt, hub, effects, stray, disturbed>>
        /\ Exit(l) \/ (LauGoto(l, "lock") /\ gate' = gate)
    BY <1>5 DEF LauncherCircuit, records
  <2>2. CASE Exit(l)
    <3>1. PICK c \in LauncherType :
            /\ lau' = [lau EXCEPT ![l] = c] /\ c.pc = "exited" /\ c.child = lau[l].child
            /\ c.req = lau[l].req /\ c.by = lau[l].by
            /\ (gate = l /\ gate' = None) \/ (gate # l /\ gate' = gate)
      BY <2>2, <1>1, ExitFields
    <3> QED
      BY <2>1, <3>1, <1>1, <1>2, EarlyMoves DEF Early
  <2>3. CASE LauGoto(l, "lock") /\ gate' = gate
    <3>1. PICK c \in LauncherType :
            /\ lau' = [lau EXCEPT ![l] = c] /\ c.pc = "lock" /\ c.child = lau[l].child
            /\ c.req = lau[l].req /\ c.by = lau[l].by
      BY <2>3, <1>1, GotoFields DEF LauncherPcs
    <3> QED
      BY <2>1, <2>3, <3>1, <1>1, <1>2, EarlyMoves DEF Early
  <2> QED
    BY <2>1, <2>2, <2>3
<1>6. CASE LauncherSourceBad(l)
  <2>1. /\ lau[l].pc = "circuit" /\ Exit(l) /\ (RecordFailure \/ PersistStatus)
        /\ UNCHANGED <<lock, owner, gen, rt, hub, effects, stray, disturbed>>
    BY <1>6 DEF LauncherSourceBad, records
  <2>2. PICK c \in LauncherType :
          /\ lau' = [lau EXCEPT ![l] = c] /\ c.pc = "exited" /\ c.child = lau[l].child
          /\ c.req = lau[l].req /\ c.by = lau[l].by
          /\ (gate = l /\ gate' = None) \/ (gate # l /\ gate' = gate)
    BY <2>1, <1>1, ExitFields
  <2> QED
    BY <2>1, <2>2, <1>1, <1>2, EarlyMoves DEF Early
<1>7. CASE LauncherLockTaken(l)
  <2>1. /\ lau[l].pc = "lock" /\ rt[l].pc = "idle" /\ LauGoto(l, "look")
        /\ rt' = [rt EXCEPT ![l] = CallTo("look", None)]
        /\ UNCHANGED <<lock, owner, gen, gate, status, hub, effects, stray, disturbed>>
    BY <1>7 DEF LauncherLockTaken, Quiet, records
  <2>2. PICK c \in LauncherType :
          /\ lau' = [lau EXCEPT ![l] = c] /\ c.pc = "look" /\ c.child = lau[l].child
          /\ c.req = lau[l].req /\ c.by = lau[l].by
    BY <2>1, <1>1, GotoFields DEF LauncherPcs
  <2> QED
    BY <2>1, <2>2, <1>1, <1>2, <1>3, EarlyMoves DEF Early
<1>8. CASE LauncherLook(l)
  <2>1. /\ lau[l].pc = "look" /\ rt[l].pc = "idle"
        /\ UNCHANGED <<lock, owner, gen, status, hub, effects, stray, disturbed>>
        /\ \/ LauGoto(l, "reap") /\ gate' = gate /\ rt' = [rt EXCEPT ![l] = CallTo("reap", None)]
           \/ /\ rt' = [rt EXCEPT ![l] = NoCall] /\ lau[l].polls < MaxPolls /\ gate' = gate
              /\ lau' = [lau EXCEPT ![l].pc = "lock", ![l].polls = @ + 1]
           \/ rt' = [rt EXCEPT ![l] = NoCall] /\ Exit(l)
    BY <1>8 DEF LauncherLook, Quiet, records
  <2>2. CASE LauGoto(l, "reap") /\ gate' = gate /\ rt' = [rt EXCEPT ![l] = CallTo("reap", None)]
    <3>1. PICK c \in LauncherType :
            /\ lau' = [lau EXCEPT ![l] = c] /\ c.pc = "reap" /\ c.child = lau[l].child
            /\ c.req = lau[l].req /\ c.by = lau[l].by
      BY <2>2, <1>1, GotoFields DEF LauncherPcs
    <3> QED
      BY <2>1, <2>2, <3>1, <1>1, <1>2, <1>3, EarlyMoves DEF Early
  <2>3. CASE /\ rt' = [rt EXCEPT ![l] = NoCall] /\ lau[l].polls < MaxPolls /\ gate' = gate
             /\ lau' = [lau EXCEPT ![l].pc = "lock", ![l].polls = @ + 1]
    <3>1. PICK p \in LauncherType : p = lau[l]
      BY <1>1
    <3> DEFINE c == [p EXCEPT !.pc = "lock", !.polls = p.polls + 1]
    <3>2. p.polls \in 0..MaxPolls /\ p.polls < MaxPolls
      BY <3>1, <2>3 DEF LauncherType
    <3>3. p.polls + 1 \in 0..MaxPolls
      BY <3>2, RuntimeConstants
    <3>4. /\ c \in LauncherType /\ c.pc = "lock" /\ c.child = p.child /\ c.req = p.req /\ c.by = p.by
          /\ lau' = [lau EXCEPT ![l] = c]
      BY <3>1, <3>3, <2>3 DEF LauncherType, LauncherPcs
    <3> HIDE DEF c
    <3>5. c.child = lau[l].child /\ c.req = lau[l].req /\ c.by = lau[l].by
      BY <3>1, <3>4
    <3>6. rt' = [rt EXCEPT ![l] = NoCall] /\ gate' = gate
      BY <2>3
    <3>7. /\ lau[l].pc = "look" /\ rt[l].pc = "idle"
          /\ UNCHANGED <<lock, owner, gen, status, hub, effects, stray, disturbed>>
      BY <2>1
    <3> QED
      BY <3>4, <3>5, <3>6, <3>7, <1>1, <1>2, <1>3, EarlyMoves DEF Early
  <2>4. CASE rt' = [rt EXCEPT ![l] = NoCall] /\ Exit(l)
    <3>1. PICK c \in LauncherType :
            /\ lau' = [lau EXCEPT ![l] = c] /\ c.pc = "exited" /\ c.child = lau[l].child
            /\ c.req = lau[l].req /\ c.by = lau[l].by
            /\ (gate = l /\ gate' = None) \/ (gate # l /\ gate' = gate)
      BY <2>4, <1>1, ExitFields
    <3> QED
      BY <2>1, <2>4, <3>1, <1>1, <1>2, <1>3, EarlyMoves DEF Early
  <2> QED
    BY <2>1, <2>2, <2>3, <2>4
<1>9. CASE LauncherReaped(l)
  <2>1. /\ lau[l].pc = "reap" /\ rt[l].pc = "idle" /\ rt' = [rt EXCEPT ![l] = NoCall]
        /\ UNCHANGED <<lock, owner, gen, status, hub, effects, stray, disturbed>>
        /\ Exit(l) \/ (LauGoto(l, "lock") /\ gate' = gate)
    BY <1>9 DEF LauncherReaped, Quiet, records
  <2>2. CASE Exit(l)
    <3>1. PICK c \in LauncherType :
            /\ lau' = [lau EXCEPT ![l] = c] /\ c.pc = "exited" /\ c.child = lau[l].child
            /\ c.req = lau[l].req /\ c.by = lau[l].by
            /\ (gate = l /\ gate' = None) \/ (gate # l /\ gate' = gate)
      BY <2>2, <1>1, ExitFields
    <3> QED
      BY <2>1, <3>1, <1>1, <1>2, <1>3, EarlyMoves DEF Early
  <2>3. CASE LauGoto(l, "lock") /\ gate' = gate
    <3>1. PICK c \in LauncherType :
            /\ lau' = [lau EXCEPT ![l] = c] /\ c.pc = "lock" /\ c.child = lau[l].child
            /\ c.req = lau[l].req /\ c.by = lau[l].by
      BY <2>3, <1>1, GotoFields DEF LauncherPcs
    <3> QED
      BY <2>1, <2>3, <3>1, <1>1, <1>2, <1>3, EarlyMoves DEF Early
  <2> QED
    BY <2>1, <2>2, <2>3
<1> QED
  BY <1>4, <1>5, <1>6, <1>7, <1>8, <1>9

\* A launcher that removes its own generation.
LEMMA OwnRemoval ==
    ASSUME NEW l \in Launchers, rt'[l] = CallTo("remove", l), lau'[l].pc = "remove",
           lau'[l].child = "none"
    PROVE  CallInv(l)'
<1>1. /\ rt'[l].pc = "rm_owner" /\ rt'[l].nonce = l /\ rt'[l].lck = None
      /\ l \notin Hubs /\ l # None
  BY CallFields, RuntimeConstants DEF Actors
<1>2. (rt[l].lck # None => Published(rt[l].lck))' /\ (rt[l].nonce # None => Published(rt[l].nonce))'
  BY <1>1 DEF Published
<1> QED
  BY <1>1, <1>2 DEF CallInv, Removing

\* A step of a launcher that has published, or publishes, its lock file.
LEMMA LateMoves ==
    ASSUME RuntimeInv, NEW l \in Launchers, NEW c \in LauncherType, lau' = [lau EXCEPT ![l] = c],
           c.by = lau[l].by, Onward(l), c.req \in {lau[l].req, "none"},
           UNCHANGED <<gen, hub, effects, disturbed>>,
           lau[l].pc \notin {"unborn", "exited"}, rt[l].pc = "idle",
           status' \in StatusType, CircuitCounts', stray' \in {stray, stray \cup {l}},
           \/ gate' = gate /\ c.pc # "unborn"
           \/ c.pc = "exited" /\ gate = l /\ gate' = None,
           lock' = lock \/ (lock = None /\ gen = None /\ lock' = l),
           owner' = owner \/ (lock = l /\ gen = None /\ owner' = l /\ lock' = lock),
           rt' = rt \/ (rt' = [rt EXCEPT ![l] = NoCall])
                    \/ (rt' = [rt EXCEPT ![l] = CallTo("remove", l)] /\ c.pc = "remove" /\ c.child = "none"),
           c.pc \in Holding => lock' = l, lock' = l => c.pc \in Holding \cup {"remove", "exited"},
           c.pc \notin {"promote"} \cup Serving => c.child = "none",
           c.pc \notin Serving => c.req = "none",
           Covered /\ l \notin stray' /\ c.child = "live" =>
               lock' = l /\ c.pc # "remove" /\ (c.pc # "promote" => owner' = l)
    PROVE  RuntimeInv'
<1>1. /\ LauncherInv(l) /\ lau \in [Launchers -> LauncherType] /\ rt \in [Actors -> CallType]
      /\ disturbed \in 0..MaxDisturbances
      /\ l \in Actors /\ l # None /\ l \notin Stops /\ l \notin Hubs
  BY LauncherFacts
<1>2. lau'[l] = c /\ c.pc # "unborn"
  BY <1>1
<1>3. \A s \in Stops : rt'[s] = rt[s]
  BY <1>1 DEF Actors
<1>4. (~HubCrashed' /\ Alive(l)' => Gated(l)') /\ (Covered' => Covered)
  BY <1>2, <1>3, StaysGated DEF Alive
<1>5. LauncherInv(l)'
  BY <1>2, <1>4 DEF LauncherInv, Published
<1>6. \/ rt' = rt /\ rt[l].pc = "idle"
      \/ CallInv(l)' /\ \E r \in CallType : rt' = [rt EXCEPT ![l] = r]
  <2>1. ASSUME rt' = [rt EXCEPT ![l] = NoCall]
        PROVE  CallInv(l)' /\ \E r \in CallType : rt' = [rt EXCEPT ![l] = r]
    <3>1. rt'[l] = NoCall
      BY <2>1, <1>1
    <3> QED
      BY <3>1, <2>1, CallFields, FreshCall
  <2>2. ASSUME rt' = [rt EXCEPT ![l] = CallTo("remove", l)], c.pc = "remove", c.child = "none"
        PROVE  CallInv(l)' /\ \E r \in CallType : rt' = [rt EXCEPT ![l] = r]
    <3>1. rt'[l] = CallTo("remove", l)
      BY <2>2, <1>1
    <3>2. CallTo("remove", l) \in CallType
      BY CallFields
    <3>3. CallInv(l)'
      BY <3>1, <2>2, <1>2, OwnRemoval
    <3> QED
      BY <3>2, <3>3, <2>2
  <2> QED
    BY <2>1, <2>2
<1>7. c.req = "sent" => lau[l].req = "sent"
  OBVIOUS
<1> QED
  BY <1>1, <1>5, <1>6, <1>7, LauncherMoves

\* What becomes of the record of a process whose child is gone.
LEMMA ChildGoneFields ==
    ASSUME NEW p \in LauncherType
    PROVE  /\ ChildGone(p) \in LauncherType /\ ChildGone(p).pc = p.pc /\ ChildGone(p).by = p.by
           /\ ChildGone(p).child = "none" /\ ChildGone(p).req = "none" /\ ChildGone(p).polls = p.polls
BY DEF ChildGone, LauncherType

\* The lock file is published, and the circuit looked at once more.
LEMMA PublishKeeps ==
    ASSUME RuntimeInv, NEW l \in Launchers, LauncherLock(l) \/ LauncherRecheck(l)
    PROVE  RuntimeInv'
<1>1. /\ LauncherInv(l) /\ lau \in [Launchers -> LauncherType] /\ rt \in [Actors -> CallType]
      /\ lau[l].pc \notin {"look", "reap", "remove"} => rt[l].pc = "idle"
  BY LauncherFacts
<1>2. PersistStatus \/ UNCHANGED status => status' \in StatusType /\ CircuitCounts'
  BY StatusKept
<1>3. CASE LauncherLock(l)
  <2>1. /\ lau[l].pc = "lock" /\ rt[l].pc = "idle" /\ gen = None /\ lock = None /\ lock' = l
        /\ LauGoto(l, "recheck")
        /\ UNCHANGED <<owner, gen, gate, status, rt, hub, effects, stray, disturbed>>
    BY <1>3 DEF LauncherLock, Quiet, GuardFree
  <2>2. PICK c \in LauncherType :
          /\ lau' = [lau EXCEPT ![l] = c] /\ c.pc = "recheck" /\ c.child = lau[l].child
          /\ c.req = lau[l].req /\ c.by = lau[l].by
    BY <2>1, <1>1, GotoFields DEF LauncherPcs
  <2>3. lau[l].child = "none" /\ lau[l].req = "none"
    BY <2>1, <1>1 DEF LauncherInv, Serving
  <2>4. lau'[l] = c
    BY <2>2, <1>1
  <2>5. Onward(l)
    BY <2>1, <2>2, <2>4 DEF Onward, Published, Holding, Serving
  <2> QED
    BY <2>1, <2>2, <2>3, <2>5, <1>1, <1>2, LateMoves DEF Holding
<1>4. CASE LauncherRecheck(l)
  <2>1. /\ lau[l].pc = "recheck" /\ PersistStatus /\ rt[l].pc = "idle"
        /\ UNCHANGED <<lock, owner, gen, gate, hub, effects, stray, disturbed>>
        /\ \/ LauGoto(l, "remove") /\ rt' = [rt EXCEPT ![l] = CallTo("remove", l)]
           \/ LauGoto(l, "spawn") /\ rt' = rt
    BY <1>1, <1>4 DEF LauncherRecheck, records
  <2>2. PICK c \in LauncherType :
          /\ lau' = [lau EXCEPT ![l] = c] /\ c.child = lau[l].child
          /\ c.req = lau[l].req /\ c.by = lau[l].by
          /\ \/ c.pc = "remove" /\ rt' = [rt EXCEPT ![l] = CallTo("remove", l)]
             \/ c.pc = "spawn" /\ rt' = rt
    <3>1. CASE LauGoto(l, "remove") /\ rt' = [rt EXCEPT ![l] = CallTo("remove", l)]
      <4>1. "remove" \in LauncherPcs
        BY DEF LauncherPcs
      <4> QED
        BY <3>1, <4>1, <1>1, GotoFields
    <3>2. CASE LauGoto(l, "spawn") /\ rt' = rt
      <4>1. "spawn" \in LauncherPcs
        BY DEF LauncherPcs
      <4> QED
        BY <3>2, <4>1, <1>1, GotoFields
    <3> QED
      BY <2>1, <3>1, <3>2
  <2>3. lau[l].child = "none" /\ lau[l].req = "none" /\ lock = l
    BY <2>1, <1>1 DEF LauncherInv, Serving, Holding
  <2>4. lau'[l] = c
    BY <2>2, <1>1
  <2>5. Onward(l)
    BY <2>1, <2>2, <2>4 DEF Onward, Published, Holding, Serving
  <2> QED
    BY <2>1, <2>2, <2>3, <2>5, <1>1, <1>2, LateMoves DEF Holding
<1> QED
  BY <1>3, <1>4

\* The child is started, or not.
LEMMA SpawnKeeps ==
    ASSUME RuntimeInv, NEW l \in Launchers, LauncherSpawn(l) \/ LauncherSpawnFails(l)
    PROVE  RuntimeInv'
<1>1. /\ LauncherInv(l) /\ lau \in [Launchers -> LauncherType] /\ rt \in [Actors -> CallType]
      /\ lau[l].pc \notin {"look", "reap", "remove"} => rt[l].pc = "idle"
  BY LauncherFacts
<1>2. status' = status => status' \in StatusType /\ CircuitCounts'
  BY StatusKept
<1>3. /\ lau[l].pc = "spawn" /\ rt[l].pc = "idle"
      /\ UNCHANGED <<lock, owner, gen, gate, status, rt, hub, effects, stray, disturbed>>
  BY <1>1 DEF LauncherSpawn, LauncherSpawnFails, records
<1>4. PICK p \in LauncherType : p = lau[l]
  BY <1>1
<1>5. PICK c \in LauncherType :
        /\ lau' = [lau EXCEPT ![l] = c] /\ c.req = p.req /\ c.by = p.by
        /\ (c.pc = "promote" /\ c.child = "live") \/ (c.pc = "final" /\ c.child = p.child)
  <2>1. CASE LauncherSpawn(l)
    <3> DEFINE c == [p EXCEPT !.pc = "promote", !.child = "live"]
    <3>1. /\ c \in LauncherType /\ c.pc = "promote" /\ c.child = "live" /\ c.req = p.req /\ c.by = p.by
          /\ lau' = [lau EXCEPT ![l] = c]
      BY <2>1, <1>1, <1>4 DEF LauncherSpawn, LauncherType, LauncherPcs
    <3> HIDE DEF c
    <3> QED
      BY <3>1
  <2>2. CASE LauncherSpawnFails(l)
    <3>1. LauGoto(l, "final") /\ "final" \in LauncherPcs
      BY <2>2 DEF LauncherSpawnFails, LauncherPcs
    <3> QED
      BY <3>1, <1>1, <1>4, GotoFields
  <2> QED
    BY <2>1, <2>2
<1>6. p.child = "none" /\ p.req = "none" /\ lock = l
  BY <1>1, <1>3, <1>4 DEF LauncherInv, Serving, Holding
<1>7. lau'[l] = c /\ c.by = lau[l].by
  BY <1>1, <1>4, <1>5
<1>8. Onward(l)
  BY <1>3, <1>5, <1>7 DEF Onward, Published, Holding, Serving
<1> QED
  BY <1>1, <1>2, <1>3, <1>4, <1>5, <1>6, <1>7, <1>8, LateMoves DEF Holding, Serving

\* The owner record names the child: behind the gate nothing can be in the way.
LEMMA PromoteKeeps ==
    ASSUME RuntimeInv, NEW l \in Launchers, LauncherPromote(l)
    PROVE  RuntimeInv'
<1>1. /\ LauncherInv(l) /\ lau \in [Launchers -> LauncherType] /\ rt \in [Actors -> CallType]
      /\ lau[l].pc \notin {"look", "reap", "remove"} => rt[l].pc = "idle"
  BY LauncherFacts
<1>2. status' = status => status' \in StatusType /\ CircuitCounts'
  BY StatusKept
<1>3. /\ lau[l].pc = "promote" /\ rt[l].pc = "idle"
      /\ UNCHANGED <<lock, gen, gate, status, rt, hub, effects, stray, disturbed>>
      /\ \/ gen = None /\ lock = l /\ owner' = l /\ LauGoto(l, "serving")
         \/ ~(gen = None /\ lock = l) /\ owner' = owner /\ LauGoto(l, "final")
  BY <1>1 DEF LauncherPromote, GuardFree
<1>4. PICK c \in LauncherType :
        /\ lau' = [lau EXCEPT ![l] = c] /\ c.child = lau[l].child
        /\ c.req = lau[l].req /\ c.by = lau[l].by
        /\ \/ c.pc = "serving" /\ gen = None /\ lock = l /\ owner' = l
           \/ c.pc = "final" /\ ~(gen = None /\ lock = l) /\ owner' = owner
  <2>1. CASE gen = None /\ lock = l /\ owner' = l /\ LauGoto(l, "serving")
    <3>1. "serving" \in LauncherPcs
      BY DEF LauncherPcs
    <3> QED
      BY <2>1, <3>1, <1>1, GotoFields
  <2>2. CASE ~(gen = None /\ lock = l) /\ owner' = owner /\ LauGoto(l, "final")
    <3>1. "final" \in LauncherPcs
      BY DEF LauncherPcs
    <3> QED
      BY <2>2, <3>1, <1>1, GotoFields
  <2> QED
    BY <1>3, <2>1, <2>2
<1>5. lau[l].req = "none" /\ lock = l
  BY <1>1, <1>3 DEF LauncherInv, Serving, Holding
<1>6. Covered => gen = None
  <2> SUFFICES ASSUME Covered, gen # None PROVE FALSE
    OBVIOUS
  <2>1. gen \in Actors /\ rt[gen].pc = "rm_lock"
    BY DEF RuntimeInv, TypeOK, RecordsInv
  <2>2. gen \in Launchers \cup Hubs
    BY <2>1 DEF Covered, NoStop, NoCall, Actors
  <2>3. Alive(l) /\ ~HubCrashed
    BY <1>3 DEF Alive, Covered
  <2>4. l = gen
    BY <2>1, <2>2, <2>3, GateExcludes
  <2> QED
    BY <2>1, <2>4, <1>3
<1>7. lau'[l] = c
  BY <1>1, <1>4
<1>8. Onward(l)
  BY <1>3, <1>4, <1>5, <1>7 DEF Onward, Published, Holding, Serving
<1> QED
  BY <1>1, <1>2, <1>3, <1>4, <1>5, <1>6, <1>8, LateMoves DEF Holding, Serving

\* The child exits; the launcher ends what is left of the tree, removes its
\* generation or leaves it, and exits.
LEMMA EndKeeps ==
    ASSUME RuntimeInv, NEW l \in Launchers, NEW ok \in BOOLEAN,
           LauncherServed(l, ok) \/ LauncherFinal(l) \/ LauncherRemoved(l)
    PROVE  RuntimeInv'
<1>1. /\ LauncherInv(l) /\ lau \in [Launchers -> LauncherType] /\ rt \in [Actors -> CallType]
      /\ lau[l].pc \notin {"look", "reap", "remove"} => rt[l].pc = "idle"
  BY LauncherFacts
<1>2. PersistStatus \/ RecordFailure \/ RecordSuccess \/ UNCHANGED status =>
         status' \in StatusType /\ CircuitCounts'
  BY StatusKept
<1>3. PICK p \in LauncherType : p = lau[l]
  BY <1>1
<1>4. PICK g : g = ChildGone(p)
  OBVIOUS
<1>5. /\ g \in LauncherType /\ g.pc = p.pc /\ g.by = p.by /\ g.child = "none" /\ g.req = "none"
  BY <1>4, ChildGoneFields
<1>6. CASE LauncherServed(l, ok)
  <2>1. /\ p.pc = "serving" /\ rt[l].pc = "idle"
        /\ RecordFailure \/ RecordSuccess \/ UNCHANGED status
        /\ UNCHANGED <<lock, owner, gen, gate, rt, hub, effects, stray, disturbed>>
    BY <1>1, <1>3, <1>6 DEF LauncherServed, records
  <2>2. PICK left \in BOOLEAN :
          lau' = [lau EXCEPT ![l] = [IF left THEN lau[l] ELSE ChildGone(lau[l]) EXCEPT !.pc = "final"]]
    BY <1>6 DEF LauncherServed
  <2>3. PICK q \in LauncherType : q = (IF left THEN p ELSE g)
    BY <1>5
  <2> DEFINE c == [q EXCEPT !.pc = "final"]
  <2>4. /\ c \in LauncherType /\ c.pc = "final" /\ c.child = q.child /\ c.req = q.req /\ c.by = q.by
    BY DEF LauncherType, LauncherPcs
  <2>5. lau' = [lau EXCEPT ![l] = c]
    BY <2>2, <2>3, <1>3, <1>4
  <2> HIDE DEF c
  <2>6. c.by = p.by /\ c.req \in {p.req, "none"} /\ (c.child = "live" => p.child = "live")
    BY <2>3, <2>4, <1>5
  <2>7. lau'[l] = c
    BY <2>5, <1>1
  <2>8. lock = l /\ (Covered /\ l \notin stray /\ p.child = "live" => owner = l)
    BY <2>1, <1>1, <1>3 DEF LauncherInv, Holding
  <2>9. Onward(l)
    BY <2>1, <2>4, <2>7, <1>3 DEF Onward, Published, Holding, Serving
  <2> QED
    BY <2>1, <2>4, <2>5, <2>6, <2>8, <2>9, <1>1, <1>2, <1>3, LateMoves DEF Holding, Serving
<1>7. CASE LauncherFinal(l)
  <2>1. /\ p.pc = "final" /\ rt[l].pc = "idle"
        /\ UNCHANGED <<lock, owner, gen, status, hub, effects, disturbed>>
        /\ \/ /\ lau' = [lau EXCEPT ![l] = [ChildGone(lau[l]) EXCEPT !.pc = "remove"]]
              /\ rt' = [rt EXCEPT ![l] = CallTo("remove", l)] /\ UNCHANGED <<gate, stray>>
           \/ /\ p.child = "live" /\ Exit(l) /\ rt' = rt
              /\ stray' = IF owner = l THEN stray ELSE stray \cup {l}
    BY <1>1, <1>3, <1>7 DEF LauncherFinal, records
  <2>2. lock = l
    BY <2>1, <1>1, <1>3 DEF LauncherInv, Holding
  <2>3. CASE /\ lau' = [lau EXCEPT ![l] = [ChildGone(lau[l]) EXCEPT !.pc = "remove"]]
             /\ rt' = [rt EXCEPT ![l] = CallTo("remove", l)] /\ UNCHANGED <<gate, stray>>
    <3> DEFINE c == [g EXCEPT !.pc = "remove"]
    <3>1. /\ c \in LauncherType /\ c.pc = "remove" /\ c.child = "none" /\ c.req = "none" /\ c.by = p.by
      BY <1>5 DEF LauncherType, LauncherPcs
    <3>2. lau' = [lau EXCEPT ![l] = c]
      BY <2>3, <1>3, <1>4
    <3> HIDE DEF c
    <3>3. lau'[l] = c /\ c.by = lau[l].by /\ UNCHANGED <<gate, stray>>
          /\ rt' = [rt EXCEPT ![l] = CallTo("remove", l)]
      BY <3>1, <3>2, <2>3, <1>1, <1>3
    <3>4. Onward(l)
      BY <3>1, <3>3, <2>1, <1>3 DEF Onward, Published, Holding, Serving
    <3>5. /\ lau[l].pc = "final" /\ rt[l].pc = "idle"
          /\ UNCHANGED <<lock, owner, gen, status, hub, effects, disturbed>>
      BY <2>1, <1>3
    <3> QED
      BY <3>1, <3>2, <3>3, <3>4, <3>5, <1>1, <1>2, LateMoves DEF Holding, Serving
  <2>4. CASE /\ p.child = "live" /\ Exit(l) /\ rt' = rt
             /\ stray' = IF owner = l THEN stray ELSE stray \cup {l}
    <3>1. PICK c \in LauncherType :
            /\ lau' = [lau EXCEPT ![l] = c] /\ c.pc = "exited" /\ c.child = lau[l].child
            /\ c.req = lau[l].req /\ c.by = lau[l].by
            /\ (gate = l /\ gate' = None) \/ (gate # l /\ gate' = gate)
      BY <2>4, <1>1, ExitFields
    <3>2. lau'[l] = c
      BY <3>1, <1>1
    <3>3. Onward(l)
      BY <3>1, <3>2, <2>1, <1>3 DEF Onward, Published, Holding, Serving
    <3>4. /\ stray' \in {stray, stray \cup {l}} /\ (l \notin stray' => owner = l) /\ rt' = rt
      BY <2>4
    <3>5. /\ lau[l].pc = "final" /\ rt[l].pc = "idle"
          /\ UNCHANGED <<lock, owner, gen, status, hub, effects, disturbed>>
      BY <2>1, <1>3
    <3> QED
      BY <3>1, <3>3, <3>4, <3>5, <2>2, <1>1, <1>2, LateMoves DEF Holding, Serving
  <2> QED
    BY <2>1, <2>3, <2>4
<1>8. CASE LauncherRemoved(l)
  <2>1. /\ lau[l].pc = "remove" /\ rt[l].pc = "idle" /\ Exit(l) /\ rt' = [rt EXCEPT ![l] = NoCall]
        /\ UNCHANGED <<lock, owner, gen, status, hub, effects, stray, disturbed>>
    BY <1>8 DEF LauncherRemoved, Quiet, records
  <2>2. PICK c \in LauncherType :
          /\ lau' = [lau EXCEPT ![l] = c] /\ c.pc = "exited" /\ c.child = lau[l].child
          /\ c.req = lau[l].req /\ c.by = lau[l].by
          /\ (gate = l /\ gate' = None) \/ (gate # l /\ gate' = gate)
    BY <2>1, <1>1, ExitFields
  <2>3. lau'[l] = c
    BY <2>2, <1>1
  <2>4. Onward(l)
    BY <2>1, <2>2, <2>3 DEF Onward, Published, Holding, Serving
  <2>5. ~(Covered /\ l \notin stray /\ lau[l].child = "live")
    BY <2>1, <1>1 DEF LauncherInv
  <2> QED
    BY <2>1, <2>2, <2>4, <2>5, <1>1, <1>2, LateMoves DEF Holding, Serving
<1> QED
  BY <1>6, <1>7, <1>8

\* The end of a launcher: it becomes a dead one, and its child a stray one when
\* it lives on and no record names it.
LEMMA DiesFields ==
    ASSUME RuntimeInv, NEW l \in Launchers, Alive(l), NEW childToo \in BOOLEAN, Dies(l, childToo)
    PROVE  \E c \in LauncherType :
             /\ lau' = [lau EXCEPT ![l] = c] /\ c.pc = "exited" /\ c.by = lau[l].by
             /\ c.req \in {lau[l].req, "none"}
             /\ c.child = IF childToo THEN "none" ELSE lau[l].child
             /\ (gen = l /\ gen' = None) \/ (gen # l /\ gen' = gen)
             /\ stray' \in {stray, stray \cup {l}}
             /\ c.child = "live" /\ l \notin stray' => owner = l
<1>1. lau \in [Launchers -> LauncherType]
  BY LauncherFacts
<1>2. PICK p \in LauncherType : p = lau[l]
  BY <1>1
<1>3. PICK g : g = ChildGone(p)
  OBVIOUS
<1>4. /\ g \in LauncherType /\ g.pc = p.pc /\ g.by = p.by /\ g.child = "none" /\ g.req = "none"
  BY <1>3, ChildGoneFields
<1>5. PICK q \in LauncherType : q = (IF childToo THEN g ELSE p)
  BY <1>4
<1> DEFINE c == [q EXCEPT !.pc = "exited", !.polls = 0]
<1>6. c \in LauncherType /\ c.pc = "exited" /\ c.child = q.child /\ c.req = q.req /\ c.by = q.by
  <2>1. 0 \in 0..MaxPolls
    BY RuntimeConstants
  <2> QED
    BY <2>1 DEF LauncherType, LauncherPcs
<1>7. lau' = [lau EXCEPT ![l] = c]
  BY <1>2, <1>3, <1>5 DEF Dies, Gone
<1> HIDE DEF c
<1>8. /\ c.by = p.by /\ c.req \in {p.req, "none"}
      /\ c.child = IF childToo THEN "none" ELSE p.child
  BY <1>4, <1>5, <1>6
<1>9. /\ (gen = l /\ gen' = None) \/ (gen # l /\ gen' = gen)
      /\ stray' = IF p.child = "live" /\ ~childToo /\ owner # l THEN stray \cup {l} ELSE stray
  BY <1>2 DEF Dies
<1> QED
  BY <1>2, <1>6, <1>7, <1>8, <1>9

\* The part of the invariant about a launcher that was ended.
LEMMA DeadLauncher ==
    ASSUME RuntimeInv, NEW l \in Launchers, Alive(l), NEW c \in LauncherType,
           lau' = [lau EXCEPT ![l] = c], c.pc = "exited", c.by = lau[l].by,
           c.req \in {lau[l].req, "none"}, c.child \in {"none", lau[l].child},
           UNCHANGED <<lock, owner>>, stray \subseteq stray', Covered' => Covered,
           c.child = "live" /\ l \notin stray' => owner = l
    PROVE  LauncherInv(l)' /\ Onward(l) /\ lau'[l] = c
<1>1. LauncherInv(l) /\ lau \in [Launchers -> LauncherType] /\ l # None
  BY LauncherFacts
<1>2. lau'[l] = c /\ ~Alive(l)' /\ Published(l)'
  BY <1>1 DEF Alive, Published
<1>3. OwnerBacked
  BY DEF RuntimeInv, RecordsInv
<1>4. LauncherInv(l)'
  BY <1>1, <1>2, <1>3 DEF LauncherInv, Holding, Serving, OwnerBacked
<1>5. Onward(l)
  BY <1>2 DEF Onward, Serving, Alive
<1> QED
  BY <1>2, <1>4, <1>5

\* A launcher is killed.
LEMMA LauncherKilledKeeps ==
    ASSUME RuntimeInv, NEW l \in Launchers, LauncherKilled(l)
    PROVE  RuntimeInv'
<1>1. /\ Alive(l) /\ Dies(l, FALSE) /\ Released(l) /\ rt' = [rt EXCEPT ![l] = NoCall]
      /\ disturbed' = disturbed + 1 /\ disturbed < MaxDisturbances
      /\ UNCHANGED <<lock, owner, status, hub, effects>>
  BY DEF LauncherKilled, Killed
<1>2. /\ LauncherInv(l) /\ lau \in [Launchers -> LauncherType] /\ rt \in [Actors -> CallType]
      /\ disturbed \in 0..MaxDisturbances
      /\ l \in Actors /\ l # None /\ l \notin Stops /\ l \notin Hubs
  BY LauncherFacts
<1>3. PICK c \in LauncherType :
        /\ lau' = [lau EXCEPT ![l] = c] /\ c.pc = "exited" /\ c.by = lau[l].by
        /\ c.req \in {lau[l].req, "none"}
        /\ c.child = lau[l].child
        /\ (gen = l /\ gen' = None) \/ (gen # l /\ gen' = gen)
        /\ stray' \in {stray, stray \cup {l}}
        /\ c.child = "live" /\ l \notin stray' => owner = l
  BY <1>1, DiesFields
<1>4. \A s \in Stops : rt'[s] = rt[s]
  BY <1>1, <1>2 DEF Actors
<1>5. Covered' => Covered
  BY <1>1, <1>4 DEF Covered, HubCrashed, NoStop
<1>6. LauncherInv(l)' /\ Onward(l)
  BY <1>1, <1>3, <1>5, DeadLauncher
<1>7. CallInv(l)' /\ \E r \in CallType : rt' = [rt EXCEPT ![l] = r]
  <2>1. rt'[l] = NoCall
    BY <1>1, <1>2
  <2> QED
    BY <2>1, <1>1, CallFields, FreshCall
<1>8. /\ gate' = gate \/ (gate = l /\ gate' = None)
      /\ gen' # l /\ disturbed' \in 0..MaxDisturbances
  BY <1>1, <1>2, <1>3, RuntimeConstants DEF Released
<1>9. status' \in StatusType /\ CircuitCounts'
  BY <1>1, StatusKept
<1>10. c.req = "sent" => lau[l].req = "sent"
  BY <1>3
<1> QED
  BY <1>1, <1>3, <1>6, <1>7, <1>8, <1>9, <1>10, LauncherMoves

\* An orphan exits, and a call is sent to the server.
LEMMA ServerStepsKeep ==
    ASSUME RuntimeInv, NEW l \in Launchers,
           OrphanExits(l) \/ \E h \in Hubs : hub[h].l = l /\ HubSend(h)
    PROVE  RuntimeInv'
<1>1. /\ LauncherInv(l) /\ lau \in [Launchers -> LauncherType] /\ rt \in [Actors -> CallType]
      /\ disturbed \in 0..MaxDisturbances /\ l # None
      /\ lau[l].pc \notin {"look", "reap", "remove"} => rt[l].pc = "idle"
      /\ gen = l => rt[l].pc = "rm_lock"
  BY LauncherFacts
<1>2. UNCHANGED <<lock, owner, gen, gate, status, rt, hub, effects, stray, disturbed>>
  BY DEF OrphanExits, HubSend, records
<1>3. status' \in StatusType /\ CircuitCounts'
  BY <1>2, StatusKept
<1>4. PICK p \in LauncherType : p = lau[l]
  BY <1>1
<1>5. (HubCrashed' <=> HubCrashed) /\ (Covered' => Covered) /\ (Gated(l)' <=> Gated(l))
  BY <1>2 DEF HubCrashed, Covered, NoStop, Gated
<1>6. CASE OrphanExits(l)
  <2>1. p.pc = "exited" /\ lau' = [lau EXCEPT ![l] = ChildGone(p)]
    BY <1>1, <1>4, <1>6 DEF OrphanExits, Alive, LauncherInv, Serving
  <2>2. PICK c : c = ChildGone(p)
    OBVIOUS
  <2>3. c \in LauncherType /\ c.pc = "exited" /\ c.by = p.by /\ c.child = "none" /\ c.req = "none"
    BY <2>1, <2>2, ChildGoneFields
  <2>4. lau' = [lau EXCEPT ![l] = c] /\ lau'[l] = c
    BY <2>1, <2>2, <1>1
  <2>5. Onward(l)
    BY <2>1, <2>3, <2>4, <1>4 DEF Onward, Published, Holding, Serving
  <2>6. LauncherInv(l)'
    BY <2>1, <2>3, <2>4 DEF LauncherInv, Holding, Serving, Alive, Published
  <2> QED
    BY <2>1, <2>3, <2>4, <2>5, <2>6, <1>1, <1>2, <1>3, <1>4, LauncherMoves
<1>7. ASSUME NEW h \in Hubs, hub[h].l = l, HubSend(h)
      PROVE  RuntimeInv'
  <2>1. /\ hub[h].pc = "wait" /\ p.pc = "serving" /\ p.req = "none"
        /\ lau' = [lau EXCEPT ![l].req = "sent"]
    BY <1>4, <1>7 DEF HubSend
  <2> DEFINE c == [p EXCEPT !.req = "sent"]
  <2>2. /\ c \in LauncherType /\ c.pc = "serving" /\ c.by = p.by /\ c.child = p.child /\ c.req = "sent"
        /\ lau' = [lau EXCEPT ![l] = c]
    BY <2>1, <1>1, <1>4 DEF LauncherType
  <2> HIDE DEF c
  <2>3. lau'[l] = c
    BY <2>2, <1>1
  <2>4. HubInv(h) /\ p.by = h
    BY <2>1, <1>4, <1>7 DEF RuntimeInv, HubInv
  <2>5. \A k \in Hubs : lau[l].by = k => hub[k].kind # "once" \/ effects[k] # 1
    BY <2>1, <2>4, <1>4 DEF HubInv
  <2>6. Onward(l)
    BY <2>1, <2>2, <2>3, <1>4 DEF Onward, Published, Holding, Serving
  <2>7. (Alive(l)' <=> Alive(l)) /\ (Published(l)' <=> Published(l))
    BY <2>1, <2>2, <2>3, <1>4 DEF Alive, Published
  <2>8. LauncherInv(l)'
    BY <2>1, <2>2, <2>3, <2>7, <1>1, <1>2, <1>4, <1>5 DEF LauncherInv, Serving
  <2>9. rt[l].pc = "idle" /\ lau[l].by = c.by
    BY <2>1, <2>2, <1>1, <1>4
  <2> QED
    BY <2>2, <2>5, <2>6, <2>8, <2>9, <1>1, <1>2, <1>3, LauncherMoves
<1> QED
  BY <1>6, <1>7

\* _terminate_owned_processes: the launcher is dead afterwards, and behind the
\* gate it was dead before and only its child is ended.
LEMMA TerminateKeeps ==
    ASSUME RuntimeInv, NEW a \in Actors, Terminate(a)
    PROVE  RuntimeInv'
<1>1. /\ CallInv(a) /\ rt[a] \in CallType /\ rt \in [Actors -> CallType]
      /\ rt[a].nonce \in Launchers \cup {None} /\ disturbed \in 0..MaxDisturbances
  BY CallFacts
<1>2. PICK q \in CallType : q = rt[a]
  BY <1>1
<1>3. PICK n \in Launchers : n = q.nonce
  BY <1>1, <1>2 DEF Terminate, CallInv
<1>4. /\ LauncherInv(n) /\ lau \in [Launchers -> LauncherType] /\ n \in Actors /\ n # None
      /\ n \notin Stops /\ n \notin Hubs
  BY LauncherFacts
<1>5. q.pc = "kill" /\ UNCHANGED <<lock, owner, status, hub, effects, disturbed>>
  BY <1>2 DEF Terminate
<1>6. Published(n) /\ ("launcher" \notin q.targets => ~Alive(n))
  BY <1>1, <1>2, <1>3, <1>4, <1>5 DEF CallInv
<1>7. /\ a \in Launchers => lau[a].pc \in {"look", "reap"}
      /\ a \in Hubs => hub[a].pc \in {"slot", "slotreap", "reap", "decide"}
  BY <1>1, <1>2, <1>5 DEF CallInv, Removing
<1>8. a # n
  BY <1>6, <1>7 DEF Published, Holding
<1> DEFINE r == [q EXCEPT !.pc = "rm_owner"]
<1>9. /\ r \in CallType /\ r.pc = "rm_owner" /\ r.lck = q.lck /\ r.nonce = n /\ r # NoCall
      /\ [rt EXCEPT ![a].pc = "rm_owner"] = [rt EXCEPT ![a] = r]
  BY <1>1, <1>2, <1>3 DEF CallType, NoCall
<1> HIDE DEF r
<1> DEFINE childToo == "child" \in q.targets
<1>10. /\ childToo \in BOOLEAN
       /\ \/ /\ Alive(n) /\ Dies(n, childToo) /\ Released(n)
             /\ rt' = [[rt EXCEPT ![a] = r] EXCEPT ![n] = NoCall]
          \/ /\ ~Alive(n) /\ lau' = [lau EXCEPT ![n] = IF childToo THEN ChildGone(lau[n]) ELSE lau[n]]
             /\ rt' = [rt EXCEPT ![a] = r] /\ UNCHANGED <<gate, gen, stray>>
  <2>1. CASE "launcher" \in q.targets /\ Alive(n)
    BY <2>1, <1>2, <1>3, <1>9 DEF Terminate, Killed
  <2>2. CASE ~("launcher" \in q.targets /\ Alive(n))
    BY <2>2, <1>2, <1>3, <1>6, <1>9 DEF Terminate
  <2> QED
    BY <2>1, <2>2
<1> HIDE DEF childToo
<1>11. NoCall \in CallType
  BY CallFields
<1>12. /\ rt' \in [Actors -> CallType] /\ rt'[a] = r
       /\ \A b \in Actors : b # a /\ b # n => rt'[b] = rt[b]
       /\ Alive(n) => rt'[n] = NoCall
       /\ ~Alive(n) => rt'[n] = rt[n]
  BY <1>1, <1>4, <1>8, <1>9, <1>10, <1>11
<1>13. (HubCrashed' <=> HubCrashed) /\ (NoStop' => NoStop)
  <2>1. HubCrashed' <=> HubCrashed
    BY <1>5 DEF HubCrashed
  <2>2. ASSUME NoStop', NEW s \in Stops  PROVE rt[s] = NoCall
    <3>1. s \in Actors /\ rt'[s] = NoCall /\ s # n
      BY <2>2, <1>4 DEF NoStop, Actors
    <3> QED
      BY <3>1, <1>9, <1>12
  <2> QED
    BY <2>1, <2>2 DEF NoStop
<1>14. Covered' => Covered
  BY <1>13 DEF Covered
<1>15. Covered => ~Alive(n)
  <2>1. Covered => a \notin Stops /\ ~HubCrashed
    BY <1>2, <1>5 DEF Covered, NoStop, NoCall
  <2> QED
    BY <2>1, <1>1, <1>2, <1>3, <1>5 DEF CallInv
<1>16. PICK c \in LauncherType :
         /\ lau' = [lau EXCEPT ![n] = c] /\ c.pc = "exited" /\ c.by = lau[n].by
         /\ c.req \in {lau[n].req, "none"} /\ c.child \in {lau[n].child, "none"}
         /\ childToo => c.child = "none"
         /\ stray' \in {stray, stray \cup {n}}
         /\ gen' = gen \/ (gen = n /\ gen' = None)
         /\ gen' # n
         /\ gate' = gate \/ (gate = n /\ gate' = None)
         /\ LauncherInv(n)' /\ Onward(n) /\ lau'[n] = c
  <2>1. CASE Alive(n)
    <3>1. Dies(n, childToo) /\ Released(n) /\ childToo \in BOOLEAN
      BY <2>1, <1>10
    <3>2. PICK c \in LauncherType :
            /\ lau' = [lau EXCEPT ![n] = c] /\ c.pc = "exited" /\ c.by = lau[n].by
            /\ c.req \in {lau[n].req, "none"}
            /\ c.child = IF childToo THEN "none" ELSE lau[n].child
            /\ (gen = n /\ gen' = None) \/ (gen # n /\ gen' = gen)
            /\ stray' \in {stray, stray \cup {n}}
            /\ c.child = "live" /\ n \notin stray' => owner = n
      BY <2>1, <3>1, DiesFields
    <3>3. /\ c.child \in {lau[n].child, "none"} /\ stray \subseteq stray'
          /\ childToo => c.child = "none"
      BY <3>1, <3>2
    <3>4. LauncherInv(n)' /\ Onward(n) /\ lau'[n] = c
      BY <2>1, <3>2, <3>3, <1>5, <1>14, DeadLauncher
    <3>5. gate' = gate \/ (gate = n /\ gate' = None)
      BY <3>1 DEF Released
    <3>6. gen' # n /\ (gen' = gen \/ (gen = n /\ gen' = None))
      BY <3>2, <1>4
    <3>7. /\ lau' = [lau EXCEPT ![n] = c] /\ c.pc = "exited" /\ c.by = lau[n].by
          /\ c.req \in {lau[n].req, "none"} /\ stray' \in {stray, stray \cup {n}}
      BY <3>2
    <3> QED
      BY <3>3, <3>4, <3>5, <3>6, <3>7
  <2>2. CASE ~Alive(n)
    <3>1. PICK p \in LauncherType : p = lau[n]
      BY <1>4
    <3>2. PICK c : c = IF childToo THEN ChildGone(p) ELSE p
      OBVIOUS
    <3>3. p.pc = "exited"
      BY <2>2, <3>1, <1>6 DEF Alive, Published, Holding
    <3>4. /\ c \in LauncherType /\ c.pc = "exited" /\ c.by = p.by /\ c.req \in {p.req, "none"}
          /\ c.child \in {p.child, "none"} /\ (childToo => c.child = "none")
      BY <3>1, <3>2, <3>3, ChildGoneFields
    <3>5. lau' = [lau EXCEPT ![n] = c] /\ UNCHANGED <<gate, gen, stray>>
      BY <2>2, <3>1, <3>2, <1>10
    <3>6. lau'[n] = c
      BY <3>5, <1>4
    <3>7. Onward(n)
      BY <3>1, <3>3, <3>4, <3>6 DEF Onward, Published, Holding, Serving
    <3>8. LauncherInv(n)'
      BY <3>1, <3>3, <3>4, <3>5, <3>6, <1>4, <1>5, <1>14
         DEF LauncherInv, Holding, Serving, Alive, Published
    <3>9. gen # n
      <4>1. rt[n].pc = "idle" /\ (gen = n => rt[n].pc = "rm_lock")
        BY <3>1, <3>3, LauncherFacts
      <4> QED
        BY <4>1
    <3> QED
      BY <3>1, <3>4, <3>5, <3>6, <3>7, <3>8, <3>9
  <2> QED
    BY <2>1, <2>2
<1>17. TypeOK /\ RecordsInv /\ gen \in Actors \cup {None}
  BY DEF RuntimeInv, TypeOK
<1>18. status' \in StatusType /\ CircuitCounts'
  BY <1>5, StatusKept
<1>19. TypeOK'
  BY <1>1, <1>5, <1>12, <1>16, <1>17, <1>18, LauncherTypes
<1>20. RecordsInv'
  <2>1. OwnerBacked'
    BY <1>5, <1>17 DEF RecordsInv, OwnerBacked
  <2>2. gen # a
    BY <1>2, <1>5, <1>17, <1>1, RuntimeConstants DEF RecordsInv
  <2>3. gen' # None => rt'[gen'].pc = "rm_lock"
    BY <2>2, <1>12, <1>16, <1>17 DEF RecordsInv
  <2> QED
    BY <2>1, <2>3, <1>18 DEF RecordsInv
<1>21. \A m \in Launchers : m # n => lau'[m] = lau[m]
  BY <1>4, <1>16
<1>22. CallInv(a)'
  <2>1. Published(n)' /\ ~Alive(n)'
    BY <1>16 DEF Published, Alive
  <2>2. q.lck # None => Published(q.lck)'
    BY <1>1, <1>2, <1>6, <1>16, <1>21 DEF CallInv, CallType, Published, Onward
  <2>3. (rt[a].lck # None => Published(rt[a].lck))' /\ (rt[a].nonce # None => Published(rt[a].nonce))'
    BY <2>1, <2>2, <1>9, <1>12 DEF Published
  <2>4. (~Alive(rt[a].nonce))'
    BY <2>1, <1>9, <1>12 DEF Alive
  <2>5. /\ a \in Launchers => lau'[a].pc \in {"look", "reap"}
        /\ a \in Hubs => hub'[a].pc \in {"slot", "slotreap", "reap", "decide"}
    BY <1>5, <1>7, <1>8, <1>21
  <2>6. Covered' /\ n \notin stray' => lau'[n].child = "none"
    <3> SUFFICES ASSUME Covered', n \notin stray' PROVE lau'[n].child = "none"
      OBVIOUS
    <3>1. Covered /\ n \notin stray
      BY <1>14, <1>16
    <3>2. lau[n].child = "live" => childToo
      BY <3>1, <1>1, <1>2, <1>3, <1>5 DEF CallInv, childToo
    <3>3. lau[n].child \in {"none", "live"}
      BY <1>4 DEF LauncherType
    <3> QED
      BY <3>2, <3>3, <1>16
  <2> QED
    BY <2>3, <2>4, <2>5, <2>6, <1>4, <1>9, <1>12 DEF CallInv, Removing
<1>23. CASE Alive(n)
  <2>1. Frame({n}, {a, n}, {})
    BY <1>5, <1>12, <1>13, <1>16, <1>21, LauncherFrame
  <2>2. CallInv(n)'
    BY <1>12, <1>23, CallFields, FreshCall
  <2> QED
    BY <2>1, <2>2, <1>16, <1>19, <1>20, <1>22, LaunchersKept, CallsKept, HubsKept DEF RuntimeInv
<1>24. CASE ~Alive(n)
  <2>1. rt[n].pc = "idle"
    <3>1. lau[n].pc = "exited"
      BY <1>6, <1>24 DEF Alive, Published, Holding
    <3> QED
      BY <3>1, LauncherFacts
  <2>2. Frame({n}, {a}, {})
    BY <2>1, <1>5, <1>12, <1>13, <1>16, <1>21, <1>24, LauncherFrame
  <2> QED
    BY <2>2, <1>16, <1>19, <1>20, <1>22, LaunchersKept, CallsKept, HubsKept DEF RuntimeInv
<1> QED
  BY <1>23, <1>24

\* The tool runs: at most once for a call that is not idempotent.
LEMMA ToolRunsKeeps ==
    ASSUME RuntimeInv, NEW l \in Pool, ToolRuns(l)
    PROVE  RuntimeInv'
<1>1. l \in Launchers
  BY DEF Launchers
<1>2. /\ LauncherInv(l) /\ lau \in [Launchers -> LauncherType]
      /\ lau[l].pc \notin {"look", "reap", "remove"} => rt[l].pc = "idle"
  BY <1>1, LauncherFacts
<1>3. PICK p \in LauncherType : p = lau[l]
  BY <1>1, <1>2
<1>4. PICK h : h = p.by
  OBVIOUS
<1>5. /\ p.child = "live" /\ p.req = "sent" /\ lau' = [lau EXCEPT ![l].req = "ran"]
      /\ effects' = [effects EXCEPT ![h] = @ + 1]
      /\ UNCHANGED <<lock, owner, gen, gate, status, rt, hub, stray, disturbed>>
  BY <1>3, <1>4 DEF ToolRuns, records
<1> DEFINE c == [p EXCEPT !.req = "ran"]
<1>6. /\ c \in LauncherType /\ c.pc = p.pc /\ c.by = p.by /\ c.child = p.child /\ c.req = "ran"
      /\ lau' = [lau EXCEPT ![l] = c]
  BY <1>1, <1>2, <1>3, <1>5 DEF LauncherType
<1> HIDE DEF c
<1>7. lau'[l] = c /\ \A m \in Launchers : m # l => lau'[m] = lau[m]
  BY <1>1, <1>2, <1>6
<1>8. effects \in [Hubs -> Nat]
  BY DEF RuntimeInv, TypeOK
<1>9. /\ effects' \in [Hubs -> Nat] /\ (h \in Hubs => effects'[h] = effects[h] + 1)
      /\ \A k \in Hubs : k # h => effects'[k] = effects[k]
  <2>1. CASE h \in Hubs
    BY <2>1, <1>5, <1>8
  <2>2. CASE h \notin Hubs
    <3>1. effects' = effects
      BY <2>2, <1>5, <1>8
    <3> QED
      BY <2>2, <3>1, <1>8
  <2> QED
    BY <2>1, <2>2
<1>10. lau' \in [Launchers -> LauncherType]
  BY <1>2, <1>6
<1>11. TypeOK'
  BY <1>5, <1>9, <1>10 DEF RuntimeInv, TypeOK, LauncherType
<1>12. RecordsInv'
  BY <1>5 DEF RuntimeInv, RecordsInv, OwnerBacked, CircuitCounts
<1>13. /\ (HubCrashed' <=> HubCrashed) /\ (Covered' <=> Covered)
       /\ \A m \in Launchers : Gated(m)' <=> Gated(m)
  BY <1>5 DEF HubCrashed, Covered, NoStop, Gated
<1>14. \A m \in Launchers : lau'[m].by = lau[m].by /\ lau'[m].pc = lau[m].pc
  BY <1>3, <1>6, <1>7
<1>15. \A m \in Launchers : Onward(m)
  BY <1>3, <1>6, <1>7, <1>14 DEF Onward, Published
<1>16. Frame({l}, {}, {h})
  BY <1>3, <1>5, <1>6, <1>7, <1>9, <1>13, <1>14, <1>15 DEF Frame
<1>17. LauncherInv(l)'
  <2>1. p.pc \in Serving
    BY <1>2, <1>3, <1>5 DEF LauncherInv
  <2> QED
    BY <2>1, <1>2, <1>3, <1>5, <1>6, <1>7, <1>13, <1>1 DEF LauncherInv, Published, Alive,
      Serving
<1>18. ASSUME h \in Hubs  PROVE HubInv(h)'
  <2>1. HubInv(h) /\ lau[l].by = h /\ effects[h] \in Nat
    BY <1>3, <1>4, <1>8, <1>18 DEF RuntimeInv
  <2>2. ~(hub[h].pc # "done" /\ hub[h].n = 0)
    BY <2>1, <1>1 DEF HubInv
  <2>3. hub[h].l \in Launchers \cup {None}
    BY <1>18 DEF RuntimeInv, TypeOK, Launchers
  <2>4. hub[h].kind = "once" =>
          /\ effects'[h] <= 1
          /\ \A k, m \in Launchers : lau'[k].by = h /\ lau'[m].by = h => k = m
          /\ effects'[h] = 1 => \A m \in Launchers : lau'[m].by = h =>
               /\ lau'[m].pc \in Serving /\ lau'[m].req # "sent"
               /\ lau'[m].pc = "serving" => lau'[m].req = "ran"
    <3> SUFFICES ASSUME hub[h].kind = "once"
                 PROVE  /\ effects'[h] <= 1
                        /\ \A k, m \in Launchers : lau'[k].by = h /\ lau'[m].by = h => k = m
                        /\ \A m \in Launchers : lau'[m].by = h =>
                             /\ lau'[m].pc \in Serving /\ lau'[m].req # "sent"
                             /\ lau'[m].pc = "serving" => lau'[m].req = "ran"
      OBVIOUS
    <3>1. effects[h] <= 1 /\ effects[h] # 1
      BY <2>1, <1>1, <1>3, <1>5 DEF HubInv
    <3>2. effects'[h] <= 1
      BY <3>1, <2>1, <1>9, <1>18
    <3>3. \A k, m \in Launchers : lau'[k].by = h /\ lau'[m].by = h => k = m
      BY <2>1, <1>14 DEF HubInv
    <3>4. lau'[l].by = h /\ p.pc \in Serving
      BY <2>1, <1>1, <1>2, <1>3, <1>5, <1>14 DEF LauncherInv
    <3> QED
      BY <3>2, <3>3, <3>4, <1>1, <1>6, <1>7
  <2> QED
    BY <2>1, <2>2, <2>3, <2>4, <1>5, <1>14 DEF HubInv
<1> QED
  BY <1>11, <1>12, <1>16, <1>17, <1>18, LaunchersKept, CallsKept, HubsKept DEF RuntimeInv

-----------------------------------------------------------------------------
(* Steps of the hub calls *)

\* What the invariant says of hub call h.
LEMMA HubFacts ==
    ASSUME RuntimeInv, NEW h \in Hubs
    PROVE  /\ HubInv(h) /\ CallInv(h) /\ hub[h] \in HubType /\ hub \in [Hubs -> HubType]
           /\ rt \in [Actors -> CallType] /\ disturbed \in 0..MaxDisturbances
           /\ h \in Actors /\ h # None /\ h \notin Stops /\ h \notin Launchers
           /\ hub[h].pc \notin {"slot", "slotreap", "reap", "decide"} => rt[h].pc = "idle"
           /\ gen = h => rt[h].pc = "rm_lock"
<1>1. /\ HubInv(h) /\ CallInv(h) /\ hub[h] \in HubType /\ hub \in [Hubs -> HubType]
      /\ rt \in [Actors -> CallType] /\ disturbed \in 0..MaxDisturbances
      /\ h \in Actors /\ RecordsInv
  BY DEF RuntimeInv, TypeOK, HubType, Actors
<1>2. h # None /\ h \notin Stops /\ h \notin Launchers
  BY RuntimeConstants DEF Actors
<1> QED
  BY <1>1, <1>2 DEF CallInv, RecordsInv

\* A step of hub call h that leaves the launchers alone.
LEMMA HubMoves ==
    ASSUME RuntimeInv, NEW h \in Hubs, NEW c \in HubType, hub' = [hub EXCEPT ![h] = c],
           hub[h].pc # "done",
           c.kind = hub[h].kind \/ hub[h].n = 0,
           c.pc # "done" => c.n = hub[h].n,
           c.pc \in {"idle", "gate", "slot", "slotreap"} => hub[h].n = 0,
           c.pc = "spawn" => hub[h].n < MaxAttempts /\ (c.kind # "again" => hub[h].n = 0),
           c.pc \in {"wait", "close"} => hub[h].pc \in {"wait", "close"} /\ c.l = hub[h].l,
           hub[h].pc \in {"wait", "close"} /\ c.out # "crashed" =>
               (c.pc \in {"wait", "close"} /\ gate' = gate) \/ ~Alive(hub[h].l),
           c.pc \notin {"idle", "gate", "done"} => gate' = h,
           c.out = "crashed" => c.pc = "done",
           gate' = gate \/ (gate = None /\ gate' = h) \/ (gate = h /\ gate' = None),
           \/ gen' = gen /\ rt[h].pc = "idle"
           \/ gen' = IF gen = h THEN None ELSE gen,
           \/ rt' = rt /\ rt[h].pc = "idle"
           \/ \E r \in CallType :
                 /\ rt' = [rt EXCEPT ![h] = r] /\ r.lck = None /\ r.nonce = None
                 /\ r.pc \in {"idle", "inv_lock", "stop_lock"}
                 /\ r.pc # "idle" => c.pc \in {"slot", "slotreap", "reap", "decide"},
           UNCHANGED <<lock, owner, lau, effects, stray>>,
           status' \in StatusType, CircuitCounts', disturbed' \in 0..MaxDisturbances
    PROVE  RuntimeInv'
<1>1. /\ HubInv(h) /\ hub \in [Hubs -> HubType] /\ rt \in [Actors -> CallType]
      /\ h \in Actors /\ h # None /\ h \notin Stops /\ h \notin Launchers
      /\ gen = h => rt[h].pc = "rm_lock"
  BY HubFacts
<1>2. hub'[h] = c /\ \A k \in Hubs : k # h => hub'[k] = hub[k]
  BY <1>1
<1>3. TypeOK /\ RecordsInv /\ gen \in Actors \cup {None}
  BY DEF RuntimeInv, TypeOK
<1>4. rt' \in [Actors -> CallType] /\ \A b \in Actors : b # h => rt'[b] = rt[b]
  BY <1>1
<1>5. hub' \in [Hubs -> HubType]
  BY <1>1
<1>6. TypeOK'
  BY <1>3, <1>4, <1>5 DEF TypeOK, HubType, StatusType
<1>7. gen' # h /\ (gen' = gen \/ (gen = h /\ gen' = None))
  BY <1>1
<1>8. RecordsInv'
  <2>1. OwnerBacked'
    BY <1>3 DEF RecordsInv, OwnerBacked
  <2>2. gen' # None => rt'[gen'].pc = "rm_lock"
    BY <1>3, <1>4, <1>7 DEF RecordsInv
  <2> QED
    BY <2>1, <2>2 DEF RecordsInv
<1>9. HubCrashed => HubCrashed'
  <2> SUFFICES ASSUME NEW k \in Hubs, hub[k].out = "crashed"  PROVE hub'[k].out = "crashed"
    BY DEF HubCrashed
  <2>1. k # h
    BY <1>1 DEF HubInv
  <2> QED
    BY <2>1, <1>2
<1>10. Covered' => Covered
  BY <1>1, <1>4, <1>9 DEF Covered, NoStop, Actors
<1>11. ASSUME NEW m \in Launchers, ~HubCrashed', Alive(m), Gated(m)  PROVE Gated(m)'
  <2>1. c.out # "crashed"
    BY <1>2, <1>11 DEF HubCrashed
  <2>2. m # None /\ m # h
    BY <1>1, RuntimeConstants DEF Actors
  <2>3. CASE m \in Consumers /\ gate = m
    BY <2>2, <2>3, <1>1 DEF Gated
  <2>4. ASSUME NEW k \in Hubs, gate = k, hub[k].l = m, hub[k].pc \in {"wait", "close"}
        PROVE  Gated(m)'
    <3>1. CASE k = h
      BY <2>1, <2>4, <3>1, <1>2, <1>11 DEF Gated
    <3>2. CASE k # h
      <4>1. k # None
        BY RuntimeConstants DEF Actors
      <4> QED
        BY <4>1, <2>4, <3>2, <1>2 DEF Gated
    <3> QED
      BY <3>1, <3>2
  <2> QED
    BY <2>3, <2>4, <1>11 DEF Gated
<1>12. ASSUME NEW k \in Hubs, k # h, gate = k  PROVE gate' = k
  BY <1>12, RuntimeConstants DEF Actors
<1>13. \A m \in Launchers : Onward(m)
  BY DEF Onward, Published
<1>14. ASSUME NEW X, X \subseteq {h}, X = {} => rt' = rt /\ rt[h].pc = "idle"
       PROVE  Frame({}, X, {h})
  <2>1. ASSUME NEW b \in Actors, b \notin X
        PROVE  /\ rt'[b] = rt[b]
               /\ rt[b].pc = "rm_lock" => gen' = gen /\ owner' = owner /\ lock' = lock
               /\ b \in Launchers /\ rt[b].pc # "idle" => lau'[b].pc = lau[b].pc
               /\ b \in Hubs /\ rt[b].pc # "idle" => hub'[b].pc = hub[b].pc
    <3>1. rt'[b] = rt[b] /\ (b = h => rt[h].pc = "idle")
      BY <2>1, <1>4, <1>14
    <3>2. CallInv(b) /\ b # None
      BY RuntimeConstants DEF RuntimeInv
    <3>3. rt[b].pc = "rm_lock" => gen = b /\ b # h
      BY <3>1, <3>2 DEF CallInv
    <3> QED
      BY <3>1, <3>2, <3>3, <1>2, <1>7
  <2> QED
    BY <2>1, <1>2, <1>9, <1>10, <1>11, <1>12, <1>13 DEF Frame
<1>15. HubInv(h)'
  <2>1. c.n \in Nat /\ effects'[h] = effects[h] /\ \A l \in Launchers : lau'[l] = lau[l]
    BY RuntimeConstants DEF HubType
  <2>2. c.pc \in {"wait", "close"} => c.l # None /\ lau'[c.l].by = h
    BY <1>1 DEF HubInv
  <2>3. c.pc # "done" /\ c.n = 0 => effects'[h] = 0 /\ \A l \in Launchers : lau'[l].by # h
    BY <1>1 DEF HubInv
  <2>4. c.kind = "once" =>
          /\ effects'[h] <= 1
          /\ \A l, m \in Launchers : lau'[l].by = h /\ lau'[m].by = h => l = m
          /\ effects'[h] = 1 => \A l \in Launchers : lau'[l].by = h =>
               /\ lau'[l].pc \in Serving /\ lau'[l].req # "sent"
               /\ lau'[l].pc = "serving" => lau'[l].req = "ran"
    BY <1>1 DEF HubInv
  <2>5. /\ c.pc \in {"idle", "gate", "slot", "slotreap"} => c.n = 0
        /\ c.pc = "spawn" => c.n < MaxAttempts /\ (c.kind # "again" => c.n = 0)
    OBVIOUS
  <2> QED
    BY <2>2, <2>3, <2>4, <2>5, <1>2 DEF HubInv
<1>16. CASE rt' = rt /\ rt[h].pc = "idle"
  <2>1. Frame({}, {}, {h})
    BY <1>14, <1>16
  <2> QED
    BY <2>1, <1>6, <1>8, <1>15, LaunchersKept, CallsKept, HubsKept DEF RuntimeInv
<1>17. ASSUME NEW r \in CallType,
              rt' = [rt EXCEPT ![h] = r], r.lck = None, r.nonce = None,
              r.pc \in {"idle", "inv_lock", "stop_lock"},
              r.pc # "idle" => c.pc \in {"slot", "slotreap", "reap", "decide"}
       PROVE  RuntimeInv'
  <2>1. Frame({}, {h}, {h})
    BY <1>14
  <2>2. rt'[h] = r
    BY <1>1, <1>17
  <2>3. CallInv(h)'
    BY <2>2, <1>1, <1>2, <1>17, FreshCall
  <2> QED
    BY <2>1, <2>3, <1>6, <1>8, <1>15, LaunchersKept, CallsKept, HubsKept DEF RuntimeInv
<1> QED
  BY <1>16, <1>17

\* The call returns or raises.
LEMMA FinishFields ==
    ASSUME NEW h \in Hubs, hub \in [Hubs -> HubType], Finish(h)
    PROVE  \E c \in HubType :
             /\ hub' = [hub EXCEPT ![h] = c] /\ c.pc = "done" /\ c.kind = hub[h].kind /\ c.out = "none"
             /\ gate' = gate \/ (gate = h /\ gate' = None)
<1>1. PICK q \in HubType : q = hub[h]
  OBVIOUS
<1> DEFINE c == [Fresh EXCEPT !.pc = "done", !.kind = q.kind]
<1>2. c \in HubType /\ c.pc = "done" /\ c.kind = q.kind /\ c.out = "none"
  <2>1. 0 \in 0..MaxPolls /\ 0 \in 0..MaxAttempts
    BY RuntimeConstants
  <2> QED
    BY <2>1 DEF HubType, HubPcs, Fresh, Outcomes
<1>3. hub' = [hub EXCEPT ![h] = c]
  BY <1>1 DEF Finish, HubSet
<1> HIDE DEF c
<1> QED
  BY <1>1, <1>2, <1>3 DEF Finish, Released

\* A hub call that only goes on.
LEMMA HubGotoFields ==
    ASSUME NEW h \in Hubs, hub \in [Hubs -> HubType], NEW pc \in HubPcs,
           NEW c, c = [hub[h] EXCEPT !.pc = pc]
    PROVE  /\ c \in HubType /\ c.pc = pc /\ c.kind = hub[h].kind /\ c.n = hub[h].n
           /\ c.l = hub[h].l /\ c.out = hub[h].out
<1>1. PICK q \in HubType : q = hub[h]
  OBVIOUS
<1> QED
  BY <1>1 DEF HubType

\* The call returns or raises without a launcher to wait for.
LEMMA HubFinishes ==
    ASSUME RuntimeInv, NEW h \in Hubs, hub[h].pc \notin {"wait", "close", "done"}, rt[h].pc = "idle",
           Finish(h), rt' = rt \/ rt' = [rt EXCEPT ![h] = NoCall],
           UNCHANGED <<lock, owner, gen, lau, effects, stray, disturbed>>,
           status' \in StatusType, CircuitCounts'
    PROVE  RuntimeInv'
<1>1. hub \in [Hubs -> HubType] /\ disturbed \in 0..MaxDisturbances
  BY HubFacts
<1>2. PICK c \in HubType :
        /\ hub' = [hub EXCEPT ![h] = c] /\ c.pc = "done" /\ c.kind = hub[h].kind /\ c.out = "none"
        /\ gate' = gate \/ (gate = h /\ gate' = None)
  BY <1>1, FinishFields
<1>3. NoCall \in CallType /\ NoCall.pc = "idle" /\ NoCall.lck = None /\ NoCall.nonce = None
  BY CallFields
<1> QED
  BY <1>1, <1>2, <1>3, HubMoves

\* The call goes on, with a look, a reap or no call into runtime.py.
LEMMA HubGoes ==
    ASSUME RuntimeInv, NEW h \in Hubs, hub[h].pc \notin {"wait", "close", "done"}, rt[h].pc = "idle",
           NEW c \in HubType, hub' = [hub EXCEPT ![h] = c],
           c.kind = hub[h].kind, c.n = hub[h].n, c.out # "crashed",
           c.pc \in {"slot", "slotreap", "spawn", "decide"},
           c.pc \in {"slot", "slotreap"} => hub[h].n = 0,
           c.pc = "spawn" => hub[h].n < MaxAttempts /\ (c.kind # "again" => hub[h].n = 0),
           gate' = h, gate = h \/ gate = None,
           \/ rt' = [rt EXCEPT ![h] = NoCall]
           \/ /\ c.pc # "spawn"
              /\ \E goal \in {"look", "reap"} : rt' = [rt EXCEPT ![h] = CallTo(goal, None)],
           UNCHANGED <<lock, owner, gen, lau, effects, stray, disturbed>>,
           status' \in StatusType, CircuitCounts'
    PROVE  RuntimeInv'
<1>1. hub \in [Hubs -> HubType] /\ disturbed \in 0..MaxDisturbances
  BY HubFacts
<1>2. NoCall \in CallType /\ NoCall.pc = "idle" /\ NoCall.lck = None /\ NoCall.nonce = None
  BY CallFields
<1>3. \A goal \in {"look", "reap"} :
        /\ CallTo(goal, None) \in CallType /\ CallTo(goal, None).pc \in {"inv_lock", "stop_lock"}
        /\ CallTo(goal, None).lck = None /\ CallTo(goal, None).nonce = None
  BY CallFields
<1>4. \E r \in CallType :
        /\ rt' = [rt EXCEPT ![h] = r] /\ r.lck = None /\ r.nonce = None
        /\ r.pc \in {"idle", "inv_lock", "stop_lock"}
        /\ r.pc # "idle" => c.pc \in {"slot", "slotreap", "reap", "decide"}
  BY <1>2, <1>3
<1> QED
  BY <1>1, <1>4, HubMoves

\* Entry and the operation gate.
LEMMA HubEntersKeeps ==
    ASSUME RuntimeInv, NEW h \in Hubs, HubGate(h) \/ \E kind \in Kinds : HubEnter(h, kind)
    PROVE  RuntimeInv'
<1>1. /\ HubInv(h) /\ hub \in [Hubs -> HubType] /\ hub[h] \in HubType
      /\ disturbed \in 0..MaxDisturbances /\ h # None
      /\ hub[h].pc \notin {"slot", "slotreap", "reap", "decide"} => rt[h].pc = "idle"
  BY HubFacts
<1>2. PersistStatus \/ UNCHANGED status => status' \in StatusType /\ CircuitCounts'
  BY StatusKept
<1>3. ASSUME NEW kind \in Kinds, HubEnter(h, kind)  PROVE RuntimeInv'
  <2>1. /\ hub[h].pc = "idle" /\ PersistStatus /\ rt[h].pc = "idle"
        /\ UNCHANGED <<lock, owner, gen, lau, rt, effects, stray, disturbed>>
        /\ Finish(h) \/ (HubSet(h, [hub[h] EXCEPT !.pc = "gate", !.kind = kind]) /\ gate' = gate)
    BY <1>1, <1>3 DEF HubEnter, records
  <2>2. CASE Finish(h)
    BY <2>1, <2>2, <1>2, HubFinishes
  <2>3. CASE HubSet(h, [hub[h] EXCEPT !.pc = "gate", !.kind = kind]) /\ gate' = gate
    <3>1. PICK q \in HubType : q = hub[h]
      BY <1>1
    <3> DEFINE c == [q EXCEPT !.pc = "gate", !.kind = kind]
    <3>2. /\ c \in HubType /\ c.pc = "gate" /\ c.n = q.n /\ c.out = q.out
          /\ hub' = [hub EXCEPT ![h] = c]
      BY <3>1, <2>3 DEF HubSet, HubType, HubPcs
    <3> HIDE DEF c
    <3>3. q.n = 0 /\ q.out # "crashed"
      BY <3>1, <2>1, <1>1 DEF HubInv
    <3> QED
      BY <3>1, <3>2, <3>3, <2>1, <2>3, <1>1, <1>2, HubMoves
  <2> QED
    BY <2>1, <2>2, <2>3
<1>4. CASE HubGate(h)
  <2>1. /\ hub[h].pc = "gate" /\ rt[h].pc = "idle"
        /\ UNCHANGED <<lock, owner, gen, lau, effects, stray, disturbed>>
        /\ PersistStatus \/ UNCHANGED status
        /\ \/ Finish(h) /\ rt' = rt
           \/ /\ gate = None /\ gate' = h /\ HubSet(h, [hub[h] EXCEPT !.pc = "slot"])
              /\ rt' = [rt EXCEPT ![h] = CallTo("look", None)]
    BY <1>1, <1>4 DEF HubGate, GateFree, records
  <2>2. CASE Finish(h) /\ rt' = rt
    BY <2>1, <2>2, <1>2, HubFinishes
  <2>3. CASE /\ gate = None /\ gate' = h /\ HubSet(h, [hub[h] EXCEPT !.pc = "slot"])
             /\ rt' = [rt EXCEPT ![h] = CallTo("look", None)]
    <3>1. PICK c : c = [hub[h] EXCEPT !.pc = "slot"]
      OBVIOUS
    <3>2. /\ c \in HubType /\ c.pc = "slot" /\ c.kind = hub[h].kind /\ c.n = hub[h].n
          /\ c.out = hub[h].out
      <4>1. "slot" \in HubPcs /\ "none" \in Outcomes
        BY DEF HubPcs, Outcomes
      <4> QED
        BY <3>1, <4>1, <1>1, HubGotoFields
    <3>3. hub' = [hub EXCEPT ![h] = c]
      BY <3>1, <2>3 DEF HubSet
    <3>4. hub[h].n = 0 /\ hub[h].out # "crashed"
      BY <2>1, <1>1 DEF HubInv
    <3> QED
      BY <3>2, <3>3, <3>4, <2>1, <2>3, <1>2, HubGoes
  <2> QED
    BY <2>1, <2>2, <2>3
<1> QED
  BY <1>3, <1>4

\* The slot: free, stale, owned or invalid.
LEMMA HubSlotKeeps ==
    ASSUME RuntimeInv, NEW h \in Hubs, HubSlot(h) \/ HubSlotReaped(h)
    PROVE  RuntimeInv'
<1>1. /\ HubInv(h) /\ hub \in [Hubs -> HubType] /\ hub[h] \in HubType /\ h # None
  BY HubFacts
<1>2. status' = status => status' \in StatusType /\ CircuitCounts'
  BY StatusKept
<1>3. PICK q \in HubType : q = hub[h]
  BY <1>1
<1>4. /\ q.pc \in {"slot", "slotreap"} /\ rt[h].pc = "idle"
      /\ UNCHANGED <<lock, owner, gen, status, lau, effects, stray, disturbed>>
  BY <1>3 DEF HubSlot, HubSlotReaped, Quiet, records
<1>5. q.n = 0 /\ q.out # "crashed" /\ gate = h /\ MaxAttempts \in Nat \ {0}
  BY <1>1, <1>3, <1>4, RuntimeConstants DEF HubInv
<1> DEFINE Ends == Finish(h) /\ rt' = [rt EXCEPT ![h] = NoCall]
           Goes(c) ==
             /\ hub' = [hub EXCEPT ![h] = c] /\ gate' = gate
             /\ \/ rt' = [rt EXCEPT ![h] = NoCall]
                \/ /\ c.pc # "spawn"
                   /\ \E goal \in {"look", "reap"} : rt' = [rt EXCEPT ![h] = CallTo(goal, None)]
<1>6. \/ Ends \/ (q.polls < MaxPolls /\ Goes([q EXCEPT !.polls = q.polls + 1]))
      \/ \E pc \in {"spawn", "slotreap", "slot"} : Goes([q EXCEPT !.pc = pc])
  <2>1. /\ [q EXCEPT !.pc = "slotreap"].pc # "spawn" /\ [q EXCEPT !.pc = "slot"].pc # "spawn"
        /\ [q EXCEPT !.polls = q.polls + 1].pc = q.pc
    BY DEF HubType
  <2>2. CASE HubSlot(h)
    <3>1. CASE rt[h].result = "none"
      <4>1. Goes([q EXCEPT !.pc = "spawn"])
        BY <2>2, <3>1, <1>3 DEF HubSlot, HubSet
      <4> QED
        BY <4>1
    <3>2. CASE rt[h].result = "stale"
      <4>1. Goes([q EXCEPT !.pc = "slotreap"])
        BY <2>1, <2>2, <3>2, <1>3 DEF HubSlot, HubSet
      <4> QED
        BY <4>1
    <3>3. CASE rt[h].result \notin {"none", "stale"}
      <4>1. \/ Ends
            \/ /\ q.polls < MaxPolls /\ hub' = [hub EXCEPT ![h] = [hub[h] EXCEPT !.polls = @ + 1]]
               /\ rt' = [rt EXCEPT ![h] = CallTo("look", None)] /\ gate' = gate
        BY <2>2, <3>3, <1>3 DEF HubSlot, HubSet
      <4>2. [hub[h] EXCEPT !.polls = @ + 1] = [q EXCEPT !.polls = q.polls + 1]
        BY <1>3
      <4> QED
        BY <4>1, <4>2, <2>1, <1>4
    <3> QED
      BY <3>1, <3>2, <3>3
  <2>3. CASE HubSlotReaped(h)
    <3>1. CASE rt[h].result = "refused"
      BY <2>3, <3>1 DEF HubSlotReaped
    <3>2. CASE rt[h].result # "refused"
      <4>1. Goes([q EXCEPT !.pc = "slot"])
        BY <2>1, <2>3, <3>2, <1>3 DEF HubSlotReaped, HubSet
      <4> QED
        BY <4>1
    <3> QED
      BY <3>1, <3>2
  <2> QED
    BY <2>2, <2>3
<1>7. CASE Ends
  BY <1>2, <1>3, <1>4, <1>7, HubFinishes
<1>8. ASSUME NEW c \in HubType, c.pc \in {"spawn", "slotreap", "slot"}, c.kind = q.kind, c.n = q.n,
             c.out = q.out, Goes(c)
      PROVE  RuntimeInv'
  <2>1. /\ hub' = [hub EXCEPT ![h] = c] /\ gate' = h /\ gate = h
        /\ \/ rt' = [rt EXCEPT ![h] = NoCall]
           \/ /\ c.pc # "spawn"
              /\ \E goal \in {"look", "reap"} : rt' = [rt EXCEPT ![h] = CallTo(goal, None)]
    BY <1>5, <1>8
  <2>2. /\ hub[h].pc \notin {"wait", "close", "done"} /\ hub[h].n = 0 /\ 0 < MaxAttempts
        /\ c.kind = hub[h].kind /\ c.n = hub[h].n /\ c.out # "crashed"
    BY <1>3, <1>4, <1>5, <1>8
  <2>3. status' \in StatusType /\ CircuitCounts'
    BY <1>2, <1>4
  <2> HIDE DEF Goes
  <2> QED
    BY <2>1, <2>2, <2>3, <1>4, <1>8, HubGoes
<1>9. CASE q.polls < MaxPolls /\ Goes([q EXCEPT !.polls = q.polls + 1])
  <2>1. PICK polls : polls = q.polls + 1
    OBVIOUS
  <2>2. polls \in 0..MaxPolls
    BY <2>1, <1>9, RuntimeConstants DEF HubType
  <2>3. PICK c : c = [q EXCEPT !.polls = polls]
    OBVIOUS
  <2>4. c \in HubType /\ c.pc = q.pc /\ c.kind = q.kind /\ c.n = q.n /\ c.out = q.out
    BY <2>2, <2>3 DEF HubType
  <2>5. Goes(c)
    BY <2>1, <2>3, <1>9
  <2> HIDE DEF Goes
  <2> QED
    BY <2>4, <2>5, <1>4, <1>8
<1>10. ASSUME NEW pc \in {"spawn", "slotreap", "slot"}, Goes([q EXCEPT !.pc = pc])
       PROVE  RuntimeInv'
  <2>1. PICK c : c = [q EXCEPT !.pc = pc]
    OBVIOUS
  <2>2. c \in HubType /\ c.pc = pc /\ c.kind = q.kind /\ c.n = q.n /\ c.out = q.out
    BY <2>1 DEF HubType, HubPcs
  <2>3. Goes(c)
    BY <2>1, <1>10
  <2> HIDE DEF Goes
  <2> QED
    BY <2>2, <2>3, <1>8
<1> HIDE DEF Goes, Ends
<1> QED
  BY <1>6, <1>7, <1>9, <1>10

\* An attempt ends: an answer, a time-out, a failure or a cancellation.
LEMMA HubOutcomeKeeps ==
    ASSUME RuntimeInv, NEW h \in Hubs,
           NEW end \in {"ok", "transport", "timeout", "failed", "cancelled"}, HubOutcome(h, end)
    PROVE  RuntimeInv'
<1>1. /\ HubInv(h) /\ hub \in [Hubs -> HubType] /\ disturbed \in 0..MaxDisturbances
      /\ hub[h].pc \notin {"slot", "slotreap", "reap", "decide"} => rt[h].pc = "idle"
  BY HubFacts
<1>2. PICK c : c = [hub[h] EXCEPT !.pc = "close", !.out = end]
  OBVIOUS
<1>3. /\ c \in HubType /\ c.pc = "close" /\ c.kind = hub[h].kind /\ c.n = hub[h].n
      /\ c.l = hub[h].l /\ c.out = end
  <2>1. PICK q \in HubType : q = hub[h]
    BY <1>1
  <2>2. "close" \in HubPcs /\ end \in Outcomes
    BY DEF HubPcs, Outcomes
  <2> QED
    BY <2>1, <2>2, <1>2 DEF HubType
<1>4. /\ hub[h].pc = "wait" /\ hub' = [hub EXCEPT ![h] = c] /\ rt[h].pc = "idle"
      /\ UNCHANGED <<lock, owner, gen, gate, status, lau, rt, effects, stray, disturbed>>
  BY <1>1, <1>2 DEF HubOutcome, HubSet, records
<1>5. gate = h
  BY <1>1, <1>4 DEF HubInv
<1>6. status' \in StatusType /\ CircuitCounts'
  BY <1>4, StatusKept
<1> QED
  BY <1>1, <1>3, <1>4, <1>5, <1>6, HubMoves

\* The reason of a failed attempt is refined.
LEMMA HubReapedKeeps ==
    ASSUME RuntimeInv, NEW h \in Hubs, HubReaped(h)
    PROVE  RuntimeInv'
<1>1. HubInv(h) /\ hub \in [Hubs -> HubType]
  BY HubFacts
<1>2. PersistStatus \/ UNCHANGED status => status' \in StatusType /\ CircuitCounts'
  BY StatusKept
<1>3. /\ hub[h].pc = "reap" /\ rt[h].pc = "idle" /\ (PersistStatus \/ UNCHANGED status)
      /\ UNCHANGED <<lock, owner, gen, gate, lau, effects, stray, disturbed>>
      /\ \/ /\ hub' = [hub EXCEPT ![h] = [hub[h] EXCEPT !.pc = "decide", !.out = "circuit_open"]]
            /\ rt' = [rt EXCEPT ![h] = NoCall]
         \/ /\ hub' = [hub EXCEPT ![h] = [hub[h] EXCEPT !.pc = "decide"]]
            /\ rt' = [rt EXCEPT ![h] = CallTo("look", None)] \/ rt' = [rt EXCEPT ![h] = NoCall]
  BY DEF HubReaped, Quiet, HubSet, records
<1>4. "decide" \in HubPcs /\ "circuit_open" \in Outcomes
  BY DEF HubPcs, Outcomes
<1>5. gate = h /\ hub[h].out # "crashed"
  BY <1>1, <1>3 DEF HubInv
<1>6. PICK c \in HubType :
        /\ hub' = [hub EXCEPT ![h] = c] /\ c.pc = "decide" /\ c.kind = hub[h].kind
        /\ c.n = hub[h].n /\ c.out # "crashed"
  <2>1. CASE hub' = [hub EXCEPT ![h] = [hub[h] EXCEPT !.pc = "decide", !.out = "circuit_open"]]
    <3>1. PICK c : c = [hub[h] EXCEPT !.pc = "decide", !.out = "circuit_open"]
      OBVIOUS
    <3>2. c \in HubType /\ c.pc = "decide" /\ c.kind = hub[h].kind /\ c.n = hub[h].n /\ c.out = "circuit_open"
      <4>1. PICK q \in HubType : q = hub[h]
        BY <1>1
      <4> QED
        BY <4>1, <3>1, <1>4 DEF HubType
    <3> QED
      BY <2>1, <3>1, <3>2
  <2>2. CASE hub' = [hub EXCEPT ![h] = [hub[h] EXCEPT !.pc = "decide"]]
    <3>1. PICK c : c = [hub[h] EXCEPT !.pc = "decide"]
      OBVIOUS
    <3>2. c \in HubType /\ c.pc = "decide" /\ c.kind = hub[h].kind /\ c.n = hub[h].n /\ c.out = hub[h].out
      BY <3>1, <1>1, <1>4, HubGotoFields
    <3> QED
      BY <2>2, <3>1, <3>2, <1>5
  <2> QED
    BY <1>3, <2>1, <2>2
<1>7. rt' = [rt EXCEPT ![h] = CallTo("look", None)] \/ rt' = [rt EXCEPT ![h] = NoCall]
  BY <1>3
<1>8. /\ hub[h].pc = "reap" /\ rt[h].pc = "idle" /\ gate' = h
      /\ UNCHANGED <<lock, owner, gen, lau, effects, stray, disturbed>>
      /\ status' \in StatusType /\ CircuitCounts'
  BY <1>2, <1>3, <1>5
<1> QED
  BY <1>5, <1>6, <1>7, <1>8, HubGoes

\* Another attempt, or the end of the call.
LEMMA HubDecideKeeps ==
    ASSUME RuntimeInv, NEW h \in Hubs, HubDecide(h) \/ HubCancelled(h)
    PROVE  RuntimeInv'
<1>1. HubInv(h) /\ hub \in [Hubs -> HubType]
  BY HubFacts
<1>2. PersistStatus \/ RecordFailure \/ UNCHANGED status => status' \in StatusType /\ CircuitCounts'
  BY StatusKept
<1>3. /\ hub[h].pc \in {"decide", "gate", "slot", "spawn"} /\ rt[h].pc = "idle"
      /\ rt' = [rt EXCEPT ![h] = NoCall]
      /\ UNCHANGED <<lock, owner, gen, lau, effects, stray, disturbed>>
      /\ \/ Finish(h) /\ (RecordFailure \/ UNCHANGED status)
         \/ /\ hub[h].pc = "decide" /\ hub[h].kind = "again" /\ hub[h].n < MaxAttempts
            /\ hub' = [hub EXCEPT ![h] = [hub[h] EXCEPT !.pc = "spawn", !.out = "none"]]
            /\ UNCHANGED <<gate, status>>
  BY DEF HubDecide, HubCancelled, MayRetry, Quiet, HubSet, records
<1>4. CASE Finish(h) /\ (RecordFailure \/ UNCHANGED status)
  BY <1>2, <1>3, <1>4, HubFinishes
<1>5. CASE /\ hub[h].pc = "decide" /\ hub[h].kind = "again" /\ hub[h].n < MaxAttempts
           /\ hub' = [hub EXCEPT ![h] = [hub[h] EXCEPT !.pc = "spawn", !.out = "none"]]
           /\ UNCHANGED <<gate, status>>
  <2>1. PICK c : c = [hub[h] EXCEPT !.pc = "spawn", !.out = "none"]
    OBVIOUS
  <2>2. c \in HubType /\ c.pc = "spawn" /\ c.kind = hub[h].kind /\ c.n = hub[h].n /\ c.out = "none"
    <3>1. PICK q \in HubType : q = hub[h]
      BY <1>1
    <3>2. "spawn" \in HubPcs /\ "none" \in Outcomes
      BY DEF HubPcs, Outcomes
    <3> QED
      BY <2>1, <3>1, <3>2 DEF HubType
  <2>3. hub' = [hub EXCEPT ![h] = c] /\ gate' = h /\ gate = h
    BY <2>1, <1>1, <1>5 DEF HubInv
  <2>4. /\ hub[h].kind = "again" /\ hub[h].n < MaxAttempts /\ hub[h].pc = "decide"
        /\ status' \in StatusType /\ CircuitCounts'
    BY <1>2, <1>5
  <2>5. /\ rt[h].pc = "idle" /\ rt' = [rt EXCEPT ![h] = NoCall]
        /\ UNCHANGED <<lock, owner, gen, lau, effects, stray, disturbed>>
    BY <1>3
  <2> QED
    BY <2>2, <2>3, <2>4, <2>5, HubGoes
<1> QED
  BY <1>3, <1>4, <1>5

\* The process of a hub call is killed; the gate no longer covers its launcher.
LEMMA HubKilledKeeps ==
    ASSUME RuntimeInv, NEW h \in Hubs, HubKilled(h)
    PROVE  RuntimeInv'
<1>1. /\ hub \in [Hubs -> HubType] /\ disturbed \in 0..MaxDisturbances
  BY HubFacts
<1>2. PICK q \in HubType : q = hub[h]
  BY <1>1
<1> DEFINE c == [Fresh EXCEPT !.pc = "done", !.kind = q.kind, !.out = "crashed"]
<1>3. c \in HubType /\ c.pc = "done" /\ c.kind = q.kind /\ c.out = "crashed"
  <2>1. 0 \in 0..MaxPolls /\ 0 \in 0..MaxAttempts
    BY RuntimeConstants
  <2> QED
    BY <2>1 DEF HubType, HubPcs, Fresh, Outcomes
<1>4. hub' = [hub EXCEPT ![h] = c]
  BY <1>2 DEF HubKilled, HubSet
<1> HIDE DEF c
<1>5. /\ hub[h].pc # "done" /\ rt' = [rt EXCEPT ![h] = NoCall]
      /\ gate' = gate \/ (gate = h /\ gate' = None)
      /\ gen' = IF gen = h THEN None ELSE gen
      /\ disturbed' \in 0..MaxDisturbances
      /\ UNCHANGED <<lock, owner, status, lau, effects, stray>>
  BY <1>1, RuntimeConstants DEF HubKilled, Released
<1>6. status' \in StatusType /\ CircuitCounts'
  BY <1>5, StatusKept
<1>7. NoCall \in CallType /\ NoCall.pc = "idle" /\ NoCall.lck = None /\ NoCall.nonce = None
  BY CallFields
<1> QED
  BY <1>2, <1>3, <1>4, <1>5, <1>6, <1>7, HubMoves

\* stdio_client starts a launcher: the first one of a call that is not
\* idempotent.
LEMMA HubSpawnKeeps ==
    ASSUME RuntimeInv, NEW h \in Hubs, HubSpawn(h)
    PROVE  RuntimeInv'
<1>1. /\ HubInv(h) /\ hub \in [Hubs -> HubType] /\ hub[h] \in HubType /\ rt \in [Actors -> CallType]
      /\ h \in Actors /\ h # None /\ h \notin Launchers
      /\ hub[h].pc \notin {"slot", "slotreap", "reap", "decide"} => rt[h].pc = "idle"
  BY HubFacts
<1>2. PICK l \in Pool : lau[l].pc = "unborn" /\ l = CHOOSE m \in Pool : lau[m].pc = "unborn"
  BY DEF HubSpawn
<1>3. l \in Launchers
  BY DEF Launchers
<1>4. /\ LauncherInv(l) /\ lau \in [Launchers -> LauncherType] /\ l \in Actors /\ l # None
      /\ lau[l].pc \notin {"look", "reap", "remove"} => rt[l].pc = "idle"
  BY <1>3, LauncherFacts
<1>5. /\ hub[h].pc = "spawn" /\ lau' = [lau EXCEPT ![l].pc = "circuit", ![l].by = h]
      /\ hub' = [hub EXCEPT ![h] = [hub[h] EXCEPT !.pc = "wait", !.l = l, !.n = @ + 1]]
      /\ UNCHANGED <<lock, owner, gen, gate, status, rt, effects, stray, disturbed>>
  BY <1>2 DEF HubSpawn, HubSet, records
<1>6. PICK p \in LauncherType : p = lau[l]
  BY <1>3, <1>4
<1>7. PICK q \in HubType : q = hub[h]
  BY <1>1
<1> DEFINE c == [p EXCEPT !.pc = "circuit", !.by = h]
<1>8. /\ c \in LauncherType /\ c.pc = "circuit" /\ c.by = h /\ c.child = p.child /\ c.req = p.req
      /\ lau' = [lau EXCEPT ![l] = c]
  BY <1>3, <1>4, <1>5, <1>6 DEF LauncherType, LauncherPcs
<1>9. q.n < MaxAttempts /\ (q.kind # "again" => q.n = 0) /\ gate = h /\ q.out # "crashed"
  BY <1>1, <1>5, <1>7 DEF HubInv
<1>10. q.n + 1 \in 0..MaxAttempts /\ q.n \in Nat
  BY <1>9, RuntimeConstants DEF HubType
<1>11. PICK n : n = q.n + 1
  OBVIOUS
<1> DEFINE d == [q EXCEPT !.pc = "wait", !.l = l, !.n = n]
<1>12. /\ d \in HubType /\ d.pc = "wait" /\ d.l = l /\ d.n = n /\ d.kind = q.kind /\ d.out = q.out
       /\ hub' = [hub EXCEPT ![h] = d]
  BY <1>1, <1>5, <1>7, <1>10, <1>11 DEF HubType, HubPcs
<1> HIDE DEF c, d
<1>13. /\ lau'[l] = c /\ (\A m \in Launchers : m # l => lau'[m] = lau[m])
       /\ hub'[h] = d /\ (\A k \in Hubs : k # h => hub'[k] = hub[k])
  BY <1>1, <1>3, <1>4, <1>8, <1>12
<1>14. lau' \in [Launchers -> LauncherType] /\ hub' \in [Hubs -> HubType]
  BY <1>1, <1>4, <1>8, <1>12
<1>15. TypeOK'
  BY <1>5, <1>14 DEF RuntimeInv, TypeOK, LauncherType, HubType
<1>16. RecordsInv'
  BY <1>5 DEF RuntimeInv, RecordsInv, OwnerBacked, CircuitCounts
<1>17. (HubCrashed' <=> HubCrashed) /\ (Covered' <=> Covered)
  <2>1. \A k \in Hubs : hub'[k].out = hub[k].out
    BY <1>7, <1>12, <1>13
  <2> QED
    BY <2>1, <1>5 DEF HubCrashed, Covered, NoStop
<1>18. p.by = None /\ p.child = "none" /\ p.req = "none" /\ lock # l
  BY <1>2, <1>4, <1>6 DEF LauncherInv, Published, Holding, Serving
<1>19. ~HubCrashed => \A m \in Launchers : ~Alive(m)
  BY <1>5, <1>9, HubExcludes
<1>20. Frame({l}, {}, {h})
  <2>1. \A m \in Launchers : Onward(m)
    BY <1>2, <1>8, <1>13 DEF Onward, Published, Holding, Serving
  <2>2. ASSUME NEW b \in Actors
        PROVE  /\ b \in Launchers /\ rt[b].pc # "idle" => lau'[b].pc = lau[b].pc
               /\ b \in Hubs /\ rt[b].pc # "idle" => hub'[b].pc = hub[b].pc
    BY <1>1, <1>2, <1>4, <1>5, <1>13
  <2>3. ASSUME NEW k \in Hubs, k # h, NEW m \in Launchers
        PROVE  /\ lau'[m].by = k <=> lau[m].by = k
               /\ lau'[m].req = lau[m].req
    <3>1. k # None
      BY RuntimeConstants DEF Actors
    <3> QED
      BY <3>1, <2>3, <1>6, <1>8, <1>13, <1>18
  <2> QED
    BY <2>1, <2>2, <2>3, <1>5, <1>13, <1>17, <1>19 DEF Frame
<1>21. LauncherInv(l)'
  <2>1. Gated(l)'
    BY <1>5, <1>9, <1>12, <1>13 DEF Gated
  <2> QED
    BY <2>1, <1>5, <1>8, <1>13, <1>18 DEF LauncherInv, Holding, Serving
<1>22. HubInv(h)'
  <2>1. d.n # 0 /\ d.l # None /\ lau'[d.l].by = h
    BY <1>4, <1>8, <1>10, <1>11, <1>12, <1>13
  <2>2. ASSUME q.kind = "once"
        PROVE  /\ effects'[h] <= 1 /\ effects'[h] # 1
               /\ \A k, m \in Launchers : lau'[k].by = h /\ lau'[m].by = h => k = m
    <3>1. effects[h] = 0 /\ \A m \in Launchers : lau[m].by # h
      BY <2>2, <1>1, <1>5, <1>7, <1>9 DEF HubInv
    <3>2. effects'[h] = 0
      BY <3>1, <1>5
    <3> QED
      BY <3>1, <3>2, <1>13
  <2> QED
    BY <2>1, <2>2, <1>5, <1>9, <1>12, <1>13 DEF HubInv
<1> QED
  BY <1>15, <1>16, <1>20, <1>21, <1>22, LaunchersKept, CallsKept, HubsKept DEF RuntimeInv

\* stdio_client is left: the launcher that the call had is dead afterwards, so
\* the call may return and give up the gate, or reap behind it.
LEMMA HubCloseKeeps ==
    ASSUME RuntimeInv, NEW h \in Hubs, NEW childToo \in BOOLEAN, HubClose(h, childToo)
    PROVE  RuntimeInv'
<1>1. /\ HubInv(h) /\ hub \in [Hubs -> HubType] /\ hub[h] \in HubType /\ rt \in [Actors -> CallType]
      /\ h \in Actors /\ h # None /\ h \notin Launchers /\ h \notin Stops
      /\ disturbed \in 0..MaxDisturbances
      /\ hub[h].pc \notin {"slot", "slotreap", "reap", "decide"} => rt[h].pc = "idle"
      /\ gen = h => rt[h].pc = "rm_lock"
  BY HubFacts
<1>2. PICK q \in HubType : q = hub[h]
  BY <1>1
<1>3. q.pc = "close" /\ gate = h /\ q.l # None /\ lau[q.l].by = h
  BY <1>1, <1>2 DEF HubClose, HubInv
<1>4. PICK l \in Launchers : l = q.l
  BY <1>3 DEF HubType, Launchers
<1>5. /\ LauncherInv(l) /\ lau \in [Launchers -> LauncherType] /\ l \in Actors /\ l # None
      /\ l \notin Stops /\ l \notin Hubs
  BY LauncherFacts
<1> DEFINE ok == q.out = "ok"
           done == [Fresh EXCEPT !.pc = "done", !.kind = q.kind]
           reap == [q EXCEPT !.pc = "reap"]
<1>6. /\ done \in HubType /\ done.pc = "done" /\ done.kind = q.kind /\ done.out = "none"
      /\ reap \in HubType /\ reap.pc = "reap" /\ reap.kind = q.kind /\ reap.n = q.n /\ reap.out = q.out
  <2>1. 0 \in 0..MaxPolls /\ 0 \in 0..MaxAttempts
    BY RuntimeConstants
  <2> QED
    BY <2>1 DEF HubType, HubPcs, Fresh, Outcomes
<1>7. PICK c : c = IF ok THEN done ELSE reap
  OBVIOUS
<1>8. PICK r : r = IF ok THEN NoCall ELSE CallTo("reap", None)
  OBVIOUS
<1>9. /\ hub' = [hub EXCEPT ![h] = c]
      /\ RecordSuccess \/ UNCHANGED status
      /\ gate' = IF ok THEN None ELSE h
      /\ UNCHANGED <<lock, owner, effects, disturbed>>
      /\ \/ Alive(l) /\ Dies(l, childToo) /\ rt' = [[rt EXCEPT ![h] = r] EXCEPT ![l] = NoCall]
         \/ ~Alive(l) /\ rt' = [rt EXCEPT ![h] = r] /\ UNCHANGED <<lau, gen, stray>>
  <2>1. hub' = [hub EXCEPT ![h] = c]
    BY <1>2, <1>7 DEF HubClose, HubSet
  <2>2. /\ RecordSuccess \/ UNCHANGED status
        /\ gate' = IF ok THEN None ELSE h
        /\ UNCHANGED <<lock, owner, effects, disturbed>>
    BY <1>2, <1>3 DEF HubClose
  <2>3. \/ Alive(l) /\ Dies(l, childToo) /\ rt' = [[rt EXCEPT ![h] = r] EXCEPT ![l] = NoCall]
        \/ ~Alive(l) /\ rt' = [rt EXCEPT ![h] = r] /\ UNCHANGED <<lau, gen, stray>>
    <3>1. CASE Alive(l)
      BY <3>1, <1>2, <1>4, <1>8 DEF HubClose
    <3>2. CASE ~Alive(l)
      BY <3>2, <1>2, <1>4, <1>8 DEF HubClose
    <3> QED
      BY <3>1, <3>2
  <2> QED
    BY <2>1, <2>2, <2>3
<1>10. /\ c \in HubType /\ c.kind = q.kind /\ c.out # "crashed"
       /\ (ok /\ c.pc = "done" /\ gate' = None) \/ (~ok /\ c.pc = "reap" /\ c.n = q.n /\ gate' = h)
  <2>1. q.out # "crashed"
    BY <1>1, <1>2, <1>3 DEF HubInv
  <2> QED
    BY <2>1, <1>6, <1>7, <1>9
<1>11. /\ r \in CallType /\ r.lck = None /\ r.nonce = None /\ r.pc \in {"idle", "inv_lock", "stop_lock"}
       /\ r.pc # "idle" => c.pc = "reap"
  <2>1. CASE ok
    BY <2>1, <1>8, CallFields
  <2>2. CASE ~ok
    <3>1. r = CallTo("reap", None)
      BY <2>2, <1>8
    <3> QED
      BY <2>2, <3>1, <1>10, CallFields
  <2> QED
    BY <2>1, <2>2
<1> HIDE DEF ok, done, reap
<1>12. status' \in StatusType /\ CircuitCounts'
  BY <1>9, StatusKept
<1>13. rt[h].pc = "idle" /\ gen # h
  BY <1>1, <1>2, <1>3
<1>14. CASE ~Alive(l)
  BY <1>1, <1>2, <1>3, <1>4, <1>9, <1>10, <1>11, <1>12, <1>13, <1>14, HubMoves
<1>15. CASE Alive(l)
  <2>1. Dies(l, childToo) /\ rt' = [[rt EXCEPT ![h] = r] EXCEPT ![l] = NoCall]
    BY <1>9, <1>15
  <2>2. PICK d \in LauncherType :
          /\ lau' = [lau EXCEPT ![l] = d] /\ d.pc = "exited" /\ d.by = lau[l].by
          /\ d.req \in {lau[l].req, "none"}
          /\ d.child = IF childToo THEN "none" ELSE lau[l].child
          /\ (gen = l /\ gen' = None) \/ (gen # l /\ gen' = gen)
          /\ stray' \in {stray, stray \cup {l}}
          /\ d.child = "live" /\ l \notin stray' => owner = l
    BY <2>1, <1>15, DiesFields
  <2>3. d.child \in {"none", lau[l].child} /\ stray \subseteq stray'
    BY <2>2
  <2>4. NoCall \in CallType /\ NoCall.pc = "idle" /\ NoCall.lck = None /\ NoCall.nonce = None
    BY CallFields
  <2>5. /\ rt' \in [Actors -> CallType] /\ rt'[h] = r /\ rt'[l] = NoCall
        /\ \A b \in Actors : b # h /\ b # l => rt'[b] = rt[b]
    BY <2>1, <2>4, <1>1, <1>5, <1>11
  <2>6. hub'[h] = c /\ \A k \in Hubs : k # h => hub'[k] = hub[k]
    BY <1>1, <1>9
  <2>7. HubCrashed => HubCrashed'
    <3> SUFFICES ASSUME NEW k \in Hubs, hub[k].out = "crashed"  PROVE hub'[k].out = "crashed"
      BY DEF HubCrashed
    <3>1. k # h
      BY <1>1, <1>2, <1>3 DEF HubInv
    <3> QED
      BY <3>1, <2>6
  <2>8. Covered' => Covered
    BY <2>5, <2>7, <1>1, <1>5 DEF Covered, NoStop, Actors
  <2>9. LauncherInv(l)' /\ Onward(l) /\ lau'[l] = d
    BY <2>2, <2>3, <2>8, <1>9, <1>15, DeadLauncher
  <2>10. \A m \in Launchers : m # l => lau'[m] = lau[m]
    BY <2>2, <1>5
  <2>11. lau' \in [Launchers -> LauncherType] /\ hub' \in [Hubs -> HubType]
    BY <2>2, <1>1, <1>5, <1>9, <1>10
  <2>12. TypeOK /\ RecordsInv /\ gen \in Actors \cup {None}
    BY DEF RuntimeInv, TypeOK
  <2>13. TypeOK'
    <3>1. gen' \in Actors \cup {None} /\ stray' \subseteq Launchers
      BY <2>2, <2>12 DEF TypeOK
    <3>2. gate' \in Consumers \cup Hubs \cup {None}
      BY <1>10
    <3>3. lock' \in Launchers \cup {None} /\ owner' \in Launchers \cup {None}
          /\ effects' \in [Hubs -> Nat] /\ disturbed' \in 0..MaxDisturbances
      BY <2>12, <1>9 DEF TypeOK
    <3> QED
      BY <3>1, <3>2, <3>3, <2>5, <2>11, <1>12 DEF TypeOK, LauncherType, HubType, StatusType
  <2>14. RecordsInv'
    <3>1. OwnerBacked'
      BY <2>12, <1>9 DEF RecordsInv, OwnerBacked
    <3>2. gen' # None => rt'[gen'].pc = "rm_lock"
      BY <2>2, <2>5, <2>12, <1>5, <1>13 DEF RecordsInv
    <3> QED
      BY <3>1, <3>2, <1>12 DEF RecordsInv
  <2>15. ~HubCrashed => \A m \in Launchers : Alive(m) => m = l
    BY <1>2, <1>3, <1>4, HubExcludes
  <2>16. Frame({l}, {h, l}, {h})
    <3>1. \A m \in Launchers : Onward(m)
      <4>1. ASSUME NEW m \in Launchers, m # l  PROVE Onward(m)
        BY <2>10, <4>1 DEF Onward, Published
      <4> QED
        BY <4>1, <2>9
    <3>2. ASSUME NEW b \in Actors, b # h, b # l
          PROVE  /\ rt'[b] = rt[b]
                 /\ rt[b].pc = "rm_lock" => gen' = gen /\ owner' = owner /\ lock' = lock
                 /\ b \in Launchers /\ rt[b].pc # "idle" => lau'[b].pc = lau[b].pc
                 /\ b \in Hubs /\ rt[b].pc # "idle" => hub'[b].pc = hub[b].pc
      <4>1. CallInv(b)
        BY DEF RuntimeInv
      <4>2. rt[b].pc = "rm_lock" => gen = b
        BY <4>1 DEF CallInv
      <4>3. gen # l => gen' = gen
        BY <2>2
      <4> QED
        BY <4>2, <4>3, <3>2, <2>5, <2>6, <2>10, <1>9
    <3>3. ASSUME NEW k \in Hubs, k # h
          PROVE  /\ hub'[k] = hub[k] /\ effects'[k] = effects[k]
                 /\ gate = k => gate' = k
                 /\ \A m \in Launchers :
                      /\ lau'[m].by = k <=> lau[m].by = k
                      /\ lau'[m].req = "sent" => lau[m].req = "sent"
      <4>1. \A m \in Launchers : lau'[m].by = lau[m].by /\ (lau'[m].req = "sent" => lau[m].req = "sent")
        BY <2>2, <2>9, <2>10
      <4> QED
        BY <4>1, <3>3, <2>6, <1>3, <1>9
    <3>4. UNCHANGED <<lock, owner>>
      BY <1>9
    <3> QED
      BY <3>1, <3>2, <3>3, <3>4, <2>3, <2>7, <2>8, <2>10, <2>15 DEF Frame
  <2>17. CallInv(l)'
    BY <2>4, <2>5, FreshCall
  <2>18. CallInv(h)'
    BY <2>5, <2>6, <1>1, <1>10, <1>11, FreshCall
  <2>19. HubInv(h)'
    <3>1. ~(q.n = 0)
      BY <1>1, <1>2, <1>3, <1>4 DEF HubInv
    <3>2. c.kind = "once" =>
            /\ effects'[h] <= 1
            /\ \A k, m \in Launchers : lau'[k].by = h /\ lau'[m].by = h => k = m
            /\ effects'[h] = 1 => \A m \in Launchers : lau'[m].by = h =>
                 /\ lau'[m].pc \in Serving /\ lau'[m].req # "sent"
                 /\ lau'[m].pc = "serving" => lau'[m].req = "ran"
      <4>1. effects' = effects /\ c.kind = hub[h].kind
        BY <1>2, <1>9, <1>10
      <4>2. \A m \in Launchers : lau'[m].by = lau[m].by
        BY <2>2, <2>9, <2>10
      <4>3. \A m \in Launchers : lau'[m] = lau[m] \/
              (lau'[m].pc = "exited" /\ (lau'[m].req = "sent" => lau[m].req = "sent"))
        BY <2>2, <2>9, <2>10
      <4> QED
        BY <4>1, <4>2, <4>3, <1>1 DEF HubInv, Serving
    <3> QED
      BY <3>1, <3>2, <2>6, <1>10 DEF HubInv
  <2> QED
    BY <2>9, <2>13, <2>14, <2>16, <2>17, <2>18, <2>19, LaunchersKept, CallsKept, HubsKept
      DEF RuntimeInv
<1> QED
  BY <1>14, <1>15

\* The cool-down of an open circuit elapses.
LEMMA CoolDownKeeps ==
    ASSUME RuntimeInv, CoolDownElapses
    PROVE  RuntimeInv'
<1>1. /\ status \in StatusType /\ CircuitCounts /\ status.state = "circuit_open"
      /\ status' = [status EXCEPT !.state = "elapsed"]
      /\ UNCHANGED <<lock, owner, gen, gate, lau, rt, hub, effects, stray, disturbed>>
  BY DEF CoolDownElapses, RuntimeInv, TypeOK, RecordsInv, StatusType, records
<1>2. status' \in StatusType /\ CircuitCounts'
  BY <1>1 DEF StatusType, CircuitStates, CircuitCounts
<1>3. TypeOK'
  BY <1>1, <1>2 DEF RuntimeInv, TypeOK, StatusType
<1>4. RecordsInv'
  BY <1>1, <1>2 DEF RuntimeInv, RecordsInv, OwnerBacked
<1>5. /\ (HubCrashed' <=> HubCrashed) /\ (Covered' <=> Covered)
      /\ \A m \in Launchers : (Gated(m)' <=> Gated(m)) /\ Onward(m)
  BY <1>1 DEF HubCrashed, Covered, NoStop, Gated, Onward, Published
<1>6. Frame({}, {}, {})
  BY <1>1, <1>5 DEF Frame
<1> QED
  BY <1>3, <1>4, <1>6, LaunchersKept, CallsKept, HubsKept DEF RuntimeInv

-----------------------------------------------------------------------------
(* Every behaviour *)

\* Nothing runs and no record exists.
LEMMA RuntimeInit == Init => RuntimeInv
<1> SUFFICES ASSUME Init PROVE RuntimeInv
  OBVIOUS
<1>1. 0 \in 0..MaxPolls /\ 0 \in 0..MaxAttempts /\ 0 \in 0..MaxDisturbances /\ Threshold \in Nat \ {0}
  BY RuntimeConstants
<1>2. \A l \in Launchers :
        /\ lau[l].pc = "unborn" /\ lau[l].child = "none" /\ lau[l].req = "none" /\ lau[l].by = None
        /\ l # None
  BY RuntimeConstants DEF Init, Actors
<1>3. \A a \in Actors : rt[a] = NoCall /\ rt[a].pc = "idle" /\ rt[a].lck = None /\ rt[a].nonce = None
  BY CallFields DEF Init
<1>4. Fresh \in HubType /\ \A h \in Hubs :
        /\ hub[h] = Fresh /\ hub[h].pc = "idle" /\ hub[h].n = 0 /\ hub[h].out = "none" /\ effects[h] = 0
        /\ h # None
  <2>1. Fresh \in HubType /\ Fresh.pc = "idle" /\ Fresh.n = 0 /\ Fresh.out = "none"
    BY <1>1 DEF Fresh, HubType, HubPcs, Kinds, Outcomes
  <2> QED
    BY <2>1, RuntimeConstants DEF Init, Actors
<1>5. TypeOK
  <2>1. lau \in [Launchers -> LauncherType]
    BY <1>1 DEF Init, LauncherType, LauncherPcs
  <2>2. rt \in [Actors -> CallType]
    BY CallFields DEF Init
  <2>3. hub \in [Hubs -> HubType] /\ effects \in [Hubs -> Nat]
    BY <1>4 DEF Init
  <2>4. status \in StatusType
    BY DEF Init, DefaultStatus, StatusType, CircuitStates
  <2>5. /\ lock = None /\ owner = None /\ gen = None /\ gate = None /\ stray = {} /\ disturbed = 0
    BY DEF Init
  <2> QED
    BY <2>1, <2>2, <2>3, <2>4, <2>5, <1>1 DEF TypeOK, LauncherType, HubType, StatusType
<1>6. RecordsInv
  BY <1>1 DEF Init, RecordsInv, OwnerBacked, CircuitCounts, DefaultStatus
<1>7. ASSUME NEW l \in Launchers PROVE LauncherInv(l)
  <2>1. lock = None
    BY DEF Init
  <2> QED
    BY <2>1, <1>2 DEF LauncherInv, Holding, Serving, Alive
<1>8. ASSUME NEW a \in Actors PROVE CallInv(a)
  BY <1>3 DEF CallInv, Removing
<1>9. ASSUME NEW h \in Hubs PROVE HubInv(h)
  BY <1>2, <1>4 DEF HubInv
<1> QED
  BY <1>5, <1>6, <1>7, <1>8, <1>9 DEF RuntimeInv

\* One case for each action.
LEMMA RuntimePreserved == RuntimeInv /\ [Next]_vars => RuntimeInv'
<1> SUFFICES ASSUME RuntimeInv, [Next]_vars PROVE RuntimeInv'
  OBVIOUS
<1>1. ASSUME NEW a \in Actors, RuntimeStep(a)  PROVE RuntimeInv'
  BY <1>1, ReadLockFileKeeps, InventoryKeeps, StopReadKeeps, TerminateKeeps, RemoveKeeps,
     RefusalKeeps DEF RuntimeStep
<1>2. ASSUME NEW l \in Launchers, LauncherStep(l)  PROVE RuntimeInv'
  BY <1>2, EarlyStepsKeep, PublishKeeps, SpawnKeeps, PromoteKeeps, EndKeeps DEF LauncherStep
<1>3. ASSUME NEW h \in Hubs, HubStep(h)  PROVE RuntimeInv'
  <2>1. CASE HubSend(h)
    <3>1. HubInv(h) /\ hub[h] \in HubType /\ hub[h].pc = "wait"
      BY <2>1, HubFacts DEF HubSend
    <3>2. hub[h].l \in Launchers
      BY <3>1 DEF HubInv, HubType, Launchers
    <3> QED
      BY <2>1, <3>2, ServerStepsKeep
  <2>2. ASSUME NEW end \in {"ok", "transport", "timeout", "failed"}, HubOutcome(h, end)
        PROVE  RuntimeInv'
    BY <2>2, HubOutcomeKeeps
  <2>3. ASSUME NEW childToo \in BOOLEAN, HubClose(h, childToo)  PROVE RuntimeInv'
    BY <2>3, HubCloseKeeps
  <2>4. CASE HubGate(h) \/ HubSlot(h) \/ HubSlotReaped(h) \/ HubSpawn(h) \/ HubReaped(h) \/ HubDecide(h)
    BY <2>4, HubEntersKeeps, HubSlotKeeps, HubSpawnKeeps, HubReapedKeeps, HubDecideKeeps
  <2> QED
    BY <1>3, <2>1, <2>2, <2>3, <2>4 DEF HubStep
<1>4. CASE Environment
  <2>1. CASE CoolDownElapses
    BY <2>1, CoolDownKeeps
  <2>2. ASSUME NEW l \in Launchers,
               \/ LauncherKilled(l) \/ OrphanExits(l) \/ LauncherSourceBad(l)
               \/ LauncherSpawnFails(l) \/ \E ok \in BOOLEAN : LauncherServed(l, ok)
        PROVE  RuntimeInv'
    BY <2>2, LauncherKilledKeeps, ServerStepsKeep, EarlyStepsKeep, SpawnKeeps, EndKeeps
  <2>3. ASSUME NEW l \in Consumers, LauncherGate(l)  PROVE RuntimeInv'
    BY <2>3, EarlyStepsKeep DEF Launchers
  <2>4. ASSUME NEW l \in Pool, ToolRuns(l)  PROVE RuntimeInv'
    BY <2>4, ToolRunsKeeps
  <2>5. ASSUME NEW h \in Hubs,
               \/ HubKilled(h) \/ HubCancelled(h) \/ HubOutcome(h, "cancelled")
               \/ \E kind \in Kinds : HubEnter(h, kind)
        PROVE  RuntimeInv'
    BY <2>5, HubKilledKeeps, HubDecideKeeps, HubOutcomeKeeps, HubEntersKeeps
  <2>6. ASSUME NEW s \in Stops, StopCommand(s)  PROVE RuntimeInv'
    BY <2>6, StopCommandKeeps
  <2>7. ASSUME NEW a \in Actors, TerminateFails(a)  PROVE RuntimeInv'
    BY <2>7, RefusalKeeps
  <2> QED
    BY <1>4, <2>1, <2>2, <2>3, <2>4, <2>5, <2>6, <2>7 DEF Environment
<1>5. CASE UNCHANGED vars
  <2>1. UNCHANGED <<lock, owner, gen, gate, status, lau, rt, hub, effects, stray, disturbed>>
    BY <1>5 DEF vars
  <2>2. TypeOK' /\ RecordsInv'
    BY <2>1 DEF RuntimeInv, TypeOK, RecordsInv, OwnerBacked, CircuitCounts
  <2>3. /\ (HubCrashed' <=> HubCrashed) /\ (Covered' <=> Covered)
        /\ \A m \in Launchers : (Gated(m)' <=> Gated(m)) /\ Onward(m)
    BY <2>1 DEF HubCrashed, Covered, NoStop, Gated, Onward, Published
  <2>4. Frame({}, {}, {})
    BY <2>1, <2>3 DEF Frame
  <2> QED
    BY <2>2, <2>4, LaunchersKept, CallsKept, HubsKept DEF RuntimeInv
<1> QED
  BY <1>1, <1>2, <1>3, <1>4, <1>5 DEF Next

\* The inductive invariant holds in every behaviour.
LEMMA RuntimeInvariant == Spec => []RuntimeInv
BY RuntimeInit, RuntimePreserved, PTL DEF Spec

\* The two ownership records never contradict each other, the breaker matches
\* its count, and behind the operation gate one server runs at a time, whatever
\* launchers, hub calls and kills interleave (OwnershipSound).
THEOREM OwnershipHolds == Spec => []OwnershipSound
<1>1. RuntimeInv => OwnershipSound
  <2> SUFFICES ASSUME RuntimeInv PROVE OwnershipSound
    OBVIOUS
  <2>1. TypeOK /\ OwnerBacked /\ CircuitCounts
    BY DEF RuntimeInv, RecordsInv
  <2>2. OneServer
    <3> SUFFICES ASSUME ~HubCrashed, \A s \in Stops : rt[s] = NoCall,
                        NEW l \in Launchers \ stray, NEW m \in Launchers \ stray,
                        lau[l].child = "live", lau[m].child = "live"
                 PROVE  l = m
      BY DEF OneServer
    <3>1. Covered /\ LauncherInv(l) /\ LauncherInv(m)
      BY DEF Covered, NoStop, RuntimeInv
    <3> QED
      BY <3>1 DEF LauncherInv
  <2> QED
    BY <2>1, <2>2 DEF OwnershipSound
<1> QED
  BY <1>1, RuntimeInvariant, PTL

\* A tool that is not idempotent runs at most once per hub call, whatever
\* time-outs, late effects, retries and deaths the call meets.
THEOREM ToolRunsOnce == Spec => []NotIdempotentOnce
<1>1. RuntimeInv => NotIdempotentOnce
  BY DEF RuntimeInv, HubInv, NotIdempotentOnce
<1> QED
  BY <1>1, RuntimeInvariant, PTL

\* Only the second unlink of remove_runtime_record takes a lock file away.
LEMMA LockKept ==
    ASSUME RuntimeInv, Next, NEW l \in Launchers, lock = l, lock' # l
    PROVE  \E a \in Actors : rt[a].pc = "rm_lock" /\ Remove(a)
<1>1. l # None
  BY RuntimeConstants DEF Actors
<1>2. ASSUME NEW a \in Actors, RuntimeStep(a) \/ TerminateFails(a)
      PROVE  rt[a].pc = "rm_lock" /\ Remove(a)
  BY <1>2 DEF RuntimeStep, ReadLockFile, Inventory, StopRead, Terminate, TerminateFails, Remove,
     RemoveRecord, RemoveRefused, RtOnly, records
<1>3. ASSUME NEW m \in Launchers, LauncherStep(m)  PROVE FALSE
  BY <1>1, <1>3 DEF LauncherStep, LauncherCircuit, LauncherLock, LauncherLockTaken,
    LauncherLook,
     LauncherReaped, LauncherRecheck, LauncherSpawn, LauncherPromote, LauncherFinal,
     LauncherRemoved, records
<1>4. ASSUME NEW h \in Hubs, HubStep(h)  PROVE FALSE
  BY <1>4 DEF HubStep, HubGate, HubSlot, HubSlotReaped, HubSpawn, HubSend, HubOutcome, HubClose,
     HubReaped, HubDecide, records
<1>5. CASE Environment /\ ~\E a \in Actors : TerminateFails(a)
  BY <1>5 DEF Environment, CoolDownElapses, LauncherKilled, OrphanExits, LauncherSourceBad,
     LauncherSpawnFails, LauncherServed, LauncherGate, ToolRuns, HubKilled, HubCancelled,
     HubOutcome, HubEnter, StopCommand, records
<1> QED
  BY <1>2, <1>3, <1>4, <1>5 DEF Next

\* A launcher that is alive keeps its generation until it removes it itself, and
\* behind the operation gate a reaper ends nothing of a live launcher, although
\* every reader takes no lock and reads the records twice (LiveGenerationSpared).
THEOREM LiveGenerationsKept == Spec => LiveGenerationSpared
<1>1. ASSUME RuntimeInv, [Next]_vars, NEW l \in Launchers, lock = l, lock' # l
      PROVE  ~Alive(l) \/ lau[l].pc = "remove"
  <2>1. Next
    BY <1>1 DEF vars
  <2>2. PICK a \in Actors : rt[a].pc = "rm_lock" /\ Remove(a)
    BY <2>1, <1>1, LockKept
  <2>3. CallInv(a) /\ l # None
    BY <1>1, RuntimeConstants DEF RuntimeInv, Actors
  <2>4. rt[a].nonce = l
    BY <2>2, <2>3, <1>1 DEF CallInv
  <2> QED
    BY <2>2, <2>3, <2>4 DEF CallInv, Removing
<1>2. ASSUME RuntimeInv, NEW a \in Launchers \cup Hubs, rt[a].pc = "kill", ~HubCrashed
      PROVE  ~Alive(rt[a].nonce)
  <2>1. a \in Actors /\ a \notin Stops
    BY RuntimeConstants DEF Actors
  <2> QED
    BY <2>1, <1>2 DEF RuntimeInv, CallInv
<1>3. RuntimeInv /\ [Next]_vars =>
        [\A l \in Launchers : lock = l /\ lock' # l => ~Alive(l) \/ lau[l].pc = "remove"]_vars
  BY <1>1
<1>4. RuntimeInv /\ [Next]_vars =>
        [\A a \in Launchers \cup Hubs :
           rt[a].pc = "kill" /\ rt'[a].pc = "rm_owner" /\ ~HubCrashed => ~Alive(rt[a].nonce)]_vars
  BY <1>2
<1>5. Spec => GenerationKept
  BY <1>3, RuntimeInvariant, PTL DEF Spec, GenerationKept
<1>6. Spec => ReapSparesLive
  BY <1>4, RuntimeInvariant, PTL DEF Spec, ReapSparesLive
<1> QED
  BY <1>5, <1>6 DEF LiveGenerationSpared

-----------------------------------------------------------------------------
Statuses == {"rejected", "ok", "failed", "timed_out", "cancelled"}

(***************************************************************************)
(* The inductive invariant.  Threads meet only in the table, so each part  *)
(* says what the table owes to somebody who is not looking at it.          *)
(***************************************************************************)

\* Whoever was sent has an id, and an entry stands under the id of its request.
KeysKnown ==
    /\ \A r \in inbox : key[r] \in Keys
    /\ \A k \in Keys : Open(k) => key[table[k].r] = k
    /\ out.pc \in {"audit", "close"} <=> out.r # Nothing
    /\ out.r # Nothing => out.r \in Lists \cup Calls /\ key[out.r] \in Keys /\ out.for \in served
    /\ dog.pc = "audit" => dog.r \in Calls /\ key[dog.r] \in Keys

\* An answer exists once: still to be given, on its way, or in the output pump.
AnswersOnce ==
    /\ \A l \in lines : l.for \in served
    /\ \A l, m \in lines : l.for = m.for => l = m
    /\ out.r # Nothing => \A l \in lines : l.for # out.for

\* The server has not answered q, or nobody has dealt with the answer yet.
Outstanding(q) ==
    \/ q \in inbox \ served
    \/ \E l \in lines : l.for = q
    \/ out.r # Nothing /\ out.for = q

\* Until the watchdog acts, the id of an outstanding request is not given away: its
\* entry stays, or the main thread has emptied the table for good.
IdsHeld ==
    dog.pc = "watch" =>
        /\ \A q \in inbox : Outstanding(q) =>
             IF Open(key[q]) THEN table[key[q]].r = q ELSE main = "done"
        /\ out.r # Nothing => out.r = out.for

\* A call that is not overtaken has no final entry while somebody is still to
\* write one.
EntryToCome ==
    /\ \A r \in Requests : key[r] = Nothing => audit[r] = {}
    /\ \A k \in OpenCalls : ~table[k].cancelled /\ table[k].r \notin overtaken =>
         audit[table[k].r] = {} \/ (out.pc = "close" /\ out.r = table[k].r)
    /\ out.pc = "audit" /\ out.r \in Calls /\ out.r \notin overtaken => audit[out.r] = {}
    /\ dog.pc = "audit" =>
         /\ \A k \in Keys : Open(k) => table[k].r # dog.r
         /\ dog.r \notin overtaken => audit[dog.r] = {} /\ out.r # dog.r
    /\ \A r \in Requests \ overtaken : audit[r] = {} \/ \E s \in Statuses : audit[r] = {s}

\* While the log works, a call that reached the server is in the log, or is open,
\* or is about to be audited; the main thread leaves no call open.
Accounted ==
    /\ main = "done" => OpenCalls = {}
    /\ "audit_failure" \notin flags =>
         /\ out.pc = "close" /\ out.r \in Calls => audit[out.r] # {}
         /\ \A r \in inbox \cap Calls : (\A q \in Requests : key[q] = key[r] => q = r) =>
              \/ audit[r] # {}
              \/ Open(key[r]) /\ table[key[r]].r = r /\ ~table[key[r]].cancelled
              \/ out.pc = "audit" /\ out.r = r
              \/ dog.pc = "audit" /\ dog.r = r

SessionInv ==
    SessionTypeOK /\ KeysKnown /\ AnswersOnce /\ IdsHeld /\ AnswerMatches /\ EntryToCome /\ Accounted

\* notifications/cancelled marks an entry and leaves it one (launcher.py: client_line).
LEMMA CancelledEntry ==
    ASSUME NEW e \in Entry PROVE [e EXCEPT !.cancelled = TRUE] \in Entry
BY DEF Entry

\* A request refused for the state of the session never reaches the table
\* (launcher.py: client_line).
LEMMA ClientRefusedKeepsSessionInv ==
    ASSUME SessionInv, NEW r \in Requests, NEW k \in Keys, ClientRefused(r, k) PROVE SessionInv'
<1> USE ProtocolConstants DEF SessionInv, Requests, Entry, Open, OpenCalls, Statuses,
    ClientRefused, Sends, Listening, Audited, AuditWrite, AuditFails
<1>1. SessionTypeOK'
  BY DEF SessionTypeOK, KeysKnown
<1>2. KeysKnown'
  BY DEF SessionTypeOK, KeysKnown
<1>3. AnswersOnce'
  BY DEF SessionTypeOK, KeysKnown, AnswersOnce
<1>4. IdsHeld'
  BY DEF SessionTypeOK, KeysKnown, AnswersOnce, IdsHeld, Outstanding
<1>5. AnswerMatches'
  BY DEF SessionTypeOK, KeysKnown, AnswersOnce, IdsHeld, Outstanding, AnswerMatches
<1>6. EntryToCome'
  BY DEF SessionTypeOK, KeysKnown, EntryToCome
<1>7. Accounted'
  BY DEF SessionTypeOK, KeysKnown, Accounted
<1> QED BY <1>1, <1>2, <1>3, <1>4, <1>5, <1>6, <1>7

\* A new entry goes under a free id, so no outstanding request loses its own
\* (launcher.py: client_line).
LEMMA ClientForwardKeepsSessionInv ==
    ASSUME SessionInv, NEW r \in Requests, NEW k \in Keys, ClientForward(r, k) PROVE SessionInv'
<1> USE ProtocolConstants DEF SessionInv, Requests, Entry, Open, OpenCalls, Statuses,
    ClientForward, Refused, Sends, Listening
<1>1. SessionTypeOK'
  BY DEF SessionTypeOK, KeysKnown
<1>2. KeysKnown'
  BY DEF SessionTypeOK, KeysKnown
<1>3. AnswersOnce'
  BY DEF SessionTypeOK, KeysKnown, AnswersOnce
<1>4. IdsHeld'
  <2> SUFFICES ASSUME dog.pc = "watch", NEW q \in inbox', Outstanding(q)'
               PROVE  (IF Open(key[q]) THEN table[key[q]].r = q ELSE main = "done")'
    BY DEF IdsHeld
  <2>0. CASE q = r
    <3>1. [r |-> r, cancelled |-> FALSE] \in Entry
      OBVIOUS
    <3> QED BY ZenonT(40), <2>0, <3>1 DEF SessionTypeOK
  <2>2. CASE q # r
    <3>1. q \in inbox /\ Outstanding(q) /\ key'[q] = key[q] /\ key[q] \in Keys
      BY <2>2 DEF SessionTypeOK, KeysKnown, Outstanding
    <3>2. Open(key[q]) /\ table[key[q]].r = q
      BY <3>1 DEF IdsHeld
    <3> QED BY <3>1, <3>2 DEF SessionTypeOK
  <2> QED BY <2>0, <2>2
<1>5. AnswerMatches'
  BY DEF SessionTypeOK, KeysKnown, AnswersOnce, IdsHeld, Outstanding, AnswerMatches
<1>6. EntryToCome'
  BY DEF SessionTypeOK, KeysKnown, EntryToCome
<1>7. Accounted'
  <2>1. main # "done"
    OBVIOUS
  <2> SUFFICES ASSUME "audit_failure" \notin flags, NEW q \in inbox' \cap Calls,
                      \A p \in Requests : key'[p] = key'[q] => p = q
               PROVE  \/ audit[q] # {}
                      \/ table'[key'[q]] # Nothing /\ table'[key'[q]].r = q /\ ~table'[key'[q]].cancelled
                      \/ out.pc = "audit" /\ out.r = q
                      \/ dog.pc = "audit" /\ dog.r = q
    BY <2>1 DEF Accounted, SessionTypeOK
  <2>2. CASE q = r
    <3>1. [r |-> r, cancelled |-> FALSE] \in Entry
      OBVIOUS
    <3>2. key'[r] = k /\ table'[k] = [r |-> r, cancelled |-> FALSE] /\ table'[k] # Nothing
      BY ZenonT(40), <3>1 DEF SessionTypeOK
    <3> QED BY <2>2, <3>2
  <2>3. CASE q # r
    <3>1. q \in inbox \cap Calls /\ key'[q] = key[q] /\ key[q] \in Keys /\ key[q] # k
      BY <2>3 DEF SessionTypeOK, KeysKnown
    <3>2. \A p \in Requests : key[p] = key[q] => p = q
      BY <3>1 DEF SessionTypeOK
    <3> QED BY <3>1, <3>2 DEF SessionTypeOK, Accounted
  <2> QED BY <2>2, <2>3
<1> QED BY <1>1, <1>2, <1>3, <1>4, <1>5, <1>6, <1>7

\* A cancelled call stays in the table; if the output pump holds its answer, it is
\* overtaken (launcher.py: client_line).
LEMMA ClientCancelKeepsSessionInv ==
    ASSUME SessionInv, NEW k \in Keys, ClientCancel(k) PROVE SessionInv'
<1> USE ProtocolConstants DEF SessionInv, Requests, Entry, Open, OpenCalls, Statuses,
    ClientCancel, Listening, Audited, AuditWrite, AuditFails
<1>1. SessionTypeOK'
  <2>0. table[k] \in Entry /\ [table[k] EXCEPT !.cancelled = TRUE] \in Entry
    BY CancelledEntry DEF SessionTypeOK
  <2>1. table' \in [Keys -> Entry \cup {Nothing}]
    BY <2>0 DEF SessionTypeOK
  <2>2. flags' \subseteq {"ready", "schema_failure", "audit_failure"} /\ faults' \in 0..AuditFaults
    BY DEF SessionTypeOK
  <2>3. audit' \in [Requests -> SUBSET {"rejected", "ok", "failed", "timed_out", "cancelled"}]
    BY DEF SessionTypeOK
  <2> QED BY <2>1, <2>2, <2>3 DEF SessionTypeOK
<1>2. KeysKnown'
  BY DEF SessionTypeOK, KeysKnown
<1>3. AnswersOnce'
  BY DEF SessionTypeOK, KeysKnown, AnswersOnce
<1>4. IdsHeld'
  <2>0. table[k] \in Entry /\ [table[k] EXCEPT !.cancelled = TRUE] \in Entry
    BY CancelledEntry DEF SessionTypeOK
  <2>1. \A j \in Keys : Open(j)' = Open(j) /\ (Open(j) => table'[j].r = table[j].r)
    BY <2>0 DEF SessionTypeOK
  <2> QED BY <2>1 DEF SessionTypeOK, KeysKnown, IdsHeld, Outstanding
<1>5. AnswerMatches'
  BY DEF SessionTypeOK, KeysKnown, AnswersOnce, IdsHeld, Outstanding, AnswerMatches
<1>6. EntryToCome'
  BY DEF SessionTypeOK, KeysKnown, EntryToCome
<1>7. Accounted'
  BY DEF SessionTypeOK, KeysKnown, Accounted
<1> QED BY <1>1, <1>2, <1>3, <1>4, <1>5, <1>6, <1>7

\* The server process answers each request once (external).
LEMMA ServerAnswersKeepsSessionInv ==
    ASSUME SessionInv, NEW r \in Requests, NEW good \in BOOLEAN, ServerAnswers(r, good)
    PROVE  SessionInv'
<1> USE ProtocolConstants DEF SessionInv, Requests, Entry, Open, OpenCalls, Statuses,
    ServerAnswers
<1>1. SessionTypeOK'
  BY DEF SessionTypeOK, KeysKnown
<1>2. KeysKnown'
  BY DEF SessionTypeOK, KeysKnown
<1>3. AnswersOnce'
  BY DEF SessionTypeOK, KeysKnown, AnswersOnce
<1>4. IdsHeld'
  BY DEF SessionTypeOK, KeysKnown, AnswersOnce, IdsHeld, Outstanding
<1>5. AnswerMatches'
  BY DEF SessionTypeOK, KeysKnown, AnswersOnce, IdsHeld, Outstanding, AnswerMatches
<1>6. EntryToCome'
  BY DEF SessionTypeOK, KeysKnown, EntryToCome
<1>7. Accounted'
  BY DEF SessionTypeOK, KeysKnown, Accounted
<1> QED BY <1>1, <1>2, <1>3, <1>4, <1>5, <1>6, <1>7

\* The line that is read answers the entry under its id (launcher.py: server_line).
LEMMA OutReadKeepsSessionInv ==
    ASSUME SessionInv, NEW line \in lines, OutRead(line) PROVE SessionInv'
<1> USE ProtocolConstants DEF SessionInv
<1> DEFINE q == line.for
           k == key[q]
           r == IF Open(k) THEN table[k].r ELSE Nothing
<1>1. /\ q \in served /\ q \in Requests /\ k \in Keys /\ out.pc = "read" /\ out.r = Nothing
      /\ lines' = lines \ {line}
      /\ UNCHANGED <<key, inbox, served, child, input, dog, main, audit, overtaken, faults>>
  BY DEF OutRead, SessionTypeOK, KeysKnown, AnswersOnce
<1>2. ASSUME \/ r \in Protocol /\ answers' = [answers EXCEPT ![r] = @ \cup {q}]
             \/ r \in Calls /\ table[k].cancelled /\ answers' = answers,
             table' = [table EXCEPT ![k] = Nothing], UNCHANGED <<out, flags>>
      PROVE  SessionInv'
  <2> USE DEF Requests, Entry, Open
  <2>1. Open(k) /\ r = table[k].r /\ r \in Requests /\ key[r] = k
    BY <1>1, <1>2 DEF SessionTypeOK, KeysKnown
  <2>2. \A m \in Keys : table'[m] = IF m = k THEN Nothing ELSE table[m]
    BY <1>2 DEF SessionTypeOK
  <2>3. SessionTypeOK'
    <3>1. table' \in [Keys -> Entry \cup {Nothing}]
      BY <1>2 DEF SessionTypeOK
    <3>2. answers' \in [Requests -> SUBSET Requests]
      BY <1>1, <1>2, <2>1 DEF SessionTypeOK
    <3>3. lines' \subseteq [for : Requests, good : BOOLEAN]
      BY <1>1 DEF SessionTypeOK
    <3> QED BY <1>1, <1>2, <3>1, <3>2, <3>3 DEF SessionTypeOK
  <2> HIDE DEF k, r
  <2>4. KeysKnown'
    <3>1. \A m \in Keys : Open(m)' => Open(m) /\ table'[m] = table[m]
      BY <2>2
    <3> QED BY <1>1, <1>2, <3>1 DEF KeysKnown
  <2>5. AnswersOnce'
    BY <1>1, <1>2 DEF AnswersOnce
  <2>6. IdsHeld' /\ AnswerMatches'
    <3>1. IdsHeld'
      <4> SUFFICES ASSUME dog.pc = "watch", NEW p \in inbox, Outstanding(p)'
                   PROVE  IF Open(key[p])' THEN table'[key[p]].r = p ELSE main = "done"
        BY <1>1, <1>2 DEF IdsHeld
      <4>1. p # q /\ Outstanding(p)
        BY <1>1, <1>2 DEF AnswersOnce, Outstanding
      <4>2. IF Open(key[p]) THEN table[key[p]].r = p ELSE main = "done"
        BY <4>1 DEF IdsHeld
      <4>3. Outstanding(q) /\ q \in inbox
        BY <1>1 DEF Outstanding, SessionTypeOK
      <4>4. r = q
        BY <2>1, <4>3 DEF IdsHeld, k
      <4>5. key[p] \in Keys /\ key[p] # k
        BY <2>1, <4>1, <4>2, <4>4 DEF KeysKnown
      <4> QED BY <1>1, <2>2, <4>2, <4>5
    <3>2. dog.pc = "watch" => r = q
      <4>1. Outstanding(q)
        BY <1>1 DEF Outstanding
      <4>2. q \in inbox
        BY <1>1 DEF SessionTypeOK
      <4> QED BY <2>1, <4>1, <4>2 DEF IdsHeld, k
    <3>3. \A p \in Requests : answers'[p] \subseteq answers[p] \cup (IF p = r THEN {q} ELSE {})
      <4>1. answers \in [Requests -> SUBSET Requests]
        BY DEF SessionTypeOK
      <4>2. answers' = answers \/ answers' = [answers EXCEPT ![r] = @ \cup {q}]
        BY <1>2
      <4> QED BY <2>1, <4>1, <4>2
    <3>4. AnswerMatches'
      BY <1>1, <3>2, <3>3 DEF AnswerMatches
    <3> QED BY <3>1, <3>4
  <2>7. EntryToCome'
    BY <1>1, <1>2, <2>2 DEF EntryToCome, OpenCalls
  <2>8. Accounted'
    BY <1>1, <1>2, <2>1, <2>2 DEF Accounted, OpenCalls, k
  <2> QED BY <2>3, <2>4, <2>5, <2>6, <2>7, <2>8
<1>3. ASSUME r \in Lists \/ (r \in Calls /\ ~table[k].cancelled),
             out' = [pc |-> "audit", r |-> r, for |-> q, good |-> line.good],
             flags' = flags \cup SchemaEvent(r, line.good), UNCHANGED <<table, answers>>
      PROVE  SessionInv'
  <2> USE DEF Requests, Entry, Open
  <2>1. Open(k) /\ r = table[k].r /\ r \in Requests /\ key[r] = k
    BY <1>1, <1>3 DEF SessionTypeOK, KeysKnown
  <2>2. out'.pc = "audit" /\ out'.r = r /\ out'.for = q /\ r # Nothing
    BY <1>3, <2>1
  <2>3. SessionTypeOK'
    BY <1>1, <1>3, <2>1 DEF SessionTypeOK, SchemaEvent
  <2> HIDE DEF k, r
  <2>4. KeysKnown'
    BY <1>1, <1>3, <2>1, <2>2 DEF KeysKnown
  <2>5. AnswersOnce'
    BY <1>1, <1>3, <2>2 DEF AnswersOnce
  <2>6. IdsHeld' /\ AnswerMatches'
    BY <1>1, <1>3, <2>1, <2>2 DEF SessionTypeOK, KeysKnown, AnswersOnce, IdsHeld, Outstanding,
      AnswerMatches, k
  <2>7. EntryToCome'
    BY <1>1, <1>3, <2>1, <2>2 DEF SessionTypeOK, EntryToCome, OpenCalls
  <2>8. Accounted'
    BY <1>1, <1>3, <2>1, <2>2 DEF Accounted, OpenCalls, SchemaEvent, k
  <2> QED BY <2>3, <2>4, <2>5, <2>6, <2>7, <2>8
<1>4. ASSUME r = Nothing, UNCHANGED <<table, answers, out, flags>> PROVE SessionInv'
  <2>1. SessionTypeOK'
    BY <1>1, <1>4 DEF SessionTypeOK
  <2>2. KeysKnown' /\ AnswersOnce'
    BY <1>1, <1>4 DEF KeysKnown, AnswersOnce, Open
  <2>3. IdsHeld' /\ AnswerMatches'
    BY <1>1, <1>4 DEF IdsHeld, Outstanding, AnswerMatches, Open
  <2>4. EntryToCome' /\ Accounted'
    BY <1>1, <1>4 DEF EntryToCome, Accounted, OpenCalls, Open
  <2> QED BY <2>1, <2>2, <2>3, <2>4
<1>5. \/ r \in Protocol /\ answers' = [answers EXCEPT ![r] = @ \cup {q}]
         /\ table' = [table EXCEPT ![k] = Nothing] /\ UNCHANGED <<out, flags>>
      \/ r \in Calls /\ table[k].cancelled /\ answers' = answers
         /\ table' = [table EXCEPT ![k] = Nothing] /\ UNCHANGED <<out, flags>>
      \/ (r \in Lists \/ (r \in Calls /\ ~table[k].cancelled))
         /\ out' = [pc |-> "audit", r |-> r, for |-> q, good |-> line.good]
         /\ flags' = flags \cup SchemaEvent(r, line.good) /\ UNCHANGED <<table, answers>>
      \/ r = Nothing /\ UNCHANGED <<table, answers, out, flags>>
  BY DEF OutRead
<1> HIDE DEF q, k, r
<1> QED BY <1>2, <1>3, <1>4, <1>5

\* A malformed line changes nothing but the pump (launcher.py: server_line).
LEMMA OutBadLineKeepsSessionInv ==
    ASSUME SessionInv, OutBadLine PROVE SessionInv'
<1> USE ProtocolConstants DEF SessionInv, Requests, Entry, Open, OpenCalls, Statuses,
    OutBadLine, AuditFails, OutIdle
<1>1. SessionTypeOK'
  <2>1. out' = [pc |-> "stop", r |-> Nothing, for |-> Nothing, good |-> TRUE]
    OBVIOUS
  <2>2. flags' \subseteq {"ready", "schema_failure", "audit_failure"} /\ faults' \in 0..AuditFaults
    BY DEF SessionTypeOK
  <2> QED BY <2>1, <2>2 DEF SessionTypeOK
<1>2. KeysKnown'
  BY DEF SessionTypeOK, KeysKnown
<1>3. AnswersOnce'
  BY DEF SessionTypeOK, KeysKnown, AnswersOnce
<1>4. IdsHeld'
  BY DEF SessionTypeOK, KeysKnown, AnswersOnce, IdsHeld, Outstanding
<1>5. AnswerMatches'
  BY DEF SessionTypeOK, KeysKnown, AnswersOnce, IdsHeld, Outstanding, AnswerMatches
<1>6. EntryToCome'
  BY DEF SessionTypeOK, KeysKnown, EntryToCome
<1>7. Accounted'
  BY DEF SessionTypeOK, KeysKnown, Accounted
<1> QED BY <1>1, <1>2, <1>3, <1>4, <1>5, <1>6, <1>7

\* The pump audits without the lock (launcher.py: server_line).
LEMMA OutAuditKeepsSessionInv ==
    ASSUME SessionInv, OutAudit PROVE SessionInv'
<1> USE ProtocolConstants DEF SessionInv, Requests, Entry, Open, OpenCalls, Statuses,
    OutAudit, Audited
<1>1. SessionTypeOK'
  BY DEF SessionTypeOK, KeysKnown
<1>2. KeysKnown'
  BY DEF SessionTypeOK, KeysKnown
<1>3. AnswersOnce'
  BY DEF SessionTypeOK, KeysKnown, AnswersOnce
<1>4. IdsHeld'
  BY DEF SessionTypeOK, KeysKnown, AnswersOnce, IdsHeld, Outstanding
<1>5. AnswerMatches'
  BY DEF SessionTypeOK, KeysKnown, AnswersOnce, IdsHeld, Outstanding, AnswerMatches
<1>6. EntryToCome'
  BY DEF SessionTypeOK, KeysKnown, EntryToCome
<1>7. Accounted'
  BY DEF SessionTypeOK, KeysKnown, Accounted
<1> QED BY <1>1, <1>2, <1>3, <1>4, <1>5, <1>6, <1>7

\* The pump removes what is under the id, whoever it belongs to
\* (launcher.py: _close_response_state).
LEMMA OutCloseKeepsSessionInv ==
    ASSUME SessionInv, OutClose PROVE SessionInv'
<1> USE ProtocolConstants DEF SessionInv, Requests, Entry, Open, OpenCalls, Statuses,
    OutClose, Closed, OutIdle
<1>1. SessionTypeOK'
  <2>1. \E pc \in {"stop", "read"} : out' = [pc |-> pc, r |-> Nothing, for |-> Nothing, good |-> TRUE]
    OBVIOUS
  <2>2. out.r \in Requests /\ out.for \in Requests /\ key[out.r] \in Keys
    BY DEF SessionTypeOK, KeysKnown
  <2> QED BY ZenonT(40), <2>1, <2>2 DEF SessionTypeOK
<1>2. KeysKnown'
  BY DEF SessionTypeOK, KeysKnown
<1>3. AnswersOnce'
  BY DEF SessionTypeOK, KeysKnown, AnswersOnce
<1>4. IdsHeld'
  BY DEF SessionTypeOK, KeysKnown, AnswersOnce, IdsHeld, Outstanding
<1>5. AnswerMatches'
  BY DEF SessionTypeOK, KeysKnown, AnswersOnce, IdsHeld, Outstanding, AnswerMatches
<1>6. EntryToCome'
  BY DEF SessionTypeOK, KeysKnown, EntryToCome
<1>7. Accounted'
  BY DEF SessionTypeOK, KeysKnown, Accounted
<1> QED BY <1>1, <1>2, <1>3, <1>4, <1>5, <1>6, <1>7

\* The output pump ends.
LEMMA OutEndKeepsSessionInv ==
    ASSUME SessionInv, OutStop \/ OutEnds PROVE SessionInv'
<1> USE ProtocolConstants DEF SessionInv, Requests, Entry, Open, OpenCalls, Statuses, OutStop,
    OutEnds, OutIdle
<1>1. SessionTypeOK'
  <2>1. out' = [pc |-> "ended", r |-> Nothing, for |-> Nothing, good |-> TRUE]
    OBVIOUS
  <2> QED BY <2>1 DEF SessionTypeOK
<1>2. KeysKnown'
  BY DEF SessionTypeOK, KeysKnown
<1>3. AnswersOnce'
  BY DEF SessionTypeOK, KeysKnown, AnswersOnce
<1>4. IdsHeld'
  BY DEF SessionTypeOK, KeysKnown, AnswersOnce, IdsHeld, Outstanding
<1>5. AnswerMatches'
  BY DEF SessionTypeOK, KeysKnown, AnswersOnce, IdsHeld, Outstanding, AnswerMatches
<1>6. EntryToCome'
  BY DEF SessionTypeOK, KeysKnown, EntryToCome
<1>7. Accounted'
  BY DEF SessionTypeOK, KeysKnown, Accounted
<1> QED BY <1>1, <1>2, <1>3, <1>4, <1>5, <1>6, <1>7

\* The watchdog takes an entry out; from here on the ids are no longer held
\* (launcher.py: expire_pending).
LEMMA DogExpiresKeepsSessionInv ==
    ASSUME SessionInv, NEW k \in Keys, DogExpires(k) PROVE SessionInv'
<1> USE ProtocolConstants DEF SessionInv, Requests, Entry, Open, OpenCalls, Statuses,
    DogExpires, DogSees, Closed, Failing
<1>1. SessionTypeOK'
  BY DEF SessionTypeOK, KeysKnown
<1>2. KeysKnown'
  BY DEF SessionTypeOK, KeysKnown
<1>3. AnswersOnce'
  BY DEF SessionTypeOK, KeysKnown, AnswersOnce
<1>4. IdsHeld'
  BY DEF SessionTypeOK, KeysKnown, AnswersOnce, IdsHeld, Outstanding
<1>5. AnswerMatches'
  BY DEF SessionTypeOK, KeysKnown, AnswersOnce, IdsHeld, Outstanding, AnswerMatches
<1>6. EntryToCome'
  BY DEF SessionTypeOK, KeysKnown, EntryToCome
<1>7. Accounted'
  BY DEF SessionTypeOK, KeysKnown, Accounted
<1> QED BY <1>1, <1>2, <1>3, <1>4, <1>5, <1>6, <1>7

\* The watchdog audits the call it took out (launcher.py: expire_pending).
LEMMA DogAuditsKeepsSessionInv ==
    ASSUME SessionInv, DogAudits PROVE SessionInv'
<1> USE ProtocolConstants DEF SessionInv, Requests, Entry, Open, OpenCalls, Statuses,
    DogAudits, DogSees, Audited, AuditWrite, AuditFails
<1>1. SessionTypeOK'
  BY DEF SessionTypeOK, KeysKnown
<1>2. KeysKnown'
  BY DEF SessionTypeOK, KeysKnown
<1>3. AnswersOnce'
  BY DEF SessionTypeOK, KeysKnown, AnswersOnce
<1>4. IdsHeld'
  BY DEF SessionTypeOK, KeysKnown, AnswersOnce, IdsHeld, Outstanding
<1>5. AnswerMatches'
  BY DEF SessionTypeOK, KeysKnown, AnswersOnce, IdsHeld, Outstanding, AnswerMatches
<1>6. EntryToCome'
  BY DEF SessionTypeOK, KeysKnown, EntryToCome
<1>7. Accounted'
  BY SMTT(30) DEF SessionTypeOK, KeysKnown, Accounted
<1> QED BY <1>1, <1>2, <1>3, <1>4, <1>5, <1>6, <1>7

\* The watchdog ends the session (launcher.py: _watch_direct_lifecycle).
LEMMA DogOtherKeepsSessionInv ==
    ASSUME SessionInv, DogFailure \/ DogNotReady \/ DogKills PROVE SessionInv'
<1> USE ProtocolConstants DEF SessionInv, Requests, Entry, Open, OpenCalls, Statuses,
    DogFailure, DogNotReady, DogKills, DogSees, AuditFails
<1>1. SessionTypeOK'
  BY DEF SessionTypeOK, KeysKnown
<1>2. KeysKnown'
  BY DEF SessionTypeOK, KeysKnown
<1>3. AnswersOnce'
  BY DEF SessionTypeOK, KeysKnown, AnswersOnce
<1>4. IdsHeld'
  BY DEF SessionTypeOK, KeysKnown, AnswersOnce, IdsHeld, Outstanding
<1>5. AnswerMatches'
  BY DEF SessionTypeOK, KeysKnown, AnswersOnce, IdsHeld, Outstanding, AnswerMatches
<1>6. EntryToCome'
  BY DEF SessionTypeOK, KeysKnown, EntryToCome
<1>7. Accounted'
  BY DEF SessionTypeOK, KeysKnown, Accounted
<1> QED BY <1>1, <1>2, <1>3, <1>4, <1>5, <1>6, <1>7

\* The main thread empties the table and audits what was in it
\* (launcher.py: cancel_pending).
LEMMA MainCancelsKeepsSessionInv ==
    ASSUME SessionInv, MainCancels PROVE SessionInv'
<1> USE ProtocolConstants DEF SessionInv, Requests, Entry, Open, OpenCalls, Statuses,
    MainCancels, CancelPending, AuditFails
<1>1. SessionTypeOK'
  BY DEF SessionTypeOK, KeysKnown
<1>2. KeysKnown'
  BY DEF SessionTypeOK, KeysKnown
<1>3. AnswersOnce'
  BY DEF SessionTypeOK, KeysKnown, AnswersOnce
<1>4. IdsHeld'
  BY DEF SessionTypeOK, KeysKnown, AnswersOnce, IdsHeld, Outstanding
<1>5. AnswerMatches'
  BY DEF SessionTypeOK, KeysKnown, AnswersOnce, IdsHeld, Outstanding, AnswerMatches
<1>6. EntryToCome'
  BY DEF SessionTypeOK, KeysKnown, EntryToCome
<1>7. Accounted'
  BY SMTT(30) DEF SessionTypeOK, KeysKnown, Accounted
<1> QED BY <1>1, <1>2, <1>3, <1>4, <1>5, <1>6, <1>7

\* Steps that leave table and log alone.
LEMMA OthersKeepSessionInv ==
    ASSUME SessionInv, ClientCloses \/ ClientBadLine \/ ServerExits \/ MainJoins
    PROVE  SessionInv'
<1> USE ProtocolConstants DEF SessionInv, Requests, Entry, Open, OpenCalls, Statuses,
    ClientCloses, ClientBadLine, ServerExits, MainJoins, AuditFails, Listening
<1>1. SessionTypeOK'
  BY DEF SessionTypeOK, KeysKnown
<1>2. KeysKnown'
  BY DEF SessionTypeOK, KeysKnown
<1>3. AnswersOnce'
  BY DEF SessionTypeOK, KeysKnown, AnswersOnce
<1>4. IdsHeld'
  BY DEF SessionTypeOK, KeysKnown, AnswersOnce, IdsHeld, Outstanding
<1>5. AnswerMatches'
  BY DEF SessionTypeOK, KeysKnown, AnswersOnce, IdsHeld, Outstanding, AnswerMatches
<1>6. EntryToCome'
  BY DEF SessionTypeOK, KeysKnown, EntryToCome
<1>7. Accounted'
  BY DEF SessionTypeOK, KeysKnown, Accounted
<1> QED BY <1>1, <1>2, <1>3, <1>4, <1>5, <1>6, <1>7

\* Every reachable state of a session satisfies Inv.
LEMMA SessionInvHolds == SessionSpec => []SessionInv
<1>1. SessionInit => SessionInv
  BY ProtocolConstants
  DEF SessionInit, SessionInv, SessionTypeOK, KeysKnown, AnswersOnce, IdsHeld, Outstanding,
    AnswerMatches, EntryToCome,
      Accounted, Requests, Entry, Open, OpenCalls, OutIdle
<1>2. SessionInv /\ [SessionNext]_sessionVars => SessionInv'
  <2> SUFFICES ASSUME SessionInv, [SessionNext]_sessionVars PROVE SessionInv'
    OBVIOUS
  <2>1. CASE UNCHANGED sessionVars
    BY <2>1
    DEF sessionVars, SessionInv, SessionTypeOK, KeysKnown, AnswersOnce, IdsHeld, Outstanding,
      AnswerMatches,
        EntryToCome, Accounted, Open, OpenCalls
  <2> QED
    BY <2>1, ClientRefusedKeepsSessionInv, ClientForwardKeepsSessionInv,
      ClientCancelKeepsSessionInv,
       ServerAnswersKeepsSessionInv, OutReadKeepsSessionInv, OutBadLineKeepsSessionInv,
       OutAuditKeepsSessionInv, OutCloseKeepsSessionInv, OutEndKeepsSessionInv,
       DogExpiresKeepsSessionInv, DogAuditsKeepsSessionInv, DogOtherKeepsSessionInv,
       MainCancelsKeepsSessionInv, OthersKeepSessionInv
    DEF SessionNext, OutPump, Watchdog, MainThread
<1> QED BY <1>1, <1>2, PTL DEF SessionSpec

\* Until the watchdog acts, the client's answer to a request is the one the server
\* gave to that request, for any number of requests that share ids in any order
\* (launcher.py: client_line, server_line).
THEOREM AnswersMatch == SessionSpec => []AnswerMatches
BY SessionInvHolds, PTL DEF SessionInv

\* The audit log has at most one final entry for a call nobody overtook, and one for
\* every call that reached the server, however often it cannot be written
\* (launcher.py: server_line, expire_pending, cancel_pending).
THEOREM AuditIsExact == SessionSpec => []AuditExact
<1>1. SessionInv => OneFinalEntry
  <2> SUFFICES ASSUME SessionInv, NEW r \in Requests \ overtaken
               PROVE  Cardinality(audit[r]) <= 1
    BY DEF OneFinalEntry
  <2>1. audit[r] = {} \/ \E s \in Statuses : audit[r] = {s}
    BY DEF SessionInv, EntryToCome
  <2>2. Cardinality({}) = 0 /\ \A s \in Statuses : Cardinality({s}) = 1
    BY FS_EmptySet, FS_Singleton
  <2> QED BY <2>1, <2>2
<1>2. SessionInv => DeliveredAudited
  BY DEF SessionInv, SessionTypeOK, KeysKnown, Accounted, DeliveredAudited, Open, OpenCalls
<1>3. SessionInv => AuditExact
  BY <1>1, <1>2 DEF SessionInv, AuditExact
<1> QED BY <1>3, SessionInvHolds, PTL
=============================================================================
