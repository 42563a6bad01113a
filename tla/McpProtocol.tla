---------------------------- MODULE McpProtocol ----------------------------
(***************************************************************************)
(* One session of a direct MCP launcher (services/mcp_hub/launcher.py):    *)
(* class _ProtocolPolicy and the four threads that use it.  The input pump *)
(* filters what the client sends, the output pump what the server answers, *)
(* the watchdog ends a session that failed or timed out, and the main      *)
(* thread waits for the server process and then closes what is pending.    *)
(*                                                                         *)
(* The table of open requests is guarded by a lock that is held only for   *)
(* single accesses: the output pump looks an entry up, audits, and removes *)
(* it later, while watchdog and main thread remove entries on their own.   *)
(***************************************************************************)
EXTENDS Naturals, FiniteSets

CONSTANTS Lists,      \* tools/list requests the client may send, one line each
          Calls,      \* its tools/call requests
          Protocol,   \* its initialize and ping requests
          Keys,       \* JSON-RPC request ids
          MaxSent,    \* bound on the requests of the session
          AuditFaults,\* how often the audit log cannot be written
          Nothing     \* no request, no id, no entry

Requests == Lists \cup Calls \cup Protocol
Entry == [r : Requests, cancelled : BOOLEAN]

ASSUME ProtocolConstants ==
    /\ AuditFaults \in Nat /\ MaxSent \in Nat
    /\ Lists \cap Calls = {} /\ (Lists \cup Calls) \cap Protocol = {}
    /\ Nothing \notin Requests \cup Keys \cup Entry

VARIABLES table,      \* protocol_requests, list_requests and pending, by id
          key,        \* the id of each request, once sent
          inbox,      \* requests the server process has received
          served,     \* and those it has answered
          lines,      \* answers on their way from the server process
          flags,      \* events: "ready", "schema_failure", "audit_failure"
          child,      \* the server process: "live" or "dead"
          input,      \* the input pump: "run" or "ended"
          out,        \* the output pump and the line it is working on
          dog,        \* the watchdog and the call it expired
          main,       \* the main thread: "wait", "join", "done"
          answers,    \* for whom the client's answer was produced, per request
          audit,      \* final audit entries per call
          overtaken,  \* history: calls closed or cancelled under the output pump
          faults      \* audit writes that may still fail

sessionVars == <<table, key, inbox, served, lines, flags, child, input, out, dog, main,
          answers, audit, overtaken, faults>>

OutIdle == [pc |-> "read", r |-> Nothing, for |-> Nothing, good |-> TRUE]

SessionInit ==
    /\ table = [k \in Keys |-> Nothing]
    /\ key = [r \in Requests |-> Nothing]
    /\ inbox = {} /\ served = {} /\ lines = {} /\ flags = {}
    /\ child = "live" /\ input = "run" /\ out = OutIdle
    /\ dog = [pc |-> "watch", r |-> Nothing] /\ main = "wait"
    /\ answers = [r \in Requests |-> {}] /\ audit = [r \in Requests |-> {}]
    /\ overtaken = {} /\ faults = AuditFaults

Open(k) == table[k] # Nothing
OpenCalls == {k \in Keys : Open(k) /\ table[k].r \in Calls}

\* The session is over for the watchdog.
Failing == flags \cap {"schema_failure", "audit_failure"} # {}

-----------------------------------------------------------------------------
(* The audit log.  Every final state of a call is one entry.               *)

Audited(r, status) == audit' = [audit EXCEPT ![r] = @ \cup {status}]

AuditWrite(r, status) == Audited(r, status) /\ UNCHANGED <<flags, faults>>

AuditFails ==
    /\ faults > 0
    /\ faults' = faults - 1
    /\ flags' = flags \cup {"audit_failure"}
    /\ UNCHANGED audit

-----------------------------------------------------------------------------
(* The input pump: client_line.  It ends with the launcher.                *)

Listening == input = "run" /\ main # "done"

Sends(r) ==
    /\ Listening /\ key[r] = Nothing
    /\ Cardinality({q \in Requests : key[q] # Nothing}) < MaxSent

\* The client uses an id again once it has the answer or has cancelled the
\* request; it may also repeat the id of an open request by mistake.
MayUse(k) ==
    \A r \in Requests : key[r] = k =>
        \/ answers[r] # {}
        \/ "cancelled" \in audit[r]
        \/ Open(k) /\ table[k].r = r

\* Wrong variant: an open id is not noticed.
Refused_Reuse(r, k) == r \in Calls /\ ("ready" \notin flags \/ "schema_failure" \in flags \/ OpenCalls # {})

\* The checks that need the session's state; a refusal is answered at once.
Refused(r, k) ==
    \/ Open(k)
    \/ r \in Calls /\ ("ready" \notin flags \/ "schema_failure" \in flags \/ OpenCalls # {})

\* Refused because of the session's state.
ClientRefused(r, k) ==
    /\ Sends(r) /\ MayUse(k) /\ Refused(r, k)
    /\ key' = [key EXCEPT ![r] = k]
    /\ \/ /\ AuditWrite(r, "rejected")
          /\ answers' = [answers EXCEPT ![r] = @ \cup {r}] /\ UNCHANGED input
       \/ AuditFails /\ input' = "ended" /\ UNCHANGED answers
    /\ UNCHANGED <<served, table, inbox, lines, child, out, dog, main, overtaken>>

\* Refused for what the line says (envelope, method, parameters, allowlist,
\* arguments, circuit): nothing but its audit entry, which may fail.
ClientBadLine ==
    /\ Listening /\ AuditFails /\ input' = "ended"
    /\ UNCHANGED <<table, key, inbox, served, lines, child, out, dog, main, answers, overtaken>>

\* Accepted: entered in the table, then written to the server's input.
ClientForward(r, k) ==
    /\ Sends(r) /\ MayUse(k) /\ ~Refused(r, k)
    /\ key' = [key EXCEPT ![r] = k]
    /\ table' = [table EXCEPT ![k] = [r |-> r, cancelled |-> FALSE]]
    /\ IF child = "live" THEN inbox' = inbox \cup {r} /\ UNCHANGED input
                         ELSE input' = "ended" /\ UNCHANGED inbox
    /\ UNCHANGED <<served, lines, flags, child, out, dog, main, answers, audit, overtaken, faults>>

\* notifications/cancelled for an open call: it stays in the table.
ClientCancel(k) ==
    /\ Listening /\ k \in OpenCalls /\ ~table[k].cancelled
    /\ table' = [table EXCEPT ![k].cancelled = TRUE]
    /\ overtaken' = IF out.r = table[k].r THEN overtaken \cup {out.r} ELSE overtaken
    /\ \/ AuditWrite(table[k].r, "cancelled") /\ UNCHANGED input
       \/ AuditFails /\ input' = "ended"
    /\ UNCHANGED <<key, served, inbox, lines, child, out, dog, main, answers>>

ClientCloses ==
    /\ Listening
    /\ input' = "ended"
    /\ UNCHANGED <<table, key, served, inbox, lines, flags, child, out, dog, main, answers,
                   audit, overtaken, faults>>

-----------------------------------------------------------------------------
(* The server process *)

\* One answer to each request it received, in any order, good or bad.
ServerAnswers(r, good) ==
    /\ child = "live" /\ r \in inbox \ served
    /\ lines' = lines \cup {[for |-> r, good |-> good]} /\ served' = served \cup {r}
    /\ UNCHANGED <<table, key, inbox, flags, child, input, out, dog, main, answers,
                   audit, overtaken, faults>>

ServerExits ==
    /\ child = "live"
    /\ child' = "dead"
    /\ UNCHANGED <<table, key, served, inbox, lines, flags, input, out, dog, main, answers,
                   audit, overtaken, faults>>

-----------------------------------------------------------------------------
(* The output pump: server_line *)

\* tools/list: the schemas decide about readiness, before the audit entry.
SchemaEvent(r, good) ==
    IF r \notin Lists THEN {} ELSE IF good THEN {"ready"} ELSE {"schema_failure"}

\* Look the entry up under the lock.  Answers to ping and initialize, to a
\* cancelled call, and unsolicited ones are dealt with at once.
OutRead(line) ==
    /\ out.pc = "read" /\ line \in lines
    /\ lines' = lines \ {line}
    /\ LET k == key[line.for]
           r == IF Open(k) THEN table[k].r ELSE Nothing IN
       \/ /\ r \in Protocol
          /\ table' = [table EXCEPT ![k] = Nothing]
          /\ answers' = [answers EXCEPT ![r] = @ \cup {line.for}]
          /\ UNCHANGED <<out, flags>>
       \/ /\ r \in Calls /\ table[k].cancelled
          /\ table' = [table EXCEPT ![k] = Nothing]
          /\ UNCHANGED <<out, answers, flags>>
       \/ /\ r \in Lists \/ (r \in Calls /\ ~table[k].cancelled)
          /\ out' = [pc |-> "audit", r |-> r, for |-> line.for, good |-> line.good]
          /\ flags' = flags \cup SchemaEvent(r, line.good)
          /\ UNCHANGED <<table, answers>>
       \/ r = Nothing /\ UNCHANGED <<table, answers, out, flags>>
    /\ UNCHANGED <<key, inbox, served, child, input, dog, main, audit, overtaken, faults>>

\* The rejection of an unsolicited or malformed line is audited; when that fails
\* the pump stops.
OutBadLine ==
    /\ out.pc = "read" /\ child = "live" /\ AuditFails
    /\ out' = [OutIdle EXCEPT !.pc = "stop"]
    /\ UNCHANGED <<table, key, inbox, served, lines, child, input, dog, main, answers, overtaken>>

\* A tool call ended ok or failed.  When the entry cannot be written the client
\* gets an error and the session is failed (_audit_failure_response).
OutAudit ==
    /\ out.pc = "audit"
    /\ \/ /\ IF out.r \in Lists THEN UNCHANGED audit
             ELSE Audited(out.r, IF out.good THEN "ok" ELSE "failed")
          /\ UNCHANGED <<flags, faults>>
       \/ /\ faults > 0 /\ faults' = faults - 1
          /\ flags' = (flags \ {"ready"}) \cup {"schema_failure", "audit_failure"}
          /\ UNCHANGED audit
    /\ out' = [out EXCEPT !.pc = "close"]
    /\ UNCHANGED <<table, key, served, inbox, lines, child, input, dog, main, answers, overtaken>>

\* Wrong variant: the entry is left in the table.
Closed_Kept(k) == table' = [table EXCEPT ![k] = @]

\* _close_response_state removes whatever is under the id.
Closed(k) == table' = [table EXCEPT ![k] = Nothing]

\* The answer goes to the client; after an audit failure the pump ends the
\* process tree and returns.
OutClose ==
    /\ out.pc = "close"
    /\ Closed(key[out.r])
    /\ answers' = [answers EXCEPT ![out.r] = @ \cup {out.for}]
    /\ out' = [OutIdle EXCEPT !.pc = IF "audit_failure" \in flags THEN "stop" ELSE "read"]
    /\ UNCHANGED <<key, served, inbox, lines, flags, child, input, dog, main, audit, overtaken, faults>>

OutStop ==
    /\ out.pc = "stop"
    /\ child' = "dead"
    /\ out' = [OutIdle EXCEPT !.pc = "ended"]
    /\ UNCHANGED <<table, key, served, inbox, lines, flags, input, dog, main, answers, audit,
                   overtaken, faults>>

OutEnds ==
    /\ out.pc = "read" /\ child = "dead" /\ lines = {}
    /\ out' = [OutIdle EXCEPT !.pc = "ended"]
    /\ UNCHANGED <<table, key, served, inbox, lines, flags, child, input, dog, main, answers,
                   audit, overtaken, faults>>

-----------------------------------------------------------------------------
(* The watchdog: _watch_direct_lifecycle *)

DogSees(next, r) ==
    /\ dog' = [pc |-> next, r |-> r]
    /\ UNCHANGED <<key, served, inbox, lines, child, input, out, main, answers>>

\* A failure event, or the schemas are not ready in time.
DogFailure ==
    /\ dog.pc = "watch" /\ main # "done" /\ Failing
    /\ DogSees("kill", Nothing)
    /\ UNCHANGED <<table, flags, audit, overtaken, faults>>

DogNotReady ==
    /\ dog.pc = "watch" /\ main # "done" /\ ~Failing /\ "ready" \notin flags
    /\ DogSees("kill", Nothing)
    /\ UNCHANGED <<flags, faults, audit>> \/ AuditFails
    /\ UNCHANGED <<table, overtaken>>

\* expire_pending: the entry is taken out under the lock ...
DogExpires(k) ==
    /\ dog.pc = "watch" /\ main # "done" /\ ~Failing /\ "ready" \in flags
    /\ k \in OpenCalls
    /\ Closed(k)
    /\ DogSees(IF table[k].cancelled THEN "kill" ELSE "audit", table[k].r)
    /\ overtaken' = IF out.r = table[k].r THEN overtaken \cup {out.r} ELSE overtaken
    /\ UNCHANGED <<flags, audit, faults>>

\* ... and audited after it.
DogAudits ==
    /\ dog.pc = "audit"
    /\ DogSees("kill", dog.r)
    /\ \/ AuditWrite(dog.r, "timed_out")
       \/ AuditFails
    /\ UNCHANGED <<table, overtaken>>

\* Wrong variant: the watchdog records the failure and leaves the process.
DogKills_Leaves ==
    /\ dog.pc = "kill"
    /\ dog' = [pc |-> "ended", r |-> Nothing]
    /\ UNCHANGED <<table, key, served, inbox, lines, flags, child, input, out, main, answers,
                   audit, overtaken, faults>>

DogKills ==
    /\ dog.pc = "kill"
    /\ child' = "dead"
    /\ dog' = [pc |-> "ended", r |-> Nothing]
    /\ UNCHANGED <<table, key, served, inbox, lines, flags, input, out, main, answers, audit,
                   overtaken, faults>>

-----------------------------------------------------------------------------
(* The main thread *)

\* process.wait() returned and the output pump was joined, for two seconds at
\* most.
MainJoins ==
    /\ main = "wait" /\ child = "dead"
    /\ main' = "join"
    /\ UNCHANGED <<table, key, served, inbox, lines, flags, child, input, out, dog, answers,
                   audit, overtaken, faults>>

\* Wrong variant: what is pending is dropped without an entry.
CancelPending_Silent ==
    /\ table' = [k \in Keys |-> IF k \in OpenCalls THEN Nothing ELSE table[k]]
    /\ UNCHANGED <<audit, flags, faults>>

\* cancel_pending: at most one call is open; it is audited unless cancelled.
CancelPending ==
    /\ table' = [k \in Keys |-> IF k \in OpenCalls THEN Nothing ELSE table[k]]
    /\ LET left == {table[k].r : k \in {c \in OpenCalls : ~table[c].cancelled}} IN
       \/ /\ audit' = [r \in Requests |-> audit[r] \cup (IF r \in left THEN {"cancelled"} ELSE {})]
          /\ UNCHANGED <<flags, faults>>
       \/ left # {} /\ AuditFails

MainCancels ==
    /\ main = "join"
    /\ CancelPending
    /\ overtaken' = IF out.pc \in {"audit", "close"} THEN overtaken \cup {out.r} ELSE overtaken
    /\ main' = "done"
    /\ UNCHANGED <<key, served, inbox, lines, child, input, out, dog, answers>>

-----------------------------------------------------------------------------
(* The session *)

OutPump == (\E line \in lines : OutRead(line)) \/ OutAudit \/ OutClose \/ OutStop \/ OutEnds
Watchdog == DogFailure \/ DogAudits \/ DogKills
MainThread == MainJoins \/ MainCancels

SessionNext ==
    \/ \E r \in Requests, k \in Keys : ClientRefused(r, k) \/ ClientForward(r, k)
    \/ \E k \in Keys : ClientCancel(k) \/ DogExpires(k)
    \/ ClientCloses \/ ClientBadLine
    \/ \E r \in Requests, good \in BOOLEAN : ServerAnswers(r, good)
    \/ ServerExits \/ OutBadLine
    \/ OutPump \/ Watchdog \/ DogNotReady \/ MainThread

SessionSpec == SessionInit /\ [][SessionNext]_sessionVars

\* Threads are scheduled.  No client line, no answer and no exit of the server is
\* promised; a call in the table expires some day.
SessionFairness ==
    /\ WF_sessionVars(OutPump) /\ WF_sessionVars(Watchdog) /\ WF_sessionVars(MainThread)
    /\ WF_sessionVars(\E k \in Keys : DogExpires(k))

FairSession == SessionSpec /\ SessionFairness

-----------------------------------------------------------------------------
(* Properties *)

\* Types of the table, the threads and the log.
SessionTypeOK ==
    /\ table \in [Keys -> Entry \cup {Nothing}]
    /\ key \in [Requests -> Keys \cup {Nothing}]
    /\ inbox \subseteq Requests /\ served \subseteq inbox
    /\ lines \subseteq [for : Requests, good : BOOLEAN]
    /\ flags \subseteq {"ready", "schema_failure", "audit_failure"}
    /\ child \in {"live", "dead"} /\ input \in {"run", "ended"}
    /\ out \in [pc : {"read", "audit", "close", "stop", "ended"}, r : Requests \cup {Nothing},
                for : Requests \cup {Nothing}, good : BOOLEAN]
    /\ dog \in [pc : {"watch", "audit", "kill", "ended"}, r : Requests \cup {Nothing}]
    /\ main \in {"wait", "join", "done"}
    /\ answers \in [Requests -> SUBSET Requests]
    /\ audit \in [Requests -> SUBSET {"rejected", "ok", "failed", "timed_out", "cancelled"}]
    /\ overtaken \subseteq Requests /\ faults \in 0..AuditFaults

\* The client gets at most one answer to a request, and it is the answer the
\* server gave to that request: the late answer to a cancelled call is never
\* taken for that of a later request with the same id.  (A watchdog that has
\* removed an expired entry has decided to end the session.)
AnswerMatches == dog.pc = "watch" => \A r \in Requests : answers[r] \subseteq {r}

\* A call has one final audit entry.  Only a call that watchdog, client or main
\* thread closed while the output pump held its answer can have two.
OneFinalEntry == \A r \in Requests \ overtaken : Cardinality(audit[r]) <= 1

\* When the session is over, every call that reached the server is in the log,
\* unless the log could not be written or its id was used a second time.
DeliveredAudited ==
    main = "done" /\ out.pc \in {"read", "stop", "ended"} /\ dog.pc # "audit" /\ "audit_failure" \notin flags =>
        \A r \in inbox \cap Calls :
            (\A q \in Requests : key[q] = key[r] => q = r) => audit[r] # {}

\* A failed session ends: schema drift, a lost audit entry or a time-out takes
\* the server process down and the launcher finishes.
FailureEndsSession == (Failing \/ dog.pc = "kill") ~> (child = "dead" /\ main = "done")

\* The audit log is exact: one final entry for every call that reached the server.
AuditExact == SessionTypeOK /\ OneFinalEntry /\ DeliveredAudited
=============================================================================
