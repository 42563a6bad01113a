---------------------------- MODULE Coding_proofs ----------------------------
(***************************************************************************)
(* Two parts of the coding engine by themselves.  First its store, for     *)
(* every set of tasks, paths, branches and owners and any number of        *)
(* versions, and that it keeps TaskPromise; then one command in a sandbox. *)
(***************************************************************************)
EXTENDS CodingStore, Sandbox, SequenceTheorems, TLAPS

(***************************************************************************)
(* Facts about the transition tables.                                      *)
(***************************************************************************)

\* The table only leads to statuses, and out of no terminal status.
LEMMA AllowedTransitionsFacts ==
    \A s \in TaskStatuses :
        /\ AllowedTransitions[s] \subseteq TaskStatuses
        /\ s \in TerminalStatuses => AllowedTransitions[s] = {}
        /\ "created" \notin AllowedTransitions[s]
        /\ "verifying" \in AllowedTransitions[s] => s \in {"executing", "verifying"}
        /\ "reviewing" \in AllowedTransitions[s] => s \in {"verifying", "reviewing"}
        /\ "completed" \in AllowedTransitions[s] => s = "reviewing"
  BY DEF AllowedTransitions, TaskStatuses, TerminalStatuses, Stops

\* Nothing leads out of removed.
LEMMA RemovedIsFinal == WorktreeTransitions["removed"] = {}
  BY DEF WorktreeTransitions

(***************************************************************************)
(* Type correctness.                                                       *)
(***************************************************************************)

\* Every snapshot, event and worktree record the store holds is well formed.
THEOREM TypeCorrect == Spec => []TypeOK
<1>1. Init => TypeOK
  BY DEF Init, TypeOK
<1>2. TypeOK /\ [Next]_vars => TypeOK'
  <2> SUFFICES ASSUME TypeOK, [Next]_vars PROVE TypeOK'
    OBVIOUS
  <2>1. ASSUME NEW t \in Tasks, NEW s \in Snapshots, Create(t, s) PROVE TypeOK'
    <3>1. [state |-> s, version |-> 1] \in TaskRows
      BY DEF TaskRows
    <3>2. [from |-> "none", to |-> s.status, state |-> s] \in Events
      BY DEF Events, Snapshots
    <3>3. events[t] \in Seq(Events)
      BY DEF TypeOK
    <3> QED BY <2>1, <3>1, <3>2, <3>3 DEF Create, TypeOK
  <2>2. ASSUME NEW t \in Tasks, NEW s \in Snapshots, NEW e \in 0..MaxVersion,
               Transition(t, s, e) PROVE TypeOK'
    <3>1. task[t] \in TaskRows
      BY <2>2 DEF Transition, TransitionAllowed, Exists, TypeOK
    <3>2. [state |-> s, version |-> task[t].version + 1] \in TaskRows
      BY <3>1 DEF TaskRows
    <3>3. [from |-> task[t].state.status, to |-> s.status, state |-> s] \in Events
      BY <3>1 DEF Events, Snapshots, TaskRows
    <3>4. events[t] \in Seq(Events)
      BY DEF TypeOK
    <3> QED BY <2>2, <3>2, <3>3, <3>4 DEF Transition, TypeOK
  <2>3. ASSUME NEW t \in Tasks, NEW r \in Records, RegisterWorktree(t, r) PROVE TypeOK'
    BY <2>3 DEF RegisterWorktree, TypeOK
  <2>4. ASSUME NEW t \in Tasks, NEW r \in Records, UpdateWorktree(t, r) PROVE TypeOK'
    BY <2>4 DEF UpdateWorktree, TypeOK
  <2>5. CASE UNCHANGED vars
    BY <2>5 DEF vars, TypeOK
  <2> QED BY <2>1, <2>2, <2>3, <2>4, <2>5 DEF Next
<1> QED BY <1>1, <1>2, PTL DEF Spec

(***************************************************************************)
(* The event log.                                                          *)
(***************************************************************************)

\* Appending one event extends what the log has visited by that event's target.
LEMMA VisitedAppend ==
    ASSUME NEW t \in Tasks, TypeOK, NEW e \in Events,
           events' = [events EXCEPT ![t] = Append(@, e)]
    PROVE  /\ Visited(t)' = Visited(t) \cup {e.to}
           /\ \A u \in Tasks \ {t} : Visited(u)' = Visited(u)
<1>1. events[t] \in Seq(Events)
  BY DEF TypeOK
<1>2. events'[t] = Append(events[t], e)
  BY DEF TypeOK
<1>3. /\ Len(events'[t]) = Len(events[t]) + 1
      /\ events'[t][Len(events[t]) + 1] = e
      /\ \A i \in 1..Len(events[t]) : events'[t][i] = events[t][i]
  BY <1>1, <1>2
<1>4. Len(events[t]) \in Nat
  BY <1>1
<1>5. \A i : i \in 1..Len(events'[t]) <=> i \in 1..Len(events[t]) \/ i = Len(events[t]) + 1
  BY <1>3, <1>4
<1>6. Visited(t)' = Visited(t) \cup {e.to}
  BY <1>3, <1>5 DEF Visited
<1>7. \A u \in Tasks \ {t} : events'[u] = events[u]
  BY DEF TypeOK
<1>8. \A u \in Tasks \ {t} : Visited(u)' = Visited(u)
  BY <1>7 DEF Visited
<1> QED BY <1>6, <1>8

\* The part of EventChain that speaks of one task.
ChainOf(t) ==
    /\ Exists(t) <=> events[t] # <<>>
    /\ Exists(t) =>
          /\ task[t].version = Len(events[t])
          /\ events[t][Len(events[t])].state = task[t].state
          /\ events[t][1].from = "none" /\ events[t][1].to = "created"
    /\ \A i \in 1..Len(events[t]) : events[t][i].to = events[t][i].state.status
    /\ \A i \in 2..Len(events[t]) :
          /\ events[t][i].from = events[t][i-1].to
          /\ events[t][i].to \in AllowedTransitions[events[t][i].from]

\* The log stays a chain from creation to the current snapshot.
THEOREM ChainHolds == Spec => []EventChain
<1>1. Init => EventChain
  BY DEF Init, EventChain, Exists
<1>2. TypeOK /\ EventChain /\ [Next]_vars => EventChain'
  <2> SUFFICES ASSUME TypeOK, EventChain, [Next]_vars, NEW u \in Tasks
               PROVE ChainOf(u)'
    BY DEF EventChain, ChainOf
  <2>0. ChainOf(u)
    BY DEF EventChain, ChainOf
  <2>u. ASSUME task'[u] = task[u], events'[u] = events[u] PROVE ChainOf(u)'
    BY <2>0, <2>u DEF ChainOf, Exists
  <2>t. events[u] \in Seq(Events)
    BY DEF TypeOK
  <2>1. ASSUME NEW t \in Tasks, NEW s \in Snapshots, Create(t, s) PROVE ChainOf(u)'
    <3>1. CASE u # t
      BY <2>1, <3>1, <2>u DEF Create, TypeOK
    <3>2. CASE u = t
      <4> DEFINE e == [from |-> "none", to |-> s.status, state |-> s]
      <4>1. events[u] = <<>>
        BY <2>0, <2>1, <3>2 DEF ChainOf, Create
      <4>2. task'[u] = [state |-> s, version |-> 1] /\ events'[u] = <<e>>
        BY <2>1, <3>2, <4>1 DEF Create, TypeOK
      <4>3. task'[u] # NoTask
        BY <4>2, StoreConstants DEF TaskRows
      <4>4. Len(events'[u]) = 1 /\ events'[u][1] = e /\ events'[u] # <<>>
        BY <4>2
      <4>5. s.status = "created"
        BY <2>1 DEF Create
      <4> QED BY <4>2, <4>3, <4>4, <4>5 DEF ChainOf, Exists
    <3> QED BY <3>1, <3>2
  <2>2. ASSUME NEW t \in Tasks, NEW s \in Snapshots, NEW x \in 0..MaxVersion,
               Transition(t, s, x) PROVE ChainOf(u)'
    <3>1. CASE u # t
      BY <2>2, <3>1, <2>u DEF Transition, TypeOK
    <3>2. CASE u = t
      <4> DEFINE e == [from |-> task[u].state.status, to |-> s.status, state |-> s]
                 n == Len(events[u])
      <4>1. /\ Exists(u)
            /\ s.status \in AllowedTransitions[task[u].state.status]
            /\ task'[u] = [state |-> s, version |-> task[u].version + 1]
            /\ events'[u] = Append(events[u], e)
        BY <2>2, <3>2 DEF Transition, TransitionAllowed, TypeOK
      <4>2. task[u] \in TaskRows
        BY <4>1 DEF Exists, TypeOK
      <4>3. task'[u] \in TaskRows
        BY <4>1, <4>2 DEF TaskRows
      <4>4. Exists(u)'
        BY <4>3, StoreConstants DEF Exists
      <4>5. n \in Nat /\ n >= 1
        BY <2>0, <4>1, <4>2, <2>t DEF ChainOf, TaskRows
      <4>6. e \in Events
        BY <4>2 DEF TaskRows, Snapshots, Events
      <4>7. /\ Len(events'[u]) = n + 1
            /\ events'[u][n + 1] = e
            /\ \A i \in 1..n : events'[u][i] = events[u][i]
            /\ events'[u] # <<>>
        BY <4>1, <2>t, <4>5, <4>6
      <4>8. events[u][n].to = task[u].state.status
        BY <2>0, <4>1, <4>5 DEF ChainOf
      <4>9. task'[u].version = Len(events'[u]) /\ task'[u].state = s
        BY <4>1, <4>7, <2>0, <4>2 DEF ChainOf
      <4>10. \A i \in 1..Len(events'[u]) : events'[u][i].to = events'[u][i].state.status
        <5> TAKE i \in 1..Len(events'[u])
        <5>1. CASE i = n + 1
          BY <5>1, <4>7
        <5>2. CASE i \in 1..n
          BY <5>2, <4>7, <2>0 DEF ChainOf
        <5> QED BY <5>1, <5>2, <4>5, <4>7
      <4>11. \A i \in 2..Len(events'[u]) :
                /\ events'[u][i].from = events'[u][i-1].to
                /\ events'[u][i].to \in AllowedTransitions[events'[u][i].from]
        <5> TAKE i \in 2..Len(events'[u])
        <5>1. CASE i = n + 1
          BY <5>1, <4>7, <4>8, <4>1, <4>5
        <5>2. CASE i \in 2..n
          <6>1. i - 1 \in 1..n /\ i \in 1..n
            BY <5>2, <4>5
          <6> QED BY <5>2, <6>1, <4>7, <2>0 DEF ChainOf
        <5> QED BY <5>1, <5>2, <4>5, <4>7
      <4>12. events'[u][1] = events[u][1]
        BY <4>7, <4>5
      <4> QED BY SMTT(30), <4>1, <4>4, <4>7, <4>9, <4>10, <4>11, <4>12, <2>0 DEF ChainOf
    <3> QED BY <3>1, <3>2
  <2>3. ASSUME NEW t \in Tasks, NEW r \in Records, RegisterWorktree(t, r) PROVE ChainOf(u)'
    BY <2>3, <2>u DEF RegisterWorktree
  <2>4. ASSUME NEW t \in Tasks, NEW r \in Records, UpdateWorktree(t, r) PROVE ChainOf(u)'
    BY <2>4, <2>u DEF UpdateWorktree
  <2>5. CASE UNCHANGED vars
    BY <2>5, <2>u DEF vars
  <2> QED BY <2>1, <2>2, <2>3, <2>4, <2>5 DEF Next
<1> QED BY <1>1, <1>2, TypeCorrect, PTL DEF Spec

(***************************************************************************)
(* Evidence and the abstract promise.                                      *)
(***************************************************************************)

\* The strengthening of CompletionWasReviewed that a step preserves: each phase
\* on record has the phase before it on record, and so has completion.
EvidenceOrdered ==
    \A t \in Tasks :
        /\ ~Exists(t) => Visited(t) = {}
        /\ Exists(t) => task[t].state.status \in Visited(t)
        /\ "verifying" \in Visited(t) => "executing" \in Visited(t)
        /\ "reviewing" \in Visited(t) => "verifying" \in Visited(t)
        /\ "completed" \in Visited(t) => "reviewing" \in Visited(t)

\* One step of the store, as seen on one task: nothing, a creation or an allowed
\* transition, each with what it adds to the visited statuses.
LEMMA StepOnTask ==
    ASSUME TypeOK, EvidenceOrdered, [Next]_vars, NEW u \in Tasks
    PROVE  \/ task'[u] = task[u] /\ Visited(u)' = Visited(u)
           \/ /\ ~Exists(u) /\ Exists(u)'
              /\ task'[u].state.status = "created"
              /\ Visited(u)' = Visited(u) \cup {"created"}
           \/ /\ Exists(u) /\ Exists(u)'
              /\ task'[u].state.status \in AllowedTransitions[task[u].state.status]
              /\ Visited(u)' = Visited(u) \cup {task'[u].state.status}
<1> DEFINE Goal ==
           \/ task'[u] = task[u] /\ Visited(u)' = Visited(u)
           \/ /\ ~Exists(u) /\ Exists(u)'
              /\ task'[u].state.status = "created"
              /\ Visited(u)' = Visited(u) \cup {"created"}
           \/ /\ Exists(u) /\ Exists(u)'
              /\ task'[u].state.status \in AllowedTransitions[task[u].state.status]
              /\ Visited(u)' = Visited(u) \cup {task'[u].state.status}
<1>u. ASSUME task'[u] = task[u], events'[u] = events[u] PROVE Goal
  BY <1>u DEF Visited
<1>1. ASSUME NEW t \in Tasks, NEW s \in Snapshots, Create(t, s) PROVE Goal
  <2>1. CASE u # t
    BY <1>1, <2>1, <1>u DEF Create, TypeOK
  <2>2. CASE u = t
    <3> DEFINE e == [from |-> "none", to |-> s.status, state |-> s]
    <3>1. e \in Events /\ [state |-> s, version |-> 1] \in TaskRows
      BY DEF Events, Snapshots, TaskRows
    <3>2. task'[u] = [state |-> s, version |-> 1] /\ ~Exists(u) /\ s.status = "created"
      BY <1>1, <2>2 DEF Create, TypeOK
    <3>3. Exists(u)'
      BY <3>1, <3>2, StoreConstants DEF Exists
    <3>4. events' = [events EXCEPT ![u] = Append(@, e)]
      BY <1>1, <2>2 DEF Create
    <3>5. Visited(u)' = Visited(u) \cup {e.to}
      BY <3>1, <3>4, VisitedAppend
    <3> QED BY <3>2, <3>3, <3>5
  <2> QED BY <2>1, <2>2
<1>2. ASSUME NEW t \in Tasks, NEW s \in Snapshots, NEW x \in 0..MaxVersion,
             Transition(t, s, x) PROVE Goal
  <2>1. CASE u # t
    BY <1>2, <2>1, <1>u DEF Transition, TypeOK
  <2>2. CASE u = t
    <3> DEFINE e == [from |-> task[u].state.status, to |-> s.status, state |-> s]
    <3>1. task[u] \in TaskRows
      BY <1>2, <2>2 DEF Transition, TransitionAllowed, Exists, TypeOK
    <3>2. e \in Events /\ [state |-> s, version |-> task[u].version + 1] \in TaskRows
      BY <3>1 DEF Events, Snapshots, TaskRows
    <3>3. /\ task'[u] = [state |-> s, version |-> task[u].version + 1]
          /\ Exists(u)
          /\ s.status \in AllowedTransitions[task[u].state.status]
      BY <1>2, <2>2 DEF Transition, TransitionAllowed, TypeOK
    <3>4. Exists(u)'
      BY <3>2, <3>3, StoreConstants DEF Exists
    <3>5. events' = [events EXCEPT ![u] = Append(@, e)]
      BY <1>2, <2>2 DEF Transition
    <3>6. Visited(u)' = Visited(u) \cup {e.to}
      BY <3>2, <3>5, VisitedAppend
    <3> QED BY <3>3, <3>4, <3>6
  <2> QED BY <2>1, <2>2
<1>3. ASSUME NEW t \in Tasks, NEW r \in Records, RegisterWorktree(t, r) PROVE Goal
  BY <1>3, <1>u DEF RegisterWorktree
<1>4. ASSUME NEW t \in Tasks, NEW r \in Records, UpdateWorktree(t, r) PROVE Goal
  BY <1>4, <1>u DEF UpdateWorktree
<1>5. CASE UNCHANGED vars
  BY <1>5, <1>u DEF vars
<1> QED BY <1>1, <1>2, <1>3, <1>4, <1>5 DEF Next

\* EvidenceOrdered is inductive.
LEMMA EvidenceHolds == Spec => []EvidenceOrdered
<1>1. Init => EvidenceOrdered
  BY DEF Init, EvidenceOrdered, Exists, Visited
<1>2. TypeOK /\ EvidenceOrdered /\ [Next]_vars => EvidenceOrdered'
  <2> SUFFICES ASSUME TypeOK, EvidenceOrdered, [Next]_vars, NEW u \in Tasks
               PROVE ( /\ ~Exists(u) => Visited(u) = {}
                       /\ Exists(u) => task[u].state.status \in Visited(u)
                       /\ "verifying" \in Visited(u) => "executing" \in Visited(u)
                       /\ "reviewing" \in Visited(u) => "verifying" \in Visited(u)
                       /\ "completed" \in Visited(u) => "reviewing" \in Visited(u) )'
    BY DEF EvidenceOrdered
  <2>1. CASE task'[u] = task[u] /\ Visited(u)' = Visited(u)
    BY <2>1 DEF EvidenceOrdered, Exists
  <2>2. CASE /\ ~Exists(u) /\ Exists(u)'
             /\ task'[u].state.status = "created"
             /\ Visited(u)' = Visited(u) \cup {"created"}
    BY <2>2 DEF EvidenceOrdered
  <2>3. CASE /\ Exists(u) /\ Exists(u)'
             /\ task'[u].state.status \in AllowedTransitions[task[u].state.status]
             /\ Visited(u)' = Visited(u) \cup {task'[u].state.status}
    <3>1. task[u].state.status \in TaskStatuses
      BY <2>3 DEF Exists, TypeOK, TaskRows, Snapshots
    <3> QED BY <2>3, <3>1, AllowedTransitionsFacts DEF EvidenceOrdered
  <2> QED BY <2>1, <2>2, <2>3, StepOnTask
<1> QED BY <1>1, <1>2, TypeCorrect, PTL DEF Spec

\* No sequence of calls completes a task that was not executed, verified and
\* reviewed.
THEOREM CompletionReviewed == Spec => []CompletionWasReviewed
<1>1. EvidenceOrdered => CompletionWasReviewed
  BY DEF EvidenceOrdered, CompletionWasReviewed
<1> QED BY <1>1, EvidenceHolds, PTL

\* The store implements TaskPromise under the mapping Outcome, Evidence.
THEOREM StoreKeepsPromise == Spec => KeepsPromise
<1>1. Init => Promise!Init
  BY DEF Init, Promise!Init, Outcome, Evidence, Exists, Visited
<1>2. TypeOK /\ EvidenceOrdered /\ [Next]_vars => [Promise!Next]_<<Outcome, Evidence>>
  <2> SUFFICES ASSUME TypeOK, EvidenceOrdered, [Next]_vars
               PROVE  Promise!Next \/ UNCHANGED <<Outcome, Evidence>>
    OBVIOUS
  <2> DEFINE Same(u) == task'[u] = task[u] /\ Visited(u)' = Visited(u)
  <2>s. \A u \in Tasks : Same(u) => Outcome'[u] = Outcome[u] /\ Evidence'[u] = Evidence[u]
    BY DEF Outcome, Evidence, Exists
  <2>d. /\ DOMAIN Outcome = Tasks /\ DOMAIN Outcome' = Tasks
        /\ DOMAIN Evidence = Tasks /\ DOMAIN Evidence' = Tasks
        /\ Outcome = [u \in Tasks |-> Outcome[u]] /\ Outcome' = [u \in Tasks |-> Outcome'[u]]
        /\ Evidence = [u \in Tasks |-> Evidence[u]] /\ Evidence' = [u \in Tasks |-> Evidence'[u]]
    BY DEF Outcome, Evidence
  <2>1. CASE \A u \in Tasks : Same(u)
    <3>1. Outcome' = Outcome
      BY <2>1, <2>s, <2>d
    <3>2. Evidence' = Evidence
      BY <2>1, <2>s, <2>d
    <3> QED BY <3>1, <3>2
  <2>2. CASE \E u \in Tasks : ~Same(u)
    <3> PICK t \in Tasks : ~Same(t)
      BY <2>2
    <3>1. \A u \in Tasks \ {t} : task'[u] = task[u] /\ events'[u] = events[u]
      <4>1. ASSUME NEW v \in Tasks, NEW x \in Snapshots, Create(v, x)
            PROVE  \A u \in Tasks \ {v} : task'[u] = task[u] /\ events'[u] = events[u]
        BY <4>1 DEF Create, TypeOK
      <4>2. ASSUME NEW v \in Tasks, NEW x \in Snapshots, NEW n \in 0..MaxVersion, Transition(v, x, n)
            PROVE  \A u \in Tasks \ {v} : task'[u] = task[u] /\ events'[u] = events[u]
        BY <4>2 DEF Transition, TypeOK
      <4>3. (task' = task /\ events' = events)
            \/ \E v \in Tasks : \A u \in Tasks \ {v} : task'[u] = task[u] /\ events'[u] = events[u]
        BY <4>1, <4>2 DEF Next, vars, RegisterWorktree, UpdateWorktree
      <4>4. ASSUME NEW v \in Tasks, \A u \in Tasks \ {v} : task'[u] = task[u] /\ events'[u] = events[u]
            PROVE  v = t
        BY <4>4 DEF Visited
      <4>5. ~(task' = task /\ events' = events)
        BY DEF Visited
      <4> QED BY <4>3, <4>4, <4>5
    <3>2. \A u \in Tasks \ {t} : Same(u)
      BY <3>1 DEF Visited
    <3>3. \A u \in Tasks \ {t} : Outcome'[u] = Outcome[u] /\ Evidence'[u] = Evidence[u]
      BY <3>2, <2>s
    <3>4. Outcome' = [Outcome EXCEPT ![t] = Outcome'[t]]
      BY <3>3, <2>d
    <3>5. Evidence' = [Evidence EXCEPT ![t] = Evidence'[t]]
      BY <3>3, <2>d
    <3>6. CASE /\ ~Exists(t) /\ Exists(t)'
               /\ task'[t].state.status = "created"
               /\ Visited(t)' = Visited(t) \cup {"created"}
      <4>1. Outcome[t] = "none" /\ Outcome'[t] = "open"
        BY <3>6 DEF Outcome, TerminalStatuses
      <4>2. Evidence'[t] = Evidence[t]
        BY <3>6 DEF Evidence
      <4>3. Evidence' = Evidence
        BY <3>3, <4>2, <2>d
      <4> QED BY <4>1, <4>3, <3>4 DEF Promise!Next, Promise!Open
    <3>7. CASE /\ Exists(t) /\ Exists(t)'
               /\ task'[t].state.status \in AllowedTransitions[task[t].state.status]
               /\ Visited(t)' = Visited(t) \cup {task'[t].state.status}
      <4> DEFINE s == task[t].state.status
                 d == task'[t].state.status
      <4>1. s \in TaskStatuses
        BY <3>7 DEF Exists, TypeOK, TaskRows, Snapshots
      <4>2. s \notin TerminalStatuses /\ d \in TaskStatuses
        BY <4>1, <3>7, AllowedTransitionsFacts
      <4>3. Outcome[t] = "open"
        BY <3>7, <4>2 DEF Outcome
      <4>4. CASE d \in TerminalStatuses
        <5>1. Outcome'[t] = d
          BY <3>7, <4>4 DEF Outcome
        <5>2. Evidence'[t] = Evidence[t]
          BY <3>7, <4>4 DEF Evidence, TerminalStatuses
        <5>3. Evidence' = Evidence
          BY <3>3, <5>2, <2>d
        <5>4. d = "completed" => Evidence[t] = Promise!Phases
          <6> SUFFICES ASSUME d = "completed" PROVE Evidence[t] = Promise!Phases
            OBVIOUS
          <6>1. s = "reviewing"
            BY <4>1, <3>7, AllowedTransitionsFacts
          <6>2. s \in Visited(t)
            BY <3>7 DEF EvidenceOrdered
          <6> QED BY <6>1, <6>2 DEF EvidenceOrdered, Evidence, Promise!Phases
        <5>5. d \in Promise!Decisions
          BY <4>4 DEF TerminalStatuses, Promise!Decisions
        <5>6. Promise!Decide(t, d)
          BY <4>3, <5>1, <5>3, <5>4, <3>4 DEF Promise!Decide
        <5> QED BY <5>5, <5>6 DEF Promise!Next
      <4>5. CASE d \in {"executing", "verifying", "reviewing"}
        <5>1. Outcome'[t] = Outcome[t]
          BY <3>7, <4>3, <4>5 DEF Outcome, TerminalStatuses
        <5>2. Outcome' = Outcome
          BY <3>3, <5>1, <2>d
        <5>3. Evidence'[t] = Evidence[t] \cup {d}
          BY <3>7, <4>5 DEF Evidence
        <5>4. /\ d = "verifying" => "executing" \in Evidence[t]
              /\ d = "reviewing" => "verifying" \in Evidence[t]
          <6>1. s \in Visited(t)
            BY <3>7 DEF EvidenceOrdered
          <6>2. /\ d = "verifying" => s \in {"executing", "verifying"}
                /\ d = "reviewing" => s \in {"verifying", "reviewing"}
            BY <4>1, <3>7, AllowedTransitionsFacts
          <6> QED BY <6>1, <6>2 DEF EvidenceOrdered, Evidence
        <5>5. Promise!Enter(t, d)
          BY <4>3, <5>2, <5>3, <5>4, <3>5 DEF Promise!Enter
        <5> QED BY <5>5, <4>5 DEF Promise!Next, Promise!Phases
      <4>6. CASE d \notin TerminalStatuses \cup {"executing", "verifying", "reviewing"}
        <5>1. Outcome'[t] = Outcome[t] /\ Evidence'[t] = Evidence[t]
          BY <3>7, <4>3, <4>6 DEF Outcome, Evidence
        <5>2. Outcome' = Outcome
          BY <3>3, <5>1, <2>d
        <5>3. Evidence' = Evidence
          BY <3>3, <5>1, <2>d
        <5> QED BY <5>2, <5>3
      <4> QED BY <4>4, <4>5, <4>6
    <3> QED BY <3>6, <3>7, StepOnTask
  <2> QED BY <2>1, <2>2
<1> QED BY <1>1, <1>2, TypeCorrect, EvidenceHolds, PTL
      DEF Spec, KeepsPromise, Promise!Spec, Promise!promiseVars

\* A decided task is frozen, and logs only grow at their end.
THEOREM TerminalFinal == Spec => TerminalIsFinal
<1>1. TypeOK /\ [Next]_vars => [DecidedTasksFrozen]_vars
  <2> SUFFICES ASSUME TypeOK, [Next]_vars, NEW u \in Tasks PROVE Frozen(u)
    BY DEF DecidedTasksFrozen
  <2>t. events[u] \in Seq(Events) /\ Len(events[u]) \in Nat
    BY DEF TypeOK
  <2>u. ASSUME task'[u] = task[u], events'[u] = events[u] PROVE Frozen(u)
    <3>1. SubSeq(events[u], 1, Len(events[u])) = events[u]
      BY <2>t
    <3> QED BY <2>u, <2>t, <3>1 DEF Frozen
  <2>a. ASSUME NEW e \in Events, events'[u] = Append(events[u], e)
        PROVE  /\ Len(events'[u]) >= Len(events[u])
               /\ SubSeq(events'[u], 1, Len(events[u])) = events[u]
    BY <2>t, <2>a
  <2>1. ASSUME NEW t \in Tasks, NEW s \in Snapshots, Create(t, s) PROVE Frozen(u)
    <3>1. CASE u # t
      BY <2>1, <3>1, <2>u DEF Create, TypeOK
    <3>2. CASE u = t
      <4> DEFINE e == [from |-> "none", to |-> s.status, state |-> s]
      <4>1. e \in Events
        BY DEF Events, Snapshots
      <4>2. ~Exists(u) /\ events'[u] = Append(events[u], e)
        BY <2>1, <3>2 DEF Create, TypeOK
      <4> QED BY <4>1, <4>2, <2>a DEF Frozen
    <3> QED BY <3>1, <3>2
  <2>2. ASSUME NEW t \in Tasks, NEW s \in Snapshots, NEW x \in 0..MaxVersion,
               Transition(t, s, x) PROVE Frozen(u)
    <3>1. CASE u # t
      BY <2>2, <3>1, <2>u DEF Transition, TypeOK
    <3>2. CASE u = t
      <4> DEFINE e == [from |-> task[u].state.status, to |-> s.status, state |-> s]
      <4>1. task[u] \in TaskRows
        BY <2>2, <3>2 DEF Transition, TransitionAllowed, Exists, TypeOK
      <4>2. e \in Events /\ task[u].state.status \in TaskStatuses
        BY <4>1 DEF Events, Snapshots, TaskRows
      <4>3. /\ events'[u] = Append(events[u], e)
            /\ s.status \in AllowedTransitions[task[u].state.status]
        BY <2>2, <3>2 DEF Transition, TransitionAllowed, TypeOK
      <4>4. task[u].state.status \notin TerminalStatuses
        BY <4>2, <4>3, AllowedTransitionsFacts
      <4> QED BY <4>2, <4>3, <4>4, <2>a DEF Frozen
    <3> QED BY <3>1, <3>2
  <2>3. ASSUME NEW t \in Tasks, NEW r \in Records, RegisterWorktree(t, r) PROVE Frozen(u)
    BY <2>3, <2>u DEF RegisterWorktree
  <2>4. ASSUME NEW t \in Tasks, NEW r \in Records, UpdateWorktree(t, r) PROVE Frozen(u)
    BY <2>4, <2>u DEF UpdateWorktree
  <2>5. CASE UNCHANGED vars
    BY <2>5, <2>u DEF vars
  <2> QED BY <2>1, <2>2, <2>3, <2>4, <2>5 DEF Next
<1> QED BY <1>1, TypeCorrect, PTL DEF Spec, TerminalIsFinal

(***************************************************************************)
(* Worktree ownership.                                                     *)
(***************************************************************************)

\* One step of the store, as seen on one worktree row: nothing, a registration
\* or an update that the worktree table allows.
LEMMA StepOnWorktree ==
    ASSUME TypeOK, [Next]_vars, NEW u \in Tasks
    PROVE  \/ worktree'[u] = worktree[u]
           \/ \E r \in Records : RegisterWorktree(u, r) /\ worktree'[u] = r
           \/ \E r \in Records : UpdateWorktree(u, r) /\ worktree'[u] = r
<1>1. ASSUME NEW t \in Tasks, NEW r \in Records, RegisterWorktree(t, r)
      PROVE  worktree'[u] = worktree[u] \/ (t = u /\ worktree'[u] = r)
  BY <1>1 DEF RegisterWorktree, TypeOK
<1>2. ASSUME NEW t \in Tasks, NEW r \in Records, UpdateWorktree(t, r)
      PROVE  worktree'[u] = worktree[u] \/ (t = u /\ worktree'[u] = r)
  BY <1>2 DEF UpdateWorktree, TypeOK
<1>3. ASSUME NEW t \in Tasks, NEW s \in Snapshots, Create(t, s)
      PROVE  worktree'[u] = worktree[u]
  BY <1>3 DEF Create
<1>4. ASSUME NEW t \in Tasks, NEW s \in Snapshots, NEW x \in 0..MaxVersion, Transition(t, s, x)
      PROVE  worktree'[u] = worktree[u]
  BY <1>4 DEF Transition
<1> QED BY <1>1, <1>2, <1>3, <1>4 DEF Next, vars

\* Identity, heartbeat, completion time, removal and owner of a registered
\* worktree change only the way OwnershipIsStable allows.
THEOREM OwnershipStable == Spec => OwnershipIsStable
<1>1. TypeOK /\ [Next]_vars => [OwnersStable]_vars
  <2> SUFFICES ASSUME TypeOK, [Next]_vars, NEW u \in Tasks, Registered(u) PROVE Stable(u)
    BY DEF OwnersStable, Stable
  <2>0. worktree[u] \in Records
    BY DEF Registered, TypeOK
  <2>n. worktree[u].heartbeat \in Nat
    BY <2>0, StoreConstants DEF Records
  <2>1. CASE worktree'[u] = worktree[u]
    BY <2>n, <2>1 DEF Registered, Stable
  <2>2. ASSUME NEW r \in Records, UpdateWorktree(u, r), worktree'[u] = r PROVE Stable(u)
    <3>1. worktree[u].status # "removed"
      BY <2>2, RemovedIsFinal DEF UpdateWorktree, WorktreeUpdateAllowed
    <3>2. r # NoWorktree
      BY StoreConstants
    <3> QED BY <2>2, <3>1, <3>2 DEF UpdateWorktree, WorktreeUpdateAllowed, OwnerKept, Stable
  <2>3. \A r \in Records : ~RegisterWorktree(u, r)
    BY DEF RegisterWorktree
  <2> QED BY <2>1, <2>2, <2>3, StepOnWorktree
<1> QED BY <1>1, TypeCorrect, PTL DEF Spec, OwnershipIsStable

\* No two live worktrees ever share a path, or a branch of one repository.
THEOREM LiveDisjoint == Spec => []LiveWorktreesDisjoint
<1>1. Init => LiveWorktreesDisjoint
  BY DEF Init, LiveWorktreesDisjoint, Registered
<1>2. TypeOK /\ LiveWorktreesDisjoint /\ [Next]_vars => LiveWorktreesDisjoint'
  <2> SUFFICES ASSUME TypeOK, LiveWorktreesDisjoint, [Next]_vars PROVE LiveWorktreesDisjoint'
    OBVIOUS
  <2> DEFINE Live(u) == Registered(u) /\ worktree[u].status # "removed"
  <2>s. \A i, j : LiveKeysClash(i, j) <=> LiveKeysClash(j, i)
    BY DEF LiveKeysClash
  <2>w. ASSUME NEW t \in Tasks, NEW r \in Records, LiveIndexesFree(t, r),
               worktree' = [worktree EXCEPT ![t] = r]
        PROVE  LiveWorktreesDisjoint'
    <3>1. worktree'[t] = r /\ \A u \in Tasks \ {t} : worktree'[u] = worktree[u]
      BY <2>w DEF TypeOK
    <3>2. ASSUME NEW u \in Tasks \ {t}, Live(u), r.status # "removed"
          PROVE ~LiveKeysClash(r.id, worktree[u].id)
      BY <2>w, <3>2 DEF LiveIndexesFree
    <3> QED BY <3>1, <3>2, <2>s DEF LiveWorktreesDisjoint, Registered
  <2>1. ASSUME NEW t \in Tasks, NEW r \in Records, RegisterWorktree(t, r)
        PROVE LiveWorktreesDisjoint'
    BY <2>1, <2>w DEF RegisterWorktree
  <2>2. ASSUME NEW t \in Tasks, NEW r \in Records, UpdateWorktree(t, r)
        PROVE LiveWorktreesDisjoint'
    BY <2>2, <2>w DEF UpdateWorktree
  <2>3. CASE worktree' = worktree
    BY <2>3 DEF LiveWorktreesDisjoint, Registered
  <2> QED BY <2>1, <2>2, <2>3 DEF Next, vars, Create, Transition
<1> QED BY <1>1, <1>2, TypeCorrect, PTL DEF Spec

\* A snapshot references nothing but its own task's registered worktree.
THEOREM ReferencesHold == Spec => []ReferencesRegistered
<1>1. Init => ReferencesRegistered
  BY DEF Init, ReferencesRegistered, Registered, Exists
<1>2. TypeOK /\ ReferencesRegistered /\ [Next]_vars => ReferencesRegistered'
  <2> SUFFICES ASSUME TypeOK, ReferencesRegistered, [Next]_vars PROVE ReferencesRegistered'
    OBVIOUS
  <2>1. ASSUME NEW t \in Tasks, NEW s \in Snapshots, Create(t, s) PROVE ReferencesRegistered'
    <3>1. /\ task'[t] = [state |-> s, version |-> 1] /\ s.worktree = NoWorktree /\ ~Exists(t)
          /\ \A u \in Tasks \ {t} : task'[u] = task[u]
          /\ worktree' = worktree
      BY <2>1 DEF Create, TypeOK
    <3>2. ~Registered(t)
      BY <3>1 DEF ReferencesRegistered
    <3> QED BY <3>1, <3>2 DEF ReferencesRegistered, Registered, Exists
  <2>2. ASSUME NEW t \in Tasks, NEW s \in Snapshots, NEW x \in 0..MaxVersion,
               Transition(t, s, x) PROVE ReferencesRegistered'
    <3>1. /\ task'[t] = [state |-> s, version |-> task[t].version + 1]
          /\ \A u \in Tasks \ {t} : task'[u] = task[u]
          /\ worktree' = worktree
          /\ Exists(t)
          /\ s.source = task[t].state.source
          /\ EnsureRegisteredWorktree(t, s)
      BY <2>2 DEF Transition, TransitionAllowed, TypeOK
    <3>2. task[t] \in TaskRows
      BY <3>1 DEF Exists, TypeOK
    <3>3. task'[t] \in TaskRows
      BY <3>1, <3>2 DEF TaskRows
    <3>4. Exists(t)'
      BY <3>3, StoreConstants DEF Exists
    <3> QED BY <3>1, <3>4 DEF ReferencesRegistered, Registered, Exists, EnsureRegisteredWorktree
  <2>3. ASSUME NEW t \in Tasks, NEW r \in Records, RegisterWorktree(t, r)
        PROVE ReferencesRegistered'
    <3>1. /\ worktree'[t] = r /\ \A u \in Tasks \ {t} : worktree'[u] = worktree[u]
          /\ task' = task
          /\ Exists(t) /\ ~Registered(t) /\ r.id.source = task[t].state.source
      BY <2>3 DEF RegisterWorktree, TypeOK
    <3>2. task[t].state.worktree = NoWorktree
      BY <3>1 DEF ReferencesRegistered
    <3> QED BY <3>1, <3>2 DEF ReferencesRegistered, Registered, Exists
  <2>4. ASSUME NEW t \in Tasks, NEW r \in Records, UpdateWorktree(t, r)
        PROVE ReferencesRegistered'
    <3>1. /\ worktree'[t] = r /\ \A u \in Tasks \ {t} : worktree'[u] = worktree[u]
          /\ task' = task
          /\ Registered(t) /\ r.id = worktree[t].id
      BY <2>4 DEF UpdateWorktree, TypeOK
    <3>2. r # NoWorktree
      BY StoreConstants
    <3> QED BY <3>1, <3>2 DEF ReferencesRegistered, Registered, Exists
  <2>5. CASE UNCHANGED vars
    BY <2>5 DEF vars, ReferencesRegistered, Registered, Exists
  <2> QED BY <2>1, <2>2, <2>3, <2>4, <2>5 DEF Next
<1> QED BY <1>1, <1>2, TypeCorrect, PTL DEF Spec

\* Versions, events, snapshots and references of the rows belong together in every
\* reachable state of the store, for any number of tasks, paths and callers.
THEOREM SoundRecords == Spec => []RecordsSound
  BY TypeCorrect, ChainHolds, ReferencesHold, PTL DEF RecordsSound

-----------------------------------------------------------------------------
(***************************************************************************)
(* The sandbox.                                                            *)
(***************************************************************************)
\* The commands of a list from the i-th on.
From(s, i) == SubSeq(s, i, Len(s))

LEMMA FromStep ==
    ASSUME NEW S, NEW s \in Seq(S), NEW i \in 1..Len(s)
    PROVE  /\ Head(From(s, i)) = s[i] /\ Tail(From(s, i)) = From(s, i + 1)
           /\ From(s, i + 1) = <<>> <=> i = Len(s)
           /\ From(s, 1) = s
<1>1. PICK n \in Nat : n = Len(s)
  BY LenProperties
<1> DEFINE f == From(s, i)
           g == From(s, i + 1)
<1>2. /\ f \in Seq(S) /\ Len(f) = n - i + 1 /\ \A k \in 1..(n - i + 1) : f[k] = s[i + k - 1]
  BY <1>1, SubSeqProperties, ElementOfSeq DEF From
<1>3. /\ g \in Seq(S) /\ Len(g) = n - i /\ \A k \in 1..(n - i) : g[k] = s[i + 1 + k - 1]
  BY <1>1, SubSeqProperties, ElementOfSeq DEF From
<1>4. f # <<>>
  BY <1>1, <1>2, EmptySeq
<1>5. Head(f) = s[i]
  BY <1>1, <1>2, <1>4
<1>6. Tail(f) = g
  <2>1. /\ Tail(f) \in Seq(S) /\ Len(Tail(f)) = Len(f) - 1
        /\ \A k \in 1..Len(Tail(f)) : Tail(f)[k] = f[k + 1]
    BY <1>2, <1>4, HeadTailProperties
  <2>2. n - i \in Nat /\ Len(Tail(f)) = n - i
    BY <1>1, <1>2, <2>1
  <2>3. ASSUME NEW k \in 1..(n - i) PROVE Tail(f)[k] = g[k]
    <3>1. k + 1 \in 1..(n - i + 1) /\ i + (k + 1) - 1 = i + k /\ i + 1 + k - 1 = i + k
      BY <1>1, <2>2
    <3>2. f[k + 1] = s[i + k]
      BY <1>2, <3>1
    <3>3. g[k] = s[i + k]
      BY <1>3, <3>1
    <3> QED BY <2>1, <2>2, <3>2, <3>3
  <2> HIDE DEF f, g
  <2> QED BY <1>3, <2>1, <2>2, <2>3, SeqEqual
<1>7. g = <<>> <=> i = n
  BY <1>1, <1>3, EmptySeq
<1>8. From(s, 1) = s
  <2>1. /\ From(s, 1) \in Seq(S) /\ Len(From(s, 1)) = n /\ \A k \in 1..n : From(s, 1)[k] = s[k]
    BY <1>1, SubSeqProperties, ElementOfSeq DEF From
  <2> QED BY <1>1, <2>1, SeqEqual
<1> QED BY <1>1, <1>5, <1>6, <1>7, <1>8

Commands == Resources \cup {"connect", "images", "ps", "ls"}

\* What a job asks the daemon for.
Asks(j) == IF j = "qwen" THEN Resources \ {"verifier"} ELSE {"verifier"}

LEMMA BodyShape ==
    ASSUME NEW j \in Jobs
    PROVE  /\ Body(j) \in Seq(Commands) /\ Len(Body(j)) = IF j = "qwen" THEN 9 ELSE 2
           /\ \A i \in 1..Len(Body(j)) : LET c == Body(j)[i] IN
                /\ c \in Main => i = Len(Body(j)) /\ c \in Asks(j) /\ Main \cap Asks(j) = {c}
                /\ c \notin Main => i < Len(Body(j))
                /\ c \in Resources => c \in Asks(j)
                /\ c = "images" => i = 1 /\ j = "verify"
                /\ c # "images"  => j = "qwen" \/ i = 2
<1>1. CASE j = "qwen"
  BY <1>1 DEF Body, Commands, Asks, Resources, Containers, Probes, Main
<1>2. CASE j = "verify"
  BY <1>2 DEF Body, Commands, Asks, Resources, Containers, Probes, Main
<1> QED BY <1>1, <1>2 DEF Jobs

LEMMA CleanUpShape ==
    ASSUME NEW j \in Jobs
    PROVE  /\ CleanUp(j) \in Seq(Commands) /\ Len(CleanUp(j)) = IF j = "qwen" THEN 5 ELSE 2
           /\ \A i \in 1..Len(CleanUp(j)) : LET c == CleanUp(j)[i] IN
                /\ c \in Resources => i < Len(CleanUp(j)) - (IF j = "qwen" THEN 1 ELSE 0)
                /\ c = "ps" => i = IF j = "qwen" THEN 4 ELSE 2
                /\ c = "ls" => i = 5 /\ j = "qwen"
                /\ c \in Resources \cup {"ps", "ls"}
<1>1. CASE j = "qwen"
  BY <1>1 DEF CleanUp, Commands, Resources, Containers, Probes, Main
<1>2. CASE j = "verify"
  BY <1>2 DEF CleanUp, Commands, Resources, Containers, Probes, Main
<1> QED BY <1>1, <1>2 DEF Jobs

\* Only the last listing of a Qwen run is left when one is.
LEMMA LastListing ==
    ASSUME NEW j \in Jobs, NEW i \in 1..Len(CleanUp(j))
    PROVE  From(CleanUp(j), i) = <<"ls">> <=> j = "qwen" /\ i = 5
<1> DEFINE s == CleanUp(j)
<1>1. s \in Seq(Commands) /\ Len(s) \in {2, 5}
  BY CleanUpShape
<1>2. Head(From(s, i)) = s[i]
  BY <1>1, FromStep
<1>3. Head(<<"ls">>) = "ls"
  OBVIOUS
<1>4. ASSUME From(s, i) = <<"ls">> PROVE j = "qwen" /\ i = 5
  BY <1>2, <1>3, <1>4, CleanUpShape
<1>5. ASSUME j = "qwen", i = 5 PROVE From(s, i) = <<"ls">>
  <2>1. s = <<"agent", "proxy", "net", "ps", "ls">> /\ Len(s) = 5 /\ s[5] = "ls"
    BY <1>5 DEF CleanUp
  <2>2. From(s, 5) \in Seq(Commands) /\ Len(From(s, 5)) = 1 /\ From(s, 5)[1] = "ls"
    BY <1>1, <2>1, SubSeqProperties, ElementOfSeq DEF From
  <2> QED BY <1>5, <2>2
<1> QED BY <1>4, <1>5

\* What a step of the body finds at the head of the list, and what it leaves.
LEMMA BodyStep ==
    ASSUME NEW j \in Jobs, NEW i \in 1..Len(Body(j))
    PROVE  LET l == From(Body(j), i)
               c == Head(l)
           IN  /\ c \in Commands
               /\ c \in Main => Main \cap Asks(j) = {c}
               /\ c \in Resources => c \in Asks(j)
               /\ c \notin Main => /\ \E k \in 1..Len(Body(j)) : Tail(l) = From(Body(j), k)
                                   /\ Head(Tail(l)) # "images"
<1> DEFINE s == Body(j)
           l == From(s, i)
           c == Head(l)
<1>1. s \in Seq(Commands) /\ Len(s) \in Nat
  BY BodyShape, LenProperties
<1>2. c = s[i] /\ Tail(l) = From(s, i + 1) /\ c \in Commands
  BY <1>1, FromStep, ElementOfSeq
<1>3. ASSUME c \notin Main
      PROVE  /\ \E k \in 1..Len(s) : Tail(l) = From(s, k)
             /\ Head(Tail(l)) # "images"
  <2>1. i < Len(s)
    BY <1>2, <1>3, BodyShape
  <2>2. i + 1 \in 1..Len(s) /\ i + 1 # 1
    BY <1>1, <2>1
  <2>3. Head(Tail(l)) = s[i + 1]
    BY <1>1, <1>2, <2>2, FromStep
  <2>4. s[i + 1] # "images"
    BY <2>2, BodyShape
  <2> QED BY <1>2, <2>2, <2>3, <2>4
<1> HIDE DEF s, l, c
<1>4. (c \in Main => Main \cap Asks(j) = {c}) /\ (c \in Resources => c \in Asks(j))
  BY <1>2, BodyShape DEF s
<1> QED BY <1>2, <1>3, <1>4 DEF s, l, c

\* The same for the clean-up: removals come first, then the listings, and the list is
\* empty after the last of them.
LEMMA CleanUpStep ==
    ASSUME NEW j \in Jobs, NEW i \in 1..Len(CleanUp(j))
    PROVE  LET l == From(CleanUp(j), i)
               c == Head(l)
               Goes == \E k \in 1..Len(CleanUp(j)) : Tail(l) = From(CleanUp(j), k)
           IN  /\ c \in Resources => Goes /\ Tail(l) # <<"ls">>
               /\ c = "ps" /\ j = "qwen" => Goes /\ Tail(l) = <<"ls">>
               /\ c = "ps" /\ j = "verify" => Tail(l) = <<>>
               /\ c = "ls" => j = "qwen" /\ l = <<"ls">> /\ Tail(l) = <<>>
<1> DEFINE s == CleanUp(j)
           l == From(s, i)
           c == Head(l)
           Goes == \E k \in 1..Len(s) : Tail(l) = From(s, k)
<1>1. s \in Seq(Commands) /\ Len(s) = IF j = "qwen" THEN 5 ELSE 2
  BY CleanUpShape
<1>2. c = s[i] /\ Tail(l) = From(s, i + 1) /\ (From(s, i + 1) = <<>> <=> i = Len(s))
  BY <1>1, FromStep
<1>3. i + 1 \in 1..Len(s) => Goes
  BY <1>2
<1>4. ASSUME c \in Resources PROVE Goes /\ Tail(l) # <<"ls">>
  <2>1. i < Len(s) - (IF j = "qwen" THEN 1 ELSE 0)
    BY <1>2, <1>4, CleanUpShape
  <2>2. i + 1 \in 1..Len(s) /\ ~(j = "qwen" /\ i + 1 = 5)
    BY <1>1, <2>1
  <2> QED BY <1>2, <1>3, <2>2, LastListing
<1>5. ASSUME c = "ps", j = "qwen" PROVE Goes /\ Tail(l) = <<"ls">>
  <2>1. i = 4
    BY <1>2, <1>5, CleanUpShape
  <2>2. i + 1 \in 1..Len(s) /\ i + 1 = 5
    BY <1>1, <1>5, <2>1
  <2> QED BY <1>2, <1>3, <1>5, <2>2, LastListing
<1>6. ASSUME c = "ps", j = "verify" PROVE Tail(l) = <<>>
  <2>1. i = 2
    BY <1>2, <1>6, CleanUpShape
  <2> QED BY <1>1, <1>2, <1>6, <2>1
<1>7. ASSUME c = "ls" PROVE j = "qwen" /\ l = <<"ls">> /\ Tail(l) = <<>>
  <2>1. i = 5 /\ j = "qwen"
    BY <1>2, <1>7, CleanUpShape
  <2> QED BY <1>1, <1>2, <2>1, LastListing
<1> HIDE DEF s, l, c, Goes
<1> QED BY <1>4, <1>5, <1>6, <1>7 DEF s, l, c, Goes

\* Both lists are there in full at the start, and begin with something else than the
\* last listing.
LEMMA ListsBegin ==
    ASSUME NEW j \in Jobs
    PROVE  /\ \E i \in 1..Len(Body(j)) : Body(j) = From(Body(j), i)
           /\ \E i \in 1..Len(CleanUp(j)) : CleanUp(j) = From(CleanUp(j), i)
           /\ CleanUp(j) # <<"ls">>
<1>1. /\ Body(j) \in Seq(Commands) /\ 1 \in 1..Len(Body(j))
      /\ CleanUp(j) \in Seq(Commands) /\ 1 \in 1..Len(CleanUp(j))
  BY BodyShape, CleanUpShape
<1>2. From(Body(j), 1) = Body(j) /\ From(CleanUp(j), 1) = CleanUp(j)
  BY <1>1, FromStep
<1>3. CleanUp(j) # <<"ls">>
  BY <1>1, <1>2, LastListing
<1> QED BY <1>1, <1>2, <1>3

\* Where the function is in its list, and that nothing is decided before the last
\* command of the body has been.
PlaceInv ==
    /\ pc \in {"body", "await"} =>
         /\ out = "none" /\ err = "none"
         /\ \E i \in 1..Len(Body(job)) : todo = From(Body(job), i)
    /\ pc = "cleanup" => \E i \in 1..Len(CleanUp(job)) : todo = From(CleanUp(job), i)

\* The daemon knows only what the job asks for, and nothing before the images are there.
AskedInv ==
    /\ pending \cup ran \subseteq Asks(job)
    /\ pc = "body" /\ Head(todo) = "images" => pending = {} /\ present = {}

\* A main command that passed has left the daemon, so nobody writes to the mounts any
\* more when the watchdog takes its last look.
LimitInv ==
    /\ out = "passed" => (pending \cup present) \cap Main = {}
    /\ pc \in {"cleanup", "end", "done"} /\ out = "passed" /\ err = "none" => ~grown
    /\ report # "none" => pc = "done"
    /\ report = "passed" => out = "passed" /\ err = "none"

\* What the listings of the clean-up have established so far.
ListedInv ==
    /\ pc = "cleanup" /\ todo = <<"ls">> /\ ~bad => present \cap Containers \subseteq late
    /\ pc = "end" /\ ~bad => present \subseteq late
    /\ NothingLeftSilently

SandboxInv == SandboxTypeOK /\ PlaceInv /\ AskedInv /\ LimitInv /\ ListedInv

\* Initially.
LEMMA SandboxBegins == SandboxInit => SandboxInv
<1> SUFFICES ASSUME SandboxInit PROVE SandboxInv
  OBVIOUS
<1>1. SandboxTypeOK /\ AskedInv /\ LimitInv /\ ListedInv
  BY DEF SandboxInit, SandboxTypeOK, AskedInv, LimitInv, ListedInv, NothingLeftSilently
<1>2. PlaceInv
  BY ListsBegin DEF SandboxInit, PlaceInv
<1> QED BY <1>1, <1>2 DEF SandboxInv

\* The clean-up begins: no listing has been made.
LEMMA CleanUpBegins ==
    ASSUME SandboxInv, pc \in {"body", "await", "exit"}, pc' = "cleanup", todo' = CleanUp(job),
           err' \in {"none", "policy", "other"}, watchdog' \in {"off", "on", "tripped"},
           out = "passed" /\ err' = "none" => ~grown,
           UNCHANGED <<job, daemon, cancel, grown, out, bad, res, report>>
    PROVE  SandboxInv'
<1>1. job \in Jobs
  BY DEF SandboxInv, SandboxTypeOK
<1>2. todo' # <<"ls">> /\ \E i \in 1..Len(CleanUp(job)) : todo' = From(CleanUp(job), i)
  BY <1>1, ListsBegin
<1>3. report = "none"
  BY DEF SandboxInv, LimitInv
<1>4. SandboxTypeOK' /\ AskedInv' /\ LimitInv'
  BY <1>3 DEF SandboxInv, SandboxTypeOK, AskedInv, LimitInv, daemon
<1>5. PlaceInv' /\ ListedInv'
  BY <1>2 DEF PlaceInv, ListedInv, NothingLeftSilently
<1> QED BY <1>4, <1>5 DEF SandboxInv

\* The body: images, watchdog, launching and awaiting a client, leaving the with block.
LEMMA BodyKeepsSandbox ==
    ASSUME SandboxInv, Images \/ Enter \/ Launch \/ Await \/ Exit PROVE SandboxInv'
<1>0. /\ SandboxTypeOK /\ PlaceInv /\ AskedInv /\ LimitInv /\ ListedInv /\ job \in Jobs
      /\ pc \in {"body", "await"} =>
           /\ Head(todo) \in Commands
           /\ Head(todo) \in Main => Main \cap Asks(job) = {Head(todo)}
           /\ Head(todo) \in Resources => Head(todo) \in Asks(job)
           /\ Head(todo) \notin Main =>
                /\ \E k \in 1..Len(Body(job)) : Tail(todo) = From(Body(job), k)
                /\ Head(Tail(todo)) # "images"
  BY BodyStep DEF SandboxInv, SandboxTypeOK, PlaceInv
<1> DEFINE c == Head(todo)
<1>1. CASE Images
  <2>1. c \notin Main /\ pending = {} /\ present = {}
    BY <1>0, <1>1 DEF Images, AskedInv, Main
  <2>2. CASE pc' = "body"
    <3>1. /\ todo' = Tail(todo) /\ pc = "body"
          /\ UNCHANGED <<job, daemon, cancel, watchdog, grown, outcome>>
      BY <1>1, <2>2 DEF Images
    <3>2. SandboxTypeOK' /\ LimitInv' /\ ListedInv'
      BY <1>0, <2>2, <3>1 DEF SandboxTypeOK, LimitInv, ListedInv, NothingLeftSilently, daemon,
        outcome
    <3>3. PlaceInv' /\ AskedInv'
      BY <1>0, <2>1, <2>2, <3>1 DEF PlaceInv, AskedInv, daemon, outcome
    <3> QED BY <3>2, <3>3 DEF SandboxInv
  <2>3. CASE pc' # "body"
    <3>1. /\ pc' = "done" /\ report' \in {"cancelled", "failed"} /\ pc = "body"
          /\ UNCHANGED <<job, daemon, cancel, watchdog, grown, out, err, bad>>
      BY <1>1, <2>3 DEF Images
    <3>2. SandboxTypeOK' /\ PlaceInv' /\ AskedInv'
      BY <1>0, <3>1 DEF SandboxTypeOK, PlaceInv, AskedInv, daemon
    <3>3. out = "none"
      BY <1>0, <3>1 DEF PlaceInv
    <3>4. LimitInv' /\ ListedInv'
      BY <1>0, <2>1, <3>1, <3>3 DEF LimitInv, ListedInv, NothingLeftSilently, daemon
    <3> QED BY <3>2, <3>4 DEF SandboxInv
  <2> QED BY <2>2, <2>3
<1>2. CASE Enter
  <2>1. CASE pc' = "cleanup"
    <3>1. out = "none" /\ pc = "body"
      BY <1>0, <1>2 DEF PlaceInv, Enter
    <3>2. /\ todo' = CleanUp(job) /\ err' = "policy"
          /\ UNCHANGED <<job, daemon, cancel, watchdog, grown, out, bad, res, report>>
      BY <1>2, <2>1, <3>1 DEF Enter, Fail
    <3> QED BY <1>0, <2>1, <3>1, <3>2, CleanUpBegins DEF SandboxTypeOK
  <2>2. CASE pc' # "cleanup"
    <3>1. /\ watchdog' = "on"
          /\ UNCHANGED <<job, pc, todo, err, daemon, cancel, grown, out, bad, res, report>>
      BY <1>2, <2>2 DEF Enter, Fail
    <3> QED BY <1>0, <3>1 DEF SandboxInv, SandboxTypeOK, PlaceInv, AskedInv, LimitInv, ListedInv,
                              NothingLeftSilently, daemon
  <2> QED BY <2>1, <2>2
<1>3. CASE Launch
  <2>0. out = "none" /\ err = "none" /\ pc = "body" /\ c # "images"
    BY <1>0, <1>3 DEF PlaceInv, Launch
  <2>1. CASE pc' = "await"
    <3>1. /\ pending' = IF c \in Resources THEN pending \cup {c} ELSE pending
          /\ UNCHANGED <<job, todo, out, err, present, ran, late, cancel, watchdog, grown, bad,
                         res, report>>
      BY <1>3, <2>0, <2>1 DEF Launch, Fail
    <3>2. SandboxTypeOK' /\ PlaceInv' /\ LimitInv' /\ ListedInv'
      BY <1>0, <2>0, <2>1, <3>1 DEF SandboxTypeOK, PlaceInv, LimitInv, ListedInv,
        NothingLeftSilently
    <3>3. AskedInv'
      BY <1>0, <2>0, <2>1, <3>1 DEF AskedInv
    <3> QED BY <3>2, <3>3 DEF SandboxInv
  <2>2. CASE pc' = "exit"
    <3>1. /\ out' \in {"none", "cancelled"} /\ err' \in {"none", "policy", "other"}
          /\ UNCHANGED <<job, todo, daemon, cancel, watchdog, grown, bad, res, report>>
      BY <1>3, <2>0, <2>2 DEF Launch, Fail, daemon
    <3>2. SandboxTypeOK' /\ PlaceInv' /\ AskedInv'
      BY <1>0, <2>2, <3>1 DEF SandboxTypeOK, PlaceInv, AskedInv, daemon
    <3>3. LimitInv' /\ ListedInv'
      BY <1>0, <2>0, <2>2, <3>1 DEF LimitInv, ListedInv, NothingLeftSilently, daemon
    <3> QED BY <3>2, <3>3 DEF SandboxInv
  <2>3. CASE pc' \notin {"await", "exit"}
    <3>1. /\ pc' = "cleanup" /\ todo' = CleanUp(job) /\ err' \in {"policy", "other"}
          /\ UNCHANGED <<job, daemon, cancel, watchdog, grown, out, bad, res, report>>
      BY <1>3, <2>0, <2>3 DEF Launch, Fail, daemon
    <3> QED BY <1>0, <2>0, <3>1, CleanUpBegins DEF SandboxTypeOK
  <2> QED BY <2>1, <2>2, <2>3
<1>4. CASE Await
  <2>0. /\ out = "none" /\ err = "none" /\ pc = "await"
        /\ UNCHANGED <<job, daemon, cancel, watchdog, grown, bad, res, report>>
    BY <1>0, <1>4 DEF PlaceInv, Await
  <2>1. PICK s \in Outcomes(c) :
          \/ c \in Main /\ out' = s /\ pc' = "exit" /\ UNCHANGED <<todo, err>>
          \/ c \notin Main /\ todo' = Tail(todo) /\ pc' = "body" /\ UNCHANGED <<out, err>>
          \/ c \notin Main /\ Fail("policy") /\ UNCHANGED out
    BY <1>4 DEF Await
  <2>2. CASE c \in Main /\ out' = s /\ pc' = "exit" /\ UNCHANGED <<todo, err>>
    <3>1. s \in {"passed", "failed", "timed_out", "cancelled"} /\ (s = "passed" => Ended(c))
      BY <2>1 DEF Outcomes
    <3>2. s = "passed" => c \notin pending \cup present
      BY <2>2, <3>1 DEF Ended, Main
    <3>3. s = "passed" => (pending \cup present) \cap Main = {}
      BY <1>0, <2>0, <2>2, <3>2 DEF AskedInv, SandboxTypeOK
    <3>4. SandboxTypeOK' /\ PlaceInv' /\ AskedInv'
      BY <1>0, <2>0, <2>2, <3>1 DEF SandboxTypeOK, PlaceInv, AskedInv, daemon
    <3>5. LimitInv' /\ ListedInv'
      BY <1>0, <2>0, <2>2, <3>3 DEF LimitInv, ListedInv, NothingLeftSilently, daemon
    <3> QED BY <3>4, <3>5 DEF SandboxInv
  <2>3. CASE c \notin Main /\ todo' = Tail(todo) /\ pc' = "body" /\ UNCHANGED <<out, err>>
    <3>1. SandboxTypeOK' /\ LimitInv' /\ ListedInv'
      BY <1>0, <2>0, <2>3 DEF SandboxTypeOK, LimitInv, ListedInv, NothingLeftSilently, daemon
    <3>2. PlaceInv' /\ AskedInv'
      BY <1>0, <2>0, <2>3 DEF PlaceInv, AskedInv, daemon
    <3> QED BY <3>1, <3>2 DEF SandboxInv
  <2>4. CASE c \notin Main /\ Fail("policy") /\ UNCHANGED out
    BY <1>0, <2>0, <2>4, CleanUpBegins DEF Fail, SandboxTypeOK
  <2> QED BY <2>1, <2>2, <2>3, <2>4
<1>5. CASE Exit
  <2>1. /\ pc = "exit" /\ pc' = "cleanup" /\ todo' = CleanUp(job) /\ watchdog' = "off"
        /\ UNCHANGED <<job, daemon, cancel, grown, out, bad, res, report>>
        /\ \/ FinalCheck /\ UNCHANGED err
           \/ err' = "policy"
    BY <1>5 DEF Exit
  <2>2. err' \in {"none", "policy", "other"} /\ (err' = "none" => ~grown)
    BY <1>0, <2>1 DEF FinalCheck, SandboxTypeOK
  <2> QED BY <2>1, <2>2, CleanUpBegins
<1> QED BY <1>1, <1>2, <1>3, <1>4, <1>5

\* The clean-up, and how the function ends.
LEMMA CleanUpKeepsSandbox ==
    ASSUME SandboxInv, Remove \/ Look \/ End PROVE SandboxInv'
<1>0. SandboxTypeOK /\ PlaceInv /\ AskedInv /\ LimitInv /\ ListedInv /\ job \in Jobs
  BY DEF SandboxInv, SandboxTypeOK
<1> DEFINE c == Head(todo)
           Goes == \E k \in 1..Len(CleanUp(job)) : Tail(todo) = From(CleanUp(job), k)
<1>1. CASE Remove
  <2>1. /\ pc = "cleanup" /\ c \in Resources /\ todo' = Tail(todo)
        /\ present' \subseteq present /\ bad' \in BOOLEAN
        /\ UNCHANGED <<job, pc, pending, ran, late, cancel, watchdog, grown, out, err, res, report>>
    BY <1>0, <1>1 DEF Remove, SandboxTypeOK
  <2>2. Goes /\ Tail(todo) # <<"ls">>
    BY <1>0, <2>1, CleanUpStep DEF PlaceInv
  <2>3. SandboxTypeOK' /\ AskedInv' /\ LimitInv'
    BY <1>0, <2>1 DEF SandboxTypeOK, AskedInv, LimitInv
  <2>4. PlaceInv' /\ ListedInv'
    BY <1>0, <2>1, <2>2 DEF PlaceInv, ListedInv, NothingLeftSilently
  <2> QED BY <2>3, <2>4 DEF SandboxInv
<1>2. CASE Look
  <2>1. /\ pc = "cleanup" /\ c \in {"ps", "ls"} /\ todo' = Tail(todo)
        /\ bad' \in BOOLEAN /\ (~bad' => ~bad /\ Shown(c) = {})
        /\ pc' = IF Tail(todo) = <<>> THEN "end" ELSE "cleanup"
        /\ UNCHANGED <<job, daemon, cancel, watchdog, grown, out, err, res, report>>
    BY <1>0, <1>2 DEF Look, SandboxTypeOK
  <2>2. /\ c = "ps" /\ job = "qwen" => Goes /\ Tail(todo) = <<"ls">>
        /\ c = "ps" /\ job = "verify" => Tail(todo) = <<>>
        /\ c = "ls" => job = "qwen" /\ todo = <<"ls">> /\ Tail(todo) = <<>>
    BY <1>0, <2>1, CleanUpStep DEF PlaceInv
  <2>3. <<"ls">> # <<>>
    OBVIOUS
  <2>4. SandboxTypeOK' /\ AskedInv' /\ LimitInv'
    BY <1>0, <2>1 DEF SandboxTypeOK, AskedInv, LimitInv, daemon
  <2>5. present \subseteq Asks(job) /\ present \subseteq Containers \cup {"net"}
    BY <1>0 DEF AskedInv, SandboxTypeOK, Resources
  <2>6. CASE c = "ps" /\ job = "qwen"
    <3>1. pc' = "cleanup" /\ PlaceInv'
      BY <2>1, <2>2, <2>3, <2>6 DEF PlaceInv
    <3>2. ~bad' => present \cap Containers = {}
      BY <2>1, <2>6 DEF Shown
    <3>3. ListedInv'
      BY <2>1, <3>1, <3>2 DEF ListedInv, NothingLeftSilently, daemon
    <3> QED BY <2>4, <3>1, <3>3 DEF SandboxInv
  <2>7. CASE c = "ps" /\ job = "verify"
    <3>1. pc' = "end" /\ PlaceInv'
      BY <2>1, <2>2, <2>7 DEF PlaceInv
    <3>2. present \subseteq Containers
      BY <2>5, <2>7 DEF Asks, Containers, Main
    <3>3. ~bad' => present = {}
      BY <2>1, <2>7, <3>2 DEF Shown
    <3>4. ListedInv'
      BY <2>1, <3>1, <3>3 DEF ListedInv, NothingLeftSilently, daemon
    <3> QED BY <2>4, <3>1, <3>4 DEF SandboxInv
  <2>8. CASE c = "ls"
    <3>1. pc' = "end" /\ PlaceInv'
      BY <2>1, <2>2, <2>8 DEF PlaceInv
    <3>2. ~bad' => present \cap {"net"} = {} /\ present \cap Containers \subseteq late
      BY <1>0, <2>1, <2>2, <2>8 DEF Shown, ListedInv
    <3>3. ~bad' => present \subseteq late
      BY <2>5, <3>2
    <3>4. ListedInv'
      BY <2>1, <3>1, <3>3 DEF ListedInv, NothingLeftSilently, daemon
    <3> QED BY <2>4, <3>1, <3>4 DEF SandboxInv
  <2> QED BY <1>0, <2>1, <2>6, <2>7, <2>8 DEF Jobs
<1>3. CASE End
  <2>1. /\ pc = "end" /\ pc' = "done" /\ report' \in Reports(res')
        /\ UNCHANGED <<job, todo, daemon, cancel, watchdog, grown, out, err, bad>>
        /\ \/ res' = IF bad THEN "cleanup" ELSE IF err # "none" THEN err ELSE out
           \/ res' = "unlink"
    BY <1>3 DEF End
  <2>2. /\ report' \in {"none", "passed", "failed", "timed_out", "cancelled", "raised"}
        /\ report' = "passed" => res' = "passed"
    BY <1>0, <2>1 DEF Reports, SandboxTypeOK
  <2>3. res' = "passed" => out = "passed" /\ err = "none"
    BY <1>0, <2>1 DEF SandboxTypeOK
  <2>4. SandboxTypeOK' /\ PlaceInv' /\ AskedInv'
    BY <1>0, <2>1, <2>2 DEF SandboxTypeOK, PlaceInv, AskedInv, daemon
  <2>5. LimitInv'
    BY <1>0, <2>1, <2>2, <2>3 DEF LimitInv, daemon
  <2>6. ListedInv'
    BY <1>0, <2>1 DEF ListedInv, NothingLeftSilently, daemon
  <2> QED BY <2>4, <2>5, <2>6 DEF SandboxInv
<1> QED BY <1>1, <1>2, <1>3

\* The daemon carries out or refuses a request; a container ends by itself.
LEMMA DaemonKeepsSandbox ==
    ASSUME SandboxInv, NEW r \in Resources, Begin(r) \/ Refuse(r) \/ Finish(r) PROVE SandboxInv'
<1>0. SandboxTypeOK /\ PlaceInv /\ AskedInv /\ LimitInv /\ ListedInv
  BY DEF SandboxInv
<1>1. CASE Begin(r)
  <2>1. /\ r \in pending /\ pending' = pending \ {r}
        /\ present' = present \cup {r} /\ ran' = ran \cup {r}
        /\ late' = IF Looked(r) THEN late \cup {r} ELSE late
        /\ UNCHANGED <<job, pc, todo, cancel, watchdog, grown, outcome>>
    BY <1>1 DEF Begin
  <2>2. SandboxTypeOK' /\ PlaceInv' /\ AskedInv' /\ LimitInv'
    BY <1>0, <2>1 DEF SandboxTypeOK, PlaceInv, AskedInv, LimitInv, outcome
  <2>3. ASSUME pc = "cleanup", todo = <<"ls">>, ~bad
        PROVE present' \cap Containers \subseteq late'
    <3>1. r # "net" => Looked(r)
      BY <2>3 DEF Looked
    <3>2. "net" \notin Containers
      BY DEF Containers, Probes, Main
    <3> QED BY <1>0, <2>1, <2>3, <3>1, <3>2 DEF ListedInv
  <2>4. pc \in {"end", "done"} => late' = late \cup {r}
    BY <2>1 DEF Looked
  <2>5. ListedInv'
    BY <1>0, <2>1, <2>3, <2>4 DEF ListedInv, NothingLeftSilently, outcome
  <2> QED BY <2>2, <2>5 DEF SandboxInv
<1>2. CASE Refuse(r) \/ Finish(r)
  <2>1. /\ pending' \subseteq pending /\ present' \subseteq present
        /\ UNCHANGED <<job, pc, todo, ran, late, cancel, watchdog, grown, outcome>>
    BY <1>2 DEF Refuse, Finish
  <2>2. SandboxTypeOK' /\ PlaceInv' /\ AskedInv' /\ LimitInv'
    BY <1>0, <2>1 DEF SandboxTypeOK, PlaceInv, AskedInv, LimitInv, outcome
  <2>3. ListedInv'
    BY <1>0, <2>1 DEF ListedInv, NothingLeftSilently, outcome
  <2> QED BY <2>2, <2>3 DEF SandboxInv
<1> QED BY <1>1, <1>2

\* Writes to the mounts, the watchdog's threads, the caller, and the engine's death.
LEMMA EnvironmentKeepsSandbox ==
    ASSUME SandboxInv, Environment PROVE SandboxInv'
<1>0. SandboxTypeOK /\ PlaceInv /\ AskedInv /\ LimitInv /\ ListedInv
  BY DEF SandboxInv
<1>1. CASE Use
  <2>1. out # "passed"
    BY <1>0, <1>1 DEF Use, LimitInv
  <2> QED BY <1>0, <1>1, <2>1 DEF SandboxInv, Use, SandboxTypeOK, PlaceInv, AskedInv, LimitInv, ListedInv,
                                  NothingLeftSilently, daemon, outcome
<1>2. CASE Trip \/ Cancel
  <2>1. /\ watchdog' \in {"off", "on", "tripped"} /\ cancel' \in BOOLEAN
        /\ UNCHANGED <<job, pc, todo, daemon, grown, outcome>>
    BY <1>0, <1>2 DEF Trip, Cancel, SandboxTypeOK
  <2> QED BY <1>0, <2>1 DEF SandboxInv, SandboxTypeOK, PlaceInv, AskedInv, LimitInv, ListedInv,
                            NothingLeftSilently, daemon, outcome
<1>3. CASE Crash
  BY <1>0, <1>3 DEF SandboxInv, Crash, SandboxTypeOK, PlaceInv, AskedInv, LimitInv, ListedInv,
                    NothingLeftSilently, daemon, outcome
<1> QED BY <1>1, <1>2, <1>3 DEF Environment

\* Every step.
LEMMA SandboxGoesOn == SandboxInv /\ [SandboxNext]_sandboxVars => SandboxInv'
<1> SUFFICES ASSUME SandboxInv, [SandboxNext]_sandboxVars PROVE SandboxInv'
  OBVIOUS
<1>1. CASE Engine
  BY <1>1, BodyKeepsSandbox, CleanUpKeepsSandbox DEF Engine
<1>2. CASE Environment
  BY <1>2, EnvironmentKeepsSandbox
<1>3. CASE \E r \in Resources : Begin(r) \/ Refuse(r) \/ Finish(r)
  BY <1>3, DaemonKeepsSandbox
<1>4. CASE UNCHANGED sandboxVars
  BY <1>4 DEF SandboxInv, SandboxTypeOK, PlaceInv, AskedInv, LimitInv, ListedInv,
    NothingLeftSilently,
              sandboxVars, daemon, outcome
<1> QED BY <1>1, <1>2, <1>3, <1>4 DEF SandboxNext

\* The labelled containers and the network of a run are gone when it ends otherwise than
\* with the clean-up error, whatever failed before (the finally blocks of executors.py
\* and verification.py).
THEOREM NothingIsLeft == SandboxSpec => []CleanUpSound
<1>1. SandboxInv => CleanUpSound
  BY DEF SandboxInv, ListedInv, CleanUpSound
<1> QED BY <1>1, SandboxBegins, SandboxGoesOn, PTL DEF SandboxSpec

\* A command reported as passed left the mounts within their limit (the last scan of
\* WritableMountWatchdog.__exit__).
THEOREM LimitsHold == SandboxSpec => []PassedWithinLimits
<1>1. ASSUME SandboxInv PROVE PassedWithinLimits
  BY <1>1 DEF SandboxInv, LimitInv, PassedWithinLimits
<1> QED BY <1>1, SandboxBegins, SandboxGoesOn, PTL DEF SandboxSpec
=============================================================================
