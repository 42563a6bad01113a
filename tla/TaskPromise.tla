----------------------------- MODULE TaskPromise -----------------------------
(***************************************************************************)
(* What the durable store promises about a coding task, whoever writes to  *)
(* it: a task is opened once, its evidence (an execution, a verification,  *)
(* a review, each only after the one before) only grows, and its outcome   *)
(* is decided at most once, in favour of success only on full evidence.    *)
(***************************************************************************)
CONSTANT Tasks

VARIABLES
    outcome,    \* "none" before the task exists, "open" until it is decided
    evidence    \* the phases the task has gone through

promiseVars == <<outcome, evidence>>

Phases == {"executing", "verifying", "reviewing"}
Decisions == {"completed", "failed", "cancelled"}

Init ==
    /\ outcome = [t \in Tasks |-> "none"]
    /\ evidence = [t \in Tasks |-> {}]

Open(t) ==
    /\ outcome[t] = "none"
    /\ outcome' = [outcome EXCEPT ![t] = "open"]
    /\ UNCHANGED evidence

Enter(t, p) ==
    /\ outcome[t] = "open"
    /\ p = "verifying" => "executing" \in evidence[t]
    /\ p = "reviewing" => "verifying" \in evidence[t]
    /\ evidence' = [evidence EXCEPT ![t] = @ \cup {p}]
    /\ UNCHANGED outcome

Decide(t, d) ==
    /\ outcome[t] = "open"
    /\ d = "completed" => evidence[t] = Phases
    /\ outcome' = [outcome EXCEPT ![t] = d]
    /\ UNCHANGED evidence

Next ==
    \E t \in Tasks :
        \/ Open(t)
        \/ \E p \in Phases : Enter(t, p)
        \/ \E d \in Decisions : Decide(t, d)

Spec == Init /\ [][Next]_promiseVars
=============================================================================
