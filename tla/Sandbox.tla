------------------------------- MODULE Sandbox -------------------------------
(***************************************************************************)
(* One command in a Docker sandbox: the Qwen executor                      *)
(* (_run_qwen_in_docker, services/coding/executors.py) or a verification   *)
(* (_run_verification_in_docker, services/coding/verification.py), with    *)
(* the process runner that supervises each docker client and the watchdog  *)
(* of the writable mounts (services/coding/resources.py).                  *)
(*                                                                         *)
(* A docker client that is killed does not stop what the daemon was asked  *)
(* for: a request (pending) may still be carried out and a container       *)
(* (present) goes on, also after the engine itself has died.               *)
(*                                                                         *)
(*   todo     the commands left of the body, then of the clean-up          *)
(*   ran      containers that were started at some time                    *)
(*   late     history: what appeared after the clean-up had looked for it  *)
(*   grown    the writable mounts are over their limit now                 *)
(*   res, report   how the function ended, and what its caller makes of it *)
(*                                                                         *)
(* The daemon is external.  The wording of commands, the image recipe and  *)
(* the content of the run are left out.                                    *)
(***************************************************************************)
EXTENDS Sequences

VARIABLES job, pc, todo, pending, present, ran, late, cancel, watchdog, grown,
          out, err, bad, res, report

daemon == <<pending, present, ran, late>>
outcome == <<out, err, bad, res, report>>
sandboxVars == <<job, pc, todo, daemon, cancel, watchdog, grown, outcome>>

Jobs == {"qwen", "verify"}
Probes == {"gitprobe", "allowed", "direct", "denied", "tags"}
Main == {"agent", "verifier"}
Containers == Probes \cup Main \cup {"proxy"}
Resources == Containers \cup {"net"}

\* Commands whose success the sandbox requires, and those it requires to fail.
MustPass == {"gitprobe", "net", "proxy", "connect", "allowed"}
MustFail == {"direct", "denied", "tags"}

Body(j) ==
    IF j = "qwen"
    THEN <<"gitprobe", "net", "proxy", "connect", "allowed", "direct", "denied", "tags", "agent">>
    ELSE <<"images", "verifier">>

\* The finally block: removals by name, then listings by the label of the run.
CleanUp(j) ==
    IF j = "qwen" THEN <<"agent", "proxy", "net", "ps", "ls">> ELSE <<"verifier", "ps">>

SandboxInit ==
    /\ job \in Jobs
    /\ pc = "body" /\ todo = Body(job)
    /\ pending = {} /\ present = {} /\ ran = {} /\ late = {}
    /\ cancel = FALSE /\ watchdog = "off" /\ grown = FALSE
    /\ out = "none" /\ err = "none" /\ bad = FALSE /\ res = "none" /\ report = "none"

(***************************************************************************)
(* The docker client under ProcessRunner.run.                              *)
(***************************************************************************)
\* The client's request is over: a container in the foreground has gone, a
\* detached one or a network is there.
Ended(c) ==
    CASE c = "connect" -> TRUE
      [] c \in {"net", "proxy"} -> c \notin pending
      [] OTHER -> c \notin pending \cup present

Succeeded(c) ==
    CASE c = "connect" -> {"net", "proxy"} \subseteq present
      [] c \in {"net", "proxy"} -> c \in present
      [] OTHER -> c \in ran

\* CompositeCancellation, given to the main command only.
CancelSeen(c) == c \in Main /\ (cancel \/ watchdog = "tripped")

\* What the supervising loop may return now: exit code, too much output or stdin not
\* delivered, deadline, cancellation.
Outcomes(c) ==
    {s \in {"passed", "failed", "timed_out", "cancelled"} :
       CASE s = "passed"    -> Ended(c) /\ Succeeded(c)
         [] s = "failed"    -> Ended(c) \/ c \in Main
         [] s = "timed_out" -> TRUE
         [] s = "cancelled" -> CancelSeen(c)}

(***************************************************************************)
(* The body.                                                               *)
(***************************************************************************)
Fail(e) ==
    /\ err' = e
    /\ pc' = "cleanup" /\ todo' = CleanUp(job)

\* The images of a verification are inspected, pulled or built before the try block.
Images ==
    /\ pc = "body" /\ Head(todo) = "images"
    /\ \/ todo' = Tail(todo) /\ UNCHANGED <<pc, outcome>>
       \/ /\ res' = "policy"
          /\ report' = IF cancel THEN "cancelled" ELSE "failed"
          /\ pc' = "done"
          /\ UNCHANGED <<todo, out, err, bad>>
    /\ UNCHANGED <<job, daemon, cancel, watchdog, grown>>

\* WritableMountWatchdog.__enter__: a first scan, then two polling threads.
Enter ==
    /\ pc = "body" /\ Head(todo) \in Main /\ watchdog = "off"
    /\ \/ watchdog' = "on" /\ UNCHANGED <<pc, todo, err>>
       \/ Fail("policy") /\ UNCHANGED watchdog
    /\ UNCHANGED <<job, daemon, cancel, grown, out, bad, res, report>>

\* The client is started, or cannot be; Qwen validates the Git identity before.
Launch ==
    LET c == Head(todo)
    IN  /\ pc = "body" /\ c # "images"
        /\ c \in Main => watchdog # "off"
        /\ \/ /\ ~CancelSeen(c)
              /\ pending' = IF c \in Resources THEN pending \cup {c} ELSE pending
              /\ pc' = "await"
              /\ UNCHANGED <<todo, out, err>>
           \/ /\ CancelSeen(c)
              /\ out' = "cancelled" /\ pc' = "exit"
              /\ UNCHANGED <<todo, err, pending>>
           \/ /\ \E e \in {"policy", "other"} : IF c \in Main THEN err' = e /\ pc' = "exit" /\ UNCHANGED todo
                                                ELSE Fail(e)
              /\ UNCHANGED <<pending, out>>
        /\ UNCHANGED <<job, present, ran, late, cancel, watchdog, grown, bad, res, report>>

\* The run loop decides; what the daemon still does is not its concern.
Await ==
    LET c == Head(todo)
    IN  /\ pc = "await"
        /\ \E s \in Outcomes(c) :
             CASE c \in Main -> out' = s /\ pc' = "exit" /\ UNCHANGED <<todo, err>>
               [] c \notin Main /\ (s = "passed" <=> c \in MustPass) ->
                    todo' = Tail(todo) /\ pc' = "body" /\ UNCHANGED <<out, err>>
               [] OTHER -> Fail("policy") /\ UNCHANGED out
        /\ UNCHANGED <<job, daemon, cancel, watchdog, grown, bad, res, report>>

\* Wrong variant: the threads had their last look before the command ended.
FinalCheck_Skipped == watchdog = "on"

\* __exit__: no recorded failure, and a last scan finds the mounts within the limit.
FinalCheck == watchdog = "on" /\ ~grown

\* Leaving the with block: the identity is validated, then the watchdog's failure
\* replaces whatever happened.  A scan may also fail by itself.
Exit ==
    /\ pc = "exit"
    /\ watchdog' = "off"
    /\ pc' = "cleanup" /\ todo' = CleanUp(job)
    /\ \/ FinalCheck /\ UNCHANGED err
       \/ err' = "policy"
    /\ UNCHANGED <<job, daemon, cancel, grown, out, bad, res, report>>

(***************************************************************************)
(* The clean-up.                                                           *)
(***************************************************************************)
\* A network goes only when no container is attached to it.
Removable(r) == r = "net" => present \cap {"proxy", "agent", "allowed", "direct", "denied", "tags"} = {}

\* docker rm --force, docker network rm: the status is not looked at, an exception is.
Remove ==
    LET r == Head(todo)
    IN  /\ pc = "cleanup" /\ r \in Resources
        /\ \/ Removable(r) /\ present' = present \ {r} /\ UNCHANGED bad
           \/ UNCHANGED <<present, bad>>
           \/ bad' = TRUE /\ UNCHANGED present
        /\ todo' = Tail(todo)
        /\ UNCHANGED <<job, pc, pending, ran, late, cancel, watchdog, grown, out, err, res, report>>

\* Wrong variant: found by name, not by the label of the run.
Shown_ByName(l) == IF l = "ps" THEN present \cap ({"proxy"} \cup Main) ELSE present \cap {"net"}

Shown(l) == IF l = "ps" THEN present \cap Containers ELSE present \cap {"net"}

\* docker ps --all, docker network ls.
Look ==
    LET l == Head(todo)
    IN  /\ pc = "cleanup" /\ l \in {"ps", "ls"}
        /\ \/ bad' = (bad \/ Shown(l) # {})
           \/ bad' = TRUE
        /\ todo' = Tail(todo)
        /\ pc' = IF Tail(todo) = <<>> THEN "end" ELSE "cleanup"
        /\ UNCHANGED <<job, daemon, cancel, watchdog, grown, out, err, res, report>>

\* What the caller makes of it: VerificationRunner.run turns a policy error into a
\* failed or cancelled command; QwenExecutor.execute raises unless the status is
\* passed, and also when the events show a model error or a forbidden tool.
Reports(r) ==
    CASE r \in {"policy", "cleanup"} ->
           {IF job = "qwen" THEN "raised" ELSE IF cancel THEN "cancelled" ELSE "failed"}
      [] r \in {"other", "unlink"} -> {"raised"}
      [] r = "passed" -> IF job = "qwen" THEN {"passed", "raised"} ELSE {"passed"}
      [] OTHER -> {IF job = "qwen" THEN "raised" ELSE r}

\* How the function ends: the clean-up error comes first, but for a verification whose
\* input files cannot be unlinked after the listing.
End ==
    /\ pc = "end"
    /\ pc' = "done"
    /\ \/ res' = IF bad THEN "cleanup" ELSE IF err # "none" THEN err ELSE out
       \/ job = "verify" /\ res' = "unlink"
    /\ report' \in Reports(res')
    /\ UNCHANGED <<job, todo, daemon, cancel, watchdog, grown, out, err, bad>>

(***************************************************************************)
(* The daemon, the watchdog's threads, the caller and the machine.         *)
(***************************************************************************)
\* The clean-up has looked for r.
Looked(r) ==
    \/ pc \in {"end", "done"}
    \/ pc = "cleanup" /\ r # "net" /\ todo = <<"ls">>

Begin(r) ==
    /\ r \in pending
    /\ pending' = pending \ {r}
    /\ present' = present \cup {r} /\ ran' = ran \cup {r}
    /\ late' = IF Looked(r) THEN late \cup {r} ELSE late
    /\ UNCHANGED <<job, pc, todo, cancel, watchdog, grown, outcome>>

Refuse(r) ==
    /\ r \in pending
    /\ pending' = pending \ {r}
    /\ UNCHANGED <<job, pc, todo, present, ran, late, cancel, watchdog, grown, outcome>>

\* A container's command ends and --rm removes it.
Finish(c) ==
    /\ c \in present \cap Containers
    /\ present' = present \ {c}
    /\ UNCHANGED <<job, pc, todo, pending, ran, late, cancel, watchdog, grown, outcome>>

\* The main container writes to the mounts, or deletes from them.
Use ==
    /\ present \cap Main # {}
    /\ grown' = ~grown
    /\ UNCHANGED <<job, pc, todo, daemon, cancel, watchdog, outcome>>

\* _size_loop, _free_space_loop: over the limit, no space, or a scan that failed.
Trip ==
    /\ watchdog = "on"
    /\ watchdog' = "tripped"
    /\ UNCHANGED <<job, pc, todo, daemon, cancel, grown, outcome>>

Cancel ==
    /\ ~cancel
    /\ cancel' = TRUE
    /\ UNCHANGED <<job, pc, todo, daemon, watchdog, grown, outcome>>

\* The engine's process dies.
Crash ==
    /\ pc \notin {"done", "dead"}
    /\ pc' = "dead"
    /\ UNCHANGED <<job, todo, daemon, cancel, watchdog, grown, outcome>>

Engine == Images \/ Enter \/ Launch \/ Await \/ Exit \/ Remove \/ Look \/ End
Environment == Use \/ Trip \/ Cancel \/ Crash

SandboxNext ==
    \/ Engine \/ Environment
    \/ \E r \in Resources : Begin(r) \/ Refuse(r) \/ Finish(r)

SandboxSpec == SandboxInit /\ [][SandboxNext]_sandboxVars

\* Wrong variant: the proxy is started without the timeout wrapper.
Expiring_NotProxy == Containers \ {"proxy"}

\* Containers whose entry point is bounded: timeout, or curl --max-time.
Expiring == Containers

\* Every docker client has a deadline, the daemon answers each request, and a
\* bounded entry point ends.  Nothing is assumed of removals, the caller or the mounts.
SandboxFairness ==
    /\ WF_sandboxVars(Engine)
    /\ \A r \in Resources : WF_sandboxVars(Begin(r) \/ Refuse(r))
    /\ \A c \in Expiring : WF_sandboxVars(Finish(c))

FairSandbox == SandboxSpec /\ SandboxFairness

(***************************************************************************)
(* Properties.                                                             *)
(***************************************************************************)
\* Types; a history names only what was started.
SandboxTypeOK ==
    /\ job \in Jobs /\ pc \in {"body", "await", "exit", "cleanup", "end", "done", "dead"}
    /\ pending \subseteq Resources /\ ran \subseteq Resources
    /\ present \subseteq ran /\ late \subseteq ran
    /\ cancel \in BOOLEAN /\ grown \in BOOLEAN /\ bad \in BOOLEAN
    /\ watchdog \in {"off", "on", "tripped"}
    /\ out \in {"none", "passed", "failed", "timed_out", "cancelled"}
    /\ err \in {"none", "policy", "other"}
    /\ report \in {"none", "passed", "failed", "timed_out", "cancelled", "raised"}

\* The labelled resources of the run are gone when it ends any other way than with
\* the clean-up error: whichever command failed, timed out, was cancelled or raised,
\* and although the status of the removals is ignored.  The exceptions are a request
\* the daemon carried out after the listings, and an unlink error, which hides the
\* clean-up error.
NothingLeftSilently ==
    pc = "done" /\ res \notin {"cleanup", "unlink"} => present \subseteq late

\* A command reported as passed left the writable mounts within their limit, however
\* the growth fell between the watchdog's polls.
PassedWithinLimits == report = "passed" => ~grown

\* No container stays for ever, not after a failed clean-up, a late start or the
\* death of the engine.
ContainersEnd == <>[](present \cap Containers = {})

\* The clean-up is as good as its word, and the records of the run are well-formed.
CleanUpSound == SandboxTypeOK /\ NothingLeftSilently
=============================================================================
