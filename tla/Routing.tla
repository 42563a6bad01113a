------------------------------ MODULE Routing ------------------------------
(***************************************************************************)
(* From a chat request to the handler that serves it: the intent analysis  *)
(* and plan of services/orchestration/planner.py, the decision of          *)
(* services/orchestration/router.py, and the branch that chat() of         *)
(* services/gateway/app.py takes.  All of it is pure but for the snapshot  *)
(* of capabilities, which is cached for five seconds while the endpoints   *)
(* and the circuit of the documentation server change.                     *)
(*                                                                         *)
(* A request is the set of markers found in its text and attachments, its  *)
(* routing override, and how its project path resolved.  Which words make  *)
(* a marker is left to config/routing.json.                                *)
(***************************************************************************)
EXTENDS Naturals, FiniteSets, FiniteSetsExt, GatewayTables

CONSTANT MaxMarkers   \* bound on the markers of one request

ASSUME RoutingConstants == MaxMarkers \in Nat

Markers ==
    {"auxiliary", "educational", "context", "target", "review", "mutate", "ceiling",
     "read", "docs", "url", "private", "browse", "image", "architecture", "strong",
     "high", "critical", "audio", "picture"}

Overrides == {"none", "local", "codex", "voice", "vision", "image", "browser", "conflict"}

\* "ok" stands for two answers that no route needs both: the user approved cloud
\* execution (codex), and the plan fits the local agent's context (local_code).
Inputs ==
    [marks : {m \in UNION {kSubset(n, Markers) : n \in 0..MaxMarkers} : "private" \in m => "url" \in m},
     override : Overrides,
     project : {"explicit", "default", "invalid", "missing"},
     ok : BOOLEAN]

VARIABLES circuit,    \* the documentation server's circuit is closed
          cache,      \* ROUTING_CAPABILITY_CACHE: the probes' result, and its age
          decided     \* the request being served with its decision, if any

routingVars == <<circuit, cache, decided>>

NoCache == [up |-> FALSE, context7 |-> FALSE, age |-> "none"]

-----------------------------------------------------------------------------
(* analyze_request *)

Explicit(q) == q.project \in {"explicit", "invalid"}
Conflict(q) == {"mutate", "ceiling"} \subseteq q.marks
Mutation(q) == "mutate" \in q.marks /\ "ceiling" \notin q.marks

Programming(q) ==
    \/ q.marks \cap {"target", "context"} # {}
    \/ "review" \in q.marks /\ Mutation(q)
    \/ Explicit(q) /\ "read" \in q.marks

RepositoryAction(q) ==
    /\ "auxiliary" \notin q.marks
    /\ ~("educational" \in q.marks /\ ~Explicit(q) /\ q.marks \cap {"context", "review"} = {})
    /\ Programming(q)
    /\ Mutation(q) \/ Conflict(q) \/ q.marks \cap {"review", "read"} # {}

Browser(q) == {"url", "browse"} \subseteq q.marks

\* Wrong variant: a media override is left to the router alone.
Action_Text(q) ==
    CASE RepositoryAction(q) ->
           IF Conflict(q) THEN "repository_read"
           ELSE IF Mutation(q) THEN "repository_mutation"
           ELSE IF "review" \in q.marks THEN "review" ELSE "repository_read"
      [] OTHER ->
           IF "auxiliary" \in q.marks THEN "auxiliary"
           ELSE IF "audio" \in q.marks THEN "voice"
           ELSE IF "picture" \in q.marks /\ "image" \notin q.marks THEN "vision"
           ELSE IF "image" \in q.marks THEN "image"
           ELSE IF "docs" \in q.marks THEN "documentation"
           ELSE IF Browser(q) THEN "browser"
           ELSE IF q.marks \cap {"strong", "architecture"} # {} THEN "analysis" ELSE "chat"

\* plan_request lets a media override replace the action of a request that is
\* not about a repository.
Action(q) ==
    CASE RepositoryAction(q) ->
           IF Conflict(q) THEN "repository_read"
           ELSE IF Mutation(q) THEN "repository_mutation"
           ELSE IF "review" \in q.marks THEN "review" ELSE "repository_read"
      [] ~RepositoryAction(q) /\ q.override \in {"voice", "vision", "image", "browser"} -> q.override
      [] OTHER ->
           IF "auxiliary" \in q.marks THEN "auxiliary"
           ELSE IF "audio" \in q.marks THEN "voice"
           ELSE IF "picture" \in q.marks /\ "image" \notin q.marks THEN "vision"
           ELSE IF "image" \in q.marks THEN "image"
           ELSE IF "docs" \in q.marks THEN "documentation"
           ELSE IF Browser(q) THEN "browser"
           ELSE IF q.marks \cap {"strong", "architecture"} # {} THEN "analysis" ELSE "chat"

Complexity(q) ==
    CASE RepositoryAction(q) /\ "critical" \in q.marks -> "critical"
      [] RepositoryAction(q) /\ "critical" \notin q.marks /\ q.marks \cap {"review", "high"} # {} -> "high"
      [] ~RepositoryAction(q) /\ "architecture" \in q.marks -> "high"
      [] OTHER -> IF RepositoryAction(q) \/ "strong" \in q.marks THEN "medium" ELSE "low"

\* The analysed request p: the request q with its IntentAnalysis.
Analyzed(q) ==
    [marks |-> q.marks, override |-> q.override, project |-> q.project, ok |-> q.ok,
     repository |-> RepositoryAction(q), action |-> Action(q), complexity |-> Complexity(q)]

Mode(p) ==
    CASE p.action \in {"repository_mutation", "image"} -> "write"
      [] p.action \in {"auxiliary", "analysis", "chat"} -> "none"
      [] OTHER -> "read_only"

\* Chat and auxiliary requests have no plan.
HasPlan(p) == p.action \notin {"chat", "auxiliary"}

-----------------------------------------------------------------------------
(* route_request *)

NaturalRoute(p) ==
    CASE "auxiliary" \in p.marks -> "auxiliary"
      [] "auxiliary" \notin p.marks /\ p.repository ->
           IF "review" \in p.marks \/ p.complexity \in {"high", "critical"} THEN "codex" ELSE "local_code"
      [] OTHER ->
           CASE p.action = "documentation" -> "docs"
             [] p.action = "analysis" -> "strong_chat"
             [] p.action \in {"voice", "vision", "image", "browser"} -> p.action
             [] OTHER -> "fast_chat"

\* _apply_override; a rejected or conflicting override leaves the natural route.
Route(p) ==
    CASE p.override = "local" ->
           IF p.repository THEN "local_code"
           ELSE IF NaturalRoute(p) \in {"image", "voice", "vision"} THEN NaturalRoute(p)
           ELSE IF p.complexity # "low" THEN "strong_chat" ELSE "fast_chat"
      [] p.override = "codex" ->
           IF p.repository \/ "architecture" \in p.marks \/ Programming(p)
           THEN "codex" ELSE NaturalRoute(p)
      [] p.override \in {"voice", "vision", "image", "browser"} -> p.override
      [] OTHER -> NaturalRoute(p)

\* public_url_policy_reason.
UrlRefused(p) == "url" \notin p.marks \/ "private" \in p.marks

\* Refused: permission is denied.
Denied(p, route) ==
    \/ route \in {"local_code", "codex"} /\ p.repository /\ p.project \in {"invalid", "missing"}
    \/ Conflict(p)
    \/ p.override = "conflict"
    \/ p.override = "local" /\ p.repository /\ p.complexity = "critical"
    \/ p.override = "local" /\ p.repository /\ p.complexity = "high" /\ Mode(p) = "write"
    \/ route = "browser" /\ UrlRefused(p)

\* Blocked without being denied: an attachment is missing or the plan is too big.
Incomplete(p, route) ==
    \/ route = "voice" /\ "audio" \notin p.marks
    \/ route = "vision" /\ "picture" \notin p.marks
    \/ route = "local_code" /\ HasPlan(p) /\ ~p.ok

ExecutorOf == [auxiliary |-> "fast_ollama", fast_chat |-> "fast_ollama", strong_chat |-> "strong_ollama",
               local_code |-> "qwen_code", codex |-> "codex_cli", docs |-> "qwen_code",
               browser |-> "playwright", image |-> "comfyui", voice |-> "whisper", vision |-> "degraded"]

\* Wrong variant: the codex route runs as soon as the capability is there.
Executor_Unapproved(p, route, caps) ==
    LET up == IF route = "docs" THEN caps.context7 ELSE caps.up IN
    CASE Denied(p, route) -> "degraded"
      [] ~Denied(p, route) /\ route = "codex" -> IF up THEN "codex_cli" ELSE "codex_bundle"
      [] OTHER -> IF Incomplete(p, route) \/ ~up THEN "degraded" ELSE ExecutorOf[route]

\* A route preference is no permission to export a workspace: without approval or
\* without Codex a bundle is written.  Documentation needs its server and the local
\* agent.
Executor(p, route, caps) ==
    LET up == IF route = "docs" THEN caps.context7 ELSE caps.up IN
    CASE Denied(p, route) -> "degraded"
      [] ~Denied(p, route) /\ route = "codex" -> IF p.ok /\ up THEN "codex_cli" ELSE "codex_bundle"
      [] OTHER -> IF Incomplete(p, route) \/ ~up THEN "degraded" ELSE ExecutorOf[route]

\* Wrong variant: an image job announces its own lock only.
RequiredLocks_ImageOnly ==
    [fast_ollama |-> {"fast"}, strong_ollama |-> {"gpu"}, qwen_code |-> {"agent", "gpu"},
     codex_cli |-> {"codex"}, comfyui |-> {"image"}, playwright |-> {}, whisper |-> {},
     codex_bundle |-> {}, degraded |-> {}]

\* required_locks, without the worktree's.
RequiredLocks ==
    [fast_ollama |-> {"fast"}, strong_ollama |-> {"gpu"}, qwen_code |-> {"agent", "gpu"},
     codex_cli |-> {"codex"}, comfyui |-> {"image", "gpu"}, playwright |-> {}, whisper |-> {},
     codex_bundle |-> {}, degraded |-> {}]

-----------------------------------------------------------------------------
(* chat(): the branch that serves the decision *)

Branch(route, executor) ==
    CASE executor = "degraded" -> "refuse"
      [] executor = "codex_bundle" -> "bundle"
      [] OTHER ->
           CASE route \in {"auxiliary", "fast_chat"} -> "fast"
             [] route = "strong_chat" -> "strong"
             [] OTHER -> route

\* Branches that assert a plan.
NeedsPlan == {"bundle", "local_code", "docs", "voice", "codex", "browser", "image"}

\* /codex on a question that mentions code: the route is codex, and there is no plan.
CodexQuestion(p) == p.override = "codex" /\ ~p.repository /\ ~HasPlan(p)

\* RoutingDecision: route, executor and the branch that follows.
Decision(p, caps) ==
    LET route == Route(p) executor == Executor(p, route, caps)
    IN [ask |-> p, executor |-> executor, branch |-> Branch(route, executor)]

-----------------------------------------------------------------------------
(* The snapshot and the requests *)

RoutingInit == circuit \in BOOLEAN /\ cache = NoCache /\ decided = {}

\* Wrong variant: within its five seconds the whole snapshot is reused.
Snapshot_Cached(probe) ==
    IF cache.age = "fresh" THEN [up |-> cache.up, context7 |-> cache.context7]
    ELSE [up |-> probe, context7 |-> probe /\ circuit]

\* routing_capability_snapshot: probes are cached, the circuit is read each time.
Snapshot(probe) ==
    LET up == IF cache.age = "fresh" THEN cache.up ELSE probe IN
    [up |-> up, context7 |-> up /\ circuit]

\* A request is decided; probe: what the executors answer when they are asked.
Ask(q, probe) ==
    LET caps == Snapshot(probe) IN
    /\ decided = {}
    /\ decided' = {Decision(Analyzed(q), caps)}
    /\ cache' = [up |-> caps.up, context7 |-> caps.context7, age |-> "fresh"]
    /\ UNCHANGED circuit

\* The branch is taken; the decision is not kept.
Serve == decided # {} /\ decided' = {} /\ UNCHANGED <<circuit, cache>>

\* The circuit opens and closes, the cache grows old.
CircuitChange == decided = {} /\ circuit' = ~circuit /\ UNCHANGED <<cache, decided>>
CacheExpires ==
    /\ decided = {} /\ cache.age = "fresh"
    /\ cache' = NoCache /\ UNCHANGED <<circuit, decided>>

RoutingNext ==
    \/ decided = {} /\ \E q \in Inputs, probe \in BOOLEAN : Ask(q, probe)
    \/ Serve \/ CircuitChange \/ CacheExpires

RoutingSpec == RoutingInit /\ [][RoutingNext]_routingVars

-----------------------------------------------------------------------------
(* Properties *)

\* Types of circuit, cache and decision.
RoutingTypeOK ==
    /\ circuit \in BOOLEAN
    /\ cache \in [up : BOOLEAN, context7 : BOOLEAN, age : {"fresh", "none"}]
    /\ \A d \in decided : d.executor \in DOMAIN RequiredLocks /\ d.branch \in Branches

\* What a decision may lead to.  Nothing is written by a branch that runs unless
\* the text asks for a change and forbids none; Codex gets a workspace only with
\* approval and a resolved project; a page is opened only when its address is
\* public; a conflicting override runs nothing.
RoutingSafe ==
    \A d \in decided :
        LET p == d.ask b == d.branch IN
        /\ b \in {"local_code", "codex"} /\ p.repository => ~Conflict(p) /\ (Mode(p) = "write" => Mutation(p))
        /\ b = "codex" => p.ok /\ (p.repository => p.project \in {"explicit", "default"})
        /\ b = "local_code" => p.repository /\ p.project \in {"explicit", "default"}
        /\ b = "browser" => "url" \in p.marks /\ "private" \notin p.marks
        /\ p.override = "conflict" => b = "refuse"

\* Every branch that asserts a plan has one, but for /codex on a question that
\* mentions code.
PlanWhereAsserted ==
    \A d \in decided : d.branch \in NeedsPlan /\ ~CodexQuestion(d.ask) => HasPlan(d.ask)

\* The decision announces every shared model or agent lock its branch will take.
LocksAnnounced ==
    \A d \in decided :
        LET order == LockOrder[d.branch] IN
        {order[i] : i \in DOMAIN order} \ {"worktree", "docs"} \subseteq RequiredLocks[d.executor]

\* An open circuit stops the very next documentation request, whatever the cache
\* says.
CircuitAtOnce == ~circuit => \A d \in decided : d.branch # "docs"

\* Whatever is asked, and however old the capability snapshot, a decision stays
\* within what the text, the approval and the circuit allow.
DecisionSafe == RoutingTypeOK /\ RoutingSafe /\ CircuitAtOnce

\* The branch taken finds the plan it asserts, and the locks it takes were announced.
BranchPrepared == PlanWhereAsserted /\ LocksAnnounced
=============================================================================
