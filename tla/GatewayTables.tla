---------------------------- MODULE GatewayTables ----------------------------
(***************************************************************************)
(* The locks of services/gateway/app.py, by the branch of chat() that      *)
(* takes them.  "stream" is a streamed answer of the strong model;         *)
(* "legacy" is execute_local_coding, which chat() no longer calls.         *)
(***************************************************************************)

\* Wrong variant: documentation takes the GPU before the agent.
LockOrder_Swapped ==
    [refuse |-> <<>>, bundle |-> <<>>, voice |-> <<>>, browser |-> <<>>,
     fast |-> <<"fast">>, strong |-> <<"gpu">>, stream |-> <<"gpu">>,
     local_code |-> <<"agent", "gpu">>, docs |-> <<"docs", "gpu", "agent">>,
     codex |-> <<"worktree", "codex">>, legacy |-> <<"worktree", "agent", "gpu">>,
     image |-> <<"image", "gpu">>]

\* The locks a branch takes, outermost first.  The worktree lock is named by its
\* project; the requests of a model with one project share it.
LockOrder ==
    [refuse |-> <<>>, bundle |-> <<>>, voice |-> <<>>, browser |-> <<>>,
     fast |-> <<"fast">>, strong |-> <<"gpu">>, stream |-> <<"gpu">>,
     local_code |-> <<"agent", "gpu">>, docs |-> <<"docs", "agent", "gpu">>,
     codex |-> <<"worktree", "codex">>, legacy |-> <<"worktree", "agent", "gpu">>,
     image |-> <<"image", "gpu">>]

Branches == DOMAIN LockOrder
Locks == {"fast", "gpu", "agent", "docs", "codex", "worktree", "image"}
=============================================================================
