----------------------------- MODULE MCGateway -----------------------------
(* Gateway for TLC: a request that may take any branch, one that competes for *)
(* agent, worktree or GPU, and one that streams from the GPU.                 *)
EXTENDS Gateway

MCMayAsk ==
    [r \in Requests |->
        CASE r = 1 -> Branches \ {"refuse"}
          [] r = 2 -> {"docs", "legacy", "local_code", "image"}
          [] OTHER -> {"stream"}]
=============================================================================
