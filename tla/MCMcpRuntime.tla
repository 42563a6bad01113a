---------------------------- MODULE MCMcpRuntime ----------------------------
(* McpRuntime for TLC.  No symmetry: the run checks liveness.                 *)
EXTENDS McpRuntime
=============================================================================
