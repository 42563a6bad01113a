--------------------------- MODULE MCMcpProtocol ---------------------------
(* McpProtocol for TLC.  No symmetry: the run checks liveness.               *)
EXTENDS McpProtocol
=============================================================================
