------------------------------ MODULE MCSandbox ------------------------------
(* Sandbox has no constants: the instance is the whole model. *)
EXTENDS Sandbox
=============================================================================
