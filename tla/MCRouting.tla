----------------------------- MODULE MCRouting -----------------------------
(* Routing for TLC.                                                          *)
EXTENDS Routing
=============================================================================
