---------------------------- MODULE MCCodingTask ----------------------------
(* CodingTask for TLC: calls of resume() are interchangeable, and so are the *)
(* processes that did not host run().                                        *)
EXTENDS CodingTask, TLC

TaskSymmetry == Permutations(Resumers) \cup Permutations(Pids \ {RunPid})
=============================================================================
