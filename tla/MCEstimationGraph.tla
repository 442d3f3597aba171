------------------------- MODULE MCEstimationGraph -------------------------
(***************************************************************************)
(* Two tasks, two calls in flight and two starts under one id.  Tasks and  *)
(* workers are interchangeable in every action and every invariant.        *)
(***************************************************************************)
EXTENDS EstimationGraph, TLC

CONSTANTS t1, t2, a, b

Alike == Permutations({t1, t2}) \cup Permutations({a, b})
=============================================================================
