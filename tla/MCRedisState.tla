---------------------------- MODULE MCRedisState ----------------------------
(***************************************************************************)
(* Two PUTs of two fields beside two legs of one run.                      *)
(***************************************************************************)
EXTENDS RedisState, TLC

CONSTANTS p, q, recall, rerank, one, other

Alike == Permutations({p, q}) \cup Permutations({recall, rerank})
         \cup Permutations({one, other})
=============================================================================
