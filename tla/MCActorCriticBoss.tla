------------------------- MODULE MCActorCriticBoss -------------------------
(* All settings up to three iterations, the greatest number allowed.       *)
EXTENDS ActorCriticBoss
=============================================================================
