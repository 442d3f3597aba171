----------------------------- MODULE RedisStore -----------------------------
(***************************************************************************)
(* The Redis server that the runtime configuration and the activity feed   *)
(* of the estimation graph keep their state in (REDIS_URL is set).  It may *)
(* be out of reach for a while; what it holds is there again afterwards.   *)
(***************************************************************************)
EXTENDS Naturals

CONSTANTS MaxOutages   \* bound: times the server is out of reach

VARIABLES redis        \* whether it answers, and its outages so far

RedisStops ==
    /\ redis.up
    /\ redis.outages < MaxOutages
    /\ redis' = [up |-> FALSE, outages |-> redis.outages + 1]

RedisReturns ==
    /\ ~ redis.up
    /\ redis' = [redis EXCEPT !.up = TRUE]
=============================================================================
