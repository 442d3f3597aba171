----------------------------- MODULE RedisState -----------------------------
(***************************************************************************)
(* The two components that keep their state in Redis, under the same       *)
(* outages of it.                                                          *)
(***************************************************************************)
EXTENDS RuntimeConfig, GraphActivity

vars == <<redis, configVars, activityVars>>

Init ==
    /\ redis \in [up : BOOLEAN, outages : {0}]
    /\ ConfigInit
    /\ ActivityInit

Next ==
    \/ (RedisStops \/ RedisReturns) /\ UNCHANGED <<configVars, activityVars>>
    \/ ConfigNext /\ UNCHANGED <<redis, activityVars>>
    \/ ActivityNext /\ UNCHANGED <<redis, configVars>>

Spec == Init /\ [][Next]_vars
=============================================================================
