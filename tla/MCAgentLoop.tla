---------------------------- MODULE MCAgentLoop ----------------------------
(***************************************************************************)
(* Two tasks; look-ups that find nothing usable, a sure neighbour and two  *)
(* that contradict each other.  The model derives from none, from two that *)
(* differ in distance, and from three of which two have no hours; the      *)
(* amounts, in hundredths of an hour, include none, an odd and an even     *)
(* number, a total too large, two minutes and a half, three minutes,       *)
(* nothing beside a few seconds, and negative ones.                        *)
(***************************************************************************)
EXTENDS AgentLoop

CONSTANTS t1, t2

N(hours, distance) == [hours |-> hours, distance |-> distance]

MCSearches == {<<>>, <<N(8, 0), N(NoHours, 1), N(3, 1)>>, <<N(2, 0), N(20, 1)>>}
MCOffers == {<<>>, <<N(4, 1), N(9, 3)>>, <<N(1, 1), N(0, 2), N(0, 4)>>}
MCReferences ==
    {<<>>, <<0>>, <<300>>, <<800, 900>>, <<100, 3000, 700>>, <<200, 200, 500, 4000>>,
     <<900000, 3000000>>, <<4>>, <<5>>, <<0, 6>>, <<5, 5, 2>>, <<0, 1>>,
     <<-1000>>, <<-1000, 500, 600>>}
=============================================================================
