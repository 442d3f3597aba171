----------------------------- MODULE TaskHours -----------------------------
(***************************************************************************)
(* The hours of tasks from their historical neighbours                     *)
(* (app/services/rag_task_hours.py, app/embedding_pipeline/                *)
(* rag_synthesis.py), and the two callers that look up all the tasks of a  *)
(* request at once: POST /estimate/rag/tasks/hours, whose look-ups share   *)
(* the request's database session, and the fan-out of the estimation graph *)
(* (estimation_graph/agents/hours.py), where each has its own.             *)
(*                                                                         *)
(* Distances, similarities and reliabilities are integers in 0 .. Unit,    *)
(* Unit standing for 1.0; a dispersion may be greater.                     *)
(***************************************************************************)
EXTENDS Integers, SequencesExt

CONSTANTS
    Unit,
    Epsilon,       \* _WEIGHT_EPS
    WeightUnit,    \* the numerator of a weight
    Tasks,         \* the (module, task) pairs of the request
    Searches,      \* bound: what a look-up may return
    NoHours,       \* a chunk without estimated_hours
    TopK,          \* task_hours_top_k
    FarthestUsed,  \* task_hours_distance_threshold
    Synthesis,     \* SYNTHESIS_ENABLED
    Contradiction, \* synthesis_contradiction_threshold
    LowReliability

ASSUME TaskHoursAssumption ==
    /\ {Unit, Epsilon, WeightUnit, TopK} \subseteq Nat \ {0}
    /\ FarthestUsed \in Nat /\ Contradiction \in Nat /\ LowReliability \in Nat
    /\ Synthesis \in BOOLEAN
    /\ Searches \subseteq Seq([hours : Nat \cup {NoHours}, distance : Nat])

VARIABLES pass

----------------------------------------------------------------------------
(* Neighbours are a sequence of these.                                     *)
Neighbor == [hours : Nat, distance : Nat]

Weights(neighbors) ==
    [i \in DOMAIN neighbors |-> WeightUnit \div (Epsilon + neighbors[i].distance)]

Total(s) ==
    LET sum[n \in 0 .. Len(s)] == IF n = 0 THEN 0 ELSE sum[n - 1] + s[n]
    IN  sum[Len(s)]

\* a / b to the nearest integer, a half to the even one.
Rounded(a, b) ==
    LET q == a \div b   r == a % b
    IN  IF 2 * r > b \/ (2 * r = b /\ q % 2 = 1) THEN q + 1 ELSE q

Root(x) == CHOOSE k \in 0 .. x : k * k <= x /\ x < (k + 1) * (k + 1)

HoursOf(neighbors) == {neighbors[i].hours : i \in DOMAIN neighbors}

\* The standard deviation of the hours over their mean.
Dispersion(neighbors) ==
    LET n == Len(neighbors)
        sum == Total([i \in 1 .. n |-> neighbors[i].hours])
        Deviation(i) == n * neighbors[i].hours - sum
        squares == Total([i \in 1 .. n |-> Deviation(i) * Deviation(i)])
    IN  IF n = 1 \/ sum = 0 THEN 0 ELSE Root(Unit * Unit * (squares \div n)) \div sum

WeightedMean(weights, neighbors) ==
    Rounded(Total([i \in DOMAIN neighbors |-> weights[i] * neighbors[i].hours]), Total(weights))

\* Mutated: a neighbour weighs more the farther it is.
ConsensusByDistance(neighbors) ==
    [hours |-> WeightedMean([i \in DOMAIN neighbors |-> Epsilon + neighbors[i].distance],
                            neighbors),
     reliability |-> 0,
     dispersion |-> Dispersion(neighbors)]

Consensus(neighbors) ==
    LET weights == Weights(neighbors)
        similarity == Total([i \in DOMAIN neighbors |->
                                weights[i] * Max({0, Unit - neighbors[i].distance})])
                          \div Total(weights)
        spread == Min({Unit, Dispersion(neighbors)})
    IN  [hours |-> WeightedMean(weights, neighbors),
         reliability |-> (similarity * (Unit - spread)) \div Unit,
         dispersion |-> Dispersion(neighbors)]

NoRange == <<>>

\* What estimate_one_task makes of the rows of its look-up, and what the
\* graph keeps of it.
Row == [match : BOOLEAN, hours : Nat, reliability : 0 .. Unit, range : Seq(Nat),
        dispersion : Nat, neighbors : Seq(Neighbor)]
NoMatch == [match |-> FALSE, hours |-> 0, reliability |-> 0, range |-> NoRange,
            dispersion |-> 0, neighbors |-> <<>>]

Used(row) == row.distance <= FarthestUsed /\ row.hours # NoHours

Neighbors(found) ==
    LET size == IF TopK < Len(found) THEN TopK ELSE Len(found)
        used[n \in 0 .. size] ==
            IF n = 0 THEN <<>>
            ELSE IF Used(found[n]) THEN Append(used[n - 1], found[n]) ELSE used[n - 1]
    IN  used[size]

HourRange(neighbors) ==
    IF Synthesis /\ Dispersion(neighbors) > Contradiction
    THEN <<Min(HoursOf(neighbors)), Max(HoursOf(neighbors))>> ELSE NoRange

EstimateTask(found) ==
    LET neighbors == Neighbors(found)
        consensus == Consensus(neighbors)
    IN  IF neighbors = <<>> THEN NoMatch
        ELSE [match |-> TRUE, hours |-> consensus.hours,
              reliability |-> consensus.reliability, range |-> HourRange(neighbors),
              dispersion |-> consensus.dispersion, neighbors |-> neighbors]

\* flag_reason
Flagged(row) == ~row.match \/ row.range # NoRange \/ row.reliability < LowReliability

----------------------------------------------------------------------------
(* One pass over the tasks.  caller: the endpoint, the graph, or nobody.   *)
(* status: "ok" has a row per task; "error" is the endpoint's 502 or the   *)
(* failure of the graph's node, and whatever look-up is still under way    *)
(* then is of no use to anybody.                                           *)
PassPhases == {"embedding", "ready", "querying", "done"}

Pass == [caller : {"endpoint", "graph", "nobody"}, status : {"running", "ok", "error"},
         phase : [Tasks -> PassPhases], rows : [Tasks -> Row]]

PassInit ==
    pass \in [caller : {"endpoint", "graph", "nobody"}, status : {"running"},
              phase : {[t \in Tasks |-> "embedding"]}, rows : {[t \in Tasks |-> NoMatch]}]

LookingUp(t, phase) ==
    pass.caller # "nobody" /\ pass.status = "running" /\ pass.phase[t] = phase

\* asyncio.gather, and the graph's superstep, raise the first error.
PassFails == pass' = [pass EXCEPT !.status = "error"]

EmbedTask(t) ==
    /\ LookingUp(t, "embedding")
    /\ pass' = [pass EXCEPT !.phase[t] = "ready"] \/ PassFails

\* A statement issued while another of the session is in progress is refused,
\* or waits for the connection.
QueryTask(t) ==
    /\ LookingUp(t, "ready")
    /\ \/ pass' = [pass EXCEPT !.phase[t] = "querying"]
       \/ /\ pass.caller = "endpoint"
          /\ \E u \in Tasks : pass.phase[u] = "querying"
          /\ PassFails

FoundNeighbors(t) ==
    /\ LookingUp(t, "querying")
    /\ \E found \in Searches :
         pass' = [pass EXCEPT !.phase[t] = "done", !.rows[t] = EstimateTask(found),
                    !.status = IF \A u \in Tasks \ {t} : pass.phase[u] = "done"
                               THEN "ok" ELSE "running"]

\* Mutated: a look-up that fails is tried again.
QueryTaskRetried(t) ==
    LookingUp(t, "querying") /\ pass' = [pass EXCEPT !.phase[t] = "ready"]

QueryTaskFails(t) == LookingUp(t, "querying") /\ PassFails

PassStep == \E t \in Tasks :
    EmbedTask(t) \/ QueryTask(t) \/ FoundNeighbors(t) \/ QueryTaskFails(t)
=============================================================================
