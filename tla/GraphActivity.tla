---------------------------- MODULE GraphActivity ---------------------------
(***************************************************************************)
(* The legs of the estimation graph and their activity feed                *)
(* (app/services/estimation_graph/activity.py and the endpoints of         *)
(* app/routers/estimate_graph.py), for one estimation_id and one server    *)
(* process: the background legs, which tell a failure in the feed, and the *)
(* blocking ones, which drive the same thread and tell it to their caller. *)
(* What the nodes do is EstimationGraph's subject; here a leg is the nodes *)
(* it has left and the lines it writes.                                    *)
(*                                                                         *)
(*   backend     what this process keeps feeds in: chosen once, at its     *)
(*               first use, by whether Redis answers a ping                *)
(*   lines       the feed kept in Redis, oldest line first                 *)
(*   memory      the feed kept in the process                              *)
(*   legs        per leg: how far it is, and who waits for it              *)
(*   checkpoint  where the graph is: before its first checkpoint, in a     *)
(*               leg, at a gate, ended; and the leg that saved it          *)
(*   silenced    history variable: the legs whose lines the store has      *)
(*               refused or dropped, or that a restart has ended           *)
(*   told        history variable: the blocking legs answered with a 502   *)
(*   cleared     history variable: the last START that cleared the feed,   *)
(*               and the legs whose error lines a START has cleared        *)
(***************************************************************************)
EXTENDS RedisStore, Sequences

CONSTANTS Legs,        \* bound: the legs of one estimation_id
          NoLeg,
          MaxNodes,    \* bound: nodes of a leg
          MaxRestarts  \* bound: restarts of the process

VARIABLES backend, lines, memory, legs, checkpoint, silenced, told, cleared, restarts

activityVars ==
    <<backend, lines, memory, legs, checkpoint, silenced, told, cleared, restarts>>

NewLeg == [phase |-> "new", start |-> FALSE, blocking |-> FALSE, nodes |-> 0]

ActivityInit ==
    /\ backend = "unset"
    /\ lines = <<>>
    /\ memory = <<>>
    /\ legs = [l \in Legs |-> NewLeg]
    /\ checkpoint = [at |-> "none", by |-> NoLeg]
    /\ silenced = {}
    /\ told = {}
    /\ cleared = [by |-> NoLeg, legs |-> {}]
    /\ restarts = 0

-----------------------------------------------------------------------------
Ended(l) == legs' = [legs EXCEPT ![l] = [NewLeg EXCEPT !.phase = "ended"]]

AtWork == {l \in Legs : legs[l].phase \in {"queued", "running", "failing"}}

\* get_graph_activity: the cached log of this process.
Chosen == IF backend # "unset" THEN backend
          ELSE IF redis.up THEN "redis" ELSE "memory"

\* A command on the feed raises when it is kept in Redis and Redis is away.
Reachable(where) == where = "memory" \/ redis.up

Visible == IF Chosen = "redis" THEN lines ELSE memory

\* GraphActivityLog.reset
Reset(where) ==
    IF where = "redis" THEN lines' = <<>> /\ UNCHANGED memory
    ELSE memory' = <<>> /\ UNCHANGED lines

\* A line of the feed: what describe_node makes of a node's update, for which
\* it never raises, or the last word of a leg that failed.  The wording is left
\* out, and the lines of one node count as one.
DescribeNode(l) == [leg |-> l, node |-> "node"]
ErrorLine(l) == [leg |-> l, node |-> "error"]

Tells(feed, l) == \E i \in DOMAIN feed : feed[i] = ErrorLine(l)

\* GraphActivityLog.append
Append1(line) ==
    IF backend = "redis"
    THEN lines' = Append(lines, line) /\ UNCHANGED memory
    ELSE memory' = Append(memory, line) /\ UNCHANGED lines

\* Mutated form of ResumeGraphStream: a resume clears the feed as a start does.
ResumeGraphStreamResetting(l) ==
    /\ legs[l].phase = "new"
    /\ checkpoint.at \in {"mid", "gate"}
    /\ backend' = Chosen
    /\ Reset(Chosen)
    /\ legs' = [legs EXCEPT ![l] = [NewLeg EXCEPT !.phase = "queued"]]
    /\ UNCHANGED <<checkpoint, silenced, told, cleared, restarts>>

-----------------------------------------------------------------------------
(* POST /graph/stream: the feed is cleared before the leg is accepted.  If *)
(* that raises, the request fails and nothing has been started.            *)
EstimateGraphStream(l) ==
    /\ legs[l].phase = "new"
    /\ Reachable(Chosen)
    /\ backend' = Chosen
    /\ Reset(Chosen)
    /\ cleared' = [by |-> l, legs |-> cleared.legs \cup {m \in Legs : Tells(Visible, m)}]
    /\ legs' = [legs EXCEPT ![l] =
                   [NewLeg EXCEPT !.phase = "queued", !.start = TRUE]]
    /\ UNCHANGED <<checkpoint, silenced, told, restarts>>

\* POST /graph/{id}/resume-stream: refused (409) unless the snapshot has a
\* next node; the feed goes on.
ResumeGraphStream(l) ==
    /\ legs[l].phase = "new"
    /\ checkpoint.at \in {"mid", "gate"}
    /\ backend' = Chosen
    /\ legs' = [legs EXCEPT ![l] = [NewLeg EXCEPT !.phase = "queued"]]
    /\ UNCHANGED <<lines, memory, checkpoint, silenced, told, cleared, restarts>>

\* POST /graph and POST /graph/{id}/resume, which know nothing of the feed.
BlockingLeg(l, start) ==
    /\ legs[l].phase = "new"
    /\ start \/ checkpoint.at \in {"mid", "gate"}
    /\ legs' = [legs EXCEPT ![l] =
                   [NewLeg EXCEPT !.phase = "queued", !.start = start, !.blocking = TRUE]]
    /\ UNCHANGED <<backend, lines, memory, checkpoint, silenced, told, cleared, restarts>>

EstimateGraph(l) == BlockingLeg(l, TRUE)
ResumeGraph(l) == BlockingLeg(l, FALSE)

\* GET /graph/{id}/progress, in a process that has not used the feed yet.
GraphProgress ==
    /\ backend = "unset"
    /\ backend' = Chosen
    /\ UNCHANGED <<lines, memory, legs, checkpoint, silenced, told, cleared, restarts>>

(* The graph is called, for a background task once the response has been   *)
(* sent: a start saves its input, or raises before there is a checkpoint   *)
(* of its own; a resume of a run that has ended since finds nothing to do. *)
BeginLeg(l) ==
    /\ legs[l].phase = "queued"
    /\ \/ /\ legs[l].start
          /\ checkpoint' = [at |-> "mid", by |-> l]
          /\ legs' = [legs EXCEPT ![l].phase = "running"]
       \/ /\ legs[l].start
          /\ legs' = [legs EXCEPT ![l].phase = "failing"]
          /\ UNCHANGED checkpoint
       \/ /\ ~ legs[l].start
          /\ IF checkpoint.at = "end" THEN Ended(l)
             ELSE legs' = [legs EXCEPT ![l].phase = "running"]
          /\ UNCHANGED checkpoint
    /\ UNCHANGED <<backend, lines, memory, silenced, told, cleared, restarts>>

\* A node returns, the lines of a background leg are appended and the
\* checkpoint is saved; the leg goes on, stops at a gate, or ends the run.
NodeReturns(l) ==
    /\ legs[l].phase = "running"
    /\ IF legs[l].blocking THEN UNCHANGED <<lines, memory>>
       ELSE Reachable(backend) /\ Append1(DescribeNode(l))
    /\ \E at \in (IF legs[l].nodes + 1 < MaxNodes THEN {"mid"} ELSE {})
                   \cup {"gate", "end"} :
         /\ checkpoint' = [at |-> at, by |-> l]
         /\ IF at = "mid" THEN legs' = [legs EXCEPT ![l].nodes = @ + 1]
            ELSE Ended(l)
    /\ UNCHANGED <<backend, silenced, told, cleared, restarts>>

(* A node raises, or the append of its lines does: either ends the leg.    *)
(* Whether the graph library had saved the node's checkpoint before the    *)
(* append raised is left open.                                             *)
NodeRaises(l) ==
    /\ legs[l].phase = "running"
    /\ legs' = [legs EXCEPT ![l].phase = "failing"]
    /\ \/ UNCHANGED checkpoint
       \/ /\ ~ legs[l].blocking /\ ~ Reachable(backend)
          /\ checkpoint' = [at |-> "mid", by |-> l]
    /\ UNCHANGED <<backend, lines, memory, silenced, told, cleared, restarts>>

\* The except clauses: a 502, or one line that tells the failure, unless its
\* own append raises too and leaves the background task without a word.
TellFailure(l) ==
    /\ legs[l].phase = "failing"
    /\ Ended(l)
    /\ \/ /\ legs[l].blocking
          /\ told' = told \cup {l}
          /\ UNCHANGED <<lines, memory, silenced>>
       \/ /\ ~ legs[l].blocking /\ Reachable(backend)
          /\ Append1(ErrorLine(l))
          /\ UNCHANGED <<silenced, told>>
       \/ /\ ~ legs[l].blocking /\ ~ Reachable(backend)
          /\ silenced' = silenced \cup {l}
          /\ UNCHANGED <<lines, memory, told>>
    /\ UNCHANGED <<backend, checkpoint, cleared, restarts>>

\* The process dies and another takes its place: Redis and the checkpoints
\* are kept, legs under way and the feed in memory are not.
Restart ==
    /\ restarts < MaxRestarts
    /\ restarts' = restarts + 1
    /\ backend' = "unset"
    /\ memory' = <<>>
    /\ legs' = [l \in Legs |-> IF l \in AtWork THEN [NewLeg EXCEPT !.phase = "ended"]
                               ELSE legs[l]]
    /\ silenced' = {l \in Legs : legs[l].phase # "new"}
    /\ UNCHANGED <<lines, checkpoint, told, cleared>>

\* An hour without a new line: the key's time to live has run out.
Expire ==
    /\ lines # <<>>
    /\ lines' = <<>>
    /\ silenced' = silenced \cup {lines[i].leg : i \in DOMAIN lines}
    /\ UNCHANGED <<backend, memory, legs, checkpoint, told, cleared, restarts>>

ActivityNext ==
    \/ GraphProgress \/ Restart \/ Expire
    \/ \E l \in Legs :
         \/ EstimateGraphStream(l) \/ ResumeGraphStream(l)
         \/ EstimateGraph(l) \/ ResumeGraph(l)
         \/ BeginLeg(l) \/ NodeReturns(l) \/ NodeRaises(l) \/ TellFailure(l)

-----------------------------------------------------------------------------
\* Somebody has been told of the failure of l, can read of it in the feed, or
\* could have but for a store that refused or lost the line or a restart.
Accounted(l) == l \in told \/ l \in silenced \/ Tells(Visible, l)

(* A run that has stopped between its gates, which polling calls "running" *)
(* for ever, is explained: the feed has the error line of the leg that got *)
(* it there, or its caller a 502, through later starts and resumes of the  *)
(* same id; or else a START has cleared that line and failed in its turn   *)
(* before the graph took it up, and the feed has the START's own line.     *)
StalledLegsAreExplained ==
    checkpoint.at = "mid" /\ AtWork = {} =>
       \/ Accounted(checkpoint.by)
       \/ checkpoint.by \in cleared.legs /\ Accounted(cleared.by)
=============================================================================
