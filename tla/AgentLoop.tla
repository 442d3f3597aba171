----------------------------- MODULE AgentLoop -----------------------------
(***************************************************************************)
(* The hand-written loop over tool calls                                   *)
(* (app/services/agentic/agent_loop.py): the recovery of doubtful hours    *)
(* that ends the hours leg of the estimation graph, and the one-shot       *)
(* estimate of POST /estimate/agent.  The model is free: it calls any tool *)
(* with any arguments, several at a time, or none.                         *)
(*                                                                         *)
(*   agent   the loop's locals, and what it has answered                   *)
(***************************************************************************)
EXTENDS TaskHours

CONSTANTS
    MaxIterations,  \* agent_max_iterations, or the request's
    Offers,         \* bound: the neighbours the model passes to derive_task_hours
    References,     \* bound: the reference amounts of a component
    Scale,          \* reference amounts are in parts of an hour, so many to one
    MaxCalls,       \* bound: the tool calls of one response
    Invented,       \* a task that is in no request
    HasKey          \* OPENAI_API_KEY is set

ASSUME AgentAssumption ==
    /\ MaxIterations \in Nat \ {0} /\ MaxCalls \in Nat
    /\ Invented \notin Tasks
    /\ HasKey \in BOOLEAN
    /\ Offers \subseteq Seq(Neighbor)
    /\ References \subseteq Seq(Int) /\ Scale \in Nat \ {0}

\* What a consensus is made of.
Consulted == (Offers \cup {Neighbors(found) : found \in Searches}) \ {<<>>}

\* WeightUnit is fine enough to tell the weights of the distances apart, as
\* the floats of the code are.
ASSUME WeightAssumption ==
    \A ns \in Consulted : \A i, j \in DOMAIN ns :
        /\ Weights(ns)[i] > 0
        /\ ns[i].distance < ns[j].distance => Weights(ns)[i] > Weights(ns)[j]

VARIABLES agent

vars == <<pass, agent>>

----------------------------------------------------------------------------
(* The tools.  Hours of calculate_estimate are in tenths, to which they    *)
(* are rounded; the contingency is 15 per cent.  Nothing keeps the model   *)
(* from passing amounts that are negative, or a fraction of a tenth.       *)
Smallest(refs, k) ==
    CHOOSE x \in ToSet(refs) : /\ Cardinality({i \in DOMAIN refs : refs[i] < x}) < k
                               /\ Cardinality({i \in DOMAIN refs : refs[i] <= x}) >= k

TwiceMedian(refs) ==
    Smallest(refs, (Len(refs) + 1) \div 2) + Smallest(refs, Len(refs) \div 2 + 1)

\* Mutated: the amounts are added up.
CalculateSums(components) ==
    [i \in DOMAIN components |->
        IF components[i] = <<>> THEN 0
        ELSE Rounded(23 * 2 * Total(components[i]), 4 * Scale)]

Calculate(components) ==
    [i \in DOMAIN components |->
        IF components[i] = <<>> THEN 0
        ELSE Rounded(23 * TwiceMedian(components[i]), 4 * Scale)]

\* The issues of an estimate: components are reference amounts, hours tenths.
Validate(components, hours, total) ==
    {"unbudgeted" : i \in {j \in DOMAIN components : components[j] = <<>>}}
    \cup {"implausible" : i \in {j \in DOMAIN components :
             /\ components[j] # <<>>
             /\ ~(/\ 5 * Min(ToSet(components[j])) <= Scale * hours[j]
                  /\ Scale * hours[j] <= 20 * Max(ToSet(components[j])))}}
    \cup (IF total <= 0 THEN {"non_positive"} ELSE {})
    \cup (IF total - Total(hours) \in -5 .. 5 THEN {} ELSE {"mismatch"})
    \cup (IF total > 200000 THEN {"too_large"} ELSE {})

(* A call is [tool, task, neighbors].  Only derive_task_hours of the       *)
(* recovery leaves anything behind; "plain" is any other call, and "bad"   *)
(* one that raises: an unknown tool, arguments that do not parse, a search *)
(* that fails.                                                             *)
Calls == [tool : {"derive"}, task : Tasks \cup {Invented}, neighbors : Offers]
         \cup [tool : {"plain", "bad"}, task : {Invented}, neighbors : {<<>>}]
Responses == UNION {[1 .. n -> Calls] : n \in 0 .. MaxCalls}

NoDerivation == [match |-> FALSE, hours |-> 0, reliability |-> 0]

ConsensusOf == [ns \in Offers \ {<<>>} |-> Consensus(ns)]

Derived(neighbors) ==
    IF neighbors = <<>> THEN NoDerivation
    ELSE [match |-> TRUE, hours |-> ConsensusOf[neighbors].hours,
          reliability |-> ConsensusOf[neighbors].reliability]

\* kind: which loop; rounds: iterations; calls: those of the last response
\* still to be dispatched; dropped: some were not; derivations: per task, the
\* last one.
Idle == [kind |-> "none", pc |-> "idle", rounds |-> 0, calls |-> <<>>, trace |-> <<>>,
         derivations |-> <<>>, rows |-> <<>>, stopped |-> "", dropped |-> FALSE, estimated |-> FALSE]

Init == PassInit /\ agent = Idle

Agent(a) == agent' = a /\ UNCHANGED pass
At(pc) == agent.pc = pc

\* The rows of the pass, as an accumulator keyed by task.
FlaggedTasks == {t \in Tasks : Flagged(pass.rows[t])}

\* recover_and_handover: without a doubtful row, or a client, the loop is
\* left out.
Recover ==
    /\ At("idle") /\ pass.caller = "graph" /\ pass.status = "ok"
    /\ Agent([Idle EXCEPT !.kind = "recovery", !.rows = pass.rows,
                !.pc = IF FlaggedTasks # {} /\ HasKey THEN "asking" ELSE "done"])

\* estimate_with_agent; without a client a 503.
Estimate ==
    /\ At("idle") /\ pass.caller = "nobody"
    /\ Agent([Idle EXCEPT !.kind = "estimate", !.pc = IF HasKey THEN "asking" ELSE "error"])

----------------------------------------------------------------------------
\* The recovered rows are merged over the pass's, those of tasks that are
\* not in it included.  What a row says of the pass's own neighbours stays.
Rederived(row, d) ==
    [match |-> TRUE, hours |-> d.hours, reliability |-> d.reliability, range |-> NoRange,
     dispersion |-> row.dispersion, neighbors |-> row.neighbors]

Merged(rows, derivations) ==
    LET recovered == {t \in DOMAIN derivations : derivations[t].match}
    IN  [t \in DOMAIN rows \cup recovered |->
            IF t \in recovered
            THEN Rederived(IF t \in DOMAIN rows THEN rows[t] ELSE NoMatch, derivations[t])
            ELSE rows[t]]

\* Mutated: a final answer is asked for at the limit too.
StopAskingAlways(a, reason) ==
    IF a.kind = "recovery"
    THEN [a EXCEPT !.pc = "done", !.stopped = reason, !.rows = Merged(@, a.derivations)]
    ELSE [a EXCEPT !.pc = "parsing", !.stopped = reason]

\* The loop ends: the recovery hands over, the estimate asks once more.
Stop(a, reason) ==
    IF a.kind = "recovery"
    THEN [a EXCEPT !.pc = "done", !.stopped = reason, !.rows = Merged(@, a.derivations)]
    ELSE [a EXCEPT !.pc = IF reason = "completed" THEN "parsing" ELSE "done",
                   !.stopped = reason]

Dropping(a) == [a EXCEPT !.calls = <<>>, !.dropped = TRUE]

\* A response arrives.  At the limit the calls it asks for are dropped.
Respond ==
    /\ At("asking")
    /\ \E calls \in Responses :
         LET a == [agent EXCEPT !.rounds = @ + 1, !.calls = calls]
         IN  Agent(IF calls = <<>> THEN Stop(a, "completed")
                   ELSE IF a.rounds >= MaxIterations THEN Stop(Dropping(a), "max_iterations")
                   ELSE [a EXCEPT !.pc = "dispatching"])

\* Nothing catches an error of the client: a 500, or the failure of the node.
AskFails == At("asking") /\ Agent([agent EXCEPT !.pc = "error"])

Raises(call) == call.tool = "bad" \/ (call.tool = "derive" /\ agent.kind = "estimate")

\* Mutated: the first derivation of a task is kept.
RecordedOnce(derivations, t, derivation) ==
    [u \in DOMAIN derivations \cup {t} |->
        IF u = t /\ t \notin DOMAIN derivations THEN derivation ELSE derivations[u]]

Recorded(derivations, t, derivation) ==
    [u \in DOMAIN derivations \cup {t} |-> IF u = t THEN derivation ELSE derivations[u]]

\* One call, whose result or error the model is told with the others'; the
\* step is in the trace either way.
Dispatch ==
    /\ At("dispatching")
    /\ LET call == Head(agent.calls)
           left == Tail(agent.calls)
       IN  Agent([agent EXCEPT
               !.trace = Append(@, [call |-> call, error |-> Raises(call)]),
               !.derivations = IF call.tool = "derive" /\ ~Raises(call)
                               THEN Recorded(@, call.task, Derived(call.neighbors)) ELSE @,
               !.calls = left,
               !.pc = IF left = <<>> THEN "asking" ELSE "dispatching"])

\* The final structured answer; the round is counted if there is a reply.
ParseFinal ==
    /\ At("parsing")
    /\ \E parsed \in BOOLEAN :
         Agent([agent EXCEPT !.pc = "done", !.rounds = @ + 1, !.estimated = parsed,
                  !.stopped = IF parsed THEN "completed" ELSE "no_final_estimate"])

ParseFails ==
    /\ At("parsing")
    /\ Agent([agent EXCEPT !.pc = "done", !.stopped = "no_final_estimate"])

AgentStep == \/ Recover \/ Estimate \/ Respond \/ AskFails \/ Dispatch
             \/ ParseFinal \/ ParseFails

Next == AgentStep \/ (PassStep /\ UNCHANGED agent)

\* The event loop runs what can run; a call of a client returns or raises.
Spec == Init /\ [][Next]_vars /\ WF_vars(Next)

----------------------------------------------------------------------------
RecoveryDone == agent.kind = "recovery" /\ agent.pc = "done"

(* The trace explains the hours handed over: a task has the row of the     *)
(* pass unless the last derivation of the trace for it had neighbours, and *)
(* then it has exactly their hours and their reliability, whatever was     *)
(* derived before, failed or was dropped at the limit; what it says of     *)
(* dispersion and neighbours is the pass's in either case (derivations,    *)
(* the merge of recover_and_handover).                                     *)
TraceExplainsHours ==
    RecoveryDone =>
        \A t \in Tasks :
            LET mine == {i \in DOMAIN agent.trace :
                            /\ ~agent.trace[i].error
                            /\ agent.trace[i].call.tool = "derive"
                            /\ agent.trace[i].call.task = t}
                last == IF mine = {} THEN <<>> ELSE agent.trace[Max(mine)].call.neighbors
            IN  agent.rows[t] =
                    IF last = <<>> THEN pass.rows[t]
                    ELSE [match |-> TRUE, hours |-> ConsensusOf[last].hours,
                          reliability |-> ConsensusOf[last].reliability, range |-> NoRange,
                          dispersion |-> pass.rows[t].dispersion,
                          neighbors |-> pass.rows[t].neighbors]

\* The hours of a task are never outside those of its neighbours, and of
\* two neighbours the closer one pulls at least as hard; a reliability is a
\* share of one, and a lone neighbour is never contradictory.
ConsensusLeansOnTheClosest ==
        \A ns \in Consulted :
            LET c == Consensus(ns)
                Off(n) == IF c.hours > n.hours THEN c.hours - n.hours ELSE n.hours - c.hours
            IN  /\ Min(HoursOf(ns)) <= c.hours /\ c.hours <= Max(HoursOf(ns))
                /\ c.reliability \in 0 .. Unit
                /\ Len(ns) = 1 => c.dispersion = 0
                /\ Len(ns) = 2 /\ ns[1].distance < ns[2].distance => Off(ns[1]) <= Off(ns[2])

\* An amount below three minutes, which the rounding can move out of its own
\* range, or a negative one, which is itself below the half of it.
Odd(refs) == \E x \in ToSet(refs) : x # 0 /\ 20 * x < Scale

\* What calculate_estimate returns, validate_estimate finds plausible and in
\* agreement with its total, but for odd amounts and components without any.
CalculatedIsValid ==
        \A a, b \in References :
            LET hours == Calculate(<<a, b>>)
                issues == Validate(<<a, b>>, hours, hours[1] + hours[2])
            IN  /\ "mismatch" \notin issues
                /\ "implausible" \in issues => Odd(a) \/ Odd(b)
                /\ "unbudgeted" \in issues <=> <<>> \in {a, b}

(* The figures that the tools give the model are sound: the consensus of   *)
(* historical neighbours leans on the closest of them ("closer analogs     *)
(* count more", consensus_hours), and the estimate of one tool is in the   *)
(* range the other checks, unless an amount is negative or below three     *)
(* minutes (calculate_estimate, validate_estimate).                        *)
ToolFiguresAreSound ==
    At("idle") => ConsensusLeansOnTheClosest /\ CalculatedIsValid

(* The loop says truthfully how it stopped: at the limit only with calls   *)
(* it did not answer, as completed only with everything answered and, for  *)
(* an estimate, with one to show; and no more rounds than the limit and    *)
(* the final answer.                                                       *)
StopIsTruthful ==
    At("done") /\ agent.stopped # "" =>
        /\ agent.stopped = "max_iterations" <=> agent.dropped
        /\ agent.stopped = "max_iterations" => agent.rounds = MaxIterations
        /\ agent.rounds <= MaxIterations + 1
        /\ agent.kind = "estimate" => agent.estimated = (agent.stopped = "completed")

(* Whatever tools the model goes on calling, the loop comes to an end, and *)
(* so does a pass whose look-ups wait for one another's statements.        *)
LoopEnds == <>(agent.pc \in {"done", "error"} \/ pass.status = "error"
               \/ (pass.caller = "endpoint" /\ pass.status = "ok"))

(* The recovery changes no task that was not flagged: it is a "loop over   *)
(* flagged tasks only" (run_task_hours_recovery_agent's docstring).        *)
(* Refuted: whatever task the model names is recorded and merged.          *)
UnflaggedUntouched ==
    RecoveryDone => \A t \in Tasks \ FlaggedTasks : agent.rows[t] = pass.rows[t]
=============================================================================
