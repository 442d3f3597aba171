-------------------------- MODULE AgentLoopProofs --------------------------
(***************************************************************************)
(* What holds of the loop over tool calls for any tasks, any offers of the *)
(* model, any limits and any number of calls per response; and of the      *)
(* figures of the tools for any neighbours and any reference amounts.      *)
(***************************************************************************)
EXTENDS AgentLoop, FiniteSetTheorems, WellFoundedInduction, TLAPS

(***************************************************************************)
(* Types.  What a look-up or a derivation is worth is left as it is        *)
(* computed: only that a row is one of these matters here.                 *)
(***************************************************************************)
Anything == Tasks \cup {Invented}

LookedUp == {NoMatch} \cup {EstimateTask(found) : found \in Searches}

PassOK ==
    pass \in [caller : {"endpoint", "graph", "nobody"},
              status : {"running", "ok", "error"},
              phase : [Tasks -> PassPhases], rows : [Tasks -> LookedUp]]

Derivation == {Derived(neighbors) : neighbors \in Offers}

Derivations == {<<>>} \cup UNION {[S -> Derivation] : S \in SUBSET Anything}

HandedOver == LookedUp \cup {Rederived(row, d) : row \in LookedUp, d \in Derivation}

RowSets == {<<>>} \cup UNION {[S -> HandedOver] : S \in SUBSET Anything}

AgentState ==
    [kind        : {"none", "recovery", "estimate"},
     pc          : {"idle", "asking", "dispatching", "parsing", "done", "error"},
     rounds      : Nat,
     calls       : Seq(Calls),
     trace       : Seq([call : Calls, error : BOOLEAN]),
     derivations : Derivations,
     rows        : RowSets,
     stopped     : {"", "completed", "max_iterations", "no_final_estimate"},
     dropped     : BOOLEAN,
     estimated   : BOOLEAN]

AgentOK == agent \in AgentState

(***************************************************************************)
(* The derivations are the trace's, task by task.                          *)
(***************************************************************************)
Derives(step, t) ==
    ~step.error /\ step.call.tool = "derive" /\ step.call.task = t

\* i is the last step of the trace that derives t.
IsLast(trace, t, i) ==
    /\ i \in DOMAIN trace /\ Derives(trace[i], t)
    /\ \A j \in DOMAIN trace : Derives(trace[j], t) => j <= i

Explained(trace, derivations, t) ==
    IF t \in DOMAIN derivations
    THEN \E i \in DOMAIN trace :
            /\ IsLast(trace, t, i)
            /\ derivations[t] = Derived(trace[i].call.neighbors)
    ELSE \A i \in DOMAIN trace : ~Derives(trace[i], t)

Explains(a) == \A t \in Anything : Explained(a.trace, a.derivations, t)

\* The rows are the pass's until the recovery hands over.  The pass is over
\* by then, so that they stay so.
RowsOK ==
    agent.kind = "recovery" =>
        /\ pass.status = "ok"
        /\ agent.pc \in {"asking", "dispatching"} => agent.rows = pass.rows
        /\ agent.pc = "done" => agent.rows = Merged(pass.rows, agent.derivations)

(***************************************************************************)
(* How many rounds are left, and why the loop stopped, by where it is.     *)
(***************************************************************************)
StopOK ==
    /\ agent.pc = "idle" => agent = Idle
    /\ agent.kind = "none" => agent.pc = "idle"
    /\ agent.pc \in {"asking", "dispatching"} =>
          /\ agent.rounds < MaxIterations
          /\ agent.stopped = "" /\ ~agent.dropped /\ ~agent.estimated
    /\ agent.pc = "dispatching" => agent.calls # <<>>
    /\ agent.pc = "parsing" =>
          /\ agent.kind = "estimate" /\ agent.rounds <= MaxIterations
          /\ agent.stopped = "completed" /\ ~agent.dropped /\ ~agent.estimated
    /\ StopIsTruthful

IInv == PassOK /\ AgentOK /\ Explains(agent) /\ RowsOK /\ StopOK

----------------------------------------------------------------------------
(* The operators on traces, derivations and rows.                          *)
LEMMA MaxIs ==
    ASSUME NEW S \in SUBSET Int, NEW m \in S, \A j \in S : j <= m
    PROVE  Max(S) = m
<1>1. \A x \in S : (\A y \in S : x >= y) => x = m
  <2> SUFFICES ASSUME NEW x \in S, \A y \in S : x >= y PROVE x = m
    OBVIOUS
  <2>1. x \in Int /\ m \in Int /\ x >= m /\ x <= m
    OBVIOUS
  <2>. QED
    BY <2>1
<1>2. \A y \in S : m >= y
  OBVIOUS
<1>. QED
  BY <1>1, <1>2 DEF Max

LEMMA DerivationsFacts ==
    ASSUME NEW derivations \in Derivations
    PROVE  /\ DOMAIN derivations \in SUBSET Anything
           /\ \A t \in DOMAIN derivations : derivations[t] \in Derivation
<1>1. CASE derivations = <<>>
  BY <1>1
<1>2. ASSUME NEW S \in SUBSET Anything, derivations \in [S -> Derivation]
      PROVE  /\ DOMAIN derivations \in SUBSET Anything
             /\ \A t \in DOMAIN derivations : derivations[t] \in Derivation
  BY <1>2
<1>. QED
  BY <1>1, <1>2 DEF Derivations

LEMMA RecordedFacts ==
    ASSUME NEW derivations \in Derivations, NEW t \in Anything, NEW d \in Derivation
    PROVE  /\ Recorded(derivations, t, d) \in Derivations
           /\ DOMAIN Recorded(derivations, t, d) = DOMAIN derivations \cup {t}
           /\ Recorded(derivations, t, d)[t] = d
           /\ \A u \in DOMAIN derivations \ {t} :
                 Recorded(derivations, t, d)[u] = derivations[u]
<1> DEFINE S == DOMAIN derivations \cup {t}
           new == Recorded(derivations, t, d)
<1>1. S \in SUBSET Anything /\ \A u \in DOMAIN derivations : derivations[u] \in Derivation
  BY DerivationsFacts
<1>2. new = [u \in S |-> IF u = t THEN d ELSE derivations[u]]
  BY DEF Recorded
<1>3. new \in [S -> Derivation]
  BY <1>1, <1>2
<1>4. new \in Derivations
  BY <1>1, <1>3 DEF Derivations
<1>. QED
  BY <1>2, <1>4

\* What a call of derive_task_hours records is a derivation.
LEMMA CallFacts ==
    ASSUME NEW call \in Calls, call.tool = "derive"
    PROVE  call.task \in Anything /\ Derived(call.neighbors) \in Derivation
<1>1. call \in [tool : {"derive"}, task : Tasks \cup {Invented}, neighbors : Offers]
  BY DEF Calls
<1>2. call.task \in Tasks \cup {Invented} /\ call.neighbors \in Offers
  BY <1>1
<1>. QED
  BY <1>2 DEF Anything, Derivation

\* One more step in the trace: the last derivation of its task is its own,
\* that of any other task is what it was.
LEMMA StepExplains ==
    ASSUME NEW trace \in Seq([call : Calls, error : BOOLEAN]),
           NEW derivations \in Derivations, NEW t \in Anything,
           NEW step \in [call : Calls, error : BOOLEAN],
           Explained(trace, derivations, t)
    PROVE  LET more == Append(trace, step)
               new == Recorded(derivations, step.call.task, Derived(step.call.neighbors))
           IN  /\ Derives(step, step.call.task) => Explained(more, new, t)
               /\ ~Derives(step, step.call.task) => Explained(more, derivations, t)
<1> DEFINE more == Append(trace, step)
           n == Len(trace) + 1
           task == step.call.task
           d == Derived(step.call.neighbors)
           new == Recorded(derivations, task, d)
<1>1. /\ n - 1 \in Nat /\ DOMAIN trace = 1 .. n - 1 /\ DOMAIN more = 1 .. n
      /\ more[n] = step /\ \A i \in DOMAIN trace : more[i] = trace[i]
  OBVIOUS
<1>2. n \in DOMAIN more /\ \A i \in DOMAIN more : i \in DOMAIN trace \/ i = n
  BY <1>1
<1>3. \A i \in DOMAIN trace : i \in DOMAIN more /\ i <= n /\ i \in Int
  BY <1>1
<1> HIDE DEF more, n
\* A step that does not derive t leaves t's last derivation where it was.
<1>4. ASSUME ~Derives(step, t), NEW ds, t \in DOMAIN ds <=> t \in DOMAIN derivations,
             t \in DOMAIN derivations => ds[t] = derivations[t]
      PROVE  Explained(more, ds, t)
  <2>1. CASE t \in DOMAIN derivations
    <3>1. PICK i \in DOMAIN trace : /\ IsLast(trace, t, i)
                                    /\ derivations[t] = Derived(trace[i].call.neighbors)
      BY <2>1 DEF Explained
    <3>2. IsLast(more, t, i)
      BY <1>1, <1>2, <1>3, <1>4, <3>1 DEF IsLast
    <3>3. i \in DOMAIN more /\ ds[t] = Derived(more[i].call.neighbors)
      BY <1>1, <1>3, <1>4, <2>1, <3>1
    <3>. QED
      BY <1>4, <2>1, <3>2, <3>3 DEF Explained
  <2>2. CASE t \notin DOMAIN derivations
    <3>1. \A i \in DOMAIN trace : ~Derives(trace[i], t)
      BY <2>2 DEF Explained
    <3>2. \A i \in DOMAIN more : ~Derives(more[i], t)
      BY <1>1, <1>2, <1>4, <3>1
    <3>. QED
      BY <1>4, <2>2, <3>2 DEF Explained
  <2>. QED
    BY <2>1, <2>2
<1>5. ASSUME ~Derives(step, task) PROVE Explained(more, derivations, t)
  <2>1. ~Derives(step, t)
    BY <1>5 DEF Derives
  <2>. QED
    BY <1>4, <2>1
<1>6. ASSUME Derives(step, task) PROVE Explained(more, new, t)
  <2>1. task \in Anything /\ d \in Derivation
    <3>1. step.call \in Calls /\ step.call.tool = "derive"
      BY <1>6 DEF Derives
    <3>. QED
      BY <3>1, CallFacts, Zenon
  <2> HIDE DEF task, d
  <2>2. /\ DOMAIN new = DOMAIN derivations \cup {task}
        /\ new[task] = d
        /\ \A u \in DOMAIN derivations \ {task} : new[u] = derivations[u]
    BY DEF Recorded
  <2> USE DEF task, d
  <2> HIDE DEF new
  <2>3. CASE t = task
    <3>1. IsLast(more, t, n)
      BY <1>1, <1>2, <1>3, <1>6, <2>3 DEF IsLast, n
    <3>2. new[t] = Derived(more[n].call.neighbors)
      BY <1>1, <2>2, <2>3
    <3>. QED
      BY <1>2, <2>2, <2>3, <3>1, <3>2 DEF Explained
  <2>4. CASE t # task
    <3>1. ~Derives(step, t)
      BY <2>4 DEF Derives
    <3>. QED
      BY <1>4, <2>2, <2>4, <3>1
  <2>. QED
    BY <2>3, <2>4
<1>. QED
  BY <1>5, <1>6 DEF more, new

LEMMA MergedFacts ==
    ASSUME NEW rows \in [Tasks -> LookedUp], NEW derivations \in Derivations
    PROVE  /\ Merged(rows, derivations) \in RowSets
           /\ \A t \in Tasks :
                 Merged(rows, derivations)[t] =
                    IF t \in DOMAIN derivations /\ derivations[t].match
                    THEN Rederived(rows[t], derivations[t]) ELSE rows[t]
<1> DEFINE recovered == {t \in DOMAIN derivations : derivations[t].match}
           S == Tasks \cup recovered
           new == Merged(rows, derivations)
<1>1. /\ DOMAIN derivations \in SUBSET Anything
      /\ \A t \in DOMAIN derivations : derivations[t] \in Derivation
  BY DerivationsFacts
<1>2. S \in SUBSET Anything
  BY <1>1 DEF Anything
<1>3. new = [t \in S |-> IF t \in recovered
                         THEN Rederived(IF t \in Tasks THEN rows[t] ELSE NoMatch, derivations[t])
                         ELSE rows[t]]
  BY DEF Merged
<1>4. \A t \in S : new[t] \in HandedOver
  BY <1>1, <1>3 DEF HandedOver, LookedUp
<1>5. new \in [S -> HandedOver]
  BY <1>3, <1>4
<1>. QED
  BY <1>2, <1>3, <1>5 DEF RowSets

LEMMA MergedNothing ==
    ASSUME NEW rows \in [Tasks -> LookedUp]
    PROVE  Merged(rows, <<>>) = rows
  BY DEF Merged

----------------------------------------------------------------------------
(* The initial states and the steps of a pass.                             *)
LEMMA IdleFacts ==
    /\ Idle.kind = "none" /\ Idle.pc = "idle" /\ Idle.rounds = 0 /\ Idle.calls = <<>>
    /\ Idle.trace = <<>> /\ Idle.derivations = <<>> /\ Idle.rows = <<>>
    /\ Idle.stopped = "" /\ Idle.dropped = FALSE /\ Idle.estimated = FALSE
    /\ <<>> \in Seq(Calls) /\ <<>> \in Seq([call : Calls, error : BOOLEAN])
    /\ <<>> \in Derivations /\ <<>> \in RowSets
    /\ MaxIterations \in Nat /\ 0 < MaxIterations
  BY AgentAssumption DEF Idle, Derivations, RowSets

\* Nothing is derived before the first step.
LEMMA NothingExplained == \A t : Explained(<<>>, <<>>, t)
  BY DEF Explained

LEMMA InitIInv == Init => IInv
<1> SUFFICES ASSUME Init PROVE IInv
  OBVIOUS
<1>1. PassOK
  BY DEF Init, PassInit, PassOK, PassPhases, LookedUp
<1>2. AgentOK
  BY IdleFacts DEF Init, AgentOK, AgentState, Idle
<1>3. Explains(agent)
  BY NothingExplained, IdleFacts DEF Init, Explains
<1>4. RowsOK /\ StopOK
  BY IdleFacts DEF Init, RowsOK, StopOK, StopIsTruthful, At
<1>. QED
  BY <1>1, <1>2, <1>3, <1>4 DEF IInv

LEMMA PassStepFacts ==
    ASSUME PassOK, PassStep
    PROVE  PassOK' /\ pass.status = "running"
<1>1. PICK t \in Tasks : \/ EmbedTask(t) \/ QueryTask(t) \/ FoundNeighbors(t)
                         \/ QueryTaskFails(t)
  BY DEF PassStep
<1>2. pass.status = "running"
  BY <1>1 DEF EmbedTask, QueryTask, FoundNeighbors, QueryTaskFails, LookingUp
<1>3. ASSUME PassFails PROVE PassOK'
  BY <1>3 DEF PassFails, PassOK
<1>4. ASSUME NEW phase \in PassPhases, pass' = [pass EXCEPT !.phase[t] = phase]
      PROVE  PassOK'
  BY <1>4 DEF PassOK
<1>5. ASSUME FoundNeighbors(t) PROVE PassOK'
  <2>1. PICK found \in Searches :
          pass' = [pass EXCEPT !.phase[t] = "done", !.rows[t] = EstimateTask(found),
                     !.status = IF \A u \in Tasks \ {t} : pass.phase[u] = "done"
                                THEN "ok" ELSE "running"]
    BY <1>5 DEF FoundNeighbors
  <2>2. EstimateTask(found) \in LookedUp
    BY DEF LookedUp
  <2>. QED
    BY <2>1, <2>2 DEF PassOK, PassPhases
<1>6. PassOK'
  BY <1>1, <1>3, <1>4, <1>5 DEF EmbedTask, QueryTask, QueryTaskFails, PassPhases
<1>. QED
  BY <1>2, <1>6

LEMMA PassStepIInv ==
    ASSUME IInv, PassStep, UNCHANGED agent
    PROVE  IInv'
<1>1. PassOK' /\ pass.status = "running"
  BY PassStepFacts DEF IInv
<1>2. AgentOK' /\ Explains(agent)'
  BY DEF IInv, AgentOK, Explains
<1>3. RowsOK'
  BY <1>1 DEF IInv, RowsOK
<1>4. StopOK'
  BY DEF IInv, StopOK, StopIsTruthful, At
<1>. QED
  BY <1>1, <1>2, <1>3, <1>4 DEF IInv

----------------------------------------------------------------------------
(* The steps of the loop.                                                  *)
LEMMA RecoverIInv ==
    ASSUME IInv, Recover
    PROVE  IInv'
<1> DEFINE pc == IF FlaggedTasks # {} /\ HasKey THEN "asking" ELSE "done"
           new == [Idle EXCEPT !.kind = "recovery", !.rows = pass.rows, !.pc = pc]
<1>1. agent' = new /\ pass' = pass /\ pass.status = "ok"
  BY DEF Recover, Agent
<1>2. pc \in {"asking", "done"}
  OBVIOUS
<1> HIDE DEF pc
<1>3. /\ new.kind = "recovery" /\ new.rows = pass.rows /\ new.pc = pc
      /\ new.rounds = 0 /\ new.trace = <<>> /\ new.derivations = <<>>
      /\ new.stopped = "" /\ new.dropped = FALSE /\ new.estimated = FALSE
  BY DEF Idle
<1>4. PassOK /\ pass.rows \in [Tasks -> LookedUp]
  BY DEF IInv, PassOK
<1>5. pass.rows \in RowSets
  <2>1. Merged(pass.rows, <<>>) \in RowSets
    BY <1>4, IdleFacts, MergedFacts
  <2>. QED
    BY <1>4, <2>1, MergedNothing
<1>6. new \in AgentState
  BY <1>2, <1>5, IdleFacts DEF Idle, AgentState
<1> HIDE DEF new
<1>7. PassOK' /\ AgentOK'
  BY <1>1, <1>4, <1>6 DEF PassOK, AgentOK
<1>8. Explains(agent)'
  BY <1>1, <1>3, NothingExplained DEF Explains
<1>9. RowsOK'
  BY <1>1, <1>3, <1>4, MergedNothing DEF RowsOK
<1>10. StopOK'
  BY <1>1, <1>2, <1>3, IdleFacts DEF StopOK, StopIsTruthful, At
<1>. QED
  BY <1>7, <1>8, <1>9, <1>10 DEF IInv

LEMMA EstimateIInv ==
    ASSUME IInv, Estimate
    PROVE  IInv'
<1> DEFINE pc == IF HasKey THEN "asking" ELSE "error"
           new == [Idle EXCEPT !.kind = "estimate", !.pc = pc]
<1>1. agent' = new /\ pass' = pass
  BY DEF Estimate, Agent
<1>2. pc \in {"asking", "error"}
  OBVIOUS
<1> HIDE DEF pc
<1>3. /\ new.kind = "estimate" /\ new.pc = pc
      /\ new.rounds = 0 /\ new.trace = <<>> /\ new.derivations = <<>>
      /\ new.stopped = "" /\ new.dropped = FALSE /\ new.estimated = FALSE
  BY DEF Idle
<1>4. new \in AgentState
  BY <1>2, IdleFacts DEF Idle, AgentState
<1> HIDE DEF new
<1>5. PassOK' /\ AgentOK'
  BY <1>1, <1>4 DEF IInv, PassOK, AgentOK
<1>6. Explains(agent)'
  BY <1>1, <1>3, NothingExplained DEF Explains
<1>7. RowsOK' /\ StopOK'
  BY <1>1, <1>2, <1>3, IdleFacts DEF RowsOK, StopOK, StopIsTruthful, At
<1>. QED
  BY <1>5, <1>6, <1>7 DEF IInv
\* At the limit or with nothing more to call, the recovery hands over and
\* the estimate is asked for.
LEMMA StopFacts ==
    ASSUME NEW a \in AgentState, NEW reason \in {"completed", "max_iterations"},
           a.kind = "recovery" => Merged(a.rows, a.derivations) \in RowSets
    PROVE  LET new == Stop(a, reason)
           IN  /\ new \in AgentState
               /\ new.stopped = reason /\ new.kind = a.kind /\ new.trace = a.trace
               /\ new.derivations = a.derivations /\ new.rounds = a.rounds
               /\ new.dropped = a.dropped /\ new.estimated = a.estimated
               /\ new.pc = "done" \/ (/\ new.pc = "parsing" /\ reason = "completed"
                                      /\ new.kind # "recovery")
               /\ new.pc = "done" => new.kind = "recovery" \/ reason = "max_iterations"
               /\ new.kind = "recovery" => new.rows = Merged(a.rows, a.derivations)
<1>1. CASE a.kind = "recovery"
  <2> DEFINE rows == Merged(a.rows, a.derivations)
             new == [a EXCEPT !.pc = "done", !.stopped = reason, !.rows = rows]
  <2>1. Stop(a, reason) = new
    BY <1>1 DEF Stop
  <2>2. rows \in RowSets
    BY <1>1
  <2> HIDE DEF rows
  <2>3. new \in AgentState
    BY <2>2 DEF AgentState
  <2>4. /\ new.stopped = reason /\ new.kind = a.kind /\ new.trace = a.trace
        /\ new.derivations = a.derivations /\ new.rounds = a.rounds
        /\ new.dropped = a.dropped /\ new.estimated = a.estimated
        /\ new.pc = "done" /\ new.rows = rows
    BY DEF AgentState
  <2>. QED
    BY <1>1, <2>1, <2>3, <2>4 DEF rows
<1>2. CASE a.kind # "recovery"
  <2> DEFINE pc == IF reason = "completed" THEN "parsing" ELSE "done"
             new == [a EXCEPT !.pc = pc, !.stopped = reason]
  <2>1. Stop(a, reason) = new
    BY <1>2 DEF Stop
  <2>2. pc \in {"parsing", "done"} /\ (pc = "parsing" <=> reason = "completed")
    OBVIOUS
  <2> HIDE DEF pc
  <2>3. new \in AgentState
    BY <2>2 DEF AgentState
  <2>4. /\ new.stopped = reason /\ new.kind = a.kind /\ new.trace = a.trace
        /\ new.derivations = a.derivations /\ new.rounds = a.rounds
        /\ new.dropped = a.dropped /\ new.estimated = a.estimated
        /\ new.pc = pc
    BY DEF AgentState
  <2>. QED
    BY <1>2, <2>1, <2>2, <2>3, <2>4
<1>. QED
  BY <1>1, <1>2

LEMMA RespondIInv ==
    ASSUME IInv, Respond
    PROVE  IInv'
<1>1. /\ PassOK /\ agent \in AgentState /\ Explains(agent) /\ agent.pc = "asking"
      /\ agent.rounds \in Nat /\ agent.rounds < MaxIterations
      /\ agent.stopped = "" /\ agent.dropped = FALSE /\ agent.estimated = FALSE
      /\ agent.kind \in {"recovery", "estimate"}
      /\ agent.kind = "recovery" => agent.rows = pass.rows /\ pass.status = "ok"
  BY DEF Respond, At, IInv, AgentOK, AgentState, RowsOK, StopOK
<1>2. PICK calls \in Responses :
         LET a == [agent EXCEPT !.rounds = @ + 1, !.calls = calls]
         IN  Agent(IF calls = <<>> THEN Stop(a, "completed")
                   ELSE IF a.rounds >= MaxIterations THEN Stop(Dropping(a), "max_iterations")
                   ELSE [a EXCEPT !.pc = "dispatching"])
  BY DEF Respond
<1>3. calls \in Seq(Calls)
  <2>1. PICK n \in 0 .. MaxCalls : calls \in [1 .. n -> Calls]
    BY DEF Responses
  <2>2. n \in Nat
    BY AgentAssumption
  <2>. QED
    BY <2>1, <2>2
<1> DEFINE rounds == agent.rounds + 1
<1>4. rounds \in Nat /\ rounds <= MaxIterations
  <2>1. \A r \in Nat : r < MaxIterations => r + 1 \in Nat /\ r + 1 <= MaxIterations
    BY AgentAssumption
  <2>. QED
    BY <1>1, <2>1
<1> DEFINE a == [agent EXCEPT !.rounds = rounds, !.calls = calls]
<1>5. /\ agent' = IF calls = <<>> THEN Stop(a, "completed")
                  ELSE IF rounds >= MaxIterations THEN Stop(Dropping(a), "max_iterations")
                  ELSE [a EXCEPT !.pc = "dispatching"]
      /\ pass' = pass
  BY <1>1, <1>2 DEF Agent, AgentState
<1> HIDE DEF rounds
<1>6. /\ a \in AgentState /\ a.rounds = rounds /\ a.calls = calls
      /\ a.kind = agent.kind /\ a.trace = agent.trace
      /\ a.derivations = agent.derivations /\ a.rows = agent.rows
      /\ a.stopped = "" /\ a.dropped = FALSE /\ a.estimated = FALSE
  BY <1>1, <1>3, <1>4 DEF AgentState
<1> HIDE DEF a
<1>7. agent.kind = "recovery" => Merged(agent.rows, agent.derivations) \in RowSets
  BY <1>1, MergedFacts DEF PassOK, AgentState
\* Both ends of the loop, of which only the limit drops calls.
<1>8. ASSUME NEW b \in AgentState, NEW reason \in {"completed", "max_iterations"},
             agent' = Stop(b, reason),
             b.kind = agent.kind, b.trace = agent.trace,
             b.derivations = agent.derivations, b.rows = agent.rows, b.rounds = rounds,
             b.estimated = FALSE, b.dropped = (reason = "max_iterations"),
             reason = "max_iterations" => rounds = MaxIterations
      PROVE  IInv'
  <2>1. Merged(b.rows, b.derivations) = Merged(agent.rows, agent.derivations)
    BY <1>8, Zenon
  <2> DEFINE new == Stop(b, reason)
  <2>a. /\ new \in AgentState
        /\ new.stopped = reason /\ new.kind = b.kind /\ new.trace = b.trace
        /\ new.derivations = b.derivations /\ new.rounds = b.rounds
        /\ new.dropped = b.dropped /\ new.estimated = b.estimated
        /\ new.pc = "done" \/ (/\ new.pc = "parsing" /\ reason = "completed"
                               /\ new.kind # "recovery")
        /\ new.pc = "done" => new.kind = "recovery" \/ reason = "max_iterations"
        /\ new.kind = "recovery" => new.rows = Merged(b.rows, b.derivations)
    <3>1. b.kind = "recovery" => Merged(b.rows, b.derivations) \in RowSets
      BY <1>7, <1>8, <2>1
    <3>. QED
      BY <1>8, <3>1, StopFacts
  <2> HIDE DEF new
  <2>b. agent' = new
    BY <1>8 DEF new
  <2>2. /\ agent' \in AgentState
        /\ agent.stopped' = reason /\ agent.kind' = agent.kind
        /\ agent.trace' = agent.trace /\ agent.derivations' = agent.derivations
        /\ agent.rounds' = rounds /\ agent.dropped' = (reason = "max_iterations")
        /\ agent.estimated' = FALSE
        /\ agent.pc' = "done" \/ (/\ agent.pc' = "parsing" /\ reason = "completed"
                                  /\ agent.kind' # "recovery")
        /\ agent.pc' = "done" => agent.kind' = "recovery" \/ reason = "max_iterations"
        /\ agent.kind' = "recovery" =>
              agent.rows' = Merged(agent.rows, agent.derivations)
    BY <1>8, <2>1, <2>a, <2>b
  <2>3. PassOK' /\ AgentOK'
    BY <1>1, <1>5, <2>2 DEF PassOK, AgentOK
  <2>4. Explains(agent)'
    BY <1>1, <2>2 DEF Explains
  <2>5. RowsOK'
    BY <1>1, <1>5, <2>2 DEF RowsOK
  <2>6. StopIsTruthful'
    <3>1. rounds <= MaxIterations + 1
      BY <1>4, AgentAssumption
    <3>2. /\ agent.stopped' = "max_iterations" <=> agent.dropped'
          /\ agent.stopped' = "max_iterations" => agent.rounds' = MaxIterations
          /\ agent.rounds' <= MaxIterations + 1
      BY <1>8, <2>2, <3>1
    <3>3. ASSUME agent.pc' = "done", agent.kind' = "estimate"
          PROVE  agent.estimated' = (agent.stopped' = "completed")
      <4>1. agent.stopped' = "max_iterations" /\ agent.estimated' = FALSE
        BY <2>2, <3>3
      <4>2. (agent.stopped' = "completed") = FALSE
        BY <4>1
      <4>. QED
        BY <4>1, <4>2
    <3>. QED
      BY <3>2, <3>3 DEF StopIsTruthful, At
  <2>7. StopOK'
    BY <1>1, <1>4, <2>2, <2>6 DEF StopOK
  <2>. QED
    BY <2>3, <2>4, <2>5, <2>7 DEF IInv
<1>9. CASE calls = <<>>
  <2>1. agent' = Stop(a, "completed")
    BY <1>5, <1>9
  <2>. QED
    BY <1>6, <1>8, <2>1
<1>10. CASE calls # <<>> /\ rounds >= MaxIterations
  <2> DEFINE b == Dropping(a)
  <2>1. agent' = Stop(b, "max_iterations") /\ rounds = MaxIterations
    BY <1>4, <1>5, <1>10, AgentAssumption
  <2>2. /\ b \in AgentState /\ b.kind = agent.kind /\ b.trace = agent.trace
        /\ b.derivations = agent.derivations /\ b.rows = agent.rows
        /\ b.rounds = rounds /\ b.estimated = FALSE /\ b.dropped = TRUE
    BY <1>6, IdleFacts DEF Dropping, AgentState
  <2> HIDE DEF b
  <2>. QED
    BY <1>8, <2>1, <2>2
<1>11. CASE calls # <<>> /\ ~(rounds >= MaxIterations)
  <2> DEFINE new == [a EXCEPT !.pc = "dispatching"]
  <2>1. agent' = new /\ rounds < MaxIterations
    BY <1>4, <1>5, <1>11, AgentAssumption
  <2>2. /\ new \in AgentState /\ new.pc = "dispatching" /\ new.kind = agent.kind
        /\ new.trace = agent.trace /\ new.derivations = agent.derivations
        /\ new.rows = agent.rows /\ new.rounds = rounds /\ new.calls = calls
        /\ new.stopped = "" /\ new.dropped = FALSE /\ new.estimated = FALSE
    BY <1>6 DEF AgentState
  <2> HIDE DEF new
  <2>3. PassOK' /\ AgentOK'
    BY <1>1, <1>5, <2>1, <2>2 DEF PassOK, AgentOK
  <2>4. Explains(agent)'
    BY <1>1, <2>1, <2>2 DEF Explains
  <2>5. RowsOK'
    BY <1>1, <1>5, <2>1, <2>2 DEF RowsOK
  <2>6. StopOK'
    BY <1>1, <1>11, <2>1, <2>2 DEF StopOK, StopIsTruthful, At
  <2>. QED
    BY <2>3, <2>4, <2>5, <2>6 DEF IInv
<1>. QED
  BY <1>9, <1>10, <1>11

LEMMA AskFailsIInv ==
    ASSUME IInv, AskFails
    PROVE  IInv'
<1> DEFINE new == [agent EXCEPT !.pc = "error"]
<1>1. agent' = new /\ pass' = pass
  BY DEF AskFails, Agent
<1>2. /\ new \in AgentState /\ new.pc = "error" /\ new.kind = agent.kind
      /\ new.trace = agent.trace /\ new.derivations = agent.derivations
      /\ agent.kind # "none"
  BY DEF AskFails, At, IInv, AgentOK, AgentState, StopOK
<1> HIDE DEF new
<1>3. PassOK' /\ AgentOK' /\ Explains(agent)'
  BY <1>1, <1>2 DEF IInv, PassOK, AgentOK, Explains
<1>4. RowsOK' /\ StopOK'
  BY <1>1, <1>2 DEF IInv, RowsOK, StopOK, StopIsTruthful, At
<1>. QED
  BY <1>3, <1>4 DEF IInv
LEMMA SequenceFacts ==
    /\ \A calls \in Seq(Calls) : calls # <<>> =>
          Head(calls) \in Calls /\ Tail(calls) \in Seq(Calls)
    /\ \A trace \in Seq([call : Calls, error : BOOLEAN]),
          step \in [call : Calls, error : BOOLEAN] :
          Append(trace, step) \in Seq([call : Calls, error : BOOLEAN])
<1>1. ASSUME NEW calls \in Seq(Calls), calls # <<>>
      PROVE  Head(calls) \in Calls /\ Tail(calls) \in Seq(Calls)
  BY <1>1
<1>2. ASSUME NEW S, NEW trace \in Seq(S), NEW step \in S
      PROVE  Append(trace, step) \in Seq(S)
  OBVIOUS
<1>. QED
  BY <1>1, <1>2, Zenon

LEMMA DispatchIInv ==
    ASSUME IInv, Dispatch
    PROVE  IInv'
<1> DEFINE call == Head(agent.calls)
           left == Tail(agent.calls)
           step == [call |-> call, error |-> Raises(call)]
           trace == Append(agent.trace, step)
           recorded == Recorded(agent.derivations, call.task, Derived(call.neighbors))
           derivations == IF call.tool = "derive" /\ ~Raises(call)
                          THEN recorded ELSE agent.derivations
           pc == IF left = <<>> THEN "asking" ELSE "dispatching"
           new == [agent EXCEPT !.trace = trace, !.derivations = derivations,
                      !.calls = left, !.pc = pc]
<1>1. agent' = new /\ pass' = pass /\ agent.pc = "dispatching"
  BY DEF Dispatch, Agent, At
<1>2. /\ agent \in AgentState /\ agent.calls \in Seq(Calls) /\ agent.calls # <<>>
      /\ agent.trace \in Seq([call : Calls, error : BOOLEAN])
      /\ agent.derivations \in Derivations
      /\ agent.stopped = "" /\ agent.dropped = FALSE /\ agent.estimated = FALSE
      /\ agent.rounds \in Nat /\ agent.rounds < MaxIterations /\ agent.kind # "none"
      /\ Explains(agent)
  BY <1>1 DEF IInv, AgentOK, AgentState, StopOK
<1>3. call \in Calls /\ left \in Seq(Calls)
  BY <1>2, SequenceFacts, Zenon
<1>4. pc \in {"asking", "dispatching"} /\ (pc = "dispatching" => left # <<>>)
  OBVIOUS
<1>5. Raises(call) \in BOOLEAN
  BY Zenon DEF Raises
<1> HIDE DEF call, left, pc
<1>6. /\ step \in [call : Calls, error : BOOLEAN]
      /\ step.call = call /\ step.error = Raises(call)
  BY <1>3, <1>5
<1> HIDE DEF step
<1>7. trace \in Seq([call : Calls, error : BOOLEAN])
  BY <1>2, <1>6, SequenceFacts, Zenon
<1>8. Derives(step, step.call.task) <=> call.tool = "derive" /\ ~Raises(call)
  BY <1>6 DEF Derives
<1>9. derivations \in Derivations
  <2>1. CASE call.tool = "derive" /\ ~Raises(call)
    <3>1. call.task \in Anything /\ Derived(call.neighbors) \in Derivation
      BY <1>3, <2>1, CallFacts, Zenon
    <3>2. recorded \in Derivations
      BY <1>2, <3>1, RecordedFacts, Zenon
    <3>. QED
      BY <2>1, <3>2
  <2>2. CASE ~(call.tool = "derive" /\ ~Raises(call))
    BY <1>2, <2>2
  <2>. QED
    BY <2>1, <2>2
<1>10. \A t \in Anything : Explained(trace, derivations, t)
  <2> SUFFICES ASSUME NEW t \in Anything PROVE Explained(trace, derivations, t)
    OBVIOUS
  <2>1. Explained(agent.trace, agent.derivations, t)
    BY <1>2 DEF Explains
  <2>2. /\ Derives(step, step.call.task) => Explained(trace,
              Recorded(agent.derivations, step.call.task, Derived(step.call.neighbors)), t)
        /\ ~Derives(step, step.call.task) => Explained(trace, agent.derivations, t)
    BY <1>2, <1>6, <2>1, StepExplains
  <2>. QED
    BY <1>6, <1>8, <2>2
<1> HIDE DEF trace, derivations
<1>11. /\ new \in AgentState /\ new.trace = trace /\ new.derivations = derivations
       /\ new.calls = left /\ new.pc = pc /\ new.kind = agent.kind
       /\ new.rounds = agent.rounds /\ new.rows = agent.rows
       /\ new.stopped = "" /\ new.dropped = FALSE /\ new.estimated = FALSE
  BY <1>2, <1>3, <1>4, <1>7, <1>9 DEF AgentState
<1> HIDE DEF new
<1>12. PassOK' /\ AgentOK'
  BY <1>1, <1>11 DEF IInv, PassOK, AgentOK
<1>13. Explains(agent)'
  BY <1>1, <1>10, <1>11 DEF Explains
<1>14. RowsOK'
  BY <1>1, <1>4, <1>11 DEF IInv, RowsOK
<1>15. StopOK'
  BY <1>1, <1>2, <1>4, <1>11 DEF StopOK, StopIsTruthful, At
<1>. QED
  BY <1>12, <1>13, <1>14, <1>15 DEF IInv

\* The final answer, asked for once.
LEMMA ParseIInv ==
    ASSUME IInv, ParseFinal \/ ParseFails
    PROVE  IInv'
<1>1. /\ agent \in AgentState /\ agent.kind = "estimate" /\ agent.rounds \in Nat
      /\ agent.rounds <= MaxIterations /\ agent.dropped = FALSE
      /\ agent.estimated = FALSE
  BY DEF ParseFinal, ParseFails, At, IInv, AgentOK, AgentState, StopOK
<1>2. agent.rounds + 1 \in Nat /\ agent.rounds + 1 <= MaxIterations + 1
      /\ agent.rounds <= MaxIterations + 1
  <2>1. \A r \in Nat : r <= MaxIterations => /\ r + 1 \in Nat
                                             /\ r + 1 <= MaxIterations + 1
                                             /\ r <= MaxIterations + 1
    BY AgentAssumption
  <2>. QED
    BY <1>1, <2>1
<1>3. PICK parsed \in BOOLEAN, rounds \in {agent.rounds, agent.rounds + 1} :
         agent' = [agent EXCEPT !.pc = "done", !.rounds = rounds, !.estimated = parsed,
                     !.stopped = IF parsed THEN "completed" ELSE "no_final_estimate"]
         /\ pass' = pass
  <2>1. CASE ParseFinal
    <3>1. PICK parsed \in BOOLEAN :
            Agent([agent EXCEPT !.pc = "done", !.rounds = @ + 1, !.estimated = parsed,
                     !.stopped = IF parsed THEN "completed" ELSE "no_final_estimate"])
      BY <2>1 DEF ParseFinal
    <3>. QED
      BY <1>1, <3>1 DEF Agent, AgentState
  <2>2. CASE ParseFails
    <3>1. agent' = [agent EXCEPT !.pc = "done", !.rounds = agent.rounds,
                      !.estimated = FALSE, !.stopped = "no_final_estimate"]
      BY <1>1, <2>2 DEF ParseFails, Agent, AgentState
    <3>. QED
      BY <2>2, <3>1 DEF ParseFails, Agent
  <2>. QED
    BY <2>1, <2>2
<1> DEFINE stopped == IF parsed THEN "completed" ELSE "no_final_estimate"
           new == [agent EXCEPT !.pc = "done", !.rounds = rounds, !.estimated = parsed,
                     !.stopped = stopped]
<1>4. /\ rounds \in Nat /\ rounds <= MaxIterations + 1
      /\ stopped \in {"completed", "no_final_estimate"}
      /\ parsed = (stopped = "completed")
  <2>1. rounds \in Nat /\ rounds <= MaxIterations + 1
    BY <1>1, <1>2, Zenon
  <2>2. CASE parsed = TRUE
    BY <2>1, <2>2
  <2>3. CASE parsed = FALSE
    <3>1. stopped = "no_final_estimate" /\ (stopped = "completed") = FALSE
      BY <2>3
    <3>. QED
      BY <2>1, <2>3, <3>1
  <2>. QED
    BY <2>2, <2>3
<1>5. agent' = new /\ pass' = pass
  BY <1>3
<1> HIDE DEF stopped
<1>6. /\ new \in AgentState /\ new.pc = "done" /\ new.kind = "estimate"
      /\ new.trace = agent.trace /\ new.derivations = agent.derivations
      /\ new.rounds = rounds /\ new.estimated = parsed /\ new.stopped = stopped
      /\ new.dropped = FALSE
  BY <1>1, <1>3, <1>4 DEF AgentState
<1> HIDE DEF new
<1>7. PassOK' /\ AgentOK' /\ Explains(agent)' /\ RowsOK'
  BY <1>5, <1>6 DEF IInv, PassOK, AgentOK, Explains, RowsOK
<1>8. StopIsTruthful'
  BY <1>4, <1>5, <1>6, Zenon DEF StopIsTruthful, At
<1>9. StopOK'
  BY <1>5, <1>6, <1>8 DEF StopOK
<1>. QED
  BY <1>7, <1>9 DEF IInv
----------------------------------------------------------------------------
LEMMA NextIInv == IInv /\ [Next]_vars => IInv'
<1> SUFFICES ASSUME IInv, [Next]_vars PROVE IInv'
  OBVIOUS
<1>1. CASE Recover
  BY <1>1, RecoverIInv
<1>2. CASE Estimate
  BY <1>2, EstimateIInv
<1>3. CASE Respond
  BY <1>3, RespondIInv
<1>4. CASE AskFails
  BY <1>4, AskFailsIInv
<1>5. CASE Dispatch
  BY <1>5, DispatchIInv
<1>6. CASE ParseFinal \/ ParseFails
  BY <1>6, ParseIInv
<1>7. CASE PassStep /\ UNCHANGED agent
  BY <1>7, PassStepIInv
<1>8. CASE UNCHANGED vars
  <2>1. agent' = agent /\ pass' = pass
    BY <1>8 DEF vars
  <2>. QED
    BY <2>1 DEF IInv, PassOK, AgentOK, Explains, RowsOK, StopOK, StopIsTruthful, At
<1>. QED
  BY <1>1, <1>2, <1>3, <1>4, <1>5, <1>6, <1>7, <1>8 DEF Next, AgentStep

\* The invariant of the loop: the derivations are what the trace last says
\* of each task, the rows of the pass are kept until the recovery merges
\* them, and the rounds are counted.
THEOREM Invariant == Spec => []IInv
  BY InitIInv, NextIInv, PTL DEF Spec

\* The hours that the recovery hands over are, task by task, those of the
\* pass or the consensus of the last derivation of the trace.
LEMMA ExplainedRows == IInv => TraceExplainsHours
<1> SUFFICES ASSUME IInv, RecoveryDone, NEW t \in Tasks
             PROVE  LET mine == {i \in DOMAIN agent.trace :
                                   /\ ~agent.trace[i].error
                                   /\ agent.trace[i].call.tool = "derive"
                                   /\ agent.trace[i].call.task = t}
                        last == IF mine = {} THEN <<>>
                                ELSE agent.trace[Max(mine)].call.neighbors
                    IN  agent.rows[t] =
                          IF last = <<>> THEN pass.rows[t]
                          ELSE [match |-> TRUE, hours |-> ConsensusOf[last].hours,
                                reliability |-> ConsensusOf[last].reliability,
                                range |-> NoRange,
                                dispersion |-> pass.rows[t].dispersion,
                                neighbors |-> pass.rows[t].neighbors]
  BY DEF TraceExplainsHours
<1> DEFINE mine == {i \in DOMAIN agent.trace :
                      /\ ~agent.trace[i].error
                      /\ agent.trace[i].call.tool = "derive"
                      /\ agent.trace[i].call.task = t}
           last == IF mine = {} THEN <<>> ELSE agent.trace[Max(mine)].call.neighbors
           derivations == agent.derivations
<1>1. /\ agent.rows = Merged(pass.rows, derivations)
      /\ pass.rows \in [Tasks -> LookedUp] /\ derivations \in Derivations
      /\ t \in Anything /\ Explained(agent.trace, derivations, t)
  BY DEF IInv, RecoveryDone, RowsOK, PassOK, AgentOK, AgentState, Explains, Anything
<1>2. mine = {i \in DOMAIN agent.trace : Derives(agent.trace[i], t)}
  BY DEF Derives
<1>3. mine \in SUBSET Int
  <2>1. agent.trace \in Seq([call : Calls, error : BOOLEAN])
    BY DEF IInv, AgentOK, AgentState
  <2>. QED
    BY <2>1
<1> HIDE DEF mine
<1>4. agent.rows[t] = IF t \in DOMAIN derivations /\ derivations[t].match
                      THEN Rederived(pass.rows[t], derivations[t]) ELSE pass.rows[t]
  BY <1>1, MergedFacts
<1>5. t \notin DOMAIN derivations => last = <<>>
  BY <1>1, <1>2 DEF Explained
<1>6. t \in DOMAIN derivations => derivations[t] = Derived(last)
  <2> SUFFICES ASSUME t \in DOMAIN derivations PROVE derivations[t] = Derived(last)
    OBVIOUS
  <2>1. PICK i \in DOMAIN agent.trace :
          /\ IsLast(agent.trace, t, i)
          /\ derivations[t] = Derived(agent.trace[i].call.neighbors)
    BY <1>1 DEF Explained
  <2>2. i \in mine /\ \A j \in mine : j <= i
    BY <1>2, <2>1 DEF IsLast
  <2>3. Max(mine) = i /\ mine # {}
    BY <1>3, <2>2, MaxIs
  <2>. QED
    BY <2>1, <2>3
<1> HIDE DEF last
<1>7. agent.rows[t] = IF last = <<>> THEN pass.rows[t]
                      ELSE [match |-> TRUE, hours |-> ConsensusOf[last].hours,
                            reliability |-> ConsensusOf[last].reliability,
                            range |-> NoRange,
                            dispersion |-> pass.rows[t].dispersion,
                            neighbors |-> pass.rows[t].neighbors]
  <2>1. CASE last = <<>>
    BY <1>4, <1>6, <2>1 DEF Derived, NoDerivation
  <2>2. CASE last # <<>>
    <3>1. t \in DOMAIN derivations
      BY <1>5, <2>2
    <3>2. derivations[t] = [match |-> TRUE, hours |-> ConsensusOf[last].hours,
                            reliability |-> ConsensusOf[last].reliability]
      BY <1>6, <2>2, <3>1 DEF Derived
    <3>. QED
      BY <1>4, <2>2, <3>1, <3>2 DEF Rederived
  <2>. QED
    BY <2>1, <2>2
<1>. QED
  BY <1>7 DEF last, mine

\* TraceExplainsHours: whatever the model derives, in whatever order, and
\* whatever is dropped at the limit.
THEOREM TraceExplainsHoursHolds == Spec => []TraceExplainsHours
  BY Invariant, ExplainedRows, PTL

\* StopIsTruthful: the reason the loop reports is the one it stopped for.
THEOREM StopIsTruthfulHolds == Spec => []StopIsTruthful
<1>1. IInv => StopIsTruthful
  BY DEF IInv, StopOK
<1>. QED
  BY <1>1, Invariant, PTL
----------------------------------------------------------------------------
(* Least numbers, and functions defined by recursion.                      *)
LEMMA Least ==
    ASSUME NEW T \in SUBSET Nat, T # {}
    PROVE  \E m \in T : \A x \in T : m <= x
<1> DEFINE less == {ss \in Nat \X Nat : ss[1] < ss[2]}
<1>1. IsWellFoundedOn(less, Nat)
  BY NatLessThanWellFounded DEF OpToRel
<1>2. \A x, y \in Nat : <<x, y>> \in less <=> x < y
  OBVIOUS
<1> HIDE DEF less
<1>3. PICK m \in T : \A x \in T : <<x, m>> \notin less
  BY <1>1, WFMin
<1>4. \A x \in T : m <= x
  <2> TAKE x \in T
  <2>1. m \in Nat /\ x \in Nat /\ ~(x < m)
    BY <1>2, <1>3
  <2>. QED
    BY <2>1
<1>. QED
  BY <1>4

Recurs(f, n, T, base, step) ==
    /\ f \in [0 .. n -> T] /\ f[0] = base
    /\ \A k \in 1 .. n : f[k] = step[<<k, f[k - 1]>>]

LEMMA Recursion ==
    ASSUME NEW n \in Nat, NEW T, NEW base \in T, NEW step \in [(1 .. n) \X T -> T]
    PROVE  \E f : Recurs(f, n, T, base, step)
<1> DEFINE Fits(f, m) == /\ f \in [0 .. m -> T] /\ f[0] = base
                         /\ \A k \in 1 .. m : f[k] = step[<<k, f[k - 1]>>]
           bad == {m \in 0 .. n : ~ \E f : Fits(f, m)}
<1>1. CASE bad = {}
  <2>1. n \in 0 .. n
    OBVIOUS
  <2>2. \E f : Fits(f, n)
    <3> HIDE DEF Fits
    <3>. QED
      BY <1>1, <2>1
  <2>. QED
    BY <2>2 DEF Recurs
<1>2. CASE bad # {}
  <2>1. bad \in SUBSET Nat
    OBVIOUS
  <2>2. PICK m \in bad : \A x \in bad : m <= x
    <3> HIDE DEF bad
    <3>. QED
      BY <1>2, <2>1, Least
  <2>3. m # 0
    <3>1. Fits([k \in 0 .. 0 |-> base], 0)
      OBVIOUS
    <3>. QED
      BY <3>1
  <2>4. m - 1 \in 0 .. n /\ m - 1 \notin bad
    BY <2>2, <2>3
  <2>5. PICK f : Fits(f, m - 1)
    BY <2>4
  <2> DEFINE g == [k \in 0 .. m |-> IF k = m THEN step[<<m, f[m - 1]>>] ELSE f[k]]
  <2>6. m \in 1 .. n
    BY <2>3
  <2>7. step[<<m, f[m - 1]>>] \in T
    <3>1. f[m - 1] \in T
      BY <2>4, <2>5
    <3>. QED
      BY <2>6, <3>1
  <2>8. g \in [0 .. m -> T] /\ g[0] = base
    BY <2>5, <2>6, <2>7
  <2>9. \A k \in 1 .. m : g[k] = step[<<k, g[k - 1]>>]
    <3> TAKE k \in 1 .. m
    <3>1. CASE k = m
      <4>1. m \in 0 .. m /\ m - 1 \in 0 .. m /\ m - 1 # m
        BY <2>6
      <4>2. g[m] = step[<<m, f[m - 1]>>] /\ g[m - 1] = f[m - 1]
        BY <4>1
      <4>. QED
        BY <3>1, <4>2
    <3>2. CASE k # m
      <4>1. k \in 1 .. m - 1 /\ k - 1 # m /\ k \in 0 .. m /\ k - 1 \in 0 .. m
        BY <2>6, <3>2
      <4>2. g[k] = f[k] /\ g[k - 1] = f[k - 1] /\ f[k] = step[<<k, f[k - 1]>>]
        BY <2>5, <3>2, <4>1
      <4>. QED
        BY <4>2
    <3>. QED
      BY <3>1, <3>2
  <2>10. Fits(g, m)
    BY <2>8, <2>9
  <2>. QED
    BY <2>2, <2>10
<1>. QED
  BY <1>1, <1>2

----------------------------------------------------------------------------
(* Totals.                                                                 *)
LEMMA TotalSums ==
    ASSUME NEW n \in Nat, NEW s \in [1 .. n -> Int]
    PROVE  \E f \in [0 .. n -> Int] :
              /\ f[0] = 0 /\ \A k \in 1 .. n : f[k] = f[k - 1] + s[k]
              /\ Total(s) = f[n]
<1> DEFINE Sums(f) == f = [k \in 0 .. Len(s) |-> IF k = 0 THEN 0 ELSE f[k - 1] + s[k]]
<1>1. Len(s) = n
  OBVIOUS
<1>2. Total(s) = (CHOOSE f : Sums(f))[n]
  BY <1>1 DEF Total
<1>3. \E f : Sums(f)
  <2> DEFINE step == [p \in (1 .. n) \X Int |-> p[2] + s[p[1]]]
  <2>1. step \in [(1 .. n) \X Int -> Int]
    OBVIOUS
  <2>2. \A k \in 1 .. n, x \in Int : step[<<k, x>>] = x + s[k]
    OBVIOUS
  <2> HIDE DEF step
  <2>3. PICK f \in [0 .. n -> Int] :
          f[0] = 0 /\ \A k \in 1 .. n : f[k] = step[<<k, f[k - 1]>>]
    <3>1. 0 \in Int
      OBVIOUS
    <3>2. PICK f : Recurs(f, n, Int, 0, step)
      BY <2>1, <3>1, Recursion
    <3>. QED
      BY <3>2 DEF Recurs
  <2>4. \A k \in 1 .. n : f[k] = f[k - 1] + s[k]
    <3> TAKE k \in 1 .. n
    <3>1. k - 1 \in 0 .. n
      OBVIOUS
    <3>2. f[k - 1] \in Int
      BY <3>1
    <3>. QED
      BY <2>2, <2>3, <3>2
  <2>5. Sums(f)
    BY <1>1, <2>3, <2>4
  <2>. QED
    BY <2>5
<1>4. PICK f : f = CHOOSE g : Sums(g)
  OBVIOUS
<1>5. Sums(f)
  BY <1>3, <1>4
<1>6. f[0] = 0 /\ \A k \in 1 .. n : f[k] = f[k - 1] + s[k]
  BY <1>1, <1>5
<1>7. \A k \in 0 .. n : f[k] \in Int
  <2> DEFINE bad == {k \in 0 .. n : f[k] \notin Int}
  <2> SUFFICES ASSUME bad # {} PROVE FALSE
    OBVIOUS
  <2>1. PICK m \in bad : \A x \in bad : m <= x
    <3>1. bad \in SUBSET Nat
      OBVIOUS
    <3> HIDE DEF bad
    <3>. QED
      BY <3>1, Least
  <2>2. m # 0 /\ m \in 1 .. n
    BY <1>6
  <2>3. m - 1 \in 0 .. n /\ m - 1 \notin bad
    BY <2>1, <2>2
  <2>. QED
    BY <1>6, <2>2, <2>3
<1>8. f \in [0 .. n -> Int]
  <2>1. f = [k \in 0 .. n |-> f[k]]
    BY <1>1, <1>5
  <2>. QED
    BY <1>7, <2>1
<1>. QED
  BY <1>2, <1>4, <1>6, <1>8

LEMMA TotalType ==
    ASSUME NEW n \in Nat, NEW s \in [1 .. n -> Int]
    PROVE  Total(s) \in Int
<1>1. PICK f \in [0 .. n -> Int] : Total(s) = f[n]
  BY TotalSums
<1>. QED
  BY <1>1

\* A total is between the same multiples of another as its terms are.
LEMMA TotalBetween ==
    ASSUME NEW n \in Nat, NEW s \in [1 .. n -> Int], NEW t \in [1 .. n -> Int],
           NEW low \in Int, NEW high \in Int,
           \A i \in 1 .. n : low * t[i] <= s[i] /\ s[i] <= high * t[i]
    PROVE  low * Total(t) <= Total(s) /\ Total(s) <= high * Total(t)
<1>1. PICK f \in [0 .. n -> Int] :
         /\ f[0] = 0 /\ \A k \in 1 .. n : f[k] = f[k - 1] + s[k]
         /\ Total(s) = f[n]
  BY TotalSums
<1>2. PICK g \in [0 .. n -> Int] :
         /\ g[0] = 0 /\ \A k \in 1 .. n : g[k] = g[k - 1] + t[k]
         /\ Total(t) = g[n]
  BY TotalSums
<1> DEFINE bad == {k \in 0 .. n : ~(low * g[k] <= f[k] /\ f[k] <= high * g[k])}
<1>3. bad = {}
  <2> SUFFICES ASSUME bad # {} PROVE FALSE
    OBVIOUS
  <2>1. PICK m \in bad : \A x \in bad : m <= x
    <3>1. bad \in SUBSET Nat
      OBVIOUS
    <3> HIDE DEF bad
    <3>. QED
      BY <3>1, Least
  <2>2. m # 0 /\ m \in 1 .. n
    <3>1. low * 0 = 0 /\ high * 0 = 0
      OBVIOUS
    <3>. QED
      BY <1>1, <1>2, <3>1
  <2>3. m - 1 \in 0 .. n /\ m - 1 \notin bad
    <3>1. m - 1 \in 0 .. n /\ ~(m <= m - 1)
      BY <2>2
    <3> HIDE DEF bad
    <3>. QED
      BY <2>1, <3>1
  <2>4. \A a, b, c, d, e \in Int :
           /\ e * a <= b /\ e * c <= d => e * (a + c) <= b + d
           /\ b <= e * a /\ d <= e * c => b + d <= e * (a + c)
    <3> TAKE a, b, c, d, e \in Int
    <3>1. e * (a + c) = e * a + e * c
      OBVIOUS
    <3>2. e * a \in Int /\ e * c \in Int /\ e * (a + c) \in Int
      OBVIOUS
    <3>. QED
      BY <3>1, <3>2
  <2>5. /\ low * g[m - 1] <= f[m - 1] /\ f[m - 1] <= high * g[m - 1]
        /\ low * t[m] <= s[m] /\ s[m] <= high * t[m]
    BY <2>2, <2>3
  <2>6. /\ g[m - 1] \in Int /\ f[m - 1] \in Int /\ t[m] \in Int /\ s[m] \in Int
        /\ f[m] = f[m - 1] + s[m] /\ g[m] = g[m - 1] + t[m]
    BY <1>1, <1>2, <2>2, <2>3
  <2>7. low * g[m] <= f[m] /\ f[m] <= high * g[m]
    <3>1. PICK a, b, c, d : a = g[m - 1] /\ b = f[m - 1] /\ c = t[m] /\ d = s[m]
      OBVIOUS
    <3>2. /\ a \in Int /\ b \in Int /\ c \in Int /\ d \in Int
          /\ f[m] = b + d /\ g[m] = a + c
      BY <2>6, <3>1
    <3>3. low * a <= b /\ b <= high * a /\ low * c <= d /\ d <= high * c
      BY <2>5, <3>1
    <3>4. low * (a + c) <= b + d /\ b + d <= high * (a + c)
      BY <2>4, <3>2, <3>3
    <3>. QED
      BY <3>2, <3>4
  <2>. QED
    BY <2>7
<1>4. n \in 0 .. n /\ n \notin bad
  <2> HIDE DEF bad
  <2>. QED
    BY <1>3
<1>. QED
  BY <1>1, <1>2, <1>4

LEMMA TotalPositive ==
    ASSUME NEW n \in Nat \ {0}, NEW s \in [1 .. n -> Int], \A i \in 1 .. n : s[i] > 0
    PROVE  Total(s) > 0
<1>1. PICK f \in [0 .. n -> Int] :
         /\ f[0] = 0 /\ \A k \in 1 .. n : f[k] = f[k - 1] + s[k]
         /\ Total(s) = f[n]
  BY TotalSums
<1> DEFINE bad == {k \in 1 .. n : ~(f[k] > 0)}
<1>2. bad = {}
  <2> SUFFICES ASSUME bad # {} PROVE FALSE
    OBVIOUS
  <2>1. PICK m \in bad : \A x \in bad : m <= x
    <3>1. bad \in SUBSET Nat
      OBVIOUS
    <3> HIDE DEF bad
    <3>. QED
      BY <3>1, Least
  <2>2. f[m] = f[m - 1] + s[m] /\ s[m] > 0 /\ m - 1 \in 0 .. n
    BY <1>1
  <2>3. f[m - 1] >= 0
    <3>1. CASE m = 1
      BY <1>1, <3>1
    <3>2. CASE m # 1
      <4>1. m - 1 \in 1 .. n /\ m - 1 \notin bad
        BY <2>1, <3>2
      <4>. QED
        BY <4>1
    <3>. QED
      BY <3>1, <3>2
  <2>4. f[m - 1] \in Int /\ s[m] \in Int
    BY <2>2
  <2>. QED
    BY <2>2, <2>3, <2>4
<1>3. n \in 1 .. n
  OBVIOUS
<1>4. n \notin bad
  <2> HIDE DEF bad
  <2>. QED
    BY <1>2
<1>. QED
  BY <1>1, <1>3, <1>4

LEMMA TotalOfTwo ==
    ASSUME NEW s \in [1 .. 2 -> Int]
    PROVE  Total(s) = s[1] + s[2]
<1>1. PICK f \in [0 .. 2 -> Int] :
         /\ f[0] = 0 /\ \A k \in 1 .. 2 : f[k] = f[k - 1] + s[k]
         /\ Total(s) = f[2]
  BY TotalSums
<1>2. f[1] = f[1 - 1] + s[1] /\ f[2] = f[2 - 1] + s[2]
  BY <1>1
<1>3. 1 - 1 = 0 /\ 2 - 1 = 1
  OBVIOUS
<1>4. f[1] = 0 + s[1] /\ f[2] = f[1] + s[2] /\ s[1] \in Int /\ s[2] \in Int
  BY <1>1, <1>2, <1>3
<1>. QED
  BY <1>1, <1>4

----------------------------------------------------------------------------
(* Quotients to the nearest integer, and roots.                            *)
LEMMA Quotient ==
    ASSUME NEW a \in Int, NEW b \in Nat \ {0}
    PROVE  /\ a \div b \in Int /\ a % b \in Int
           /\ a = (b * (a \div b)) + (a % b) /\ 0 <= a % b /\ a % b < b
  BY Z3

LEMMA Product ==
    ASSUME NEW b \in Nat \ {0}, NEW x \in Int, NEW y \in Int
    PROVE  /\ b * x <= b * y <=> x <= y
           /\ b * x < b * y <=> x < y
  BY Z3

LEMMA RoundedBetween ==
    ASSUME NEW a \in Int, NEW b \in Nat \ {0}, NEW low \in Int, NEW high \in Int,
           low * b <= a, a <= high * b
    PROVE  Rounded(a, b) \in low .. high
<1>1. PICK q \in Int : q = a \div b
  BY Quotient
<1>2. PICK r \in Int : r = a % b
  BY Quotient
<1>3. a = b * q + r /\ 0 <= r /\ r < b
  BY <1>1, <1>2, Quotient
<1>4. Rounded(a, b) = IF 2 * r > b \/ (2 * r = b /\ q % 2 = 1) THEN q + 1 ELSE q
  BY <1>1, <1>2 DEF Rounded
<1>5. b * low <= b * q + r /\ b * q + r <= b * high
  BY <1>3
<1>6. b * (q + 1) = b * q + b
  OBVIOUS
<1>7. low <= q
  <2>1. b * low < b * (q + 1)
    BY <1>3, <1>5, <1>6
  <2>. QED
    BY <2>1, Product
<1>8. q <= high
  <2>1. b * q <= b * high
    BY <1>3, <1>5
  <2>. QED
    BY <2>1, Product
<1>9. q = high => r = 0
  BY <1>3, <1>5
<1>10. r = 0 => Rounded(a, b) = q
  BY <1>4
<1>. QED
  BY <1>4, <1>7, <1>8, <1>9, <1>10

\* Of a quotient below a half the rounded one is not above it, and of one
\* above not below.
LEMMA RoundedHalves ==
    ASSUME NEW a \in Int, NEW b \in Nat \ {0}, NEW h \in Int
    PROVE  /\ Rounded(a, b) \in Int
           /\ 2 * a < b * h => 2 * Rounded(a, b) <= h
           /\ 2 * a > b * h => 2 * Rounded(a, b) >= h
<1>1. PICK q \in Int : q = a \div b
  BY Quotient
<1>2. PICK r \in Int : r = a % b
  BY Quotient
<1>3. a = b * q + r /\ 0 <= r /\ r < b
  BY <1>1, <1>2, Quotient
<1>4. Rounded(a, b) = IF 2 * r > b \/ (2 * r = b /\ q % 2 = 1) THEN q + 1 ELSE q
  BY <1>1, <1>2 DEF Rounded
<1>5. PICK z \in {q, q + 1} :
         z = Rounded(a, b) /\ (z = q + 1 => 2 * r >= b) /\ (z = q => 2 * r <= b)
  BY <1>3, <1>4
<1>6. 2 * a = 2 * (b * q) + 2 * r
  BY <1>3
<1>7. /\ b * (2 * q) = 2 * (b * q) /\ b * (2 * q + 1) = 2 * (b * q) + b
      /\ b * (2 * q + 2) = 2 * (b * q) + 2 * b
  BY Z3
<1>8. b * q \in Int /\ b * h \in Int
  OBVIOUS
<1>9. ASSUME 2 * a < b * h PROVE 2 * z <= h
  <2>1. CASE z = q
    <3>1. b * (2 * q) < b * h
      BY <1>3, <1>6, <1>7, <1>8, <1>9
    <3>. QED
      BY <2>1, <3>1, Product
  <2>2. CASE z = q + 1
    <3>1. b * (2 * q + 1) < b * h
      BY <1>3, <1>5, <1>6, <1>7, <1>8, <1>9, <2>2
    <3>2. 2 * q + 1 < h
      BY <3>1, Product
    <3>. QED
      BY <2>2, <3>2
  <2>. QED
    BY <2>1, <2>2
<1>10. ASSUME 2 * a > b * h PROVE 2 * z >= h
  <2>1. CASE z = q
    <3>1. b * h < b * (2 * q + 1)
      BY <1>3, <1>5, <1>6, <1>7, <1>8, <1>10, <2>1
    <3>2. h < 2 * q + 1
      BY <3>1, Product
    <3>. QED
      BY <2>1, <3>2
  <2>2. CASE z = q + 1
    <3>1. b * h < b * (2 * q + 2)
      BY <1>3, <1>6, <1>7, <1>8, <1>10
    <3>2. h < 2 * q + 2
      BY <3>1, Product
    <3>. QED
      BY <2>2, <3>2
  <2>. QED
    BY <2>1, <2>2
<1>. QED
  BY <1>5, <1>9, <1>10

\* The rounding is by no more than a half.
LEMMA RoundedNear ==
    ASSUME NEW a \in Int, NEW b \in Nat \ {0}
    PROVE  /\ 2 * a - b <= 2 * (b * Rounded(a, b))
           /\ 2 * (b * Rounded(a, b)) <= 2 * a + b
<1>1. PICK q \in Int : q = a \div b
  BY Quotient
<1>2. PICK r \in Int : r = a % b
  BY Quotient
<1>3. a = b * q + r /\ 0 <= r /\ r < b
  BY <1>1, <1>2, Quotient
<1>4. Rounded(a, b) = IF 2 * r > b \/ (2 * r = b /\ q % 2 = 1) THEN q + 1 ELSE q
  BY <1>1, <1>2 DEF Rounded
<1>5. CASE Rounded(a, b) = q /\ 2 * r <= b
  BY <1>3, <1>5
<1>6. CASE Rounded(a, b) = q + 1 /\ 2 * r >= b
  <2>1. b * (q + 1) = b * q + b
    OBVIOUS
  <2>. QED
    BY <1>3, <1>6, <2>1
<1>. QED
  BY <1>3, <1>4, <1>5, <1>6

LEMMA RootType == ASSUME NEW x \in Nat PROVE Root(x) \in 0 .. x
<1> DEFINE above == {k \in Nat : x < (k + 1) * (k + 1)}
<1>1. x \in above
  BY Z3
<1>2. PICK m \in above : \A k \in above : m <= k
  <2>1. above \in SUBSET Nat
    OBVIOUS
  <2> HIDE DEF above
  <2>. QED
    BY <1>1, <2>1, Least
<1>3. m * m <= x
  <2>1. CASE m = 0
    BY <2>1
  <2>2. CASE m # 0
    <3>1. m - 1 \in Nat /\ m - 1 \notin above
      BY <1>2, <2>2
    <3>2. (m - 1) + 1 = m
      OBVIOUS
    <3>3. ~(x < m * m)
      BY <3>1, <3>2
    <3>. QED
      BY <3>3
  <2>. QED
    BY <2>1, <2>2
<1>4. m \in 0 .. x
  <2>1. m <= x
    BY <1>1, <1>2
  <2>. QED
    BY <2>1
<1>5. \E k \in 0 .. x : k * k <= x /\ x < (k + 1) * (k + 1)
  BY <1>3, <1>4
<1>. QED
  BY <1>5 DEF Root

----------------------------------------------------------------------------
(* The extremes of a finite set of numbers.                                *)
LEMMA Extremes ==
    ASSUME NEW S \in SUBSET Int, IsFiniteSet(S), S # {}
    PROVE  /\ Max(S) \in S /\ \A y \in S : y <= Max(S)
           /\ Min(S) \in S /\ \A y \in S : Min(S) <= y
<1> DEFINE Above(x) == {y \in S : x < y}
           Below(x) == {y \in S : y < x}
<1>1. \A x \in S : /\ IsFiniteSet(Above(x)) /\ Cardinality(Above(x)) \in Nat
                   /\ IsFiniteSet(Below(x)) /\ Cardinality(Below(x)) \in Nat
  <2> TAKE x \in S
  <2>1. IsFiniteSet(Above(x)) /\ IsFiniteSet(Below(x))
    BY FS_Subset
  <2>. QED
    BY <2>1, FS_CardinalityType
<1>2. \E x \in S : Above(x) = {}
  <2> DEFINE T == {Cardinality(Above(x)) : x \in S}
  <2>1. T \in SUBSET Nat /\ T # {}
    BY <1>1
  <2>2. PICK m \in T : \A z \in T : m <= z
    <3> HIDE DEF T
    <3>. QED
      BY <2>1, Least
  <2>3. PICK x \in S : m = Cardinality(Above(x))
    OBVIOUS
  <2>4. ASSUME NEW y \in Above(x) PROVE FALSE
    <3>1. y \in S /\ Above(y) \subseteq Above(x) /\ y \notin Above(y)
      <4>1. /\ x \in Int /\ y \in Int /\ ~(y < y)
            /\ x < y /\ \A z \in Int : y < z => x < z
        BY <2>4
      <4>2. \A z \in Above(y) : z \in Above(x)
        BY <4>1
      <4>. QED
        BY <4>1, <4>2
    <3>2. /\ Cardinality(Above(y)) <= Cardinality(Above(x))
          /\ Cardinality(Above(y)) = Cardinality(Above(x)) => Above(y) = Above(x)
      BY <1>1, <3>1, FS_Subset
    <3>3. m <= Cardinality(Above(y))
      BY <2>2, <3>1
    <3> HIDE DEF Above
    <3>4. Above(y) = Above(x)
      <4>1. PICK i \in Nat : i = Cardinality(Above(y))
        BY <1>1, <3>1
      <4>2. PICK j \in Nat : j = Cardinality(Above(x))
        BY <1>1
      <4>3. i <= j /\ j <= i
        BY <2>3, <3>2, <3>3, <4>1, <4>2
      <4>4. i = j
        BY <4>3
      <4>. QED
        BY <3>2, <4>1, <4>2, <4>4
    <3>. QED
      BY <2>4, <3>1, <3>4
  <2>. QED
    BY <2>4
<1>3. \E x \in S : Below(x) = {}
  <2> DEFINE T == {Cardinality(Below(x)) : x \in S}
  <2>1. T \in SUBSET Nat /\ T # {}
    BY <1>1
  <2>2. PICK m \in T : \A z \in T : m <= z
    <3> HIDE DEF T
    <3>. QED
      BY <2>1, Least
  <2>3. PICK x \in S : m = Cardinality(Below(x))
    OBVIOUS
  <2>4. ASSUME NEW y \in Below(x) PROVE FALSE
    <3>1. y \in S /\ Below(y) \subseteq Below(x) /\ y \notin Below(y)
      <4>1. /\ x \in Int /\ y \in Int /\ ~(y < y)
            /\ y < x /\ \A z \in Int : z < y => z < x
        BY <2>4
      <4>2. \A z \in Below(y) : z \in Below(x)
        BY <4>1
      <4>. QED
        BY <4>1, <4>2
    <3>2. /\ Cardinality(Below(y)) <= Cardinality(Below(x))
          /\ Cardinality(Below(y)) = Cardinality(Below(x)) => Below(y) = Below(x)
      BY <1>1, <3>1, FS_Subset
    <3>3. m <= Cardinality(Below(y))
      BY <2>2, <3>1
    <3> HIDE DEF Below
    <3>4. Below(y) = Below(x)
      <4>1. PICK i \in Nat : i = Cardinality(Below(y))
        BY <1>1, <3>1
      <4>2. PICK j \in Nat : j = Cardinality(Below(x))
        BY <1>1
      <4>3. i <= j /\ j <= i
        BY <2>3, <3>2, <3>3, <4>1, <4>2
      <4>4. i = j
        BY <4>3
      <4>. QED
        BY <3>2, <4>1, <4>2, <4>4
    <3>. QED
      BY <2>4, <3>1, <3>4
  <2>. QED
    BY <2>4
<1>4. PICK x \in S : \A y \in S : ~(x < y)
  BY <1>2
<1>5. PICK z \in S : \A y \in S : ~(y < z)
  BY <1>3
<1>6. \A y \in S : x >= y /\ z <= y
  <2> TAKE y \in S
  <2>1. x \in Int /\ y \in Int /\ z \in Int /\ ~(x < y) /\ ~(y < z)
    BY <1>4, <1>5
  <2>. QED
    BY <2>1
<1>7. Max(S) \in S /\ \A y \in S : y <= Max(S)
  BY <1>6 DEF Max
<1>8. Min(S) \in S /\ \A y \in S : Min(S) <= y
  BY <1>6 DEF Min
<1>. QED
  BY <1>7, <1>8

\* The values of a list of numbers.
LEMMA Values ==
    ASSUME NEW refs \in Seq(Int), refs # <<>>
    PROVE  /\ Len(refs) \in Nat \ {0} /\ DOMAIN refs = 1 .. Len(refs)
           /\ ToSet(refs) \in SUBSET Int /\ IsFiniteSet(ToSet(refs)) /\ ToSet(refs) # {}
           /\ \A i \in DOMAIN refs : refs[i] \in ToSet(refs)
           /\ Min(ToSet(refs)) \in Int /\ Max(ToSet(refs)) \in Int
           /\ \A x \in ToSet(refs) : Min(ToSet(refs)) <= x /\ x <= Max(ToSet(refs))
<1> DEFINE S == ToSet(refs)
<1>1. /\ Len(refs) \in Nat \ {0} /\ DOMAIN refs = 1 .. Len(refs)
      /\ \A i \in 1 .. Len(refs) : refs[i] \in Int
  OBVIOUS
<1>2. S = {refs[i] : i \in 1 .. Len(refs)}
  BY <1>1 DEF ToSet
<1>3. S \in SUBSET Int /\ \A i \in DOMAIN refs : refs[i] \in S
  BY <1>1, <1>2
<1>4. S # {}
  <2>1. 1 \in DOMAIN refs
    BY <1>1
  <2>. QED
    BY <1>3, <2>1
<1>5. IsFiniteSet(S)
  <2>1. IsFiniteSet(1 .. Len(refs))
    BY <1>1, FS_Interval
  <2> DEFINE g == [i \in 1 .. Len(refs) |-> refs[i]]
  <2>2. g \in Surjection(1 .. Len(refs), S)
    BY <1>2 DEF Surjection
  <2>. QED
    BY <2>1, <2>2, FS_Surjection
<1> HIDE DEF S
<1>6. S \in SUBSET Int
  BY <1>3
<1>7. /\ Max(S) \in S /\ \A y \in S : y <= Max(S)
      /\ Min(S) \in S /\ \A y \in S : Min(S) <= y
  BY <1>4, <1>5, <1>6, Extremes
<1>. QED
  BY <1>1, <1>3, <1>4, <1>5, <1>7 DEF S

----------------------------------------------------------------------------
(* The k-th smallest of a list of numbers is one of them.                  *)
LEMMA SmallestOf ==
    ASSUME NEW refs \in Seq(Int), refs # <<>>, NEW k \in 1 .. Len(refs)
    PROVE  Smallest(refs, k) \in ToSet(refs)
<1> DEFINE S == ToSet(refs)
           Until(x) == {i \in DOMAIN refs : refs[i] <= x}
           Before(x) == {i \in DOMAIN refs : refs[i] < x}
           T == {x \in S : Cardinality(Until(x)) >= k}
<1>1. PICK n \in Nat \ {0} : n = Len(refs)
  BY Values
<1>2. /\ DOMAIN refs = 1 .. n /\ IsFiniteSet(DOMAIN refs) /\ Cardinality(DOMAIN refs) = n
      /\ \A i \in DOMAIN refs : refs[i] \in Int
  <2>1. IsFiniteSet(1 .. n) /\ Cardinality(1 .. n) = n
    BY FS_Interval
  <2>. QED
    BY <1>1, <2>1, Values
<1>3. /\ S \in SUBSET Int /\ IsFiniteSet(S) /\ S # {}
      /\ \A i \in DOMAIN refs : refs[i] \in S
  BY Values
<1> HIDE DEF S
<1>4. \A x : /\ IsFiniteSet(Until(x)) /\ Cardinality(Until(x)) \in Nat
             /\ IsFiniteSet(Before(x)) /\ Cardinality(Before(x)) \in Nat
  <2> TAKE x
  <2>1. IsFiniteSet(Until(x)) /\ IsFiniteSet(Before(x))
    BY <1>2, FS_Subset
  <2>. QED
    BY <2>1, FS_CardinalityType
<1>5. T # {}
  <2>1. PICK x \in S : \A y \in S : y <= x
    <3>1. S \in SUBSET Int
      BY <1>3
    <3>. QED
      BY <1>3, <3>1, Extremes
  <2>2. Until(x) = DOMAIN refs
    BY <1>3, <2>1
  <2>3. x \in T
    <3>1. Cardinality(Until(x)) = n
      <4> HIDE DEF Until
      <4>. QED
        BY <1>2, <2>2
    <3>2. Cardinality(Until(x)) >= k
      <4> HIDE DEF Until
      <4>. QED
        BY <1>1, <3>1
    <3> HIDE DEF Until
    <3>. QED
      BY <3>2
  <2>. QED
    BY <2>3
<1>6. PICK x \in T : \A y \in T : x <= y
  <2>1. T \in SUBSET Int /\ IsFiniteSet(T)
    BY <1>3, FS_Subset
  <2> HIDE DEF T
  <2>. QED
    BY <1>5, <2>1, Extremes
<1>7. Cardinality(Before(x)) < k
  <2>1. CASE Before(x) = {}
    <3>1. Cardinality(Before(x)) = 0
      BY <2>1, FS_EmptySet
    <3>. QED
      BY <3>1
  <2>2. CASE Before(x) # {}
    <3> DEFINE L == {y \in S : y < x}
    <3>1. L \in SUBSET Int /\ IsFiniteSet(L) /\ L # {}
      <4>1. IsFiniteSet(L)
        BY <1>3, FS_Subset
      <4>2. PICK i \in Before(x) : TRUE
        BY <2>2
      <4>3. refs[i] \in L
        BY <1>3, <4>2
      <4>4. L \subseteq S /\ S \subseteq Int
        BY <1>3
      <4> HIDE DEF L
      <4>. QED
        BY <4>1, <4>3, <4>4
    <3>2. PICK y \in L : \A z \in L : z <= y
      <4> HIDE DEF L
      <4>. QED
        BY <3>1, Extremes
    <3>3. Until(y) = Before(x)
      <4>1. y \in Int /\ x \in Int /\ y < x
        BY <1>3
      <4>2. \A i \in DOMAIN refs : refs[i] <= y <=> refs[i] < x
        <5> TAKE i \in DOMAIN refs
        <5>1. refs[i] \in Int /\ refs[i] \in S
          BY <1>2, <1>3
        <5>2. refs[i] < x => refs[i] <= y
          BY <3>2, <5>1
        <5>. QED
          BY <4>1, <5>1, <5>2
      <4>. QED
        BY <4>2
    <3>4. y \notin T
      <4>1. x \in Int /\ y \in Int /\ y < x
        BY <1>3
      <4> HIDE DEF T
      <4>. QED
        BY <1>6, <4>1
    <3>5. ~(Cardinality(Until(y)) >= k)
      BY <3>4
    <3> HIDE DEF Until, Before
    <3>. QED
      BY <1>4, <3>3, <3>5
  <2>. QED
    BY <2>1, <2>2
<1>8. \E z \in S : Cardinality(Before(z)) < k /\ Cardinality(Until(z)) >= k
  BY <1>7
<1>. QED
  BY <1>8 DEF Smallest, S

LEMMA MedianBetween ==
    ASSUME NEW refs \in Seq(Int), refs # <<>>
    PROVE  /\ TwiceMedian(refs) \in Int
           /\ 2 * Min(ToSet(refs)) <= TwiceMedian(refs)
           /\ TwiceMedian(refs) <= 2 * Max(ToSet(refs))
<1>1. PICK n \in Nat \ {0} : n = Len(refs)
  BY Values
<1>2. (n + 1) \div 2 \in 1 .. n /\ n \div 2 + 1 \in 1 .. n
  BY Z3
<1>3. PICK a \in ToSet(refs) : a = Smallest(refs, (n + 1) \div 2)
  BY <1>1, <1>2, SmallestOf
<1>4. PICK b \in ToSet(refs) : b = Smallest(refs, n \div 2 + 1)
  BY <1>1, <1>2, SmallestOf
<1>5. TwiceMedian(refs) = a + b
  BY <1>1, <1>3, <1>4 DEF TwiceMedian
<1>6. PICK low \in Int : low = Min(ToSet(refs))
  BY Values
<1>7. PICK high \in Int : high = Max(ToSet(refs))
  BY Values
<1>8. a \in Int /\ b \in Int /\ low <= a /\ low <= b /\ a <= high /\ b <= high
  BY <1>6, <1>7, Values
<1>. QED
  BY <1>5, <1>6, <1>7, <1>8

\* What calculate_estimate makes of a component whose amounts are zero or at
\* least three minutes: within a tenth of the range there is always room for
\* the rounding, of half a tenth at most.
LEMMA CalculatedBetween ==
    ASSUME NEW refs \in Seq(Int), refs # <<>>, ~Odd(refs)
    PROVE  /\ 5 * Min(ToSet(refs)) <= Scale * Rounded(23 * TwiceMedian(refs), 4 * Scale)
           /\ Scale * Rounded(23 * TwiceMedian(refs), 4 * Scale) <= 20 * Max(ToSet(refs))
<1>1. PICK low \in Int : low = Min(ToSet(refs))
  BY Values
<1>2. PICK high \in Int : high = Max(ToSet(refs))
  BY Values
<1>3. PICK m \in Int : m = TwiceMedian(refs)
  BY MedianBetween
<1>4. PICK c \in Nat \ {0} : c = Scale
  BY AgentAssumption
<1>5. 2 * low <= m /\ m <= 2 * high
  BY <1>1, <1>2, <1>3, MedianBetween
<1>6. (low = 0 \/ 20 * low >= c) /\ (high = 0 \/ 20 * high >= c)
  <2>1. low \in ToSet(refs) /\ high \in ToSet(refs)
    BY <1>1, <1>2, Values, Extremes
  <2>2. ~(low # 0 /\ 20 * low < c) /\ ~(high # 0 /\ 20 * high < c)
    BY <1>4, <2>1 DEF Odd
  <2>. QED
    BY <2>2
<1>7. 23 * m \in Int /\ 4 * c \in Nat \ {0}
  OBVIOUS
<1>8. PICK h \in Int : h = Rounded(23 * m, 4 * c)
  BY <1>7, RoundedHalves
<1>9. PICK p \in Int : p = c * h
  OBVIOUS
<1>10. 46 * m - 4 * c <= 8 * p /\ 8 * p <= 46 * m + 4 * c
  <2>1. /\ 2 * (23 * m) - 4 * c <= 2 * ((4 * c) * h)
        /\ 2 * ((4 * c) * h) <= 2 * (23 * m) + 4 * c
    BY <1>7, <1>8, RoundedNear
  <2>2. (4 * c) * h = 4 * p
    BY <1>9
  <2>. QED
    BY <2>1, <2>2
<1>11. /\ (4 * c) * 1 = 4 * c /\ (4 * c) * (-1) = -(4 * c) /\ (4 * c) * 2 = 8 * c
       /\ (h >= 1 => p >= c) /\ (h >= 0 => p >= 0)
       /\ (h <= 1 => p <= c) /\ (h <= 0 => p <= 0)
  <2>1. /\ (4 * c) * 1 = 4 * c /\ (4 * c) * (-1) = -(4 * c) /\ (4 * c) * 2 = 8 * c
    OBVIOUS
  <2>2. h >= 1 => p >= c
    BY <1>9, Z3
  <2>3. h >= 0 => p >= 0
    BY <1>9, Z3
  <2>4. h <= 1 => p <= c
    BY <1>9, Z3
  <2>5. h <= 0 => p <= 0
    BY <1>9, Z3
  <2>. QED
    BY <2>1, <2>2, <2>3, <2>4, <2>5
<1>12. 5 * low <= p
  <2>1. CASE low = 0
    <3>1. 2 * (23 * m) > (4 * c) * (-1)
      BY <1>5, <1>11, <2>1
    <3>2. 2 * h >= -1
      BY <1>7, <1>8, <3>1, RoundedHalves
    <3>. QED
      BY <1>11, <2>1, <3>2
  <2>2. CASE 20 * low >= c
    <3>1. 2 * (23 * m) > (4 * c) * 1
      BY <1>5, <1>11, <2>2
    <3>2. 2 * h >= 1
      BY <1>7, <1>8, <3>1, RoundedHalves
    <3>3. p >= c
      BY <1>11, <3>2
    <3>. QED
      BY <1>5, <1>10, <2>2, <3>3
  <2>. QED
    BY <1>6, <2>1, <2>2
<1>13. p <= 20 * high
  <2>1. CASE high = 0
    <3>1. 2 * (23 * m) < (4 * c) * 1
      BY <1>5, <1>11, <2>1
    <3>2. 2 * h <= 1
      BY <1>7, <1>8, <3>1, RoundedHalves
    <3>. QED
      BY <1>11, <2>1, <3>2
  <2>2. CASE 20 * high >= c /\ 17 * high >= c
    BY <1>5, <1>10, <2>2
  <2>3. CASE 20 * high >= c /\ 17 * high < c
    <3>1. 2 * (23 * m) < (4 * c) * 2
      BY <1>5, <1>11, <2>3
    <3>2. 2 * h <= 2
      BY <1>7, <1>8, <3>1, RoundedHalves
    <3>3. p <= c
      BY <1>11, <3>2
    <3>. QED
      BY <2>3, <3>3
  <2>. QED
    BY <1>6, <2>1, <2>2, <2>3
<1>. QED
  BY <1>1, <1>2, <1>3, <1>4, <1>8, <1>9, <1>12, <1>13

LEMMA CalculatedAccepted == CalculatedIsValid
<1> SUFFICES ASSUME NEW a \in References, NEW b \in References
             PROVE  LET hours == Calculate(<<a, b>>)
                        issues == Validate(<<a, b>>, hours, hours[1] + hours[2])
                    IN  /\ "mismatch" \notin issues
                        /\ "implausible" \in issues => Odd(a) \/ Odd(b)
                        /\ "unbudgeted" \in issues <=> <<>> \in {a, b}
  BY DEF CalculatedIsValid
<1> DEFINE c == <<a, b>>
           hours == Calculate(c)
           total == hours[1] + hours[2]
           issues == Validate(c, hours, total)
           Outside(j) == /\ c[j] # <<>>
                         /\ ~(/\ 5 * Min(ToSet(c[j])) <= Scale * hours[j]
                              /\ Scale * hours[j] <= 20 * Max(ToSet(c[j])))
<1>1. c[1] = a /\ c[2] = b /\ DOMAIN c = {1, 2} /\ a \in Seq(Int) /\ b \in Seq(Int)
  BY AgentAssumption
<1>2. \A i \in {1, 2} : c[i] \in Seq(Int)
  BY <1>1
<1>3. hours = [i \in {1, 2} |->
                  IF c[i] = <<>> THEN 0 ELSE Rounded(23 * TwiceMedian(c[i]), 4 * Scale)]
  BY <1>1 DEF Calculate
<1> HIDE DEF c, hours
<1>4. \A i \in {1, 2} : Outside(i) => Odd(c[i])
  <2> SUFFICES ASSUME NEW i \in {1, 2}, c[i] # <<>>, ~Odd(c[i]) PROVE ~Outside(i)
    OBVIOUS
  <2>1. hours[i] = Rounded(23 * TwiceMedian(c[i]), 4 * Scale)
    BY <1>3
  <2>. QED
    BY <1>2, <2>1, CalculatedBetween
<1>5. \A i \in {1, 2} : hours[i] \in Int
  <2> SUFFICES ASSUME NEW i \in {1, 2}, c[i] # <<>>
               PROVE  Rounded(23 * TwiceMedian(c[i]), 4 * Scale) \in Int
    BY <1>3
  <2>1. TwiceMedian(c[i]) \in Int
    BY <1>2, MedianBetween
  <2>2. 23 * TwiceMedian(c[i]) \in Int /\ 4 * Scale \in Nat \ {0}
    BY <2>1, AgentAssumption
  <2>. QED
    BY <2>2, RoundedHalves
<1>6. Total(hours) = hours[1] + hours[2]
  <2>1. hours \in [1 .. 2 -> Int]
    <3>1. 1 .. 2 = {1, 2}
      OBVIOUS
    <3>2. hours \in [{1, 2} -> Int]
      BY <1>3, <1>5
    <3>. QED
      BY <3>1, <3>2
  <2>. QED
    BY <2>1, TotalOfTwo
<1>7. total \in Int /\ total - Total(hours) \in -5 .. 5
  <2>1. PICK x \in Int : x = total
    BY <1>5
  <2>2. x - x \in -5 .. 5
    OBVIOUS
  <2>. QED
    BY <1>6, <2>1, <2>2
<1> HIDE DEF total
<1>8. issues = {"unbudgeted" : i \in {j \in {1, 2} : c[j] = <<>>}}
               \cup {"implausible" : i \in {j \in {1, 2} : Outside(j)}}
               \cup (IF total <= 0 THEN {"non_positive"} ELSE {})
               \cup (IF total > 200000 THEN {"too_large"} ELSE {})
  <2>1. DOMAIN c = {1, 2}
    BY <1>1 DEF c
  <2>. QED
    BY <1>7, <2>1 DEF Validate
<1>9. c[1] = a /\ c[2] = b
  BY <1>1 DEF c
<1> HIDE DEF issues, Outside
<1>10. /\ \A issue \in issues :
             issue \in {"unbudgeted", "implausible", "non_positive", "too_large"}
       /\ "unbudgeted" \in issues <=> \E j \in {1, 2} : c[j] = <<>>
       /\ "implausible" \in issues <=> \E j \in {1, 2} : Outside(j)
  BY <1>8
<1>11. "mismatch" \notin issues
  BY <1>10
<1>12. "unbudgeted" \in issues <=> <<>> \in {a, b}
  BY <1>9, <1>10
<1>13. "implausible" \in issues => Odd(a) \/ Odd(b)
  BY <1>4, <1>9, <1>10
<1>. QED
  BY <1>11, <1>12, <1>13 DEF issues, total, hours, c

----------------------------------------------------------------------------
(* The neighbours that a look-up yields are neighbours.                    *)
LEMMA NeighborsType ==
    ASSUME NEW found \in Searches
    PROVE  Neighbors(found) \in Seq(Neighbor)
<1> DEFINE size == IF TopK < Len(found) THEN TopK ELSE Len(found)
           Next1(l, n) == IF Used(found[n]) THEN Append(l, found[n]) ELSE l
           Uses(f) == f = [n \in 0 .. size |->
                             IF n = 0 THEN <<>>
                             ELSE IF Used(found[n]) THEN Append(f[n - 1], found[n])
                                  ELSE f[n - 1]]
           step == [p \in (1 .. size) \X Seq(Neighbor) |-> Next1(p[2], p[1])]
           Found == [hours : Nat \cup {NoHours}, distance : Nat]
<1>1. found \in Seq(Found) /\ TopK \in Nat
  <2>1. Searches \subseteq Seq(Found) /\ TopK \in Nat
    BY TaskHoursAssumption
  <2> HIDE DEF Found
  <2>. QED
    BY <2>1
<1>2. size \in Nat /\ \A n \in 1 .. size : found[n] \in Found
  <2> HIDE DEF Found
  <2>1. PICK k \in Nat : k = Len(found)
    BY <1>1
  <2>2. \A n \in 1 .. k : found[n] \in Found
    BY <1>1, <2>1
  <2>3. size \in Nat /\ size <= k
    BY <1>1, <2>1
  <2> HIDE DEF size
  <2>. QED
    BY <2>2, <2>3
<1>3. Neighbors(found) = (CHOOSE f : Uses(f))[size]
  BY DEF Neighbors
<1> HIDE DEF size
<1>4. ASSUME NEW n \in 1 .. size, NEW l \in Seq(Neighbor)
      PROVE  Next1(l, n) \in Seq(Neighbor)
  <2>1. found[n] \in [hours : Nat \cup {NoHours}, distance : Nat]
    BY <1>2
  <2>2. Used(found[n]) => found[n] \in Neighbor
    BY <2>1 DEF Used, Neighbor
  <2>3. \A x \in Neighbor : Append(l, x) \in Seq(Neighbor)
    OBVIOUS
  <2>. QED
    BY <2>2, <2>3
<1>5. \E f : Uses(f)
  <2>1. step \in [(1 .. size) \X Seq(Neighbor) -> Seq(Neighbor)]
    <3>1. \A p \in (1 .. size) \X Seq(Neighbor) : Next1(p[2], p[1]) \in Seq(Neighbor)
      BY <1>4
    <3> HIDE DEF Next1
    <3>. QED
      BY <3>1
  <2>2. \A n \in 1 .. size, l \in Seq(Neighbor) : step[<<n, l>>] = Next1(l, n)
    BY DEF Next1
  <2> HIDE DEF step
  <2>3. <<>> \in Seq(Neighbor)
    OBVIOUS
  <2>4. PICK f : Recurs(f, size, Seq(Neighbor), <<>>, step)
    BY <1>2, <2>1, <2>3, Recursion
  <2>5. /\ f \in [0 .. size -> Seq(Neighbor)] /\ f[0] = <<>>
        /\ \A n \in 1 .. size : f[n] = step[<<n, f[n - 1]>>]
    BY <2>4 DEF Recurs
  <2>6. \A n \in 1 .. size : f[n] = Next1(f[n - 1], n)
    <3> TAKE n \in 1 .. size
    <3>1. n - 1 \in 0 .. size
      BY <1>2
    <3>2. f[n - 1] \in Seq(Neighbor)
      BY <2>5, <3>1
    <3> HIDE DEF Next1
    <3>. QED
      BY <2>2, <2>5, <3>2
  <2>7. \A n \in 0 .. size : n = 0 \/ n \in 1 .. size
    BY <1>2
  <2>8. Uses(f)
    BY <2>5, <2>6, <2>7
  <2>. QED
    BY <2>8
<1>6. PICK f : f = CHOOSE g : Uses(g)
  OBVIOUS
<1>7. Uses(f)
  BY <1>5, <1>6
<1>8. f[0] = <<>> /\ \A n \in 1 .. size : f[n] = Next1(f[n - 1], n)
  <2>1. \A n \in 0 .. size :
           f[n] = IF n = 0 THEN <<>>
                  ELSE IF Used(found[n]) THEN Append(f[n - 1], found[n]) ELSE f[n - 1]
    BY <1>7
  <2>2. 0 \in 0 .. size /\ \A n \in 1 .. size : n \in 0 .. size /\ n # 0
    BY <1>2
  <2>. QED
    BY <2>1, <2>2
<1> HIDE DEF Next1, Uses
<1>9. f[size] \in Seq(Neighbor)
  <2> DEFINE bad == {n \in 0 .. size : f[n] \notin Seq(Neighbor)}
  <2>1. bad = {}
    <3> SUFFICES ASSUME bad # {} PROVE FALSE
      OBVIOUS
    <3>1. PICK m \in bad : \A x \in bad : m <= x
      <4>1. bad \in SUBSET Nat
        BY <1>2
      <4> HIDE DEF bad
      <4>. QED
        BY <4>1, Least
    <3>2. m \in 1 .. size
      <4>1. <<>> \in Seq(Neighbor)
        OBVIOUS
      <4>2. m # 0
        BY <1>8, <4>1
      <4>. QED
        BY <1>2, <4>2
    <3>3. m - 1 \in 0 .. size /\ ~(m <= m - 1)
      BY <1>2, <3>2
    <3>4. f[m - 1] \in Seq(Neighbor)
      BY <3>1, <3>3
    <3>. QED
      BY <1>4, <1>8, <3>2, <3>4
  <2>2. size \in 0 .. size
    BY <1>2
  <2>. QED
    BY <2>1, <2>2
<1>. QED
  BY <1>3, <1>6, <1>9

\* What a consensus is made of: neighbours, and weights that are positive.
Weighs(ns, n, w) ==
    /\ n \in Nat \ {0} /\ Len(ns) = n /\ DOMAIN ns = 1 .. n
    /\ \A i \in 1 .. n : ns[i].hours \in Nat /\ ns[i].distance \in Nat
    /\ w \in [1 .. n -> Int] /\ \A i \in 1 .. n : w[i] > 0
    /\ \A i, j \in 1 .. n : ns[i].distance < ns[j].distance => w[i] > w[j]

LEMMA ConsultedWeighs ==
    ASSUME NEW ns \in Consulted
    PROVE  Weighs(ns, Len(ns), Weights(ns))
<1>1. ns \in Seq(Neighbor) /\ ns # <<>>
  <2>1. \A found \in Searches : Neighbors(found) \in Seq(Neighbor)
    BY NeighborsType
  <2>. QED
    BY <2>1, AgentAssumption DEF Consulted
<1>2. PICK n \in Nat : n = Len(ns)
  BY <1>1
<1>3. /\ n # 0 /\ DOMAIN ns = 1 .. n
      /\ \A i \in 1 .. n : ns[i] \in Neighbor
  BY <1>1, <1>2
<1>4. \A i \in 1 .. n : ns[i].hours \in Nat /\ ns[i].distance \in Nat
  BY <1>3 DEF Neighbor
<1>5. Weights(ns) \in [1 .. n -> Int]
  <2>1. \A i \in 1 .. n : WeightUnit \div (Epsilon + ns[i].distance) \in Int
    <3> TAKE i \in 1 .. n
    <3>1. PICK d \in Nat : d = ns[i].distance
      BY <1>4
    <3>2. Epsilon + d \in Nat \ {0} /\ WeightUnit \in Int
      BY TaskHoursAssumption
    <3>. QED
      BY <3>1, <3>2, Quotient
  <2>. QED
    BY <1>3, <2>1 DEF Weights
<1>6. \A i, j \in 1 .. n :
         /\ Weights(ns)[i] > 0
         /\ ns[i].distance < ns[j].distance => Weights(ns)[i] > Weights(ns)[j]
  BY <1>3, WeightAssumption
<1>. QED
  BY <1>2, <1>3, <1>4, <1>5, <1>6 DEF Weighs

LEMMA HoursBetween ==
    ASSUME NEW ns, NEW n, NEW w, Weighs(ns, n, w)
    PROVE  /\ Min(HoursOf(ns)) \in Int /\ Max(HoursOf(ns)) \in Int
           /\ \A i \in 1 .. n : /\ Min(HoursOf(ns)) <= ns[i].hours
                                /\ ns[i].hours <= Max(HoursOf(ns))
<1> DEFINE S == HoursOf(ns)
<1>1. n \in Nat \ {0} /\ S = {ns[i].hours : i \in 1 .. n}
      /\ \A i \in 1 .. n : ns[i].hours \in Int
  BY DEF Weighs, HoursOf
<1>2. S \in SUBSET Int /\ \A i \in 1 .. n : ns[i].hours \in S
  BY <1>1
<1>3. S # {}
  <2>1. 1 \in 1 .. n
    BY <1>1
  <2>. QED
    BY <1>2, <2>1
<1>4. IsFiniteSet(S)
  <2>1. IsFiniteSet(1 .. n)
    BY <1>1, FS_Interval
  <2> DEFINE g == [i \in 1 .. n |-> ns[i].hours]
  <2>2. g \in Surjection(1 .. n, S)
    BY <1>1 DEF Surjection
  <2>. QED
    BY <2>1, <2>2, FS_Surjection
<1> HIDE DEF S
<1>5. /\ Max(S) \in S /\ \A y \in S : y <= Max(S)
      /\ Min(S) \in S /\ \A y \in S : Min(S) <= y
  BY <1>2, <1>3, <1>4, Extremes
<1>. QED
  BY <1>2, <1>5 DEF S

LEMMA DispersionType ==
    ASSUME NEW ns, NEW n, NEW w, Weighs(ns, n, w)
    PROVE  Dispersion(ns) \in Nat /\ (n = 1 => Dispersion(ns) = 0)
<1> DEFINE h == [i \in 1 .. n |-> ns[i].hours]
           sum == Total(h)
           Deviation(i) == n * ns[i].hours - sum
           d == [i \in 1 .. n |-> Deviation(i) * Deviation(i)]
           squares == Total(d)
<1>1. /\ n \in Nat \ {0} /\ Len(ns) = n
      /\ \A i \in 1 .. n : ns[i].hours \in Nat
  BY DEF Weighs
<1>2. Dispersion(ns) = IF n = 1 \/ sum = 0 THEN 0
                       ELSE Root(Unit * Unit * (squares \div n)) \div sum
  BY <1>1 DEF Dispersion
<1>3. h \in [1 .. n -> Int] /\ \A i \in 1 .. n : h[i] >= 0
  BY <1>1
<1> HIDE DEF h
<1>4. ASSUME NEW s \in [1 .. n -> Int], \A i \in 1 .. n : s[i] >= 0
      PROVE  Total(s) \in Nat
  <2>1. Total(s) \in Int
    BY <1>1, TotalType
  <2> DEFINE none == [i \in 1 .. n |-> 0]
  <2>2. PICK zero \in Int : zero = 0
    OBVIOUS
  <2>3. PICK unit \in Int : unit = 1
    OBVIOUS
  <2>4. /\ none \in [1 .. n -> Int]
        /\ \A i \in 1 .. n : zero * s[i] <= none[i] /\ none[i] <= unit * s[i]
    BY <1>4, <2>2, <2>3
  <2> HIDE DEF none
  <2>5. zero * Total(s) <= Total(none) /\ Total(none) <= unit * Total(s)
    BY <1>1, <2>4, TotalBetween
  <2>6. Total(none) \in Int
    BY <1>1, <2>4, TotalType
  <2>. QED
    BY <2>1, <2>2, <2>3, <2>5, <2>6
<1>5. sum \in Nat
  BY <1>3, <1>4
<1> HIDE DEF sum
<1>6. \A i \in 1 .. n : Deviation(i) * Deviation(i) \in Int
                        /\ Deviation(i) * Deviation(i) >= 0
  <2> TAKE i \in 1 .. n
  <2>1. PICK x \in Int : x = Deviation(i)
    BY <1>1, <1>5
  <2>2. x * x \in Int /\ x * x >= 0
    BY Z3
  <2>. QED
    BY <2>1, <2>2
<1> HIDE DEF Deviation
<1>7. d \in [1 .. n -> Int] /\ \A i \in 1 .. n : d[i] >= 0
  BY <1>6
<1> HIDE DEF d
<1>8. squares \in Nat
  BY <1>4, <1>7
<1> HIDE DEF squares
<1>9. ASSUME n # 1, sum # 0
       PROVE  Root(Unit * Unit * (squares \div n)) \div sum \in Nat
  <2>1. PICK q \in Nat : q = squares \div n
    <3>1. squares \div n \in Nat
      BY <1>1, <1>8, Z3
    <3>. QED
      BY <3>1
  <2>2. Unit * Unit * q \in Nat
    BY TaskHoursAssumption
  <2>3. PICK r \in Nat : r = Root(Unit * Unit * q)
    BY <2>2, RootType
  <2>4. r \div sum \in Nat
    BY <1>5, <1>9, Z3
  <2>. QED
    BY <2>1, <2>3, <2>4
<1>. QED
  BY <1>2, <1>9

\* The mean is between the hours.
LEMMA MeanBetween ==
    ASSUME NEW ns, NEW n, NEW w, Weighs(ns, n, w)
    PROVE  WeightedMean(w, ns) \in Min(HoursOf(ns)) .. Max(HoursOf(ns))
<1> DEFINE s == [i \in 1 .. n |-> w[i] * ns[i].hours]
<1>1. PICK low \in Int : low = Min(HoursOf(ns))
  BY HoursBetween
<1>2. PICK high \in Int : high = Max(HoursOf(ns))
  BY HoursBetween
<1>3. /\ n \in Nat \ {0} /\ DOMAIN ns = 1 .. n
      /\ w \in [1 .. n -> Int] /\ \A i \in 1 .. n : w[i] > 0 /\ ns[i].hours \in Nat
  BY DEF Weighs
<1>4. s \in [1 .. n -> Int]
  BY <1>3
<1>5. \A i \in 1 .. n : low * w[i] <= s[i] /\ s[i] <= high * w[i]
  <2> TAKE i \in 1 .. n
  <2>1. PICK x \in Int : x = w[i]
    BY <1>3
  <2>2. PICK h \in Int : h = ns[i].hours
    BY <1>3
  <2>3. x \in Nat \ {0} /\ low <= h /\ h <= high
    BY <1>1, <1>2, <1>3, <2>1, <2>2, HoursBetween
  <2>4. x * low <= x * h /\ x * h <= x * high
    BY <2>3, Product
  <2>5. low * x = x * low /\ high * x = x * high
    OBVIOUS
  <2>. QED
    BY <2>1, <2>2, <2>4, <2>5
<1>6. WeightedMean(w, ns) = Rounded(Total(s), Total(w))
  BY <1>3 DEF WeightedMean
<1> HIDE DEF s
<1>7. low * Total(w) <= Total(s) /\ Total(s) <= high * Total(w)
  BY <1>3, <1>4, <1>5, TotalBetween
<1>8. Total(s) \in Int /\ Total(w) \in Nat \ {0}
  <2>1. Total(s) \in Int /\ Total(w) \in Int
    BY <1>3, <1>4, TotalType
  <2>2. Total(w) > 0
    BY <1>3, TotalPositive
  <2>. QED
    BY <2>1, <2>2
<1>9. Rounded(Total(s), Total(w)) \in low .. high
  BY <1>7, <1>8, RoundedBetween
<1>. QED
  BY <1>1, <1>2, <1>6, <1>9

\* Of two neighbours the mean is no farther from the closer one.
LEMMA MeanLeans ==
    ASSUME NEW ns, NEW w, Weighs(ns, 2, w), ns[1].distance < ns[2].distance
    PROVE  LET m == WeightedMean(w, ns)
           IN  /\ m \in Int
               /\ ns[1].hours <= ns[2].hours => 2 * m <= ns[1].hours + ns[2].hours
               /\ ns[1].hours >= ns[2].hours => 2 * m >= ns[1].hours + ns[2].hours
<1> DEFINE s == [i \in 1 .. 2 |-> w[i] * ns[i].hours]
<1>1. /\ DOMAIN ns = 1 .. 2 /\ w \in [1 .. 2 -> Int]
      /\ \A i \in 1 .. 2 : ns[i].hours \in Nat /\ w[i] > 0
      /\ w[1] > w[2]
  BY DEF Weighs
<1>2. PICK x \in Int : x = w[1]
  BY <1>1
<1>3. PICK y \in Int : y = w[2]
  BY <1>1
<1>4. PICK h \in Nat : h = ns[1].hours
  BY <1>1
<1>5. PICK k \in Nat : k = ns[2].hours
  BY <1>1
<1>6. x > y /\ y > 0
  BY <1>1, <1>2, <1>3
<1>7. Total(w) = x + y
  BY <1>1, <1>2, <1>3, TotalOfTwo
<1>8. Total(s) = x * h + y * k
  <2>1. s \in [1 .. 2 -> Int]
    BY <1>1
  <2>2. s[1] = x * h /\ s[2] = y * k
    BY <1>2, <1>3, <1>4, <1>5
  <2> HIDE DEF s
  <2>. QED
    BY <2>1, <2>2, TotalOfTwo
<1>9. PICK m : m = WeightedMean(w, ns)
  OBVIOUS
<1>10. m = Rounded(x * h + y * k, x + y)
  BY <1>1, <1>7, <1>8, <1>9 DEF WeightedMean
<1>11. x * h + y * k \in Int /\ x + y \in Nat \ {0}
  BY <1>6
<1>12. m \in Int
  BY <1>10, <1>11, RoundedHalves
<1>13. CASE h = k
  <2>1. x * h + y * k = h * (x + y)
    BY <1>13
  <2>2. m \in h .. h
    BY <1>10, <1>11, <2>1, RoundedBetween
  <2>. QED
    BY <1>4, <1>5, <1>9, <1>13, <2>2
<1>14. 2 * (x * h + y * k) - (x + y) * (h + k) = (x - y) * (h - k)
  BY Z3
<1>15. CASE h < k
  <2>1. (x - y) * (h - k) < 0
    BY <1>6, <1>15, Z3
  <2>2. 2 * (x * h + y * k) < (x + y) * (h + k)
    BY <1>11, <1>14, <2>1
  <2>3. 2 * m <= h + k
    BY <1>10, <1>11, <2>2, RoundedHalves
  <2>. QED
    BY <1>4, <1>5, <1>9, <1>12, <1>15, <2>3
<1>16. CASE h > k
  <2>1. (x - y) * (h - k) > 0
    BY <1>6, <1>16, Z3
  <2>2. 2 * (x * h + y * k) > (x + y) * (h + k)
    BY <1>11, <1>14, <2>1
  <2>3. 2 * m >= h + k
    BY <1>10, <1>11, <2>2, RoundedHalves
  <2>. QED
    BY <1>4, <1>5, <1>9, <1>12, <1>16, <2>3
<1>. QED
  BY <1>13, <1>15, <1>16

LEMMA ReliabilityShare ==
    ASSUME NEW ns \in Consulted
    PROVE  Consensus(ns).reliability \in 0 .. Unit
<1> DEFINE w == Weights(ns)
           n == Len(ns)
           s == [i \in 1 .. n |-> w[i] * Max({0, Unit - ns[i].distance})]
           spread == Min({Unit, Dispersion(ns)})
           similarity == Total(s) \div Total(w)
<1>1. Weighs(ns, n, w)
  BY ConsultedWeighs
<1>2. Consensus(ns).reliability = (similarity * (Unit - spread)) \div Unit
  BY <1>1 DEF Consensus, Weighs
<1> HIDE DEF w, n
<1>3. /\ n \in Nat \ {0} /\ w \in [1 .. n -> Int]
      /\ \A i \in 1 .. n : ns[i].distance \in Nat /\ w[i] > 0
  BY <1>1 DEF Weighs
<1>4. Unit \in Nat \ {0}
  BY TaskHoursAssumption
<1>5. \A a, b \in Int : /\ Max({a, b}) \in {a, b} /\ a <= Max({a, b}) /\ b <= Max({a, b})
                        /\ Min({a, b}) \in {a, b} /\ Min({a, b}) <= a /\ Min({a, b}) <= b
  <2> TAKE a, b \in Int
  <2>1. IsFiniteSet({a, b})
    <3>1. IsFiniteSet({a}) /\ {a, b} = {a} \cup {b}
      BY FS_Singleton
    <3>. QED
      BY <3>1, FS_AddElement
  <2>. QED
    BY <2>1, Extremes
<1>6. spread \in 0 .. Unit
  <2>1. PICK d \in Nat : d = Dispersion(ns)
    BY <1>1, DispersionType
  <2>. QED
    BY <1>4, <1>5, <2>1
<1> DEFINE zero == 0
<1>7. \A i \in 1 .. n : /\ s[i] \in Int
                        /\ zero * w[i] <= s[i] /\ s[i] <= Unit * w[i]
  <2> TAKE i \in 1 .. n
  <2>1. PICK d \in Nat : d = ns[i].distance
    BY <1>3
  <2>2. PICK x \in Nat \ {0} : x = w[i]
    BY <1>3
  <2>3. PICK c \in 0 .. Unit : c = Max({0, Unit - d})
    <3>1. PICK g \in Int : g = Unit - d
      BY <1>4
    <3>2. Max({0, g}) \in {0, g} /\ 0 <= Max({0, g})
      BY <1>5
    <3>. QED
      BY <1>4, <3>1, <3>2
  <2>4. x * c \in Int /\ 0 * x <= x * c /\ x * c <= Unit * x
    BY <1>4, Z3
  <2>. QED
    BY <2>1, <2>2, <2>3, <2>4
<1>8. s \in [1 .. n -> Int]
  BY <1>7
<1> HIDE DEF s
<1>9. PICK t \in Nat \ {0} : t = Total(w)
  <2>1. Total(w) \in Int /\ Total(w) > 0
    BY <1>3, TotalType, TotalPositive
  <2>. QED
    BY <2>1
<1>10. PICK u \in Int : u = Total(s)
  BY <1>3, <1>8, TotalType
<1>11. zero * t <= u /\ u <= Unit * t
  <2>1. zero \in Int
    OBVIOUS
  <2> HIDE DEF zero
  <2>. QED
    <3>1. n \in Nat /\ Unit \in Int
      BY <1>3, <1>4
    <3>2. \A i \in 1 .. n : zero * w[i] <= s[i] /\ s[i] <= Unit * w[i]
      BY <1>7
    <3>3. zero * Total(w) <= Total(s) /\ Total(s) <= Unit * Total(w)
      BY <1>3, <1>8, <2>1, <3>1, <3>2, TotalBetween
    <3>. QED
      BY <1>9, <1>10, <3>3
<1>12. u \div t \in 0 .. Unit
  <2>1. PICK q \in Int : q = u \div t
    BY Quotient
  <2>2. PICK r \in Int : r = u % t
    BY Quotient
  <2>3. u = t * q + r /\ 0 <= r /\ r < t
    BY <2>1, <2>2, Quotient
  <2>4. t * 0 < t * (q + 1) /\ t * q <= t * Unit
    BY <1>4, <1>11, <2>3
  <2>5. 0 < q + 1 /\ q <= Unit
    BY <1>4, <2>4, Product
  <2>. QED
    BY <2>1, <2>5
<1>13. PICK z \in 0 .. Unit : z = similarity
  BY <1>9, <1>10, <1>12
<1> HIDE DEF spread
<1>14. PICK e \in 0 .. Unit : e = Unit - spread
  BY <1>4, <1>6
<1>15. (z * e) \div Unit \in 0 .. Unit
  <2>1. z * e \in Nat /\ z * e <= Unit * Unit
    BY <1>4, Z3
  <2>2. PICK q \in Int : q = (z * e) \div Unit
    BY <1>4, <2>1, Quotient
  <2>3. PICK r \in Int : r = (z * e) % Unit
    BY <1>4, <2>1, Quotient
  <2>4. PICK v \in Nat : v = z * e
    BY <2>1
  <2>5. v = Unit * q + r /\ 0 <= r /\ r < Unit
    BY <1>4, <2>2, <2>3, <2>4, Quotient
  <2>6. Unit * 0 < Unit * (q + 1) /\ Unit * q <= Unit * Unit
    BY <1>4, <2>1, <2>4, <2>5
  <2>7. 0 < q + 1 /\ q <= Unit
    BY <1>4, <2>6, Product
  <2>. QED
    BY <2>2, <2>7
<1>. QED
  BY <1>2, <1>13, <1>14, <1>15

\* The hours are between those of the neighbours, the reliability is a share
\* of one, and a lone neighbour is not contradictory.
LEMMA ConsensusLeans == ConsensusLeansOnTheClosest
<1> SUFFICES ASSUME NEW ns \in Consulted
             PROVE  LET c == Consensus(ns)
                        Off(n) == IF c.hours > n.hours THEN c.hours - n.hours
                                  ELSE n.hours - c.hours
                    IN  /\ Min(HoursOf(ns)) <= c.hours /\ c.hours <= Max(HoursOf(ns))
                        /\ c.reliability \in 0 .. Unit
                        /\ Len(ns) = 1 => c.dispersion = 0
                        /\ Len(ns) = 2 /\ ns[1].distance < ns[2].distance
                              => Off(ns[1]) <= Off(ns[2])
  BY DEF ConsensusLeansOnTheClosest
<1> DEFINE c == Consensus(ns)
           w == Weights(ns)
<1>1. Weighs(ns, Len(ns), w)
  BY ConsultedWeighs
<1>2. c.hours = WeightedMean(w, ns) /\ c.dispersion = Dispersion(ns)
  BY DEF Consensus
<1>3. c.reliability \in 0 .. Unit
  BY ReliabilityShare
<1> HIDE DEF c, w
<1>4. PICK low \in Int : low = Min(HoursOf(ns))
  BY <1>1, HoursBetween
<1>5. PICK high \in Int : high = Max(HoursOf(ns))
  BY <1>1, HoursBetween
<1>6. PICK m \in low .. high : m = c.hours
  BY <1>1, <1>2, <1>4, <1>5, MeanBetween
<1>7. Len(ns) = 1 => c.dispersion = 0
  BY <1>1, <1>2, DispersionType
<1>8. ASSUME Len(ns) = 2, ns[1].distance < ns[2].distance
      PROVE  (IF m > ns[1].hours THEN m - ns[1].hours ELSE ns[1].hours - m)
                <= (IF m > ns[2].hours THEN m - ns[2].hours ELSE ns[2].hours - m)
  <2>1. Weighs(ns, 2, w)
    BY <1>1, <1>8
  <2>2. 1 \in 1 .. 2 /\ 2 \in 1 .. 2
    OBVIOUS
  <2>3. PICK h \in Nat : h = ns[1].hours
    BY <2>1, <2>2 DEF Weighs
  <2>4. PICK k \in Nat : k = ns[2].hours
    BY <2>1, <2>2 DEF Weighs
  <2>5. (h <= k => 2 * m <= h + k) /\ (h >= k => 2 * m >= h + k)
    BY <1>2, <1>6, <1>8, <2>1, <2>3, <2>4, MeanLeans
  <2>6. m \in Int
    OBVIOUS
  <2>7. low <= h /\ low <= k /\ h <= high /\ k <= high
    BY <1>4, <1>5, <2>1, <2>2, <2>3, <2>4, HoursBetween
  <2>8. (IF m > h THEN m - h ELSE h - m) <= (IF m > k THEN m - k ELSE k - m)
    <3>1. CASE h <= k
      BY <2>5, <2>6, <3>1
    <3>2. CASE h > k
      BY <2>5, <2>6, <3>2
    <3>. QED
      BY <3>1, <3>2
  <2>. QED
    BY <2>3, <2>4, <2>8
<1>. QED
  BY <1>3, <1>4, <1>5, <1>6, <1>7, <1>8 DEF c

\* ToolFiguresAreSound: the figures of the tools, for any neighbours that
\* are looked up or passed by the model and any reference amounts.
THEOREM ToolFiguresAreSoundHolds == Spec => []ToolFiguresAreSound
<1>1. ToolFiguresAreSound
  BY ConsensusLeans, CalculatedAccepted DEF ToolFiguresAreSound
<1>. QED
  BY <1>1, PTL
=============================================================================
