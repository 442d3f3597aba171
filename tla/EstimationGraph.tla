-------------------------- MODULE EstimationGraph --------------------------
(***************************************************************************)
(* The multi-agent estimation graph with its two human gates               *)
(* (app/services/estimation_graph/) and the HTTP calls that start it,      *)
(* resume it and draft a proposal from it (app/routers/estimate_graph.py), *)
(* for one estimation_id.                                                  *)
(*                                                                         *)
(* The graph's state is kept by a checkpointer.  A call that drives the    *)
(* graph loads the latest checkpoint, works on its own copy of the         *)
(* channels and saves a checkpoint after every node; nothing locks the     *)
(* thread, so two calls may drive it at once and the last one to save wins.*)
(* A call whose node raises, or whose process dies, leaves the checkpoint  *)
(* where it was and the next resume runs the unfinished node again.        *)
(*                                                                         *)
(*   checkpoint   the latest checkpoint: the node to run next, the         *)
(*                channels, whether that node is waiting for a human, and  *)
(*                the call that saved it                                   *)
(*   calls        per worker: the call it serves, as far as it has got     *)
(*   starts       how many runs were started under this id                 *)
(*   answered     history variable: the gate that was pending when the     *)
(*                last consumed decision was sent, the gate that consumed  *)
(*                it and whether it was one cut before its interrupt       *)
(*   cut          history variable: the gate a leg has reached and died at *)
(*                before its interrupt was saved                           *)
(*   drafted      history variable: the status the last proposal was       *)
(*                drafted under                                            *)
(***************************************************************************)
EXTENDS Integers, FiniteSets

CONSTANTS
    Tasks,       \* (module, task) keys the structure agent may propose
    Workers,     \* bound: calls on this estimation_id in flight at once
    NoWorker,
    MaxStarts,   \* bound: POST /graph and /graph/stream under this id
    Edits,       \* bound: the kinds of overrides a human may send
    NoEstimate,  \* the estimate channel is unset
    ProposalEnabled  \* GRAPH_PROPOSAL_ENABLED

ASSUME GraphAssumption ==
    /\ IsFiniteSet(Tasks)
    /\ NoWorker \notin Workers
    /\ MaxStarts \in Nat \ {0}
    /\ Edits \subseteq {"none", "replace", "empty"}
    /\ ProposalEnabled \in BOOLEAN

VARIABLES checkpoint, calls, starts, answered, cut, drafted

vars == <<checkpoint, calls, starts, answered, cut, drafted>>

Nodes == {"classifier", "structure", "gate1", "hours", "recover", "analysis",
          "gate2", "proposal", "end"}
Gates == {"gate1", "gate2"}

Run == 0 .. MaxStarts     \* the start a value derives from; 0: none yet

\* A task's hours, 1 for any sound figure and 0 for a row the recovery agent
\* is asked about (no match, contradictory or unreliable analogs).
Row == [hours : {0, 1}, of : Run]

\* Partial functions on Tasks: what is keyed by (module, task).
Rows == UNION {[S -> Row] : S \in SUBSET Tasks}

Estimate == [modules : Rows, total : Nat]

ASSUME NoEstimateAssumption == NoEstimate \notin Estimate

\* The channels of EstimationState.  complexity and reformulated_transcript
\* are one value, brief; what no node of the graph reads is left out.
Channels == [transcript : Run, brief : Run, structure : SUBSET Tasks,
             approved : SUBSET Tasks, rows : Rows,
             estimate : Estimate \cup {NoEstimate}, report : Run,
             status : {"none", "validated", "needs_review"},
             proposal : Run]

NoRows == [t \in {} |-> [hours |-> 0, of |-> 0]]

EmptyChannels == [transcript |-> 0, brief |-> 0, structure |-> {},
                  approved |-> {}, rows |-> NoRows, estimate |-> NoEstimate,
                  report |-> 0, status |-> "none", proposal |-> 0]

(* A human's decision.  The two gates read different keys of it and leave  *)
(* the others alone, so a decision for one is also a decision for the      *)
(* other.  given says that it has modules, which may hold no task; no code *)
(* reads "approved".                                                       *)
Decision == [given : BOOLEAN, modules : SUBSET Tasks, validated : BOOLEAN,
             want : BOOLEAN, edit : {"none", "replace", "empty"}]
NoDecision == [given |-> FALSE, modules |-> {}, validated |-> FALSE,
               want |-> FALSE, edit |-> "none"]
StructureDecision ==
    {NoDecision} \cup
    {[NoDecision EXCEPT !.given = TRUE, !.modules = m] : m \in SUBSET Tasks}
FinalDecision ==
    [given : {FALSE}, modules : {{}}, validated : BOOLEAN,
     want : {FALSE, ProposalEnabled}, edit : Edits]

\* A gate as a human sees it: which one, and of which run.
GateView == [gate : Gates \cup {"none"}, of : Run]
NoGate == [gate |-> "none", of |-> 0]

\* idle -> starting | resuming (accepted) -> running -> idle
Call == [phase : {"idle", "starting", "resuming", "running"}, next : Nodes,
         chan : Channels, resume : BOOLEAN, decision : Decision,
         seen : GateView]
IdleCall == [phase |-> "idle", next |-> "end", chan |-> EmptyChannels,
             resume |-> FALSE, decision |-> NoDecision, seen |-> NoGate]

Init ==
    /\ checkpoint = [next |-> "end", chan |-> EmptyChannels,
                     waiting |-> FALSE, by |-> NoWorker]
    /\ calls = [w \in Workers |-> IdleCall]
    /\ starts = 0
    /\ answered = [seen |-> NoGate, at |-> NoGate, cut |-> FALSE]
    /\ cut = NoGate
    /\ drafted = "validated"

-----------------------------------------------------------------------------
(* Mutated forms of the definitions below.                                 *)

\* The accumulator keeps the row it already has.
MergeKeepingOld(old, new) ==
    [t \in DOMAIN old \cup DOMAIN new |->
        IF t \in DOMAIN old THEN old[t] ELSE new[t]]

\* The headline total is not derived again after an override.
TotalsKept(est) == est

\* A resume value outlives the node that did not ask for it.
AfterNodeKeepingDecision(call) == call

\* The estimate is read off the accumulator instead of the approved tree.
BuildFromRows(approved, rows) == [modules |-> rows, total |-> 0]

\* A resume takes the gate off the checkpoint before it has run it.
LaunchTakingGate(w) ==
    /\ calls[w].phase = "resuming"
    /\ checkpoint' = [checkpoint EXCEPT !.waiting = FALSE]
    /\ calls' = [calls EXCEPT ![w] =
           IF checkpoint.next = "end" THEN IdleCall
           ELSE [@ EXCEPT !.phase = "running", !.next = checkpoint.next,
                          !.chan = checkpoint.chan]]
    /\ UNCHANGED <<starts, answered, cut, drafted>>

-----------------------------------------------------------------------------
(* merge_task_hours: keyed by (module, task), the last write wins.         *)
MergeTaskHours(old, new) ==
    [t \in DOMAIN old \cup DOMAIN new |->
        IF t \in DOMAIN new THEN new[t] ELSE old[t]]

TotalHours(modules) == Cardinality({t \in DOMAIN modules : modules[t].hours = 1})

\* recompute_estimate_totals, merged over the estimate when it has modules.
WithTotals(est) ==
    IF DOMAIN est.modules = {} THEN est
    ELSE [est EXCEPT !.total = TotalHours(est.modules)]

(* build_estimate: the approved tree, each task with its row if there is   *)
(* one.                                                                    *)
BuildEstimate(approved, rows) ==
    LET modules == [t \in approved |-> IF t \in DOMAIN rows THEN rows[t]
                                       ELSE [hours |-> 0, of |-> 0]]
    IN  [modules |-> modules, total |-> TotalHours(modules)]

\* What a human's estimate_overrides do to an estimate before its totals are
\* derived again: give every task new hours under a headline total of the
\* human's own, or delete the modules.
Override(est, edit, run) ==
    CASE edit = "none"    -> est
      [] edit = "replace" -> [modules |-> [t \in DOMAIN est.modules |->
                                              [hours |-> 1, of |-> run]],
                              total |-> Cardinality(Tasks) + 1]
      [] edit = "empty"   -> [est EXCEPT !.modules = NoRows]

-----------------------------------------------------------------------------
Running(w, node) == calls[w].phase = "running" /\ calls[w].next = node

\* A resume value is offered to the first node a resumed call runs.
AfterNode(call) == [call EXCEPT !.resume = FALSE, !.decision = NoDecision,
                                !.seen = NoGate]

(* A node of w's run has returned: its update is written to the channels   *)
(* and a checkpoint is saved over whatever the thread's latest one was.    *)
Save(w, node, chan) ==
    /\ checkpoint' = [next |-> node, chan |-> chan, waiting |-> FALSE, by |-> w]
    /\ cut' = NoGate
    /\ calls' = [calls EXCEPT ![w] =
                    IF node = "end" THEN IdleCall
                    ELSE AfterNode([@ EXCEPT !.next = node, !.chan = chan])]

\* What GET /graph/{id}/state shows as pending_gate.
PendingGate ==
    IF checkpoint.waiting
    THEN [gate |-> checkpoint.next, of |-> checkpoint.chan.brief]
    ELSE NoGate

\* The resume handlers' check: snapshot.next is not empty.
Resumable == checkpoint.next # "end"

\* POST /graph and POST /graph/stream, up to the loading of the checkpoint.
Start(w) ==
    /\ calls[w].phase = "idle"
    /\ starts < MaxStarts
    /\ starts' = starts + 1
    /\ calls' = [calls EXCEPT ![w] =
           [IdleCall EXCEPT !.phase = "starting",
                            !.chan.transcript = starts + 1]]
    /\ UNCHANGED <<checkpoint, answered, cut, drafted>>

(* The graph is driven with a new transcript: an earlier run under the id  *)
(* keeps its channels, only the transcript is replaced.                    *)
LaunchStart(w) ==
    /\ calls[w].phase = "starting"
    /\ LET chan == [checkpoint.chan EXCEPT
                        !.transcript = calls[w].chan.transcript]
       IN  /\ checkpoint' = [next |-> "classifier", chan |-> chan,
                             waiting |-> FALSE, by |-> w]
           /\ calls' = [calls EXCEPT ![w] =
                  [IdleCall EXCEPT !.phase = "running", !.next = "classifier",
                                   !.chan = chan]]
    /\ cut' = NoGate
    /\ UNCHANGED <<starts, answered, drafted>>

(* POST /graph/{id}/resume and /resume-stream: the snapshot is checked and *)
(* the human's decision taken.  At a gate the decision has that gate's     *)
(* shape; while none is pending the client may send either, as when it     *)
(* sends one again because the leg it started has failed.                  *)
Resume(w) ==
    /\ calls[w].phase = "idle"
    /\ Resumable
    /\ \E d \in CASE PendingGate.gate = "gate1" -> StructureDecision
                  [] PendingGate.gate = "gate2" -> FinalDecision
                  [] OTHER -> StructureDecision \cup FinalDecision :
         calls' = [calls EXCEPT ![w] =
             [IdleCall EXCEPT !.phase = "resuming", !.resume = TRUE,
                              !.decision = d, !.seen = PendingGate]]
    /\ UNCHANGED <<checkpoint, starts, answered, cut, drafted>>

\* The graph is driven from the checkpoint that is the latest by now.
LaunchResume(w) ==
    /\ calls[w].phase = "resuming"
    /\ calls' = [calls EXCEPT ![w] =
           IF checkpoint.next = "end" THEN IdleCall
           ELSE [@ EXCEPT !.phase = "running", !.next = checkpoint.next,
                          !.chan = checkpoint.chan]]
    /\ UNCHANGED <<checkpoint, starts, answered, cut, drafted>>

\* The gate a call has reached.
AtGate(w) == [gate |-> calls[w].next, of |-> calls[w].chan.brief]

\* A node raised (502, or an error line in the feed), or the process died.
Fail(w) ==
    /\ calls[w].phase # "idle"
    /\ calls' = [calls EXCEPT ![w] = IdleCall]
    /\ cut' = IF /\ calls[w].phase = "running" /\ ~ calls[w].resume
                 /\ calls[w].next \in Gates /\ checkpoint.by = w
              THEN AtGate(w) ELSE cut
    /\ UNCHANGED <<checkpoint, starts, answered, drafted>>

ClassifierAgent(w) ==
    /\ Running(w, "classifier")
    /\ LET chan == calls[w].chan
       IN  Save(w, "structure", [chan EXCEPT !.brief = chan.transcript])
    /\ UNCHANGED <<starts, answered, drafted>>

\* run_structure_agent: one completion without tools, any tree of the schema.
ProposedStructures == SUBSET Tasks

StructureAgent(w) ==
    /\ Running(w, "structure")
    /\ \E tasks \in ProposedStructures :
         Save(w, "gate1", [calls[w].chan EXCEPT !.structure = tasks])
    /\ UNCHANGED <<starts, answered, drafted>>

\* interrupt() without a resume value: the call ends and a human is asked,
\* unless another call has saved a checkpoint since.
Interrupt(w) ==
    /\ calls[w].phase = "running"
    /\ calls[w].next \in Gates
    /\ ~ calls[w].resume
    /\ checkpoint' = [checkpoint EXCEPT
                        !.waiting = @ \/ checkpoint.by = w]
    /\ calls' = [calls EXCEPT ![w] = IdleCall]
    /\ UNCHANGED <<starts, answered, cut, drafted>>

\* A gate has consumed the decision of the call that runs it.
Answered(w) ==
    answered' = [seen |-> calls[w].seen, at |-> AtGate(w),
                 cut |-> calls[w].seen = NoGate /\ cut = AtGate(w)]

\* fan_out_hours: one task each, and straight to the recovery without any.
FanOutHours(approved) == IF approved = {} THEN "recover" ELSE "hours"

(* human_gate_structure, then fan_out_hours: the tasks of the decision's   *)
(* modules, or the whole structure when it has none, whatever "approved"   *)
(* says.                                                                   *)
HumanGateStructure(w) ==
    /\ Running(w, "gate1")
    /\ calls[w].resume
    /\ Answered(w)
    /\ LET chan == calls[w].chan
           modules == IF calls[w].decision.given
                      THEN calls[w].decision.modules ELSE chan.structure
       IN  Save(w, FanOutHours(modules), [chan EXCEPT !.approved = modules])
    /\ UNCHANGED <<starts, drafted>>

\* The fan-out: one estimate_task_hours per approved task, then the reducer.
EstimateTaskHours(w) ==
    /\ Running(w, "hours")
    /\ LET chan == calls[w].chan
       IN  \E hours \in [chan.approved -> {0, 1}] :
             LET new == [t \in chan.approved |->
                           [hours |-> hours[t], of |-> chan.brief]]
             IN  Save(w, "recover",
                      [chan EXCEPT !.rows = MergeTaskHours(@, new)])
    /\ UNCHANGED <<starts, answered, drafted>>

(* recover_and_handover: if any row is doubtful the recovery agent is run, *)
(* and whatever rows it derives replace what was there.                    *)
RecoverAndHandover(w) ==
    /\ Running(w, "recover")
    /\ LET chan == calls[w].chan
           flagged == {t \in DOMAIN chan.rows : chan.rows[t].hours = 0}
       IN  \E derived \in IF flagged = {} THEN {{}} ELSE SUBSET Tasks :
             LET rows == MergeTaskHours(chan.rows,
                            [t \in derived |-> [hours |-> 1, of |-> chan.brief]])
             IN  Save(w, "analysis",
                      [chan EXCEPT !.rows = rows,
                           !.estimate = BuildEstimate(chan.approved, rows)])
    /\ UNCHANGED <<starts, answered, drafted>>

AnalysisAgent(w) ==
    /\ Running(w, "analysis")
    /\ LET chan == calls[w].chan
       IN  Save(w, "gate2", [chan EXCEPT !.report = chan.brief])
    /\ UNCHANGED <<starts, answered, drafted>>

(* human_gate_analysis, then route_after_gate2: the proposal depends on    *)
(* want_proposal alone.                                                    *)
HumanGateAnalysis(w) ==
    /\ Running(w, "gate2")
    /\ calls[w].resume
    /\ Answered(w)
    /\ LET chan == calls[w].chan
           d == calls[w].decision
           est == WithTotals(Override(chan.estimate, d.edit, chan.brief))
       IN  Save(w, IF ProposalEnabled /\ d.want THEN "proposal" ELSE "end",
                [chan EXCEPT !.estimate = est, !.status =
                     IF d.validated THEN "validated" ELSE "needs_review"])
    /\ UNCHANGED <<starts, drafted>>

ProposalAgent(w) ==
    /\ Running(w, "proposal")
    /\ LET chan == calls[w].chan
       IN  /\ Save(w, "end", [chan EXCEPT !.proposal = chan.brief])
           /\ drafted' = chan.status
    /\ UNCHANGED <<starts, answered>>

\* POST /graph/{id}/proposal: refused (409) only when there is no estimate.
GraphProposal ==
    /\ ProposalEnabled
    /\ checkpoint.chan.estimate # NoEstimate
    /\ drafted' = checkpoint.chan.status
    /\ UNCHANGED <<checkpoint, calls, starts, answered, cut>>

Next ==
    \/ GraphProposal
    \/ \E w \in Workers :
         \/ Start(w)
         \/ LaunchStart(w)
         \/ Resume(w)
         \/ LaunchResume(w)
         \/ Fail(w)
         \/ ClassifierAgent(w)
         \/ StructureAgent(w)
         \/ Interrupt(w)
         \/ HumanGateStructure(w)
         \/ EstimateTaskHours(w)
         \/ RecoverAndHandover(w)
         \/ AnalysisAgent(w)
         \/ HumanGateAnalysis(w)
         \/ ProposalAgent(w)

Spec == Init /\ [][Next]_vars

-----------------------------------------------------------------------------
(* Type invariant: and only a gate waits for a human, and no call drives a *)
(* run that has ended.                                                     *)
TypeOK ==
    /\ checkpoint \in [next : Nodes, chan : Channels, waiting : BOOLEAN,
                       by : Workers \cup {NoWorker}]
    /\ checkpoint.waiting => checkpoint.next \in Gates
    /\ calls \in [Workers -> Call]
    /\ \A w \in Workers : calls[w].phase = "running" => calls[w].next # "end"
    /\ starts \in Run
    /\ answered \in [seen : GateView, at : GateView, cut : BOOLEAN]
    /\ cut \in GateView
    /\ drafted \in {"none", "validated", "needs_review"}

\* Where the graph is and with which channels: as the thread's latest
\* checkpoint has it, and as each call that is driving it has it.
Positions ==
    {<<checkpoint.next, checkpoint.chan>>}
      \cup {<<calls[w].next, calls[w].chan>> :
               w \in {v \in Workers : calls[v].phase = "running"}}

(* What a human is given to review was made in this run: the estimate has  *)
(* exactly the tasks approved, each row derived since the last START, and  *)
(* the report is about it.  A START under an id that has been used keeps   *)
(* the old rows, and the fan-out and the recovery write over them.         *)
FreshEstimate ==
    \A pos \in Positions : pos[1] \in {"analysis", "gate2"} =>
       LET chan == pos[2]
       IN  /\ chan.estimate # NoEstimate
           /\ DOMAIN chan.estimate.modules = chan.approved
           /\ \A t \in chan.approved : chan.estimate.modules[t].of = chan.brief
           /\ pos[1] = "gate2" => chan.report = chan.brief

(* The headline total is the sum over the modules, whatever a human's      *)
(* overrides replaced, so long as some module is left.                     *)
TotalsMatchModules ==
    \A pos \in Positions :
       LET est == pos[2].estimate
       IN  /\ est # NoEstimate
           /\ DOMAIN est.modules # {}
           => est.total = TotalHours(est.modules)

(* A decision given at one gate is not consumed by another:                *)
(* GraphResumeRequest says it "is the human's answer to whichever gate the *)
(* run is paused at".  Refuted: nothing locks the thread between the check *)
(* of a resume and its run, so the second of two is taken by the next gate.*)
DecisionsReachTheirGate ==
    answered.seen # NoGate => answered.seen = answered.at

(* A gate consumes only decisions sent while a human was shown that gate:  *)
(* the router promises "409 if nothing is pending" and checks only that    *)
(* the run has a node to go on with.  Refuted: a leg may have died before  *)
(* the interrupt of gate 2, and a repeated decision for gate 1 then        *)
(* finishes a run whose final review nobody has seen.                      *)
DecisionsOnPendingGates == answered.seen = answered.at

(* While calls on the id come one at a time (one worker), through failed   *)
(* legs, retries and new starts, a gate consumes only the decisions sent   *)
(* while it was pending.  One sent between gates restarts the leg and is   *)
(* dropped, with a single exception: a leg that died at a gate before its  *)
(* interrupt leaves the gate to whatever decision is sent next.            *)
OnlyOwnDecisions ==
    \/ answered.seen = answered.at
    \/ answered.cut

(* While calls come one at a time, a run is finished only by a decision    *)
(* its own final review consumed, sent by a human who was shown that       *)
(* review unless the leg that reached it died before its interrupt.        *)
RunsEndReviewed ==
    LET review == [gate |-> "gate2", of |-> checkpoint.chan.brief]
    IN  /\ checkpoint.next = "end"
        /\ checkpoint.chan.brief # 0
        => /\ answered.at = review
           /\ \/ answered.seen = review
              \/ answered.cut

(* A pending gate is not lost: while calls come one at a time it goes away *)
(* only when it is answered or the run is started again, however many      *)
(* resumes fail in between.                                                *)
PendingGateStays ==
    [][/\ checkpoint.waiting
       /\ ~ checkpoint'.waiting
       => \/ checkpoint'.next = "classifier"
          \/ answered'.at = PendingGate]_vars

(* A proposal is drafted "from the validated estimate" (graph_proposal's   *)
(* docstring and its 409).                                                 *)
ProposalsFromValidated == drafted = "validated"
=============================================================================
