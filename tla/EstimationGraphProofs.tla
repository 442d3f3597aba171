----------------------- MODULE EstimationGraphProofs -----------------------
(***************************************************************************)
(* What holds of the estimation graph for any set of tasks, any number of  *)
(* starts and, but where a theorem says otherwise, of calls in flight.     *)
(***************************************************************************)
EXTENDS EstimationGraph, FiniteSetTheorems, TLAPS

(***************************************************************************)
(* What the channels say of the run, by the node that is to run next.      *)
(***************************************************************************)

\* The fan-out has left a row of this run for every approved task.
RowsFresh(chan) ==
    \A t \in chan.approved : t \in DOMAIN chan.rows /\ chan.rows[t].of = chan.brief

EstimateFresh(chan) ==
    /\ chan.estimate \in Estimate
    /\ DOMAIN chan.estimate.modules = chan.approved
    /\ \A t \in chan.approved : chan.estimate.modules[t].of = chan.brief

TotalRight(est) == DOMAIN est.modules # {} => est.total = TotalHours(est.modules)

PositionOK(node, chan) ==
    /\ node \in Nodes
    /\ chan \in Channels
    /\ node = "recover" => RowsFresh(chan)
    /\ node \in {"analysis", "gate2"} => EstimateFresh(chan)
    /\ node = "gate2" => chan.report = chan.brief
    /\ chan.estimate # NoEstimate => TotalRight(chan.estimate)

\* A call that has saved the latest checkpoint is at the node it names.
InStep ==
    \A w \in Workers :
        calls[w].phase = "running" /\ checkpoint.by = w =>
            calls[w].next = checkpoint.next

IInv ==
    /\ TypeOK
    /\ InStep
    /\ PositionOK(checkpoint.next, checkpoint.chan)
    /\ \A w \in Workers :
          calls[w].phase = "running" => PositionOK(calls[w].next, calls[w].chan)

----------------------------------------------------------------------------
(* The operators on rows and estimates.                                    *)
LEMMA RunFacts == 0 \in Run /\ MaxStarts \in Nat
  BY GraphAssumption DEF Run

LEMMA RowsType ==
    ASSUME NEW S \in SUBSET Tasks, NEW rows \in [S -> Row]
    PROVE  rows \in Rows
  BY DEF Rows

LEMMA RowsFacts ==
    ASSUME NEW rows \in Rows
    PROVE  DOMAIN rows \in SUBSET Tasks /\ rows \in [DOMAIN rows -> Row]
<1>1. PICK S \in SUBSET Tasks : rows \in [S -> Row]
  BY DEF Rows
<1>. QED
  BY <1>1

LEMMA NoRowsType == NoRows \in Rows /\ DOMAIN NoRows = {}
<1>1. NoRows \in [{} -> Row]
  BY DEF NoRows
<1>. QED
  BY <1>1, RowsType

\* A later row of a task wins; the others stay.
LEMMA MergeFacts ==
    ASSUME NEW old \in Rows, NEW new \in Rows
    PROVE  /\ MergeTaskHours(old, new) \in Rows
           /\ DOMAIN MergeTaskHours(old, new) = DOMAIN old \cup DOMAIN new
           /\ \A t \in DOMAIN new : MergeTaskHours(old, new)[t] = new[t]
           /\ \A t \in DOMAIN old \ DOMAIN new : MergeTaskHours(old, new)[t] = old[t]
<1> DEFINE S == DOMAIN old \cup DOMAIN new
           merged == MergeTaskHours(old, new)
<1>1. /\ S \in SUBSET Tasks
      /\ \A t \in DOMAIN old : old[t] \in Row
      /\ \A t \in DOMAIN new : new[t] \in Row
  BY RowsFacts
<1>2. /\ merged \in [S -> Row]
      /\ \A t \in DOMAIN new : merged[t] = new[t]
      /\ \A t \in DOMAIN old \ DOMAIN new : merged[t] = old[t]
  BY <1>1 DEF MergeTaskHours
<1>. QED
  BY <1>1, <1>2, RowsType

LEMMA TotalType ==
    ASSUME NEW rows \in Rows
    PROVE  TotalHours(rows) \in Nat
<1>1. {t \in DOMAIN rows : rows[t].hours = 1} \in SUBSET Tasks
  BY RowsFacts
<1>2. IsFiniteSet({t \in DOMAIN rows : rows[t].hours = 1})
  BY <1>1, GraphAssumption, FS_Subset
<1>. QED
  BY <1>2, FS_CardinalityType DEF TotalHours

\* The estimate has exactly the approved tasks, with their rows.
LEMMA BuildFacts ==
    ASSUME NEW approved \in SUBSET Tasks, NEW rows \in Rows
    PROVE  LET est == BuildEstimate(approved, rows)
           IN  /\ est \in Estimate
               /\ DOMAIN est.modules = approved
               /\ \A t \in approved \cap DOMAIN rows : est.modules[t] = rows[t]
               /\ TotalRight(est)
<1> DEFINE modules == [t \in approved |-> IF t \in DOMAIN rows THEN rows[t]
                                          ELSE [hours |-> 0, of |-> 0]]
           est == BuildEstimate(approved, rows)
<1>1. /\ [hours |-> 0, of |-> 0] \in Row
      /\ \A t \in DOMAIN rows : rows[t] \in Row
  BY RunFacts, RowsFacts DEF Row
<1>2. modules \in [approved -> Row]
  BY <1>1
<1>3. modules \in Rows
  BY <1>2, RowsType
<1>4. est = [modules |-> modules, total |-> TotalHours(modules)]
  BY DEF BuildEstimate
<1>5. TotalHours(modules) \in Nat
  BY <1>3, TotalType
<1>6. /\ DOMAIN modules = approved
      /\ \A t \in approved \cap DOMAIN rows : modules[t] = rows[t]
  OBVIOUS
<1> HIDE DEF modules
<1>. QED
  BY <1>3, <1>4, <1>5, <1>6 DEF Estimate, TotalRight

(* Whatever a human's overrides do to an estimate, its headline is the sum *)
(* over the modules again, so long as there are any.                       *)
LEMMA OverrideFacts ==
    ASSUME NEW est \in Estimate, NEW edit \in {"none", "replace", "empty"},
           NEW run \in Run
    PROVE  LET new == WithTotals(Override(est, edit, run))
           IN  new \in Estimate /\ TotalRight(new)
<1> DEFINE given == Override(est, edit, run)
           all == [t \in DOMAIN est.modules |-> [hours |-> 1, of |-> run]]
           new == WithTotals(given)
<1>1. est.modules \in Rows /\ DOMAIN est.modules \in SUBSET Tasks /\ est.total \in Nat
  BY RowsFacts DEF Estimate
<1>2. all \in Rows
  <2>1. all \in [DOMAIN est.modules -> Row]
    BY DEF Row
  <2>. QED
    BY <2>1, <1>1, RowsType
<1>3. Cardinality(Tasks) + 1 \in Nat
  BY GraphAssumption, FS_CardinalityType
<1>4. given \in Estimate
  <2>1. CASE edit = "none"
    BY <2>1 DEF Override
  <2>2. CASE edit = "replace"
    <3>1. given = [modules |-> all, total |-> Cardinality(Tasks) + 1]
      BY <2>2 DEF Override
    <3>. QED
      BY <3>1, <1>2, <1>3 DEF Estimate
  <2>3. CASE edit = "empty"
    <3>1. given = [est EXCEPT !.modules = NoRows]
      BY <2>3 DEF Override
    <3>. QED
      BY <3>1, NoRowsType DEF Estimate
  <2>. QED
    BY <2>1, <2>2, <2>3
<1> HIDE DEF given
<1>5. CASE DOMAIN given.modules = {}
  <2>1. new = given
    BY <1>5 DEF WithTotals
  <2>. QED
    BY <2>1, <1>4, <1>5 DEF given, TotalRight
<1>6. CASE DOMAIN given.modules # {}
  <2>1. new = [given EXCEPT !.total = TotalHours(given.modules)]
    BY <1>6 DEF WithTotals
  <2>2. given.modules \in Rows
    BY <1>4 DEF Estimate
  <2>3. TotalHours(given.modules) \in Nat
    BY <2>2, TotalType
  <2>4. /\ new \in Estimate /\ new.modules = given.modules
        /\ new.total = TotalHours(given.modules)
    BY <2>1, <2>3, <1>4 DEF Estimate
  <2> HIDE DEF new
  <2>5. TotalRight(new)
    BY <2>4 DEF TotalRight
  <2>. QED
    BY <2>4, <2>5 DEF new, given
<1>. QED
  BY <1>5, <1>6

----------------------------------------------------------------------------
(* Checkpoints and calls.                                                  *)

Checkpoint == [next : Nodes, chan : Channels, waiting : BOOLEAN,
               by : Workers \cup {NoWorker}]

CheckpointOK ==
    /\ checkpoint \in Checkpoint
    /\ checkpoint.waiting => checkpoint.next \in Gates
    /\ PositionOK(checkpoint.next, checkpoint.chan)

CallOK(call) ==
    /\ call \in Call
    /\ call.phase = "running" =>
          /\ call.next # "end"
          /\ PositionOK(call.next, call.chan)

RestOK ==
    /\ starts \in Run
    /\ answered \in [seen : GateView, at : GateView, cut : BOOLEAN]
    /\ cut \in GateView
    /\ drafted \in {"none", "validated", "needs_review"}

LEMMA InvariantParts ==
    IInv <=> /\ CheckpointOK
             /\ calls \in [Workers -> Call]
             /\ \A w \in Workers : CallOK(calls[w])
             /\ RestOK
             /\ InStep
  BY DEF IInv, TypeOK, CheckpointOK, Checkpoint, CallOK, RestOK

LEMMA EmptyChannelsType ==
    /\ EmptyChannels \in Channels
    /\ EmptyChannels.estimate = NoEstimate
    /\ EmptyChannels.brief = 0
  BY RunFacts, NoRowsType DEF EmptyChannels, Channels

LEMMA IdleCallOK ==
    /\ IdleCall \in Call /\ IdleCall.phase = "idle" /\ CallOK(IdleCall)
    /\ NoGate \in GateView /\ NoDecision \in Decision
<1>1. NoGate \in GateView /\ NoDecision \in Decision
  BY RunFacts DEF NoGate, GateView, NoDecision, Decision
<1>2. IdleCall \in Call /\ IdleCall.phase = "idle"
  BY <1>1, EmptyChannelsType DEF IdleCall, Call, Nodes
<1>. QED
  BY <1>1, <1>2 DEF CallOK

LEMMA InitiallyOK == Init => IInv
<1> SUFFICES ASSUME Init PROVE IInv
  OBVIOUS
<1>1. PositionOK("end", EmptyChannels)
  BY EmptyChannelsType DEF PositionOK, Nodes
<1>2. CheckpointOK
  BY <1>1, EmptyChannelsType DEF Init, CheckpointOK, Checkpoint, Nodes
<1>3. calls \in [Workers -> Call] /\ \A w \in Workers : CallOK(calls[w])
  BY IdleCallOK DEF Init
<1>4. RestOK
  BY IdleCallOK, RunFacts DEF Init, RestOK
<1>5. InStep
  BY IdleCallOK DEF Init, InStep
<1>. QED
  BY <1>2, <1>3, <1>4, <1>5, InvariantParts

(* One call moves, and the others keep their own copies of the channels.   *)
LEMMA CallMoves ==
    ASSUME IInv, NEW w \in Workers, NEW call, CallOK(call),
           calls' = [calls EXCEPT ![w] = call], CheckpointOK', RestOK',
           checkpoint'.by = w /\ call.phase = "running" =>
               call.next = checkpoint'.next,
           checkpoint'.by # w => /\ checkpoint'.by = checkpoint.by
                                /\ checkpoint'.next = checkpoint.next
    PROVE  IInv'
<1>1. calls \in [Workers -> Call] /\ \A v \in Workers : CallOK(calls[v])
  BY InvariantParts
<1>2. calls' \in [Workers -> Call]
  BY <1>1 DEF CallOK
<1>3. \A v \in Workers : CallOK(calls'[v])
  BY <1>1
<1>4. \A v \in Workers : CallOK(calls[v])'
  BY <1>3 DEF CallOK, PositionOK, RowsFresh, EstimateFresh, TotalRight
<1>5. InStep'
  BY <1>1, InvariantParts DEF InStep
<1>. QED
  BY <1>2, <1>4, <1>5
  DEF IInv, TypeOK, CheckpointOK, Checkpoint, CallOK, RestOK

LEMMA CheckpointStays ==
    ASSUME IInv, checkpoint' = checkpoint
    PROVE  CheckpointOK'
<1>1. CheckpointOK
  BY InvariantParts
<1>. QED
  BY <1>1 DEF CheckpointOK, PositionOK, RowsFresh, EstimateFresh, TotalRight

LEMMA RunningFacts ==
    ASSUME IInv, NEW w \in Workers, calls[w].phase = "running"
    PROVE  /\ calls[w] \in Call /\ calls[w].next # "end"
           /\ calls[w].chan \in Channels
           /\ PositionOK(calls[w].next, calls[w].chan)
  BY InvariantParts DEF CallOK, PositionOK

(* A node of a call has returned: the checkpoint and the call are where it *)
(* leads, with channels that are right for that node.                      *)
LEMMA SaveOK ==
    ASSUME IInv, NEW w \in Workers, calls[w].phase = "running",
           NEW node, NEW chan, PositionOK(node, chan),
           Save(w, node, chan), RestOK'
    PROVE  IInv'
<1> DEFINE next == AfterNode([calls[w] EXCEPT !.next = node, !.chan = chan])
           call == IF node = "end" THEN IdleCall ELSE next
<1>1. node \in Nodes /\ chan \in Channels
  BY DEF PositionOK
<1>2. /\ CheckpointOK' /\ checkpoint'.by = w /\ checkpoint'.next = node
  <2>1. checkpoint' = [next |-> node, chan |-> chan, waiting |-> FALSE, by |-> w]
    BY DEF Save
  <2>2. /\ checkpoint' \in Checkpoint /\ checkpoint'.waiting = FALSE
        /\ checkpoint'.by = w /\ checkpoint'.next = node
        /\ PositionOK(checkpoint'.next, checkpoint'.chan)
    BY <2>1, <1>1 DEF Checkpoint
  <2>. QED
    BY <2>2 DEF CheckpointOK, Checkpoint, PositionOK, RowsFresh, EstimateFresh,
                TotalRight
<1>3. calls[w] \in Call
  BY RunningFacts
<1>4. CASE node = "end"
  <2>1. calls' = [calls EXCEPT ![w] = IdleCall]
    BY <1>4 DEF Save
  <2>. QED
    BY <2>1, <1>2, IdleCallOK, CallMoves
<1>5. CASE node # "end"
  <2>1. calls' = [calls EXCEPT ![w] = next]
    BY <1>5, InvariantParts DEF Save
  <2>2. next \in Call /\ next.next = node /\ next.chan = chan
    BY <1>1, <1>3, IdleCallOK DEF AfterNode, Call
  <2> HIDE DEF next
  <2>3. CallOK(next)
    BY <2>2, <1>5 DEF CallOK
  <2>. QED
    BY <2>1, <2>2, <2>3, <1>2, CallMoves
<1>. QED
  BY <1>4, <1>5

----------------------------------------------------------------------------
(* The calls that drive the graph.                                         *)
LEMMA StartOK ==
    ASSUME IInv, NEW w \in Workers, Start(w)
    PROVE  IInv'
<1> DEFINE chan == [EmptyChannels EXCEPT !.transcript = starts + 1]
           call == [IdleCall EXCEPT !.phase = "starting", !.chan = chan]
<1>1. /\ calls' = [calls EXCEPT ![w] = [IdleCall EXCEPT !.phase = "starting",
                                              !.chan.transcript = starts + 1]]
      /\ starts' = starts + 1 /\ UNCHANGED <<checkpoint, answered, cut, drafted>>
      /\ starts < MaxStarts
  BY DEF Start
<1>2. starts + 1 \in Run /\ RestOK
  BY <1>1, RunFacts, InvariantParts DEF RestOK, Run
<1>3. chan \in Channels
  BY <1>2, EmptyChannelsType DEF Channels
<1>4. calls' = [calls EXCEPT ![w] = call]
  BY <1>1, IdleCallOK DEF IdleCall
<1> HIDE DEF chan
<1>5. call \in Call /\ call.phase = "starting"
  BY <1>3, IdleCallOK DEF Call
<1> HIDE DEF call
<1>6. CallOK(call)
  BY <1>5 DEF CallOK
<1>7. RestOK'
  BY <1>1, <1>2 DEF RestOK
<1>. QED
  BY <1>1, <1>4, <1>5, <1>6, <1>7, CheckpointStays, CallMoves

LEMMA LaunchStartOK ==
    ASSUME IInv, NEW w \in Workers, LaunchStart(w)
    PROVE  IInv'
<1> DEFINE chan == [checkpoint.chan EXCEPT !.transcript = calls[w].chan.transcript]
           call == [IdleCall EXCEPT !.phase = "running", !.next = "classifier",
                                    !.chan = chan]
<1>1. /\ checkpoint' = [next |-> "classifier", chan |-> chan,
                        waiting |-> FALSE, by |-> w]
      /\ calls' = [calls EXCEPT ![w] = call]
      /\ cut' = NoGate /\ UNCHANGED <<starts, answered, drafted>>
  BY DEF LaunchStart
<1>2. /\ checkpoint.chan \in Channels /\ calls[w] \in Call
      /\ checkpoint.chan.estimate # NoEstimate => TotalRight(checkpoint.chan.estimate)
      /\ RestOK
  BY InvariantParts DEF CheckpointOK, PositionOK, CallOK
<1>3. chan \in Channels /\ chan.estimate = checkpoint.chan.estimate
  BY <1>2 DEF Call, Channels
<1> HIDE DEF chan
<1>4. PositionOK("classifier", chan)
  BY <1>2, <1>3 DEF PositionOK, Nodes
<1>5. /\ call \in Call /\ call.next = "classifier" /\ call.chan = chan
  BY <1>3, IdleCallOK DEF Call, Nodes
<1> HIDE DEF call
<1>6. CallOK(call)
  BY <1>4, <1>5 DEF CallOK
<1>7. /\ CheckpointOK' /\ checkpoint'.by = w /\ checkpoint'.next = "classifier"
  <2>1. /\ checkpoint' \in Checkpoint /\ checkpoint'.waiting = FALSE
        /\ checkpoint'.by = w /\ checkpoint'.next = "classifier"
        /\ PositionOK(checkpoint'.next, checkpoint'.chan)
    BY <1>1, <1>3, <1>4 DEF Checkpoint, Nodes
  <2>. QED
    BY <2>1 DEF CheckpointOK, Checkpoint, PositionOK, RowsFresh, EstimateFresh,
                TotalRight
<1>8. RestOK'
  BY <1>1, <1>2, IdleCallOK DEF RestOK
<1>. QED
  BY <1>1, <1>5, <1>6, <1>7, <1>8, CallMoves

LEMMA ResumeOK ==
    ASSUME IInv, NEW w \in Workers, Resume(w)
    PROVE  IInv'
<1> DEFINE call(d) == [IdleCall EXCEPT !.phase = "resuming", !.resume = TRUE,
                                       !.decision = d, !.seen = PendingGate]
<1>1. PICK d \in StructureDecision \cup FinalDecision :
          calls' = [calls EXCEPT ![w] = call(d)]
  BY DEF Resume
<1>2. UNCHANGED <<checkpoint, starts, answered, cut, drafted>> /\ RestOK /\ CheckpointOK
  BY InvariantParts DEF Resume
<1>3. d \in Decision
  <2>1. ASSUME NEW m \in SUBSET Tasks
        PROVE  [NoDecision EXCEPT !.given = TRUE, !.modules = m] \in Decision
    BY DEF NoDecision, Decision
  <2>2. CASE d \in StructureDecision
    BY <2>1, <2>2, IdleCallOK DEF StructureDecision
  <2>3. CASE d \in FinalDecision
    BY <2>3, GraphAssumption DEF FinalDecision, Decision
  <2>. QED
    BY <2>2, <2>3
<1>4. PendingGate \in GateView
  BY <1>2, IdleCallOK
  DEF PendingGate, GateView, CheckpointOK, Checkpoint, Channels
<1>5. call(d) \in Call /\ call(d).phase = "resuming"
  BY <1>3, <1>4, IdleCallOK DEF Call
<1> HIDE DEF call
<1>6. CallOK(call(d))
  BY <1>5 DEF CallOK
<1>7. RestOK'
  BY <1>2 DEF RestOK
<1>. QED
  BY <1>1, <1>2, <1>5, <1>6, <1>7, CheckpointStays, CallMoves

LEMMA LaunchResumeOK ==
    ASSUME IInv, NEW w \in Workers, LaunchResume(w)
    PROVE  IInv'
<1> DEFINE running == [calls[w] EXCEPT !.phase = "running", !.next = checkpoint.next,
                                       !.chan = checkpoint.chan]
<1>1. /\ calls' = [calls EXCEPT ![w] = IF checkpoint.next = "end" THEN IdleCall
                                       ELSE running]
      /\ UNCHANGED <<checkpoint, starts, answered, cut, drafted>>
  BY InvariantParts DEF LaunchResume
<1>2. /\ RestOK /\ calls[w] \in Call
      /\ PositionOK(checkpoint.next, checkpoint.chan)
  BY InvariantParts DEF CallOK, CheckpointOK
<1>3. /\ running \in Call /\ running.next = checkpoint.next
      /\ running.chan = checkpoint.chan
  BY <1>2 DEF Call, PositionOK
<1> HIDE DEF running
<1>4. checkpoint.next # "end" => CallOK(running)
  BY <1>2, <1>3 DEF CallOK
<1>5. RestOK'
  BY <1>1, <1>2 DEF RestOK
<1>6. CASE checkpoint.next = "end"
  BY <1>1, <1>5, <1>6, IdleCallOK, CheckpointStays, CallMoves
<1>7. CASE checkpoint.next # "end"
  BY <1>1, <1>3, <1>4, <1>5, <1>7, CheckpointStays, CallMoves
<1>. QED
  BY <1>6, <1>7

\* A call that runs a gate is at one.
LEMMA AtGateType ==
    ASSUME IInv, NEW w \in Workers, calls[w].phase = "running",
           calls[w].next \in Gates
    PROVE  AtGate(w) \in GateView
<1>1. calls[w].chan.brief \in Run
  <2>1. calls[w].chan \in Channels
    BY RunningFacts
  <2>. QED
    BY <2>1 DEF Channels
<1>. QED
  BY <1>1 DEF AtGate, GateView

LEMMA FailOK ==
    ASSUME IInv, NEW w \in Workers, Fail(w)
    PROVE  IInv'
<1>1. /\ calls' = [calls EXCEPT ![w] = IdleCall]
      /\ UNCHANGED <<checkpoint, starts, answered, drafted>> /\ RestOK
  BY InvariantParts DEF Fail
<1>2. RestOK'
  <2>1. cut' \in GateView
    <3>1. CASE cut' = cut
      BY <1>1, <3>1 DEF RestOK
    <3>2. CASE cut' # cut
      <4>1. /\ calls[w].phase = "running" /\ calls[w].next \in Gates
            /\ cut' = AtGate(w)
        BY <3>2 DEF Fail
      <4>. QED
        BY <4>1, AtGateType
    <3>. QED
      BY <3>1, <3>2
  <2>. QED
    BY <1>1, <2>1 DEF RestOK
<1>. QED
  BY <1>1, <1>2, IdleCallOK, CheckpointStays, CallMoves

LEMMA InterruptOK ==
    ASSUME IInv, NEW w \in Workers, Interrupt(w)
    PROVE  IInv'
<1> DEFINE waiting == checkpoint.waiting \/ checkpoint.by = w
<1>1. /\ calls' = [calls EXCEPT ![w] = IdleCall]
      /\ checkpoint' = [checkpoint EXCEPT !.waiting = waiting]
      /\ UNCHANGED <<starts, answered, cut, drafted>> /\ RestOK /\ CheckpointOK
  BY InvariantParts DEF Interrupt
<1>2. waiting => checkpoint.next \in Gates
  BY <1>1, InvariantParts DEF CheckpointOK, InStep, Interrupt
<1>3. waiting \in BOOLEAN
  BY <1>1 DEF CheckpointOK, Checkpoint
<1> HIDE DEF waiting
<1>4. /\ checkpoint' \in Checkpoint /\ checkpoint'.waiting = waiting
      /\ checkpoint'.next = checkpoint.next /\ checkpoint'.chan = checkpoint.chan
      /\ checkpoint'.by = checkpoint.by
  BY <1>1, <1>3 DEF CheckpointOK, Checkpoint
<1>5. CheckpointOK'
  BY <1>1, <1>2, <1>4
  DEF CheckpointOK, PositionOK, RowsFresh, EstimateFresh, TotalRight
<1>6. RestOK'
  BY <1>1 DEF RestOK
<1>. QED
  BY <1>1, <1>4, <1>5, <1>6, IdleCallOK, CallMoves

----------------------------------------------------------------------------
(* The nodes.                                                              *)
LEMMA ChannelFacts ==
    ASSUME NEW chan \in Channels
    PROVE  /\ chan.transcript \in Run /\ chan.brief \in Run
           /\ chan.structure \in SUBSET Tasks /\ chan.approved \in SUBSET Tasks
           /\ chan.rows \in Rows
           /\ chan.estimate \in Estimate \cup {NoEstimate}
  BY DEF Channels

LEMMA RestStays ==
    ASSUME IInv, UNCHANGED <<starts, drafted>>,
           NEW u, NEW node, NEW chan, Save(u, node, chan),
           answered' = answered \/ \E w \in Workers :
               Answered(w) /\ calls[w].phase = "running" /\ calls[w].next \in Gates
    PROVE  RestOK'
<1>1. RestOK /\ cut' = NoGate
  BY InvariantParts DEF Save
<1>2. CASE answered' = answered
  BY <1>1, <1>2, IdleCallOK DEF RestOK
<1>3. ASSUME NEW w \in Workers, Answered(w), calls[w].phase = "running",
             calls[w].next \in Gates
      PROVE  RestOK'
  <2>1. calls[w].seen \in GateView /\ AtGate(w) \in GateView
    BY <1>3, RunningFacts, AtGateType DEF Call
  <2>2. answered' \in [seen : GateView, at : GateView, cut : BOOLEAN]
    BY <2>1, <1>3 DEF Answered
  <2>. QED
    BY <1>1, <2>2, IdleCallOK DEF RestOK
<1>. QED
  BY <1>2, <1>3

LEMMA ClassifierOK ==
    ASSUME IInv, NEW w \in Workers, ClassifierAgent(w)
    PROVE  IInv'
<1> DEFINE old == calls[w].chan
           new == [old EXCEPT !.brief = old.transcript]
<1>1. /\ calls[w].phase = "running" /\ Save(w, "structure", new)
      /\ UNCHANGED <<starts, answered, drafted>>
  BY DEF ClassifierAgent, Running
<1>2. old \in Channels /\ PositionOK(calls[w].next, old)
  BY <1>1, RunningFacts
<1>3. new \in Channels /\ new.estimate = old.estimate
  BY <1>2 DEF Channels
<1> HIDE DEF new
<1>4. PositionOK("structure", new)
  BY <1>2, <1>3 DEF PositionOK, Nodes
<1>. QED
  BY <1>1, <1>4, RestStays, SaveOK

LEMMA StructureOK ==
    ASSUME IInv, NEW w \in Workers, StructureAgent(w)
    PROVE  IInv'
<1> DEFINE old == calls[w].chan
           new(tasks) == [old EXCEPT !.structure = tasks]
<1>1. /\ calls[w].phase = "running"
      /\ UNCHANGED <<starts, answered, drafted>>
  BY DEF StructureAgent, Running
<1>2. PICK tasks \in SUBSET Tasks : Save(w, "gate1", new(tasks))
  BY DEF StructureAgent, ProposedStructures
<1>3. old \in Channels /\ PositionOK(calls[w].next, old)
  BY <1>1, RunningFacts
<1>4. new(tasks) \in Channels /\ new(tasks).estimate = old.estimate
  BY <1>3 DEF Channels
<1> HIDE DEF new
<1>5. PositionOK("gate1", new(tasks))
  BY <1>3, <1>4 DEF PositionOK, Nodes
<1>. QED
  BY <1>1, <1>2, <1>5, RestStays, SaveOK

LEMMA Gate1OK ==
    ASSUME IInv, NEW w \in Workers, HumanGateStructure(w)
    PROVE  IInv'
<1> DEFINE old == calls[w].chan
           modules == IF calls[w].decision.given
                      THEN calls[w].decision.modules ELSE old.structure
           new == [old EXCEPT !.approved = modules]
           node == FanOutHours(modules)
<1>1. /\ calls[w].phase = "running" /\ calls[w].next \in Gates /\ Answered(w)
      /\ Save(w, node, new) /\ UNCHANGED <<starts, drafted>>
  BY DEF HumanGateStructure, Running, Gates
<1>2. /\ old \in Channels /\ PositionOK(calls[w].next, old)
      /\ calls[w] \in Call
  BY <1>1, RunningFacts
<1>3. modules \in SUBSET Tasks
  BY <1>2, ChannelFacts DEF Call, Decision
<1>4. /\ node \in {"recover", "hours"}
      /\ node = "recover" => modules = {}
  BY DEF FanOutHours
<1> HIDE DEF modules, node
<1>5. /\ new \in Channels /\ new.estimate = old.estimate
      /\ new.approved = modules
  BY <1>2, <1>3 DEF Channels
<1> HIDE DEF new
<1>6. PositionOK(node, new)
  BY <1>2, <1>4, <1>5 DEF PositionOK, Nodes, RowsFresh
<1>. QED
  BY <1>1, <1>6, RestStays, SaveOK

LEMMA HoursOK ==
    ASSUME IInv, NEW w \in Workers, EstimateTaskHours(w)
    PROVE  IInv'
<1> DEFINE old == calls[w].chan
           found(hours) == [t \in old.approved |-> [hours |-> hours[t], of |-> old.brief]]
           rows(hours) == MergeTaskHours(old.rows, found(hours))
           new(hours) == [old EXCEPT !.rows = rows(hours)]
<1>1. calls[w].phase = "running" /\ UNCHANGED <<starts, answered, drafted>>
  BY DEF EstimateTaskHours, Running
<1>2. PICK hours \in [old.approved -> {0, 1}] : Save(w, "recover", new(hours))
  BY DEF EstimateTaskHours
<1>3. old \in Channels /\ PositionOK(calls[w].next, old)
  BY <1>1, RunningFacts
<1>4. /\ old.approved \in SUBSET Tasks /\ old.brief \in Run /\ old.rows \in Rows
  BY <1>3, ChannelFacts
<1>5. found(hours) \in [old.approved -> Row]
  BY <1>4 DEF Row
<1>6. /\ found(hours) \in Rows /\ DOMAIN found(hours) = old.approved
      /\ \A t \in old.approved : found(hours)[t].of = old.brief
  BY <1>4, <1>5, RowsType
<1> HIDE DEF found
<1>7. /\ rows(hours) \in Rows
      /\ \A t \in old.approved : /\ t \in DOMAIN rows(hours)
                                 /\ rows(hours)[t].of = old.brief
  <2>1. /\ rows(hours) \in Rows
        /\ DOMAIN rows(hours) = DOMAIN old.rows \cup DOMAIN found(hours)
        /\ \A t \in DOMAIN found(hours) : rows(hours)[t] = found(hours)[t]
        /\ \A t \in DOMAIN old.rows \ DOMAIN found(hours) : rows(hours)[t] = old.rows[t]
    BY <1>4, <1>6, MergeFacts
  <2>. QED
    BY <2>1, <1>4, <1>6
<1> HIDE DEF rows
<1>8. /\ new(hours) \in Channels /\ new(hours).estimate = old.estimate
      /\ new(hours).approved = old.approved /\ new(hours).brief = old.brief
      /\ new(hours).rows = rows(hours)
  BY <1>3, <1>7 DEF Channels
<1> HIDE DEF new
<1>9. PositionOK("recover", new(hours))
  BY <1>3, <1>7, <1>8 DEF PositionOK, Nodes, RowsFresh
<1>. QED
  BY <1>1, <1>2, <1>9, RestStays, SaveOK

LEMMA RecoverOK ==
    ASSUME IInv, NEW w \in Workers, RecoverAndHandover(w)
    PROVE  IInv'
<1> DEFINE old == calls[w].chan
           fixed(derived) == [t \in derived |-> [hours |-> 1, of |-> old.brief]]
           rows(derived) == MergeTaskHours(old.rows, fixed(derived))
           est(derived) == BuildEstimate(old.approved, rows(derived))
           new(derived) == [old EXCEPT !.rows = rows(derived), !.estimate = est(derived)]
<1>1. /\ calls[w].phase = "running" /\ calls[w].next = "recover"
      /\ UNCHANGED <<starts, answered, drafted>>
  BY DEF RecoverAndHandover, Running
<1>2. PICK derived \in SUBSET Tasks : Save(w, "analysis", new(derived))
  BY DEF RecoverAndHandover
<1>3. old \in Channels /\ PositionOK("recover", old)
  BY <1>1, RunningFacts
<1>4. /\ old.approved \in SUBSET Tasks /\ old.brief \in Run /\ old.rows \in Rows
      /\ RowsFresh(old)
  BY <1>3, ChannelFacts DEF PositionOK
<1>5. fixed(derived) \in [derived -> Row]
  BY <1>4 DEF Row
<1>6. /\ fixed(derived) \in Rows /\ DOMAIN fixed(derived) = derived
      /\ \A t \in derived : fixed(derived)[t].of = old.brief
  BY <1>5, RowsType
<1> HIDE DEF fixed
<1>7. /\ rows(derived) \in Rows
      /\ \A t \in old.approved : /\ t \in DOMAIN rows(derived)
                                 /\ rows(derived)[t].of = old.brief
  <2>1. /\ rows(derived) \in Rows
        /\ DOMAIN rows(derived) = DOMAIN old.rows \cup DOMAIN fixed(derived)
        /\ \A t \in DOMAIN fixed(derived) : rows(derived)[t] = fixed(derived)[t]
        /\ \A t \in DOMAIN old.rows \ DOMAIN fixed(derived) : rows(derived)[t] = old.rows[t]
    BY <1>4, <1>6, MergeFacts
  <2>. QED
    BY <2>1, <1>4, <1>6 DEF RowsFresh
<1> HIDE DEF rows
<1>8. /\ est(derived) \in Estimate /\ DOMAIN est(derived).modules = old.approved
      /\ \A t \in old.approved : est(derived).modules[t].of = old.brief
      /\ TotalRight(est(derived))
  BY <1>4, <1>7, BuildFacts
<1> HIDE DEF est
<1>9. /\ new(derived) \in Channels /\ new(derived).estimate = est(derived)
      /\ new(derived).approved = old.approved /\ new(derived).brief = old.brief
  BY <1>3, <1>7, <1>8 DEF Channels
<1> HIDE DEF new
<1>10. PositionOK("analysis", new(derived))
  BY <1>8, <1>9 DEF PositionOK, Nodes, EstimateFresh
<1>. QED
  BY <1>1, <1>2, <1>10, RestStays, SaveOK

LEMMA AnalysisOK ==
    ASSUME IInv, NEW w \in Workers, AnalysisAgent(w)
    PROVE  IInv'
<1> DEFINE old == calls[w].chan
           new == [old EXCEPT !.report = old.brief]
<1>1. /\ calls[w].phase = "running" /\ calls[w].next = "analysis"
      /\ Save(w, "gate2", new) /\ UNCHANGED <<starts, answered, drafted>>
  BY DEF AnalysisAgent, Running
<1>2. old \in Channels /\ PositionOK("analysis", old)
  BY <1>1, RunningFacts
<1>3. /\ new \in Channels /\ new.estimate = old.estimate
      /\ new.approved = old.approved /\ new.brief = old.brief /\ new.report = new.brief
  BY <1>2 DEF Channels
<1> HIDE DEF new
<1>4. PositionOK("gate2", new)
  BY <1>2, <1>3 DEF PositionOK, Nodes, EstimateFresh
<1>. QED
  BY <1>1, <1>4, RestStays, SaveOK

LEMMA Gate2OK ==
    ASSUME IInv, NEW w \in Workers, HumanGateAnalysis(w)
    PROVE  IInv'
<1> DEFINE old == calls[w].chan
           d == calls[w].decision
           est == WithTotals(Override(old.estimate, d.edit, old.brief))
           status == IF d.validated THEN "validated" ELSE "needs_review"
           node == IF ProposalEnabled /\ d.want THEN "proposal" ELSE "end"
           new == [old EXCEPT !.estimate = est, !.status = status]
<1>1. /\ calls[w].phase = "running" /\ calls[w].next = "gate2" /\ Answered(w)
      /\ Save(w, node, new) /\ UNCHANGED <<starts, drafted>>
  BY DEF HumanGateAnalysis, Running
<1>2. /\ old \in Channels /\ PositionOK("gate2", old)
      /\ calls[w] \in Call
  BY <1>1, RunningFacts
<1>3. old.estimate \in Estimate /\ old.brief \in Run /\ d.edit \in {"none", "replace", "empty"}
  BY <1>2, ChannelFacts DEF PositionOK, EstimateFresh, Call, Decision
<1>4. est \in Estimate /\ TotalRight(est)
  BY <1>3, OverrideFacts
<1>5. node \in {"proposal", "end"} /\ status \in {"validated", "needs_review"}
  OBVIOUS
<1> HIDE DEF est, node, status
<1>6. new \in Channels /\ new.estimate = est
  BY <1>2, <1>4, <1>5 DEF Channels
<1> HIDE DEF new
<1>7. PositionOK(node, new)
  BY <1>4, <1>5, <1>6 DEF PositionOK, Nodes
<1>. QED
  BY <1>1, <1>7, RestStays, SaveOK DEF Gates

LEMMA ProposalOK ==
    ASSUME IInv, NEW w \in Workers, ProposalAgent(w)
    PROVE  IInv'
<1> DEFINE old == calls[w].chan
           new == [old EXCEPT !.proposal = old.brief]
<1>1. /\ calls[w].phase = "running" /\ Save(w, "end", new)
      /\ drafted' = old.status /\ UNCHANGED <<starts, answered>>
  BY DEF ProposalAgent, Running
<1>2. old \in Channels /\ PositionOK(calls[w].next, old)
  BY <1>1, RunningFacts
<1>3. new \in Channels /\ new.estimate = old.estimate
  BY <1>2 DEF Channels
<1> HIDE DEF new
<1>4. PositionOK("end", new)
  BY <1>2, <1>3 DEF PositionOK, Nodes
<1>5. RestOK'
  <2>1. RestOK /\ old.status \in {"none", "validated", "needs_review"}
    BY <1>2, InvariantParts DEF Channels
  <2>2. cut' = NoGate
    BY <1>1 DEF Save
  <2>. QED
    BY <1>1, <2>1, <2>2, IdleCallOK DEF RestOK
<1>. QED
  BY <1>1, <1>4, <1>5, SaveOK

LEMMA GraphProposalOK ==
    ASSUME IInv, GraphProposal
    PROVE  IInv'
<1>1. /\ UNCHANGED <<checkpoint, calls, starts, answered, cut>>
      /\ drafted' = checkpoint.chan.status /\ checkpoint.chan \in Channels
  BY InvariantParts DEF GraphProposal, CheckpointOK, PositionOK
<1>2. drafted' \in {"none", "validated", "needs_review"}
  BY <1>1 DEF Channels
<1>. QED
  BY <1>1, <1>2 DEF IInv, TypeOK, InStep, PositionOK, RowsFresh, EstimateFresh, TotalRight

LEMMA StutterOK ==
    ASSUME IInv, UNCHANGED vars
    PROVE  IInv'
  BY DEF vars, IInv, TypeOK, InStep, PositionOK, RowsFresh, EstimateFresh, TotalRight

LEMMA NextOK == IInv /\ [Next]_vars => IInv'
  BY StartOK, LaunchStartOK, ResumeOK, LaunchResumeOK, FailOK, ClassifierOK,
     StructureOK, InterruptOK, Gate1OK, HoursOK, RecoverOK, AnalysisOK, Gate2OK,
     ProposalOK, GraphProposalOK, StutterOK
  DEF Next

(* The inductive invariant: whatever calls drive the thread at once, each  *)
(* copy of the channels is right for the node it is at.                    *)
THEOREM Invariant == Spec => []IInv
  BY InitiallyOK, NextOK, PTL DEF Spec

(* Type correctness, and that only gates wait and no call drives an ended  *)
(* run.                                                                    *)
THEOREM TypeCorrect == Spec => []TypeOK
<1>1. IInv => TypeOK
  BY DEF IInv
<1>. QED
  BY <1>1, Invariant, PTL

LEMMA PositionsOK ==
    ASSUME IInv, NEW pos \in Positions
    PROVE  PositionOK(pos[1], pos[2])
  BY DEF IInv, Positions

(* What a human is given to review was made in this run, for any number of *)
(* starts under the id and of calls in flight on it.                       *)
THEOREM FreshEstimateHolds == Spec => []FreshEstimate
<1>1. IInv => FreshEstimate
  <2> SUFFICES ASSUME IInv, NEW pos \in Positions, pos[1] \in {"analysis", "gate2"}
               PROVE  /\ pos[2].estimate # NoEstimate
                      /\ DOMAIN pos[2].estimate.modules = pos[2].approved
                      /\ \A t \in pos[2].approved :
                            pos[2].estimate.modules[t].of = pos[2].brief
                      /\ pos[1] = "gate2" => pos[2].report = pos[2].brief
    BY DEF FreshEstimate
  <2>. QED
    BY PositionsOK, NoEstimateAssumption DEF PositionOK, EstimateFresh
<1>. QED
  BY <1>1, Invariant, PTL

(* The headline total is the sum over the modules (build_estimate,         *)
(* recompute_estimate_totals), whatever the overrides of how many humans.  *)
THEOREM TotalsMatchModulesHolds == Spec => []TotalsMatchModules
<1>1. IInv => TotalsMatchModules
  BY PositionsOK DEF TotalsMatchModules, PositionOK, TotalRight
<1>. QED
  BY <1>1, Invariant, PTL

----------------------------------------------------------------------------
(***************************************************************************)
(* While calls on the id come one at a time.  Nothing in the code sees to  *)
(* that: it is the clients' doing, hence a hypothesis of the theorems      *)
(* below and not an assumption of the model.                               *)
(***************************************************************************)
OneAtATime == \A v, w \in Workers : v = w

FinalReview == [gate |-> "gate2", of |-> checkpoint.chan.brief]

\* The gate the run has stopped at, shown to a human or not.
StoppedAt ==
    IF checkpoint.next \in Gates
    THEN [gate |-> checkpoint.next, of |-> checkpoint.chan.brief]
    ELSE NoGate

\* No call is driving the graph towards an interrupt: the gate it has stopped
\* at is either pending or was cut.
Settled == checkpoint.next \in Gates /\ ~checkpoint.waiting => cut = StoppedAt

(* A call that is driving the graph is where the checkpoint is, and has    *)
(* saved it once it has no decision left; its decision, until a node has   *)
(* had it, was sent for the gate that is pending, or for none while the    *)
(* graph is settled; and whoever is past the final review has answered it. *)
SerialInv ==
    /\ \A w \in Workers :
          /\ calls[w].phase = "resuming" => calls[w].resume
          /\ calls[w].phase = "running" => /\ calls[w].next = checkpoint.next
                                          /\ calls[w].chan = checkpoint.chan
          /\ calls[w].phase \in {"resuming", "running"} /\ calls[w].resume =>
                calls[w].seen = PendingGate
          /\ calls[w].phase = "running" /\ ~calls[w].resume => checkpoint.by = w
          /\ Settled \/ (calls[w].phase = "running" /\ ~calls[w].resume)
    /\ OnlyOwnDecisions
    /\ \/ checkpoint.next = "proposal"
       \/ checkpoint.next = "end" /\ checkpoint.chan.brief # 0
       => answered.at = FinalReview

LEMMA SerialInitially == Init => SerialInv
  BY EmptyChannelsType, IdleCallOK
  DEF Init, SerialInv, OnlyOwnDecisions, Settled, Gates

LEMMA SerialSave ==
    ASSUME OneAtATime, IInv, SerialInv, NEW w \in Workers,
           calls[w].phase = "running", NEW node, NEW chan, Save(w, node, chan),
           OnlyOwnDecisions',
           node = "proposal" \/ (node = "end" /\ chan.brief # 0)
              => answered'.at = [gate |-> "gate2", of |-> chan.brief]
    PROVE  SerialInv'
<1>1. /\ calls[w] \in Call /\ calls \in [Workers -> Call]
      /\ \A v \in Workers : v = w
  BY RunningFacts, InvariantParts DEF OneAtATime
<1>2. /\ checkpoint'.next = node /\ checkpoint'.chan = chan
      /\ checkpoint'.by = w
  BY DEF Save
<1>3. \/ calls'[w] = IdleCall /\ node = "end"
      \/ /\ calls'[w].next = node /\ calls'[w].chan = chan
         /\ calls'[w].phase = "running" /\ calls'[w].resume = FALSE
  <2> DEFINE call == AfterNode([calls[w] EXCEPT !.next = node, !.chan = chan])
  <2>1. calls'[w] = IF node = "end" THEN IdleCall ELSE call
    BY <1>1 DEF Save
  <2>2. /\ call.next = node /\ call.chan = chan
        /\ call.phase = "running" /\ call.resume = FALSE
    BY <1>1 DEF AfterNode, Call
  <2>. QED
    BY <2>1, <2>2
<1>4. node = "end" => Settled'
  BY <1>2 DEF Settled, Gates
<1>. QED
  BY <1>1, <1>2, <1>3, <1>4, IdleCallOK DEF SerialInv, FinalReview

\* A call that has not begun to drive leaves the graph where it is.
LEMMA SerialCall ==
    ASSUME OneAtATime, IInv, SerialInv, NEW w \in Workers, NEW call,
           calls' = [calls EXCEPT ![w] = call], answered' = answered,
           checkpoint'.next = checkpoint.next, checkpoint'.chan = checkpoint.chan,
           checkpoint'.by = checkpoint.by, Settled',
           call.phase = "resuming" => call.resume,
           call.phase = "running" => /\ call.next = checkpoint.next
                                     /\ call.chan = checkpoint.chan
                                     /\ call.resume,
           call.phase \in {"resuming", "running"} /\ call.resume =>
               call.seen = PendingGate'
    PROVE  SerialInv'
<1>1. calls'[w] = call /\ \A v \in Workers : v = w
  BY InvariantParts DEF OneAtATime
<1>2. FinalReview' = FinalReview
  BY DEF FinalReview
<1>. QED
  BY <1>1, <1>2 DEF SerialInv, OnlyOwnDecisions

LEMMA SerialStepOK ==
    ASSUME OneAtATime, IInv, SerialInv, NEW w \in Workers,
           \/ Start(w) \/ LaunchStart(w) \/ Resume(w) \/ LaunchResume(w)
           \/ Fail(w) \/ Interrupt(w)
    PROVE  SerialInv'
<1>0. /\ calls \in [Workers -> Call] /\ calls[w] \in Call
      /\ \A v \in Workers : v = w
      /\ checkpoint \in Checkpoint
      /\ Settled \/ (calls[w].phase = "running" /\ ~calls[w].resume)
  BY InvariantParts DEF OneAtATime, CheckpointOK, SerialInv
<1>a. /\ (UNCHANGED <<checkpoint, cut>> /\ Settled) => Settled'
      /\ UNCHANGED checkpoint => PendingGate' = PendingGate
  BY DEF Settled, StoppedAt, PendingGate, NoGate
<1>1. CASE Start(w)
  <2> DEFINE call == [IdleCall EXCEPT !.phase = "starting",
                                      !.chan.transcript = starts + 1]
  <2>1. /\ calls' = [calls EXCEPT ![w] = call]
        /\ UNCHANGED <<checkpoint, answered, cut>> /\ calls[w].phase = "idle"
    BY <1>1 DEF Start
  <2>2. call.phase = "starting"
    BY IdleCallOK DEF IdleCall
  <2> HIDE DEF call
  <2>3. Settled'
    BY <2>1, <1>0, <1>a
  <2>. QED
    BY <2>1, <2>2, <2>3, SerialCall
<1>2. CASE LaunchStart(w)
  <2> DEFINE chan == [checkpoint.chan EXCEPT !.transcript = calls[w].chan.transcript]
             call == [IdleCall EXCEPT !.phase = "running", !.next = "classifier",
                                      !.chan = chan]
  <2>1. /\ calls' = [calls EXCEPT ![w] = call] /\ UNCHANGED answered
        /\ checkpoint'.next = "classifier" /\ checkpoint'.chan = chan
        /\ checkpoint'.by = w
    BY <1>2 DEF LaunchStart
  <2>2. /\ call.phase = "running" /\ call.next = "classifier" /\ call.chan = chan
        /\ call.resume = FALSE
    BY IdleCallOK DEF IdleCall
  <2> HIDE DEF call
  <2>3. calls'[w] = call
    BY <2>1, <1>0
  <2>. QED
    BY <2>1, <2>2, <2>3, <1>0 DEF SerialInv, OnlyOwnDecisions
<1>3. CASE Resume(w)
  <2> DEFINE call(d) == [IdleCall EXCEPT !.phase = "resuming", !.resume = TRUE,
                                         !.decision = d, !.seen = PendingGate]
  <2>1. PICK d : calls' = [calls EXCEPT ![w] = call(d)]
    BY <1>3 DEF Resume
  <2>2. UNCHANGED <<checkpoint, answered, cut>> /\ calls[w].phase = "idle"
    BY <1>3 DEF Resume
  <2>3. call(d).phase = "resuming" /\ call(d).resume /\ call(d).seen = PendingGate
    BY IdleCallOK DEF IdleCall
  <2> HIDE DEF call
  <2>4. Settled' /\ PendingGate' = PendingGate
    BY <2>2, <1>0, <1>a
  <2>. QED
    BY <2>1, <2>2, <2>3, <2>4, SerialCall
<1>4. CASE LaunchResume(w)
  <2> DEFINE call == [calls[w] EXCEPT !.phase = "running", !.next = checkpoint.next,
                                      !.chan = checkpoint.chan]
  <2>1. /\ calls' = [calls EXCEPT ![w] = IF checkpoint.next = "end" THEN IdleCall
                                         ELSE call]
        /\ calls[w].phase = "resuming" /\ UNCHANGED <<checkpoint, answered, cut>>
    BY <1>4, <1>0 DEF LaunchResume
  <2>2. /\ call.phase = "running" /\ call.next = checkpoint.next /\ call.resume
        /\ call.chan = checkpoint.chan /\ call.seen = PendingGate
    BY <2>1, <1>0 DEF SerialInv, Call
  <2> HIDE DEF call
  <2>3. Settled' /\ PendingGate' = PendingGate
    BY <2>1, <1>0, <1>a
  <2>4. CASE checkpoint.next = "end"
    BY <2>1, <2>3, <2>4, IdleCallOK, SerialCall
  <2>5. CASE checkpoint.next # "end"
    BY <2>1, <2>2, <2>3, <2>5, SerialCall
  <2>. QED
    BY <2>4, <2>5
<1>5. CASE Fail(w)
  <2>1. /\ calls' = [calls EXCEPT ![w] = IdleCall]
        /\ UNCHANGED <<checkpoint, answered>>
    BY <1>5 DEF Fail
  <2>2. Settled'
    <3>1. CASE calls[w].phase = "running" /\ ~calls[w].resume
      <4>1. /\ calls[w].next = checkpoint.next /\ calls[w].chan = checkpoint.chan
            /\ checkpoint.by = w
        BY <3>1 DEF SerialInv
      <4>2. checkpoint.next \in Gates => cut' = StoppedAt'
        BY <1>5, <3>1, <4>1, <2>1 DEF Fail, AtGate, StoppedAt
      <4>. QED
        BY <4>2, <2>1 DEF Settled
    <3>2. CASE ~ (calls[w].phase = "running" /\ ~calls[w].resume)
      <4>1. cut' = cut
        BY <1>5, <3>2 DEF Fail
      <4>. QED
        BY <4>1, <2>1, <3>2, <1>0, <1>a
    <3>. QED
      BY <3>1, <3>2
  <2>. QED
    BY <2>1, <2>2, IdleCallOK, SerialCall
<1>6. CASE Interrupt(w)
  <2>1. checkpoint.by = w
    BY <1>6 DEF Interrupt, SerialInv
  <2>2. /\ checkpoint'.next = checkpoint.next /\ checkpoint'.chan = checkpoint.chan
        /\ checkpoint'.by = checkpoint.by /\ checkpoint'.waiting
        /\ calls' = [calls EXCEPT ![w] = IdleCall] /\ UNCHANGED answered
    BY <1>6, <1>0, <2>1 DEF Interrupt, Checkpoint
  <2>3. Settled'
    BY <2>2 DEF Settled
  <2>. QED
    BY <2>2, <2>3, IdleCallOK, SerialCall
<1>. QED
  BY <1>1, <1>2, <1>3, <1>4, <1>5, <1>6

\* What a gate consumes while calls come one at a time was sent while it was
\* pending, or it had been cut.
LEMMA SerialAnswer ==
    ASSUME OneAtATime, IInv, SerialInv, NEW w \in Workers,
           calls[w].phase = "running", calls[w].next \in Gates, calls[w].resume,
           Answered(w)
    PROVE  /\ OnlyOwnDecisions'
           /\ answered'.at = StoppedAt
           /\ answered'.at = [gate |-> calls[w].next, of |-> calls[w].chan.brief]
<1>1. /\ calls[w].next = checkpoint.next /\ calls[w].chan = checkpoint.chan
      /\ calls[w].seen = PendingGate /\ Settled
  BY DEF SerialInv
<1>2. AtGate(w) = StoppedAt
  BY <1>1 DEF AtGate, StoppedAt
<1>3. /\ answered'.seen = PendingGate /\ answered'.at = StoppedAt
      /\ answered'.cut = (PendingGate = NoGate /\ cut = StoppedAt)
  BY <1>1, <1>2 DEF Answered
<1>4. CASE checkpoint.waiting
  BY <1>1, <1>2, <1>3, <1>4 DEF OnlyOwnDecisions, PendingGate, StoppedAt, AtGate
<1>5. CASE ~checkpoint.waiting
  BY <1>1, <1>2, <1>3, <1>5 DEF OnlyOwnDecisions, PendingGate, Settled, AtGate
<1>. QED
  BY <1>2, <1>3, <1>4, <1>5 DEF AtGate

LEMMA SerialNodeOK ==
    ASSUME OneAtATime, IInv, SerialInv, NEW w \in Workers,
           \/ ClassifierAgent(w) \/ StructureAgent(w) \/ HumanGateStructure(w)
           \/ EstimateTaskHours(w) \/ RecoverAndHandover(w) \/ AnalysisAgent(w)
           \/ HumanGateAnalysis(w) \/ ProposalAgent(w)
    PROVE  SerialInv'
<1>0. answered' = answered => OnlyOwnDecisions'
  BY DEF SerialInv, OnlyOwnDecisions
<1>1. CASE \/ ClassifierAgent(w) \/ StructureAgent(w) \/ EstimateTaskHours(w)
           \/ RecoverAndHandover(w) \/ AnalysisAgent(w)
  <2>1. \/ \E chan : Save(w, "structure", chan)
        \/ \E chan : Save(w, "gate1", chan)
        \/ \E chan : Save(w, "recover", chan)
        \/ \E chan : Save(w, "analysis", chan)
        \/ \E chan : Save(w, "gate2", chan)
    BY <1>1 DEF ClassifierAgent, StructureAgent, EstimateTaskHours,
                RecoverAndHandover, AnalysisAgent
  <2>2. calls[w].phase = "running" /\ answered' = answered
    BY <1>1 DEF ClassifierAgent, StructureAgent, EstimateTaskHours,
                RecoverAndHandover, AnalysisAgent, Running
  <2>. QED
    BY <2>1, <2>2, <1>0, SerialSave
<1>2. CASE HumanGateStructure(w)
  <2>1. /\ calls[w].phase = "running" /\ calls[w].next \in Gates
        /\ calls[w].resume /\ Answered(w)
    BY <1>2 DEF HumanGateStructure, Running, Gates
  <2>2. PICK node, chan : node \in {"recover", "hours"} /\ Save(w, node, chan)
    BY <1>2 DEF HumanGateStructure, FanOutHours
  <2>. QED
    BY <2>1, <2>2, SerialAnswer, SerialSave
<1>3. CASE HumanGateAnalysis(w)
  <2> DEFINE old == calls[w].chan
             d == calls[w].decision
             est == WithTotals(Override(old.estimate, d.edit, old.brief))
             status == IF d.validated THEN "validated" ELSE "needs_review"
             node == IF ProposalEnabled /\ d.want THEN "proposal" ELSE "end"
             new == [old EXCEPT !.estimate = est, !.status = status]
  <2>1. /\ calls[w].phase = "running" /\ calls[w].next = "gate2"
        /\ calls[w].resume /\ Answered(w) /\ Save(w, node, new)
    BY <1>3 DEF HumanGateAnalysis, Running
  <2> HIDE DEF est, status, node
  <2>2. old \in Channels
    BY <2>1, RunningFacts
  <2>3. new.brief = old.brief
    BY <2>2 DEF Channels
  <2> HIDE DEF new
  <2>. QED
    BY <2>1, <2>3, SerialAnswer, SerialSave DEF Gates
<1>4. CASE ProposalAgent(w)
  <2> DEFINE old == calls[w].chan
             new == [old EXCEPT !.proposal = old.brief]
  <2>1. /\ calls[w].phase = "running" /\ calls[w].next = "proposal"
        /\ answered' = answered /\ Save(w, "end", new)
    BY <1>4 DEF ProposalAgent, Running
  <2>2. old \in Channels
    BY <2>1, RunningFacts
  <2>3. new.brief = old.brief
    BY <2>2 DEF Channels
  <2> HIDE DEF new
  <2>4. answered.at = [gate |-> "gate2", of |-> old.brief]
    BY <2>1 DEF SerialInv, FinalReview
  <2>. QED
    BY <2>1, <2>3, <2>4, <1>0, SerialSave
<1>. QED
  BY <1>1, <1>2, <1>3, <1>4

LEMMA SerialNextOK ==
    ASSUME OneAtATime
    PROVE  IInv /\ SerialInv /\ [Next]_vars => SerialInv'
<1> SUFFICES ASSUME IInv, SerialInv, [Next]_vars PROVE SerialInv'
  OBVIOUS
<1>1. CASE GraphProposal \/ UNCHANGED vars
  BY <1>1 DEF GraphProposal, vars, SerialInv, OnlyOwnDecisions, FinalReview,
              StoppedAt, PendingGate, Settled, NoGate
<1>. QED
  BY <1>1, SerialStepOK, SerialNodeOK DEF Next

THEOREM SerialInvariant ==
    ASSUME OneAtATime
    PROVE  Spec => [](IInv /\ SerialInv)
<1>1. Init => IInv /\ SerialInv
  BY InitiallyOK, SerialInitially
<1>2. IInv /\ SerialInv /\ [Next]_vars => (IInv /\ SerialInv)'
  BY NextOK, SerialNextOK
<1>. QED
  BY <1>1, <1>2, PTL DEF Spec

(* While calls come one at a time a gate consumes only the decisions sent  *)
(* while it was pending, however many legs fail and starts are made in     *)
(* between, unless the leg that reached it died before its interrupt.      *)
THEOREM OnlyOwnDecisionsHolds ==
    ASSUME OneAtATime
    PROVE  Spec => []OnlyOwnDecisions
<1>1. SerialInv => OnlyOwnDecisions
  BY DEF SerialInv
<1>. QED
  BY <1>1, SerialInvariant, PTL

(* While calls come one at a time a run is finished only by a decision its *)
(* own final review consumed, sent by a human who was shown that review    *)
(* unless the leg that reached it died before its interrupt.               *)
THEOREM RunsEndReviewedHolds ==
    ASSUME OneAtATime
    PROVE  Spec => []RunsEndReviewed
<1>1. SerialInv => RunsEndReviewed
  BY DEF SerialInv, OnlyOwnDecisions, RunsEndReviewed, FinalReview
<1>. QED
  BY <1>1, SerialInvariant, PTL

(* While calls come one at a time a pending gate goes away only when it is *)
(* answered or the run is started again (interrupt(), the checkpointer).   *)
THEOREM PendingGateStaysHolds ==
    ASSUME OneAtATime
    PROVE  Spec => PendingGateStays
<1> DEFINE Kept == checkpoint.waiting /\ ~checkpoint'.waiting =>
                      \/ checkpoint'.next = "classifier"
                      \/ answered'.at = PendingGate
<1>1. IInv /\ SerialInv /\ [Next]_vars => [Kept]_vars
  <2> SUFFICES ASSUME IInv, SerialInv, [Next]_vars,
                      checkpoint.waiting, ~checkpoint'.waiting
               PROVE  \/ checkpoint'.next = "classifier"
                      \/ answered'.at = PendingGate
    OBVIOUS
  <2>1. checkpoint \in Checkpoint /\ checkpoint.next \in Gates
    BY InvariantParts DEF CheckpointOK
  <2>2. PendingGate = StoppedAt
    BY <2>1 DEF PendingGate, StoppedAt
  <2>3. checkpoint' # checkpoint
    OBVIOUS
  <2>4. ASSUME NEW w \in Workers, Interrupt(w) PROVE FALSE
    BY <2>1, <2>4 DEF Interrupt, Checkpoint
  <2>5. ASSUME NEW w \in Workers, LaunchStart(w)
        PROVE  checkpoint'.next = "classifier"
    BY <2>5 DEF LaunchStart
\* A node that is not a gate has nobody waiting at it.
  <2>6. ASSUME NEW w \in Workers,
               \/ ClassifierAgent(w) \/ StructureAgent(w) \/ EstimateTaskHours(w)
               \/ RecoverAndHandover(w) \/ AnalysisAgent(w) \/ ProposalAgent(w)
        PROVE  FALSE
    <3>1. /\ calls[w].phase = "running"
          /\ calls[w].next \in {"classifier", "structure", "hours", "recover",
                                 "analysis", "proposal"}
      BY <2>6 DEF ClassifierAgent, StructureAgent, EstimateTaskHours,
                  RecoverAndHandover, AnalysisAgent, ProposalAgent, Running
    <3>. QED
      BY <3>1, <2>1 DEF SerialInv, Gates
  <2>7. ASSUME NEW w \in Workers, HumanGateStructure(w) \/ HumanGateAnalysis(w)
        PROVE  answered'.at = PendingGate
    <3>1. /\ calls[w].phase = "running" /\ calls[w].next \in Gates
          /\ calls[w].resume /\ Answered(w)
      BY <2>7 DEF HumanGateStructure, HumanGateAnalysis, Running, Gates
    <3>. QED
      BY <3>1, <2>2, SerialAnswer
  <2>8. ASSUME NEW w \in Workers,
               Start(w) \/ Resume(w) \/ LaunchResume(w) \/ Fail(w)
        PROVE  FALSE
    BY <2>3, <2>8 DEF Start, Resume, LaunchResume, Fail
  <2>9. ~ GraphProposal /\ ~ UNCHANGED vars
    BY <2>3 DEF GraphProposal, vars
  <2>. QED
    BY <2>4, <2>5, <2>6, <2>7, <2>8, <2>9 DEF Next
<1>. QED
  BY <1>1, SerialInvariant, PTL DEF Spec, PendingGateStays
============================================================================
