----------------------- MODULE ActorCriticBossProofs -----------------------
(***************************************************************************)
(* The safety of the Actor-Critic-Boss loop, for any limit on the number   *)
(* of iterations.  IInv adds to the properties what they rest on: every    *)
(* round holds a decision the clamps let through, the rounds and the       *)
(* passes are counted by the iteration, and the instructions are those of  *)
(* the round before.                                                       *)
(***************************************************************************)
EXTENDS ActorCriticBoss, TLAPS

InLoop == phase \in {"actor", "critic", "boss"}
Synthesizing == phase \in {"synthesize", "rerun"}

\* How many rounds and passes there have been, by the point of the run.
Counted ==
    /\ InLoop => Len(rounds) = iteration - 1 /\ outcome = Nothing
    /\ Synthesizing \/ phase = "done" => Len(rounds) = iteration
    /\ phase = "failed" => passes = Len(rounds) /\ passes <= iteration
    /\ phase = "actor" => passes = iteration - 1
    /\ phase \in {"critic", "boss", "synthesize", "rerun"} => passes = iteration
    /\ phase = "done" =>
         \/ passes = iteration
         \/ passes = iteration + 1 /\ outcome.by = "actor" /\ outcome.path # "accept"

\* Every recorded decision is the boss's own, clamped for its round.
Clamped ==
    \A k \in 1 .. Len(rounds) :
      rounds[k].decided = NormalizeBossDecision(rounds[k].asked, k, rounds[k].issues)

\* The synthesis under way was decided in the last round, and a finished run
\* ended as that round decided.
Decided ==
    /\ Synthesizing => Last.decided.action = "synthesize"
    /\ phase = "done" =>
         \/ /\ Last.decided.action = "accept"
            /\ outcome.path = "accept"
            /\ outcome.estimate = Last.candidate
         \/ /\ Last.decided.action = "synthesize"
            /\ outcome.path \in {"synthesize", "revise_exhausted_synthesize"}

\* The loop's instructions are those of the round before, its candidate was
\* written with them, and so were those of all earlier rounds.
Instructed ==
    /\ InLoop => instructions =
         IF iteration = 1 THEN NoInstructions
         ELSE [guidance |-> rounds[iteration - 1].decided.guidance,
               of |-> iteration - 1]
    /\ phase \in {"critic", "boss"} => candidate.told = Told(instructions)
    /\ ToldByLatestBoss

IInv == TypeOK /\ Counted /\ Clamped /\ Decided /\ Instructed

-----------------------------------------------------------------------------
\* What the clamps return: a decision, a revision only of a blocking issue
\* and with an iteration left, a synthesis only when it is allowed or the
\* boss, within the policy, asked for it.
LEMMA ClampResult ==
    ASSUME TypeOK, NEW d \in BossDecision, NEW i \in Nat, NEW f \in Issues
    PROVE  LET n == NormalizeBossDecision(d, i, f) IN
           /\ n \in BossDecision
           /\ n.action = "revise" => f = "blocking" /\ i < settings.max
           /\ n.action = "accept" /\ f = "blocking" =>
                \/ d.action = "accept"
                \/ d = [action |-> "revise", guidance |-> "none"]
                \/ i >= settings.max /\ ~settings.synthesize
<1> DEFINE n == NormalizeBossDecision(d, i, f)
<1> USE IterationsAssumption
<1>1. /\ settings.max \in Nat /\ settings.synthesize \in BOOLEAN
      /\ d.action \in Actions /\ d.guidance \in Guidance
  BY DEF TypeOK, Settings, BossDecision
<1>2. d = [action |-> d.action, guidance |-> d.guidance]
  BY DEF BossDecision
<1>3. SuggestBossAction(i, f) \in Actions
  BY <1>1 DEF SuggestBossAction, HasBlocking, BudgetExhausted, Actions, Issues
<1>4. CASE d.action = "revise" /\ i >= settings.max
  <2>1. n = Instead(IF settings.synthesize THEN "synthesize" ELSE "accept")
    BY <1>4 DEF NormalizeBossDecision, BudgetExhausted
  <2> QED BY <1>1, <1>4, <2>1 DEF Instead, BossDecision, Actions, Guidance
<1>5. CASE d.action = "revise" /\ ~(i >= settings.max) /\ f # "blocking"
  <2>1. n = Instead("accept")
    BY <1>5 DEF NormalizeBossDecision, BudgetExhausted, HasBlocking
  <2> QED BY <1>5, <2>1 DEF Instead, BossDecision, Actions, Guidance
<1>6. CASE d.action = "synthesize" /\ ~settings.synthesize
  <2>1. n = WithAction(d, SuggestBossAction(i, f))
    BY <1>6 DEF NormalizeBossDecision
  <2>2. n.action = SuggestBossAction(i, f) /\ n \in BossDecision
    BY <1>1, <1>3, <2>1 DEF BossDecision, WithAction
  <2>3. SuggestBossAction(i, f) = "revise" => f = "blocking" /\ i < settings.max
    BY <1>1, <1>6 DEF SuggestBossAction, HasBlocking, BudgetExhausted, Issues
  <2>4. SuggestBossAction(i, f) = "accept" /\ f = "blocking" => i >= settings.max
    BY <1>1, <1>6 DEF SuggestBossAction, HasBlocking, BudgetExhausted, Issues
  <2> QED BY <1>6, <2>2, <2>3, <2>4
<1>7. CASE d.action = "revise" /\ ~(i >= settings.max) /\ f = "blocking"
           /\ d.guidance = "none"
  <2>1. n = WithAction(d, "accept")
    BY <1>7 DEF NormalizeBossDecision, BudgetExhausted, HasBlocking
  <2>2. n.action = "accept" /\ n \in BossDecision
    BY <1>1, <2>1 DEF BossDecision, Actions, WithAction
  <2> QED BY <1>2, <1>7, <2>2
<1>8. CASE \/ d.action = "accept"
           \/ d.action = "synthesize" /\ settings.synthesize
           \/ d.action = "revise" /\ ~(i >= settings.max) /\ f = "blocking"
              /\ d.guidance # "none"
  <2>1. n = d
    BY <1>8 DEF NormalizeBossDecision, BudgetExhausted, HasBlocking
  <2> QED BY <1>1, <1>8, <2>1
<1> QED BY <1>1, <1>4, <1>5, <1>6, <1>7, <1>8 DEF Actions

\* The numbers a round record refers to are within its types.
LEMMA CandidateType ==
    ASSUME TypeOK, passes <= IterationLimit, NEW given \in Instructions
    PROVE  ActorPass(given) \in Candidate
BY IterationsAssumption DEF TypeOK, ActorPass, Told, Candidate, Instructions, Settings

-----------------------------------------------------------------------------
\* The run starts in iteration 1 with no rounds, passes or instructions.
LEMMA InitEstablishes == Init => IInv
<1> SUFFICES ASSUME Init PROVE IInv
  OBVIOUS
<1> USE IterationsAssumption DEF Init
<1>1. TypeOK
  <2>1. settings.max \in 1 .. IterationLimit
    BY DEF Settings
  <2>2. candidate \in Candidate /\ instructions \in Instructions
    BY DEF Candidate, Instructions, NoInstructions, Guidance
  <2>3. rounds \in Seq(Round)
    OBVIOUS
  <2> QED BY <2>1, <2>2, <2>3 DEF TypeOK, Issues
<1>2. Counted /\ Clamped /\ Decided /\ Instructed
  BY DEF Counted, Clamped, Decided, Instructed, InLoop, Synthesizing,
         ToldByLatestBoss
<1> QED BY <1>1, <1>2 DEF IInv

\* An actor pass of the loop is given the instructions of the round before.
LEMMA ActorStep == IInv /\ RunActor => IInv'
<1> SUFFICES ASSUME IInv, RunActor PROVE IInv'
  OBVIOUS
<1> USE IterationsAssumption DEF IInv, RunActor
<1>1. passes = iteration - 1 /\ iteration <= settings.max
      /\ settings.max \in 1 .. IterationLimit /\ iteration \in Int
  BY DEF Counted, TypeOK, Settings
<1>2. TypeOK'
  <2>1. candidate' \in Candidate
    BY <1>1, CandidateType DEF TypeOK
  <2> QED BY <1>1, <2>1 DEF TypeOK
<1>3. Counted'
  BY <1>1 DEF Counted, InLoop, Synthesizing
<1>4. Clamped' /\ Decided'
  BY DEF Clamped, Decided, Synthesizing, Last, NormalizeBossDecision,
         BudgetExhausted, HasBlocking, SuggestBossAction, Instead
<1>5. Instructed'
  <2>1. candidate'.told = Told(instructions)'
    BY DEF ActorPass, Told
  <2>2. ToldByLatestBoss'
    BY DEF Instructed, ToldByLatestBoss
  <2> QED BY <2>1, <2>2 DEF Instructed, InLoop
<1> QED BY <1>2, <1>3, <1>4, <1>5

\* The critic touches nothing but the issues.
LEMMA CriticStep == IInv /\ RunCritic => IInv'
<1> SUFFICES ASSUME IInv, RunCritic PROVE IInv'
  OBVIOUS
<1> USE DEF IInv, RunCritic
<1>1. TypeOK' /\ Counted'
  BY DEF TypeOK, Counted, InLoop, Synthesizing
<1>2. Clamped' /\ Decided'
  BY DEF Clamped, Decided, Synthesizing, Last, NormalizeBossDecision,
         BudgetExhausted, HasBlocking, SuggestBossAction, Instead
<1>3. Instructed'
  BY DEF Instructed, InLoop, ToldByLatestBoss, Told
<1> QED BY <1>1, <1>2, <1>3

\* The boss's round is recorded as it was clamped, and the loop goes where
\* that decision says.
LEMMA BossStep == IInv /\ RunBoss => IInv'
<1> SUFFICES ASSUME IInv, RunBoss PROVE IInv'
  OBVIOUS
<1> USE IterationsAssumption DEF IInv
<1>1. PICK asked \in BossDecision :
        LET decided == NormalizeBossDecision(asked, iteration, feedback) IN
        /\ rounds' = Append(rounds, [candidate |-> candidate,
                                     issues |-> feedback,
                                     asked |-> asked, decided |-> decided])
        /\ Follow(decided)
  BY DEF RunBoss
<1> DEFINE decided == NormalizeBossDecision(asked, iteration, feedback)
           round == [candidate |-> candidate, issues |-> feedback,
                     asked |-> asked, decided |-> decided]
<1>2. /\ phase = "boss" /\ settings' = settings /\ passes' = passes
      /\ candidate' = candidate /\ feedback' = feedback
  BY DEF RunBoss
<1>3. /\ settings \in Settings /\ settings.max \in 1 .. IterationLimit
      /\ iteration \in 1 .. settings.max /\ feedback \in Issues
      /\ candidate \in Candidate
      /\ rounds \in Seq(Round) /\ Len(rounds) = iteration - 1
      /\ passes = iteration /\ outcome = Nothing
  BY <1>2 DEF TypeOK, Counted, Settings, InLoop
<1>4. /\ decided \in BossDecision
      /\ decided.action = "revise" => iteration < settings.max
  BY <1>3, ClampResult
<1>5. round \in Round
  BY <1>3, <1>4 DEF Round
<1>6. /\ rounds' \in Seq(Round) /\ Len(rounds') = iteration
      /\ \A k \in 1 .. iteration - 1 : rounds'[k] = rounds[k]
      /\ rounds'[iteration] = round
  <2>1. rounds' = Append(rounds, round)
    BY <1>1
  <2> HIDE DEF round
  <2> QED BY <1>3, <1>5, <2>1
<1>7. \/ /\ decided.action = "accept"
         /\ phase' = "done"
         /\ outcome' = [path |-> "accept", by |-> "actor", estimate |-> candidate]
         /\ UNCHANGED <<iteration, instructions>>
      \/ /\ decided.action = "synthesize"
         /\ phase' = "synthesize"
         /\ UNCHANGED <<iteration, instructions, outcome>>
      \/ /\ decided.action = "revise"
         /\ iteration < settings.max
         /\ phase' = "actor"
         /\ iteration' = iteration + 1
         /\ instructions' = [guidance |-> decided.guidance, of |-> iteration]
         /\ UNCHANGED outcome
  <2>1. Follow(decided)
    BY <1>1
  <2> HIDE DEF decided
  <2> QED BY <1>3, <1>4, <2>1 DEF Follow, Finish, ShouldContinue
<1>8. TypeOK'
  <2>1. decided.guidance \in Guidance
    BY <1>4 DEF BossDecision
  <2> HIDE DEF decided, round
  <2>2. instructions' \in Instructions
    BY <1>3, <1>7, <2>1 DEF TypeOK, Instructions
  <2>3. outcome' \in Outcome \cup {Nothing}
    BY <1>3, <1>7 DEF TypeOK, Outcome, Paths
  <2>4. iteration' \in 1 .. settings.max
    BY <1>3, <1>7
  <2>5. phase' \in {"actor", "synthesize", "done"}
    BY <1>7
  <2> QED BY <1>2, <1>3, <1>6, <2>2, <2>3, <2>4, <2>5 DEF TypeOK
<1>9. Counted'
  <2> HIDE DEF decided, round
  <2> QED BY <1>2, <1>3, <1>6, <1>7 DEF Counted, InLoop, Synthesizing
<1>10. Clamped'
  <2>1. \A d, i, f : NormalizeBossDecision(d, i, f)' = NormalizeBossDecision(d, i, f)
    BY <1>2 DEF NormalizeBossDecision, BudgetExhausted, HasBlocking,
                SuggestBossAction, Instead, WithAction
  <2> SUFFICES ASSUME NEW k \in 1 .. iteration
               PROVE  rounds'[k].decided =
                        NormalizeBossDecision(rounds'[k].asked, k, rounds'[k].issues)
    BY <1>6, <2>1 DEF Clamped
  <2>2. CASE k = iteration
    <3>1. rounds'[k] = round
      BY <1>6, <2>2
    <3> QED BY <2>2, <3>1
  <2>3. CASE k < iteration
    <3>1. k \in 1 .. Len(rounds) /\ rounds'[k] = rounds[k]
      BY <1>3, <1>6, <2>3
    <3> QED BY <3>1 DEF Clamped
  <2> QED BY <1>3, <2>2, <2>3
<1>11. Decided'
  <2>1. Last' = round /\ round.decided = decided /\ round.candidate = candidate
    BY <1>6 DEF Last
  <2> HIDE DEF decided, round
  <2> QED BY <1>7, <2>1 DEF Decided, Synthesizing
<1>12. Instructed'
  <2>1. round.decided = decided /\ round.candidate = candidate
    OBVIOUS
  <2> HIDE DEF decided, round
  <2>2. phase' = "actor" => instructions' =
          [guidance |-> rounds'[iteration' - 1].decided.guidance,
           of |-> iteration' - 1] /\ iteration' # 1
    BY <1>3, <1>6, <1>7, <2>1
  <2>3. ~settings.messages /\ iteration > 1 => candidate.told =
          IF rounds[iteration - 1].decided.guidance = "text" THEN iteration - 1 ELSE 0
    BY <1>2, <1>3 DEF Instructed, InLoop, Told
  <2>4. ToldByLatestBoss'
    <3> SUFFICES ASSUME ~settings.messages, NEW k \in 2 .. iteration
                 PROVE  rounds'[k].candidate.told =
                          IF rounds'[k - 1].decided.guidance = "text"
                          THEN k - 1 ELSE 0
      BY <1>2, <1>6 DEF ToldByLatestBoss
    <3>1. rounds'[k - 1] = rounds[k - 1]
      BY <1>3, <1>6
    <3>2. CASE k = iteration
      BY <1>6, <2>1, <2>3, <3>1, <3>2
    <3>3. CASE k < iteration
      <4>1. rounds'[k] = rounds[k] /\ k \in 2 .. Len(rounds)
        BY <1>3, <1>6, <3>3
      <4> QED BY <3>1, <4>1 DEF Instructed, ToldByLatestBoss
    <3> QED BY <1>3, <3>2, <3>3
  <2> QED BY <1>7, <2>2, <2>4 DEF Instructed, InLoop
<1> QED BY <1>8, <1>9, <1>10, <1>11, <1>12

\* The end of a run records how it ended and changes nothing of the rounds.
LEMMA OtherStep ==
    IInv /\ (ActorFails \/ SynthesisAnswers \/ SynthesisFails \/ Rerun) => IInv'
<1> SUFFICES ASSUME IInv, ActorFails \/ SynthesisAnswers \/ SynthesisFails \/ Rerun
             PROVE  IInv'
  OBVIOUS
<1> USE IterationsAssumption DEF IInv
<1>1. UNCHANGED <<settings, iteration, instructions, candidate, feedback, rounds>>
  BY DEF ActorFails, SynthesisAnswers, SynthesisFails, Rerun
<1>2. Clamped' /\ ToldByLatestBoss' /\ Last' = Last
  BY <1>1 DEF Clamped, NormalizeBossDecision, BudgetExhausted, HasBlocking,
              SuggestBossAction, Instead, WithAction, Instructed,
              ToldByLatestBoss, Last
<1>3. settings.max \in 1 .. IterationLimit /\ iteration \in 1 .. settings.max
  BY DEF TypeOK, Settings
<1>4. CASE ActorFails
  BY <1>1, <1>2, <1>3, <1>4 DEF ActorFails, TypeOK, Counted, Decided, Instructed,
       InLoop, Synthesizing
<1>5. CASE SynthesisFails
  BY <1>1, <1>2, <1>3, <1>5 DEF SynthesisFails, TypeOK, Counted, Decided,
       Instructed, InLoop, Synthesizing
<1>6. SynthesisPath \in {"synthesize", "revise_exhausted_synthesize"}
  BY DEF SynthesisPath
<1>7. CASE SynthesisAnswers
  <2>1. outcome' \in Outcome /\ outcome'.path = SynthesisPath /\ passes' = passes
        /\ phase = "synthesize" /\ phase' = "done"
    BY <1>6, <1>7 DEF SynthesisAnswers, Finish, Outcome, Paths, TypeOK
  <2> QED BY <1>1, <1>2, <1>3, <1>6, <2>1 DEF TypeOK, Counted, Decided, Instructed,
       InLoop, Synthesizing
<1>8. CASE Rerun
  <2>1. NoInstructions \in Instructions /\ passes = iteration
    BY <1>3, <1>8 DEF NoInstructions, Instructions, Guidance, Rerun, Counted
  <2>2. ActorPass(NoInstructions) \in Candidate
    BY <1>3, <2>1, CandidateType
  <2>3. /\ outcome' \in Outcome /\ outcome'.path = SynthesisPath
        /\ outcome'.by = "actor" /\ passes' = passes + 1
        /\ phase = "rerun" /\ phase' = "done"
    BY <1>6, <1>8, <2>2 DEF Rerun, Finish, Outcome, Paths
  <2> QED BY <1>1, <1>2, <1>3, <1>6, <2>1, <2>3 DEF TypeOK, Counted, Decided,
       Instructed, InLoop, Synthesizing
<1> QED BY <1>4, <1>5, <1>7, <1>8

\* IInv holds in every state of every run.
THEOREM Inductive == Spec => []IInv
<1>1. IInv /\ [Next]_vars => IInv'
  <2> SUFFICES ASSUME IInv, [Next]_vars PROVE IInv'
    OBVIOUS
  <2>1. CASE Next
    BY <2>1, ActorStep, CriticStep, BossStep, OtherStep DEF Next
  <2>2. CASE UNCHANGED vars
    BY <2>2 DEF vars, IInv, TypeOK, Counted, Clamped, Decided, Instructed,
         InLoop, Synthesizing, ToldByLatestBoss, Last, Told,
         NormalizeBossDecision, BudgetExhausted, HasBlocking,
         SuggestBossAction, Instead, WithAction
  <2> QED BY <2>1, <2>2
<1> QED BY InitEstablishes, <1>1, PTL DEF Spec

-----------------------------------------------------------------------------
\* Type correctness for any limit on the iterations.
THEOREM TypeCorrect == Spec => []TypeOK
<1>1. IInv => TypeOK
  BY DEF IInv
<1> QED BY Inductive, <1>1, PTL

\* No run leaves the loop with a revision pending: accept_fallback and
\* accept_on_budget_exhausted are never the path of a result.
THEOREM EndsByDecisionHolds == Spec => []EndsByDecision
<1>1. IInv => EndsByDecision
  BY DEF IInv, Decided, EndsByDecision
<1> QED BY Inductive, <1>1, PTL

\* The actor runs at most ACB_MAX_ITERATIONS times and once more only after
\* a failed synthesis.
THEOREM BudgetKept == Spec => []PassesWithinBudget
<1>1. IInv => PassesWithinBudget
  <2> SUFFICES ASSUME IInv PROVE PassesWithinBudget
    OBVIOUS
  <2>1. /\ settings.max \in Nat /\ iteration \in 1 .. settings.max
        /\ phase \in {"actor", "critic", "boss", "synthesize", "rerun", "done", "failed"}
        /\ Len(rounds) \in Nat
    BY IterationsAssumption DEF IInv, TypeOK, Settings
  <2> QED BY <2>1 DEF IInv, Counted, InLoop, Synthesizing, PassesWithinBudget
<1> QED BY Inductive, <1>1, PTL

\* Only an estimate with a blocking issue is revised, and only with an
\* iteration left to do it.
THEOREM CausesKept == Spec => []RevisionsHaveCause
<1>1. IInv => RevisionsHaveCause
  <2> SUFFICES ASSUME IInv, NEW k \in 1 .. Len(rounds),
                      rounds[k].decided.action = "revise"
               PROVE  rounds[k].issues = "blocking" /\ k < settings.max
    BY DEF RevisionsHaveCause
  <2>1. rounds[k] \in Round /\ k \in Nat /\ TypeOK
    BY DEF IInv, TypeOK
  <2>2. rounds[k].asked \in BossDecision /\ rounds[k].issues \in Issues
    BY <2>1 DEF Round
  <2>3. rounds[k].decided =
          NormalizeBossDecision(rounds[k].asked, k, rounds[k].issues)
    BY DEF IInv, Clamped
  <2> QED BY <2>1, <2>2, <2>3, ClampResult
<1> QED BY Inductive, <1>1, PTL

\* A blocking issue is only waved through when the boss or the exhausted
\* budget leaves nothing else.
THEOREM IssuesHandled == Spec => []BlockingIssuesHandled
<1>1. IInv => BlockingIssuesHandled
  <2> SUFFICES ASSUME IInv, phase = "done", outcome.path = "accept",
                      Last.issues = "blocking"
               PROVE  \/ Last.asked.action = "accept"
                      \/ Last.asked = [action |-> "revise", guidance |-> "none"]
                      \/ Len(rounds) = settings.max /\ ~settings.synthesize
    BY DEF BlockingIssuesHandled
  <2> DEFINE k == Len(rounds)
  <2>1. k = iteration /\ k \in 1 .. settings.max /\ settings.max \in Nat
    BY IterationsAssumption DEF IInv, Counted, TypeOK, Settings
  <2>2. rounds[k] \in Round /\ TypeOK
    BY <2>1 DEF IInv, TypeOK
  <2>3. rounds[k].asked \in BossDecision /\ rounds[k].issues \in Issues
    BY <2>2 DEF Round
  <2>4. /\ rounds[k].decided =
             NormalizeBossDecision(rounds[k].asked, k, rounds[k].issues)
        /\ rounds[k].decided.action = "accept"
    BY <2>1 DEF IInv, Clamped, Decided, Last
  <2> QED BY <2>1, <2>2, <2>3, <2>4, ClampResult DEF Last
<1> QED BY Inductive, <1>1, PTL

\* On the pipeline's own prompts a pass is told what the latest boss asked,
\* for any number of rounds.
THEOREM ToldCorrectly == Spec => []ToldByLatestBoss
<1>1. IInv => ToldByLatestBoss
  BY DEF IInv, Instructed
<1> QED BY Inductive, <1>1, PTL

=============================================================================
