-------------------------- MODULE ActorCriticBoss --------------------------
(***************************************************************************)
(* One run of the Actor-Critic-Boss loop (app/guardrails/acb/): the actor  *)
(* writes an estimate, the critic lists its issues, the boss decides to    *)
(* accept it, to have it revised, or to write the final one itself         *)
(* (synthesize); policy.py clamps what the boss decides.                   *)
(*                                                                         *)
(* The three roles are calls to a language model: each answers anything    *)
(* its schema allows, or nothing it allows.  Issues are told apart by      *)
(* whether one of them is of a blocking severity, and an estimate by the   *)
(* pass that wrote it and the instructions its prompt carried.             *)
(*                                                                         *)
(*   settings      what the run was started with; it never changes         *)
(*   phase         the call the run waits for, or how it ended             *)
(*   instructions  revision_instructions: what the next actor pass is given*)
(*   candidate     the estimate the last actor pass of the loop wrote      *)
(*   feedback      the critic's issues with it                             *)
(*   rounds        one record per boss decision (the trace's iterations),  *)
(*                 with the decision as the boss gave it                   *)
(*   passes        history variable: the actor passes that gave an estimate*)
(*   outcome       the final path and the estimate returned                *)
(***************************************************************************)
EXTENDS Integers, Sequences

CONSTANTS
    IterationLimit,  \* the greatest ACB_MAX_ITERATIONS the settings allow
    Nothing          \* no outcome yet

ASSUME IterationsAssumption == IterationLimit \in Nat \ {0}

VARIABLES settings, phase, iteration, instructions, candidate, feedback,
          rounds, passes, outcome

vars == <<settings, phase, iteration, instructions, candidate, feedback,
          rounds, passes, outcome>>

(* messages: the caller gives the whole chat transcript to be sent         *)
(* (messages_override), as the session endpoint does.                      *)
Settings == [max : 1 .. IterationLimit, synthesize : BOOLEAN, messages : BOOLEAN]

Issues == {"none", "minor", "blocking"}
Actions == {"accept", "revise", "synthesize"}
Guidance == {"none", "blank", "text"}   \* None, whitespace only, text

\* What _run_boss returns: any decision of the schema, the one that stands for
\* a boss that cannot be parsed (accept, without guidance) among them.
BossDecision == [action : Actions, guidance : Guidance]

\* revision_instructions and the round whose boss wrote them, 0 at first.
Instructions == [guidance : Guidance, of : 0 .. IterationLimit]

\* told: the round whose instructions the actor's prompt carried, 0 for none.
Candidate == [pass : 0 .. IterationLimit + 1, told : 0 .. IterationLimit]

Round == [candidate : Candidate, issues : Issues, asked : BossDecision,
          decided : BossDecision]

Paths == {"accept", "synthesize", "revise_exhausted_synthesize",
          "accept_on_budget_exhausted", "accept_fallback"}

Outcome == [path : Paths, by : {"actor", "boss"}, estimate : Candidate]

-----------------------------------------------------------------------------
(* policy.py                                                               *)

HasBlocking(issues) == issues = "blocking"

BudgetExhausted(i) == i >= settings.max

\* Without synthesis the hint is to accept, whatever budget is left.
SuggestWithoutRevision(i, issues) ==
    IF HasBlocking(issues) /\ settings.synthesize THEN "synthesize" ELSE "accept"

SuggestBossAction(i, issues) ==
    IF ~HasBlocking(issues) THEN "accept"
    ELSE IF ~BudgetExhausted(i) THEN "revise"
    ELSE IF settings.synthesize THEN "synthesize"
    ELSE "accept"

WithAction(d, action) == [action |-> action, guidance |-> d.guidance]
Instead(action) == [action |-> action, guidance |-> "none"]

(* The clamps, in the order the code tries them.  Only the first two drop  *)
(* the instructions, and a synthesis turned into a revision may have none. *)
NormalizeBossDecision(d, i, issues) ==
    IF d.action = "revise" /\ BudgetExhausted(i)
      THEN Instead(IF settings.synthesize THEN "synthesize" ELSE "accept")
    ELSE IF d.action = "revise" /\ ~HasBlocking(issues)
      THEN Instead("accept")
    ELSE IF d.action = "synthesize" /\ ~settings.synthesize
      THEN WithAction(d, SuggestBossAction(i, issues))
    ELSE IF d.action = "revise" /\ d.guidance = "none"
      THEN WithAction(d, "accept")
    ELSE d

ShouldContinue(d, i) == d.action = "revise" /\ i < settings.max

(* The actor's system prompt carries instructions that are more than white *)
(* space, but a transcript given by the caller is sent in its place.       *)
Told(given) ==
    IF given.guidance = "text" /\ ~settings.messages THEN given.of ELSE 0

ActorPass(given) == [pass |-> passes + 1, told |-> Told(given)]

NoInstructions == [guidance |-> "none", of |-> 0]

-----------------------------------------------------------------------------
Init ==
    /\ settings \in Settings
    /\ phase = "actor"
    /\ iteration = 1
    /\ instructions = NoInstructions
    /\ candidate = [pass |-> 0, told |-> 0]
    /\ feedback = "none"
    /\ rounds = <<>>
    /\ passes = 0
    /\ outcome = Nothing

Finish(path, by, estimate) ==
    /\ phase' = "done"
    /\ outcome' = [path |-> path, by |-> by, estimate |-> estimate]

\* The provider gave no estimate in any attempt: the whole run is an error.
ActorFails ==
    /\ phase \in {"actor", "rerun"}
    /\ phase' = "failed"
    /\ UNCHANGED <<settings, iteration, instructions, candidate, feedback,
                   rounds, passes, outcome>>

RunActor ==
    /\ phase = "actor"
    /\ candidate' = ActorPass(instructions)
    /\ passes' = passes + 1
    /\ phase' = "critic"
    /\ UNCHANGED <<settings, iteration, instructions, feedback, rounds, outcome>>

\* A critic that cannot be parsed counts as one without issues.
RunCritic ==
    /\ phase = "critic"
    /\ feedback' \in Issues
    /\ phase' = "boss"
    /\ UNCHANGED <<settings, iteration, instructions, candidate, rounds,
                   passes, outcome>>

\* A revision without instructions keeps the previous ones.
FollowKeepingInstructions(d) ==
    \/ /\ d.action = "accept"
       /\ Finish("accept", "actor", candidate)
       /\ UNCHANGED <<iteration, instructions>>
    \/ /\ d.action = "synthesize"
       /\ phase' = "synthesize"
       /\ UNCHANGED <<iteration, instructions, outcome>>
    \/ /\ d.action = "revise"
       /\ instructions' = IF d.guidance = "none" THEN instructions
                          ELSE [guidance |-> d.guidance, of |-> iteration]
       /\ phase' = "actor"
       /\ iteration' = iteration + 1
       /\ UNCHANGED outcome

(* What the loop does with the normalized decision d, up to the next call. *)
Follow(d) ==
    \/ /\ d.action = "accept"
       /\ Finish("accept", "actor", candidate)
       /\ UNCHANGED <<iteration, instructions>>
    \/ /\ d.action = "synthesize"
       /\ phase' = "synthesize"
       /\ UNCHANGED <<iteration, instructions, outcome>>
    \/ /\ d.action = "revise"
       /\ instructions' = [guidance |-> d.guidance, of |-> iteration]
       /\ IF ~ShouldContinue(d, iteration)
            THEN /\ Finish("accept_on_budget_exhausted", "actor", candidate)
                 /\ UNCHANGED iteration
            ELSE IF iteration = settings.max
            THEN /\ Finish("accept_fallback", "actor", candidate)
                 /\ UNCHANGED iteration
            ELSE /\ phase' = "actor"
                 /\ iteration' = iteration + 1
                 /\ UNCHANGED outcome

\* A boss that cannot be parsed counts as one that accepts.
RunBoss ==
    /\ phase = "boss"
    /\ \E asked \in BossDecision :
         LET decided == NormalizeBossDecision(asked, iteration, feedback) IN
         /\ rounds' = Append(rounds, [candidate |-> candidate,
                                 issues |-> feedback,
                                 asked |-> asked, decided |-> decided])
         /\ Follow(decided)
    /\ UNCHANGED <<settings, candidate, feedback, passes>>

SynthesisPath ==
    IF iteration < settings.max THEN "synthesize" ELSE "revise_exhausted_synthesize"

SynthesisAnswers ==
    /\ phase = "synthesize"
    /\ Finish(SynthesisPath, "boss", candidate)
    /\ UNCHANGED <<settings, iteration, instructions, candidate, feedback,
                   rounds, passes>>

\* The fallback is a fresh actor pass without instructions, its error the run's.
SynthesisFails ==
    /\ phase = "synthesize"
    /\ phase' = "rerun"
    /\ UNCHANGED <<settings, iteration, instructions, candidate, feedback,
                   rounds, passes, outcome>>

\* The synthesis is tried until it answers.
RerunSynthesis ==
    /\ phase = "rerun"
    /\ phase' = "synthesize"
    /\ UNCHANGED <<settings, iteration, instructions, candidate, feedback,
                   rounds, passes, outcome>>

Rerun ==
    /\ phase = "rerun"
    /\ Finish(SynthesisPath, "actor", ActorPass(NoInstructions))
    /\ passes' = passes + 1
    /\ UNCHANGED <<settings, iteration, instructions, candidate, feedback, rounds>>

Next ==
    \/ ActorFails
    \/ RunActor
    \/ RunCritic
    \/ RunBoss
    \/ SynthesisAnswers
    \/ SynthesisFails
    \/ Rerun

(* Every call has a timeout and a fixed number of attempts, so it returns. *)
Spec == Init /\ [][Next]_vars /\ WF_vars(Next)

-----------------------------------------------------------------------------
(* Correctness                                                             *)

\* Every variable holds a value of its kind, the iteration within the budget.
TypeOK ==
    /\ settings \in Settings
    /\ phase \in {"actor", "critic", "boss", "synthesize", "rerun", "done", "failed"}
    /\ iteration \in 1 .. settings.max
    /\ instructions \in Instructions
    /\ candidate \in Candidate
    /\ feedback \in Issues
    /\ rounds \in Seq(Round)
    /\ passes \in 0 .. IterationLimit + 1
    /\ outcome \in Outcome \cup {Nothing}

Last == rounds[Len(rounds)]

\* The loop never runs out of iterations with a revision still pending: the
\* clamps of policy.py leave its two ways out of that unused, so every run
\* ends by a decision and what is returned is what that decision was about.
EndsByDecision ==
    phase = "done" =>
      /\ outcome.path \in {"accept", "synthesize", "revise_exhausted_synthesize"}
      /\ (outcome.path = "accept") = (Last.decided.action = "accept")
      /\ outcome.path = "accept" => outcome.estimate = Last.candidate

\* However the boss decides, the actor runs once per round, within the
\* budget; one pass more is spent only when a synthesis gave no estimate.
PassesWithinBudget ==
    /\ passes <= Len(rounds) + 1
    /\ passes > settings.max =>
         phase = "done" /\ outcome.by = "actor" /\ outcome.path # "accept"

\* An estimate is only revised for a blocking issue: a boss that keeps asking
\* for revisions of a sound one, or for a synthesis that is switched off, does
\* not burn the budget.
RevisionsHaveCause ==
    \A k \in 1 .. Len(rounds) : rounds[k].decided.action = "revise" =>
        rounds[k].issues = "blocking" /\ k < settings.max

\* The clamps never wave a blocking issue through while something can still
\* be done about it: an estimate with one is returned as it is only if the
\* boss accepted it, or asked for a revision and did not say of what, or
\* there is neither an iteration left nor leave to synthesize.
BlockingIssuesHandled ==
    (phase = "done" /\ outcome.path = "accept" /\ Last.issues = "blocking") =>
      \/ Last.asked.action = "accept"
      \/ Last.asked = [action |-> "revise", guidance |-> "none"]
      \/ Len(rounds) = settings.max /\ ~settings.synthesize

\* When the prompts are the pipeline's own, the pass after a revision is told
\* the instructions of the boss that asked for it, and never those of an
\* earlier round, also when that boss gave none.
ToldByLatestBoss ==
    ~settings.messages =>
      \A k \in 2 .. Len(rounds) :
        rounds[k].candidate.told =
          IF rounds[k - 1].decided.guidance = "text" THEN k - 1 ELSE 0

\* Every run ends, whatever the boss answers and whichever calls fail.
Terminates == <>(phase \in {"done", "failed"})

(* What the documents say and the code does not do.                        *)

\* feature-026, AC-09: the pass after a revision carries the boss's
\* instructions.  It does not when the caller gave the chat transcript.
RevisionsReachActor ==
    \A k \in 2 .. Len(rounds) :
      rounds[k - 1].decided.guidance = "text" => rounds[k].candidate.told = k - 1

\* feature-026, 10: when a synthesis gives no valid estimate, the actor's last
\* one is returned.  The code asks the actor for another one, which nobody
\* has reviewed.
FailedSynthesisReturnsCandidate ==
    phase = "done" => outcome.estimate = Last.candidate

=============================================================================
