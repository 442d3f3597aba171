------------------------- MODULE EstimationPipeline -------------------------
(***************************************************************************)
(* The guarded pipeline of a structured estimate                           *)
(* (app/guardrails/llm_pipeline.py) and the semantic cache it shares with  *)
(* the other calls, of this worker and of others                           *)
(* (app/services/semantic_cache/): input guardrails, preprocessing, cache  *)
(* lookup, model, output guardrails, cache write.                          *)
(*                                                                         *)
(* A call keeps the settings it was received under, also when a deployment *)
(* changes them while it runs.  The store is Redis, which outlives a       *)
(* deployment; the in-process store is the case in which the entries       *)
(* expire with it.  A text is told apart by how similar it is to others, an*)
(* estimate by the call that had it made and the output guardrails it      *)
(* fails.                                                                  *)
(*                                                                         *)
(*   settings  what a call received now runs under                         *)
(*   calls     request, settings and progress of every call                *)
(*   entries   the entries of the store                                    *)
(*   deploys   number of deployments so far                                *)
(***************************************************************************)
EXTENDS Naturals, FiniteSets

CONSTANTS
    Calls,          \* the calls of run_structured and run_structured_with_acb
    Fields,         \* values of the structured fields that go in a bucket
    Texts,          \* the free texts that are embedded
    Similarity,     \* Similarity[t][u]: that of the embeddings of two texts
    Threshold,      \* SEMANTIC_CACHE_SIMILARITY_THRESHOLD
    BlockingGuards, \* input guardrails that refuse (EXCEPTION)
    FilterGuards,   \* input guardrails that degrade (FILTER)
    OutputGuards,   \* output guardrails; all of them degrade
    Requests,       \* the requests that are made
    Deployments,    \* the settings that are deployed
    VersionsBumped, \* a deployment that enforces other guardrails has another
                    \* GUARDRAIL_RULES_VERSION
    MaxDeploys,     \* bound on the number of deployments
    Nothing         \* no estimate

InputGuards == BlockingGuards \cup FilterGuards
Guards == InputGuards \cup OutputGuards

(* mode: off     neither enabled nor log-only, so there is no cache service *)
(*       barred  the allowlists exclude the operation, or there is no store *)
Settings == [mode : {"off", "barred", "log_only", "serve"}, enforced : SUBSET Guards]

(* failing: the input guardrails the request does not pass.                *)
Request == [fields : Fields, text : Texts, failing : SUBSET InputGuards,
            twoPhase : BOOLEAN, acb : BOOLEAN]

ASSUME PipelineAssumption ==
    /\ Requests \subseteq Request
    /\ Deployments \subseteq Settings
    /\ Similarity \in [Texts -> [Texts -> Nat]]
    /\ Threshold \in Nat
    /\ VersionsBumped \in BOOLEAN
    /\ MaxDeploys \in Nat
    /\ OutputGuards \cap InputGuards = {}

VARIABLES settings, calls, entries, deploys

vars == <<settings, calls, entries, deploys>>

Estimate == [by : Calls, flaws : SUBSET OutputGuards]

Bucket == [fields : Fields, rules : SUBSET Guards]

Entry == [bucket : Bucket, text : Texts, estimate : Estimate, expiring : BOOLEAN]

Phases == {"new", "prelude", "lookup", "model", "write", "expiry",
           "success", "degraded", "refused", "error", "crashed", "lost"}

Waiting == {"prelude", "lookup", "model", "write", "expiry"}

(* hit: the entry the answer was taken from.                               *)
Call == [phase : Phases, request : Requests \cup {Nothing},
         settings : Deployments \cup {Nothing},
         estimate : Estimate \cup {Nothing}, hit : Entry \cup {Nothing}]

-----------------------------------------------------------------------------
(* Buckets and neighbours                                                  *)

RulesVersion(s) == IF VersionsBumped THEN s.enforced ELSE {}

\* The rules version is not hashed.
BucketOfFields(c) == [fields |-> calls[c].request.fields, rules |-> {}]

BucketOf(c) == [fields |-> calls[c].request.fields,
                rules |-> RulesVersion(calls[c].settings)]

\* The search is not scoped to the bucket.
CandidatesOfStore(c) == entries

Candidates(c) == {e \in entries : e.bucket = BucketOf(c)}

Score(c, e) == Similarity[calls[c].request.text][e.text]

Nearest(c) == {e \in Candidates(c) : \A o \in Candidates(c) : Score(c, o) <= Score(c, e)}

-----------------------------------------------------------------------------
Fresh == [phase |-> "new", request |-> Nothing, settings |-> Nothing,
          estimate |-> Nothing, hit |-> Nothing]

Init ==
    /\ settings \in Deployments
    /\ calls = [c \in Calls |-> Fresh]
    /\ entries = {}
    /\ deploys = 0

Goto(c, phase) == calls' = [calls EXCEPT ![c].phase = phase]

Blocked(s, r) == r.failing \cap BlockingGuards \cap s.enforced # {}
Filtered(s, r) == r.failing \cap FilterGuards \cap s.enforced # {}

AfterInput(s, r) ==
    IF Blocked(s, r) THEN "refused"
    ELSE IF Filtered(s, r) THEN "degraded"
    ELSE IF r.acb \/ s.mode = "off" THEN "model"
    ELSE "prelude"

(* The settings are read once, and the input guardrails run at once.       *)
Receive(c) ==
    /\ calls[c].phase = "new"
    /\ \E r \in Requests :
         calls' = [calls EXCEPT ![c].request = r, ![c].settings = settings,
                                ![c].phase = AfterInput(settings, r)]
    /\ UNCHANGED <<settings, entries, deploys>>

(* The preprocessing of the lookup, made before the allowlists are looked  *)
(* at and made again by the model's own flow.  The first phase of a        *)
(* two-phase request asks the providers; if all fail, their error leaves   *)
(* the pipeline from here, outside the try that answers the model's.       *)
Prelude(c) ==
    /\ calls[c].phase = "prelude"
    /\ \/ Goto(c, "lookup")
       \/ /\ calls[c].request.twoPhase
          /\ Goto(c, "crashed")
    /\ UNCHANGED <<settings, entries, deploys>>

(* No embedding, no answer of the store, no neighbour, a payload that does *)
(* not validate any more, or a log-only lookup: the model is asked.        *)
Miss(c) ==
    /\ calls[c].phase = "lookup"
    /\ Goto(c, "model")
    /\ UNCHANGED <<settings, entries, deploys>>

(* The nearest neighbour is near enough: no output guardrail is run.       *)
Hit(c) ==
    /\ calls[c].phase = "lookup"
    /\ calls[c].settings.mode = "serve"
    /\ \E e \in Nearest(c) :
         /\ Score(c, e) >= Threshold
         /\ calls' = [calls EXCEPT ![c].phase = "success",
                                   ![c].estimate = e.estimate, ![c].hit = e]
    /\ UNCHANGED <<settings, entries, deploys>>

ModelError(c) ==
    /\ calls[c].phase = "model"
    /\ Goto(c, "error")
    /\ UNCHANGED <<settings, entries, deploys>>

\* A single pass and the Actor-Critic-Boss loop alike; only the former is kept.
AfterOutput(c, flaws) ==
    IF flaws \cap calls[c].settings.enforced # {} THEN "degraded"
    ELSE IF calls[c].request.acb \/ calls[c].settings.mode = "off" THEN "success"
    ELSE "write"

ModelAnswers(c) ==
    /\ calls[c].phase = "model"
    /\ \E flaws \in SUBSET OutputGuards :
         calls' = [calls EXCEPT ![c].phase = AfterOutput(c, flaws),
                                ![c].estimate = [by |-> c, flaws |-> flaws]]
    /\ UNCHANGED <<settings, entries, deploys>>

NewEntry(c) == [bucket |-> BucketOf(c), text |-> calls[c].request.text,
                estimate |-> calls[c].estimate, expiring |-> FALSE]

(* HSET; the expiry is a command of its own.                               *)
Write(c) ==
    /\ calls[c].phase = "write"
    /\ calls[c].settings.mode # "barred"
    /\ entries' = entries \cup {NewEntry(c)}
    /\ Goto(c, "expiry")
    /\ UNCHANGED <<settings, deploys>>

(* Not allowed, no embedding in the second attempt either, a payload over  *)
(* the limit, or no answer of the store.                                   *)
WriteSkipped(c) ==
    /\ calls[c].phase = "write"
    /\ Goto(c, "success")
    /\ UNCHANGED <<settings, entries, deploys>>

SetExpiry(c) ==
    /\ calls[c].phase = "expiry"
    /\ entries' = {IF e = NewEntry(c) THEN [e EXCEPT !.expiring = TRUE] ELSE e : e \in entries}
    /\ Goto(c, "success")
    /\ UNCHANGED <<settings, deploys>>

\* The entry is there and never expires; the call is answered all the same.
ExpiryFails(c) ==
    /\ calls[c].phase = "expiry"
    /\ Goto(c, "success")
    /\ UNCHANGED <<settings, entries, deploys>>

EntryExpires ==
    /\ \E e \in entries : e.expiring /\ entries' = entries \ {e}
    /\ UNCHANGED <<settings, calls, deploys>>

(* The worker stops while the call waits for something.                    *)
CallDies(c) ==
    /\ calls[c].phase \in Waiting
    /\ Goto(c, "lost")
    /\ UNCHANGED <<settings, entries, deploys>>

(* Calls that are under way may outlive it, under the old settings.        *)
Deploy ==
    /\ deploys < MaxDeploys
    /\ settings' \in Deployments \ {settings}
    /\ deploys' = deploys + 1
    /\ UNCHANGED <<calls, entries>>

Next ==
    \/ \E c \in Calls :
         \/ Receive(c)
         \/ Prelude(c)
         \/ Miss(c)
         \/ Hit(c)
         \/ ModelError(c)
         \/ ModelAnswers(c)
         \/ Write(c)
         \/ WriteSkipped(c)
         \/ SetExpiry(c)
         \/ ExpiryFails(c)
         \/ CallDies(c)
    \/ EntryExpires
    \/ Deploy

Spec == Init /\ [][Next]_vars

-----------------------------------------------------------------------------
(* Correctness                                                             *)

\* Every variable holds a value of its kind.
TypeOK ==
    /\ settings \in Deployments
    /\ calls \in [Calls -> Call]
    /\ entries \in SUBSET Entry
    /\ deploys \in 0 .. MaxDeploys

\* An answer shown as a success passes every guardrail its call enforces, of
\* the request and of the estimate, also when it comes from the store, where
\* nothing is checked again: what an earlier deployment let through is not
\* served by a later one that enforces more, provided that the rules version
\* was bumped with the guardrails.
ServedApproved ==
    \A c \in Calls : calls[c].phase = "success" =>
      (calls[c].request.failing \cup calls[c].estimate.flaws)
        \cap calls[c].settings.enforced = {}

\* A call answered from the store gets an estimate that another call had made
\* for a request with the same structured fields and a similar enough text,
\* not an Actor-Critic-Boss one, however the two overlapped, and whatever has
\* since become of the writer or of the deployment.
ServedFitsRequest ==
    \A c \in Calls : calls[c].hit # Nothing =>
      LET w == calls[c].estimate.by IN
      /\ w # c
      /\ calls[w].request.fields = calls[c].request.fields
      /\ Similarity[calls[c].request.text][calls[w].request.text] >= Threshold
      /\ ~calls[w].request.acb
      /\ calls[w].phase \in {"expiry", "success", "lost"}

\* What a roll-back promises: a call received while serving is off, or only
\* logged, is never answered from the store, and an Actor-Critic-Boss one
\* never is.
OnlyServeModeServes ==
    \A c \in Calls : calls[c].hit # Nothing =>
      calls[c].settings.mode = "serve" /\ ~calls[c].request.acb

\* What the feature promises of a call outside the rollout scope of the cache:
\* it takes the normal flow, so nothing that is done for the look-up alone
\* ends it.  Refuted: the preparation of the look-up does.
OutOfScopeRunsNormally ==
    \A c \in Calls : calls[c].phase = "crashed" => calls[c].settings.mode # "barred"
=============================================================================
