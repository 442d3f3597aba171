# TLA+ specifications of the estimation service

This directory models the estimation service of this repository
(`app/`): a FastAPI application that turns meeting transcripts into
effort estimates with language models. The specifications cover the
parts where requests overlap, calls fail half-way, state outlives the
call that wrote it, or a human and a machine take turns, and leave
formatting, prompts and arithmetic without consequences to the tests.

`tlc -config <run>.cfg <module>.tla` checks a run, `tlapm <name>Proofs.tla`
proofs. `PROJECT.json` lists components, runs,
the lines of code every definition stands for, the mutation that each
property is known to catch, the hazards and the theorems.

## 1. Inventory

All Python runs as coroutines on one event loop per worker process, so
the code between two awaits is atomic. Several workers may serve the
same Redis and PostgreSQL.

| component | state it keeps | operations | what is hard |
|---|---|---|---|
| Session memory (`services/sessions.py`, `conversation_compression/`) | per session: window of messages, anchors, summary | add user/assistant message, evict, compress, build the prompt | pairs must stay whole, eviction between two appends, roles of the prompt |
| Session submit (`simplified_session_estimation_service.py`, `routers/sessions.py`) | `submit_count`, derived metadata, normalized payload, last estimate | one handler with a long await in the middle | submits of one session overlap; read before the await, written after it; failed submits count |
| Guarded pipeline (`guardrails/llm_pipeline.py`) | none of its own | input guardrails, cache lookup, model, output guardrails, cache write | what is checked on which path; settings change between calls |
| Semantic cache (`services/semantic_cache/`) | entries in Redis, by bucket | nearest neighbour, write, expiry | entries outlive deployments; a write in two commands; every part may fail |
| Actor-Critic-Boss loop (`guardrails/acb/`) | one run's locals | actor, critic, boss, synthesis | a budget, four clamps in order, fallbacks that spend calls |
| Estimation graph (`services/estimation_graph/`, `routers/estimate_graph.py`) | checkpoints per `estimation_id` | start, resume, stream, proposal; eight nodes, two human gates | overlapping calls on one id, failed legs, a decision that arrives late, ids used again |
| Graph activity feed (`estimation_graph/activity.py`, the streaming endpoints) | a Redis list, or a list in the process | reset, push, page; legs in the background, and blocking ones on the same thread | the store is chosen once, an append may fail, a start clears the feed before the graph takes it up, polling cannot tell a stalled run from one at work |
| Provider chain, v1 estimates (`services/llm_service.py`, `llm_chain.py`, `routers/estimations.py`) | files in `output-responses/` | ordered fallback, two-phase preparation, streaming, saving | failure after part of a stream has gone out; what stops the chain differs per loop; two answers in one second |
| RAG estimation (`routers/rag_estimations.py`, `rag_estimation_service.py`, `rag_idempotency.py`) | answers per Idempotency-Key | reformulate, search, assemble, generate, judge, store | overlapping retries of one key, two branches on one database session, partial failure |
| Staged RAG (`routers/rag_stages.py`, `rag_task_hours.py`) | none: the client carries it | one call per stage | the stages must give what the one-shot call gives |
| Retrieval (`embedding_pipeline/retrieval_service.py`, `advanced_retrieval.py`, `retrieval_debug.py`, `fusion.py`, `rerank.py`) | none | search, fuse, rerank, cut, explain | cuts in order, a branch missing, three implementations of the same steps |
| Ingestion (`embedding_pipeline/persistent_ingest.py`) | documents and chunks in PostgreSQL | find, embed, insert, commit | a long call between the look-up and the insert; ingests of one path overlap |
| Agentic hour recovery (`services/agentic/`, `rag_task_hours.py`) | one run's messages and derivations | tool loop with an iteration limit, consensus of neighbours | repeated and parallel derivations, a limit that ends in the middle |
| Runtime configuration (`services/runtime_config.py`) | an override per key, Redis | read, update | read-modify-write without a lock, reads that fail |
| Estimator page (`web/src/features/estimation/`) | active session, three panels, sidebar | submit, select, reset, retry, RAG run | answers in any order, applied by the closure that asked |
| Rate limits, audit, observability, prompts, request parsing, tools | counters, logs | | wiring and formatting |

How they interact: a session submit calls the guarded pipeline with the
transcript of its history; the pipeline asks the cache, then either one
structured completion or an Actor-Critic-Boss run, whose three roles
are structured completions too; the session records what comes back. The
markdown endpoints of v1 go round all of that and ask the provider chain
directly.
The graph is separate: its nodes call the model and the task-hours
code directly and the state is handed over by the checkpointer alone.
Sessions share nothing with each other; all calls share the cache.
Grounded estimates read the chunks that ingests write, while they write
them; the agent and the staged endpoints look up hours in the same
chunks. The overrides of the runtime configuration and the activity feed
are in the same Redis and lose it at the same time. The page calls the
session endpoints and the RAG endpoint and keeps nothing of its own.

What makes each correct, in one line: a session remembers the newest
whole turns and shows the newest estimate; a served cache entry is one
that this call could have been given by the model; an ACB run ends
within its budget by a decision that its answer belongs to; a human's
decision on a graph run is applied to the gate it was given for, and
what is reviewed was made in this run; a markdown estimate is the whole
text of one provider, and the static one only when the live ones failed;
a citation that is not flagged was in the prompt; a stored document has all
its chunks; hours handed over by the agent are those its trace explains;
a setting changed by itself is in force; the page shows one session.

## 2. Modules

| module | models | lines of the code |
|---|---|---|
| `ConversationHistory` | the memory as operators on a record; the prompt; the role check of a completion | `sessions.py`, `conversation_compression/`, `structured_llm_client.py` |
| `SlidingWindow` | abstract: the newest `Size` turns, a turn enters whole | what the memory promises |
| `SessionSubmit` | overlapping submits of one session: up to the await, the service's writes, the router's | the session service and router |
| `ActorCriticBoss` | one run of the loop | `guardrails/acb/` |
| `EstimationPipeline` | any number of calls through guardrails, cache and model, over deployments | `llm_pipeline.py`, `semantic_cache/`, guardrail execution |
| `ProviderChain` | any number of markdown estimates, streamed or not, over the chain of providers | `llm_service.py`, `llm_chain.py`, `ai_model_service.py`, the v1 router |
| `EstimationGraph` | all calls on one `estimation_id`, the checkpointer | `estimation_graph/`, the graph router |
| `Corpus` | overlapping ingests with the transaction and its unique key | `persistent_ingest.py`, `embedder.py`, `repository.py` |
| `RagEstimation` | grounded estimates, statement by statement, beside the ingests | `rag_estimations.py`, `rag_estimation_service.py`, `rag_idempotency.py`, the searches |
| `Retrieval` | searches as functions of what the branches found: production, staged, debug | `retrieval_service.py`, `advanced_retrieval.py`, `fusion.py`, `rerank.py`, `retrieval_debug.py` |
| `RagStages` | the staged endpoints, contexts, repair of drafts, reports | `rag_stages.py`, `rag_augmentation.py`, `rag_context_assembler.py`, the gates |
| `TaskHours` | consensus of neighbours; all look-ups of a request at once | `rag_task_hours.py`, `rag_synthesis.py` |
| `AgentLoop` | both tool loops, after a `TaskHours` pass | `agentic/` |
| `RedisStore` | a Redis server that goes away and comes back | |
| `RuntimeConfig` | overlapping updates of one override | `runtime_config.py` |
| `GraphActivity` | background and blocking legs, the feed, polling | `activity.py`, the endpoints that start and resume |
| `RedisState` | composes the last two under the same outages | |
| `WebSession` | the page in front of the session endpoints | `useSessionEstimate.ts`, `EstimationWorkbench.tsx`, `sessions.py` |
| `MC*` | values of the constants for TLC | |
| `SessionProofs` | theorems about `SessionSubmit` and `WebSession` | |
| `RagProofs` | theorems about `RagEstimation`, `Corpus`, `Retrieval` and `RagStages` | |
| the other `*Proofs` | theorems about the module of the same name and those it composes | |

**SessionSubmit** EXTENDS **ConversationHistory**. `Begin` is
everything from the lookup of the session to the await of the pipeline
(defaults, merge, the prompt). `FinishWithEstimate` is the service's
writes after it, the turn among them; `ShowEstimate` the router's, which
stores the estimate after the response is assembled, and `ShowFails` an
exception in between, which leaves the turn beside an older estimate. No
other submit runs between the two (`LoopFree`): nothing is awaited there.
`FinishWithoutEstimate` and `FinishRaised` are the other ends. A
submit keeps what `Begin` computed in its own record, which is how the
code's locals go stale. `BeginInvalid` is the refusal of an incomplete
form or an attachment. The pipeline is its outcome: an estimate from
the model (only if the completion accepts the prompt), from a
guardrail's degraded answer or from the cache; none; or an exception.
A message is a role, the submit it belongs to and its turn label; a
transcript is the set of constraint lines in it and the form's names.

**ActorCriticBoss** has one action per call to a role and per outcome
of it. `NormalizeBossDecision` is `policy.py`'s four clamps in the order
of the code. An estimate is the number of the pass that wrote it and
the round whose instructions its prompt carried: `Told` is where a
transcript given by the caller replaces the prompt that holds them.

**EstimationPipeline** gives a call the settings in force when it is
received, and `Deploy` changes them for later calls only. A bucket is the
structured fields and the rules version; `VersionsBumped` says whether
operators change that string with the guardrails. `Write` and
`SetExpiry` are two Redis commands, either of which may fail; `CallDies`
is a worker that stops at any await. An estimate is the call that had it
made and the output guardrails it fails, which is what lets a property
say where a served answer comes from and whether it should have been.
`Prelude` is what a call with a cache service does before the look-up: for
a two-phase request it asks the providers, outside any `try`, and ends the
call when that raises.

**ProviderChain** keeps of each call the provider being asked, the kinds
of failure so far, the providers whose chunks were sent, and whose text
completed the answer. `Settings` is what `build_provider_chain` can
build. LiteLLM's exceptions are `Causes`; `Mapped` is what
`_map_litellm_exception` makes of each, `MayFallBack` what the two
loops over the chain do about it; `ExtractionFails` is the third loop,
which treats them differently. `AttemptFails` may come after chunks.
`CompleteAndSave` and `SaveFails` write the file of the second that
`clock` shows; `Disconnect` is the client of a stream that leaves. The
finish and the write are one step, as in the code, where nothing is
awaited between them.

**EstimationGraph** gives every call its own copy of the channels and
one `checkpoint` that the last call to save overwrites. `Start`/`Resume`
are the handler up to the loading of the checkpoint, `LaunchStart`/
`LaunchResume` the loading; between the two another call may have moved
the run. `Interrupt` is a gate without a decision; `Fail` a node that
raises or a process that dies. Every value carries the run it was
derived in, so a property can tell what is stale. A gate is *pending*
(`PendingGate`) once its interrupt is saved, which is when a human is shown
it; before that the checkpoint names the gate as the next node, and a resume
passes the router's check all the same. `answered` records of the last
decision consumed the gate that was pending when it was sent and the gate
that consumed it, `cut` a gate whose leg died before its interrupt. `Edits`
are the overrides that a human may send at gate 2: none, new hours for every
task, or no module left; a decision at gate 1 may be `given` with modules that
hold no task.

**RagEstimation** EXTENDS **Corpus**, so that a search meets the chunks of
the moment at which its statement runs. A request is a program counter
and the locals it carries; `StartSearch`, `Issue`, `Searched`, `QueryFails`
and `Gather` are the two branches on the one `AsyncSession`, where a
statement may be refused while another is in progress and one that failed
aborts the transaction for all that follow. `AttemptFails` counts the
attempts of each structured completion. `Store` and `StoreFails` come after
the work; a store whose reply is lost has happened, and so has an ingest's
`Commit` that is answered with a 500. An answer is its kind,
the chunks cited and those flagged.

**Retrieval** has no state: `Retrieve`, `AdvancedRetrieve` and
`RetrievalDebug` are three implementations of one thing and are kept
apart as in the code. Scores are integers in `0 .. Unit`; of a logistic or
a division only the order and the range matter to the properties. The debug
screen's rerank (`ApplyRerank`, and the second `RankingDiff`) runs with
`NoOpOrder`, the order of the only reranker its endpoint passes: the
properties say that switching it on changes nothing.
**RagStages** adds the wizard, whose record is what the client carries, and
`OneShotContext`, what the one-shot endpoint makes of the same rows. The two
build a context in their own way and are kept apart: the service augments
rows and contents separately and joins them when it assembles
(`AugmentedRows`, `AugmentedContents`, `Assembled`); the stages carry chunks
with their texts, compress each, reorder them by looking ids up, and look the
kept ids up again (`StageChunks`, `Compressed`, `Reordered`, `KeptChunks`).
Every row has its content, since nothing in the repository deletes a chunk;
were one missing, the stages would drop it before they reorder and the
service after.

**TaskHours** gives the arithmetic in integers with the rounding of the code
(`Rounded`: half to even; `Root`, of the standard deviation, downwards) and `Pass`, the `gather` over all tasks: the
endpoint's on one database session, the graph's with one each. A row keeps
the `dispersion` and `neighbors` of the pass: hours that the agent hands over
stand beside the pass's, as in the code.
**AgentLoop** lets the model call any tools with any arguments; only what
leaves something behind (a derivation, an error, the trace) is kept. The
amounts given to its estimating and validating tools are any integers, in
parts of an hour (`Scale` of them make one), negative ones included: the
schemas take any list of floats.

**RuntimeConfig** splits a PUT into its read and its write. `owed` says which
values a client may expect after the answers so far, `serial` whether
updates have overlapped or a read has failed. **GraphActivity** keeps of a
leg the nodes it has left and the lines it has written: what the nodes do is
`EstimationGraph`. A leg runs in the background and tells its failure in the
feed, or it is blocking (`EstimateGraph`, `ResumeGraph`), drives the same
thread, and tells it to its caller (`told`). `BeginLeg` is the graph being
called; a start may raise there before its first checkpoint. `Chosen` is the
choice of the store at the first use, `silenced` the legs whose lines were
refused, dropped or cut by a restart, `cleared` the last start that cleared
the feed and the legs whose error lines went with it. Whether a blocking leg
that has reached its gate answers with the snapshot or fails while reading it
is left out: the run is at its gate either way.

**WebSession** has one action per click; each starts a call with what its
closure captured. `Served` is the API, `Answered` the continuation: they
come in any order and either may fail. A panel shows the pair of session
and turn that filled it. `Restart` empties the API's sessions.

## 3. Runs

| run | instance | states | shows |
|---|---|---|---|
| `session_overlap` | 4 submits, 3 in flight, window 2, two submits anchored, caps that are hit, with compression and without | 98 thousand | the estimate shown is that of the newest turn whose response was assembled, serial submits lose no constraint, prompts without a summary are accepted, anchored turns survive verbatim and others reach the summary until it is full, the window implements `SlidingWindow` |
| `acb_loop` | all settings up to 3 iterations | 4 thousand | clamps, instructions, and that every run ends |
| `pipeline_cache` | 2 calls of 7 kinds, 5 deployments of which up to 3 in a row, versions bumped | 0.9 million | what the cache serves was approved and fits |
| `chain_fallback` | 2 calls, every chain of up to 2 live providers, every setting, 2 seconds | 1.2 million | an answer is one provider's whole text, saved answers survive outside their second, every call ends |
| `graph_review` | 2 tasks, 2 starts under one id, one call at a time | 1.5 million | what is reviewed is this run's, a gate consumes only decisions sent while it was pending (unless a leg died before its interrupt), runs end by their own final review with the same exception, a pending gate is not lost, totals follow the modules |
| `graph_overlap` | 2 tasks, 1 start, 2 calls at once | 5.5 million | every lineage of checkpoints keeps an estimate of its own approved tasks |
| `rag_estimation` | 2 requests of one key, 2 ingests of one path (one without chunks), 2 attempts | 0.4 million | citations not flagged were shown, documents are whole, every ingest's answer is true, every request ends |
| `rag_stages` | 3 chunks, every order and failure of the branches, 4 windows, 4 budgets, 66 drafts | 0.1 million | best first, consensus wins, debug tells the truth, staged equals one-shot, reports agree with the schema, grounded needs a shown anchor |
| `agent_loop` | 2 tasks, 3 rounds, 2 calls a round, 3 outcomes of a look-up, 3 lists of neighbours, 14 of amounts | 0.9 million | the trace explains the hours, the tools' figures are sound, the loop stops truthfully and ends |
| `web_session` | 2 sessions, 4 clicks, 1 restart | 2.2 million | no spinner without a call, a user who waits sees one session, the form comes back |
| `redis_state` | 2 PUTs of 2 fields, 2 legs of up to 2 nodes, each in the background or blocking, 1 outage, 1 restart | 6.4 million | serial updates are effective field by field, a stalled run is explained in its feed or to its caller |
| `session_prompt_refused` | as `session_overlap`, with compression | | refuted: the first summary puts two user messages in a row and every later prompt is refused (the finding) |

Bounds and why they are enough. Four submits and a window of two make
the window evict twice; three in flight give every order of begin and
finish of a pair with a third in between; `ConstraintCap` 2 with three
lines makes the cap bite; with compression (chosen in `Init`) up to two
turns are evicted, and a summary of four messages fills up. Two live
providers give a first, a middle and a last one with the static
fallback; one delta for each is enough for a stream that breaks, and
two seconds for calls that share a file and calls that do not. Three
iterations is the greatest number the settings allow. Two calls
of the pipeline are a writer and a reader; a third could only add
another writer, which the properties (quantified over one reader and one
writer) do not relate to; the proofs cover any number. Two tasks give
approved, replaced, dropped and missing rows; two starts are what it
takes for a value to be stale; the overrides (`Edits`) are all three kinds in
`graph_review`, and none in
`graph_overlap`, which asks whose rows an estimate has before any override. Two requests and two ingests are a
first and a retry, each with a writer in between: the properties relate one
request to one key's other request or to one ingest. Three chunks
are the fewest for which a cut to two can lose the one that fusion or
the reranker prefers, and for an order that edge-loading changes; the
windows include a recall narrower than the final cut, which the settings do
not exclude. Neighbours come alone, in twos and in threes, amounts up to
four, among them fractions below the three minutes at which the rounding to
a tenth of an hour gives nothing, and negative ones: a mean, a median and a standard deviation of more are the proof's.
Three rounds are one derivation, its repetition and the round the limit
drops. Four clicks are a submit, a selection or reset over it, a retry
and one more submit; one restart is enough to make every id unknown. A third
PUT adds nothing that two do not (a field is written by one and lost by
another); two legs are a start and its resume, or a start that clears what
another has said.

`redis_state` uses symmetry (over the PUTs, over the fields and over the legs),
`graph_overlap` over the tasks and over the calls, and `pipeline_cache` over the
calls; these check invariants only. Deadlock is not checked: in every model the calls
are finite in number and the system may be idle for ever when they are done.

Fairness. `ActorCriticBoss` and `AgentLoop` assume `WF_vars(Next)`: the call
under way returns, with an answer or an error, since each has a timeout and a
fixed number of attempts. `ProviderChain` assumes the same of each call
(`WF_vars(Progress(c))`), `RagEstimation` of each request
(`WF_vars(Step(q))`): the event loop runs every coroutine that can go on.
These contain the failures, so fairness never makes a provider succeed,
and they do not contain a disconnection or an expiry. `WebSession` assumes that
every `fetch` is settled and its continuation run, and nothing of the
user. The other modules assume none: a session's submit, a graph's resume or
a human's decision may never come.

## 4. What the models showed

Besides the finding, these definitions state what a document or docstring
says. Each was checked in the run named and TLC refutes it. They stay in
the modules as definitions, each with the promise it quotes, beside the
property that does hold:

| definition | run | what happens | what holds instead |
|---|---|---|---|
| `SessionSubmit!FactsKept` | `session_overlap` | of two overlapping submits the one that finishes last overwrites the metadata of the other | `SerialFactsKept` |
| `EstimationGraph!DecisionsReachTheirGate` | `graph_overlap` | two resumes of gate 1 pass the same check: the second is consumed by gate 2 | `OnlyOwnDecisions` |
| `EstimationGraph!DecisionsOnPendingGates` | `graph_review` | a leg dies between the checkpoint of gate 2 and its interrupt; the decision for gate 1, sent again, finishes the run, and nobody has seen its final review ("409 if nothing is pending" is a check of the next node) | `RunsEndReviewed` |
| `EstimationGraph!ProposalsFromValidated` | `graph_review` | a proposal is drafted from an estimate nobody validated | |
| `ActorCriticBoss!RevisionsReachActor` | `acb_loop` | with a chat transcript, the boss's instructions are never sent | `ToldByLatestBoss` |
| `ActorCriticBoss!FailedSynthesisReturnsCandidate` | `acb_loop` | a failed synthesis returns a new estimate that nobody reviewed | `EndsByDecision` |
| `EstimationPipeline!OutOfScopeRunsNormally` | `pipeline_cache` | a two-phase request outside the rollout of the cache is prepared for a look-up it may not make, and an error of that preparation ends the call | |
| `RagEstimation!DuplicateNotRerun` | `rag_estimation` | two requests with one Idempotency-Key both do the work | `CitationsWereShown` |
| `RagStages!StrongestAtBothEnds` | `rag_stages` | the cut to the budget drops the second best chunk first | `StagedAgreesWithOneShot` |
| `AgentLoop!UnflaggedUntouched` | `agent_loop` | the agent overwrites the hours of a task nobody doubted | `TraceExplainsHours` |
| `WebSession!PanelOfActiveSession` | `web_session` | a late answer fills the panels of another session | `PatientUserSeesActiveSession` |

Read off the code while modelling it, and in the models as they are:

- `POST /estimate/rag/tasks/hours` gathers its look-ups on one database
  session: two statements that meet are a 502. In the graph each has its own.
- When both branches of a search fail, the outcome is "insufficient" with a
  200, and it is kept under the Idempotency-Key for its 24 hours.
- An append to the activity feed that fails ends a leg whose node had
  succeeded; polling then says "running" for ever.
- Overlapping PUTs of the runtime configuration lose a field; one whose read
  failed wipes the fields it does not name; one whose write has lost its
  reply is stored and answered 503.
- A start clears the feed before the graph takes it up; one that fails there
  has taken the explanation of an older stalled run with it, and left its own.
- `validate_estimate` refuses what `calculate_estimate` gives for amounts of
  less than three minutes, which round to nothing, and for negative ones.
- A session whose response cannot be assembled keeps the turn and shows the
  estimate of an earlier one.
- A submit that failed still counts as a turn, so the retry does not carry
  the full form and the attachments.
- The debug screen uses the reranker that changes nothing and the default
  text search configuration, so it shows something else than production
  where these are configured.

And outside the models, for whoever works on those lines: the debug
screen's fusion with weights over 1 gives scores over 1, which the response
model refuses (500); `_distance_score` of the agent's search adapter hands
the similarity on as a distance, and missing hours as 0; the agent's
iteration count leaves out the round whose final answer does not parse;
a hash of the semantic cache is written before its expiry is set, so a
failure in between leaves an entry that never expires; anchors are looked
for in the transcript cut to 240 characters; entries of the feed get their
number from a length read before the push.

## 5. Proofs

Checked by tlapm for every value of the constants that satisfies the
named assumptions of the module (`HistoryAssumption`,
`SubmitAssumption`, `NoMetadataAssumption`, `IterationsAssumption`,
`PipelineAssumption`, `ChainAssumption`, `GraphAssumption`,
`NoEstimateAssumption`, `CorpusAssumption`, `RagAssumption`,
`RetrievalAssumption`, `StagesAssumption`, `TaskHoursAssumption`,
`AgentAssumption`, `PageAssumption`). These give the constants their sorts
and keep "none" apart from a value. Three say more. `SearchAssumption` is what
the two statements of a search promise: each chunk once, in the order of
their ORDER BY. `ResolutionAssumption` and `WeightAssumption` say that the
integers standing for floats are fine enough to tell neighbouring ranks,
and neighbouring distances, apart. The runs evaluate all of them.

Each model has one inductive invariant (`IInv`, `StagesInv`, `PageInv`), a
conjunction of named parts, and a lemma per action; the theorems follow from
it.

**SessionProofs**, of `SessionSubmit`: `TypeCorrect`, `WindowCorrect`,
`LabelsCorrect`, `EstimateCorrect`, `BoundCorrect` and `PromptsCorrect`
(`PlainPromptsValid`: prompts of a session without compression), and `SlidingWindowRefined`: the window
implements `SlidingWindow`. The properties are not inductive: that
labels grow needs every label in the window to be at most
`submit_count`; that a prompt is accepted needs the window to consist of
whole turns when it was read, and the prompt in flight to have been built
from such a window; that a turn enters the abstract window once needs the
accepted submits to be distinct and past the service's writes; that the
estimate shown is the newest (`EstimateOfNewestTurn`) needs that at most one
submit is between the two writes, and that it is the last turn. `IInv` adds
these. Lemmas
say what `EnforceWindow` and one compression step do to a window of whole
turns.

Three more rest on `IInv`. `SerialFactsCorrect` (`SerialFactsKept`) needs
to know of the submit in flight that there is only one, and that the list
it merged before the await contains the one stored now (`FactsInv`); a
list is lost from only when it is full, and a full list is the only one
within the cap that contains it (`HoldsGrows`). `AnchorsCorrect`
(`AnchorsVerbatim`) and `NothingForgottenEver` (`NoTurnForgotten`) are
inductive beside `IInv`, because an eviction moves one whole turn: to
the anchors, or into the summary, which drops something only when full.

Of `WebSession`: `PageTypeCorrect`, `SpinnersEnd` (`SpinnersHaveCalls`) and
`PatientUserIsShownActive` (`PatientUserSeesActiveSession`), for any number
of sessions, clicks and restarts. The types (`PageTyped`) say of every call in
flight that its reply, if it is a good one, has the shape its continuation
reads. Beside them the spinners are inductive. The patient user needs
`Patience`: while nobody has clicked over a call there is one call at most
(that a continuation may start the next one is why this is not obvious);
`ShowsActive` is what the panels show once it is answered, `Brings` what
the call in flight, by its kind, will put there; and as long as the API has
not restarted, every session the page can name is alive
(`ShowsActiveBeforeRestart`, `BringsBeforeRestart`).

**ActorCriticBossProofs**: `TypeCorrect`, `EndsByDecisionHolds`,
`BudgetKept`, `CausesKept`, `IssuesHandled`, `ToldCorrectly`, for any
iteration limit. `ClampResult` states what the clamps return;
`IInv` counts rounds and passes per phase (`Counted`), keeps what the
clamps decided in the rounds (`Clamped`), ties a finished run to its last
round (`Decided`) and the instructions to the last boss
(`Instructed`).

**EstimationPipelineProofs**: `TypeCorrect`, `ApprovedIfBumped`,
`FitsRequest`, `OnlyServeMode`, for any number of
calls, requests and deployments. `IInv` says of every call what is known
at its phase, and of every entry that its writer is *settled*: it has
passed its output guardrails and nothing the entry says of it changes any
more. That is what lets the reader's step conclude from the bucket alone.
`ApprovedIfBumped` has `VersionsBumped` as its hypothesis, which is the
operators' duty; the run checks it with that duty done.

**ProviderChainProofs**: `TypeCorrect`, `FallbackPermitted`,
`ExtractionLive`, `WholeAnswers`, `StaticAlwaysAnswers`, `SavedAnswers`,
for any number of calls, any chain and any length of a stream. `CallOK`
says of one call's locals what is known in its phase: while the estimate
is asked for, every provider before the present one has failed, each in a
way that permits going on, and the chunks sent are in the order of the
chain. One lemma per kind of step shows that the new record is as
good as the old one; `NothingWritten` and `FileWritten` lift that to the
whole state, where the files relate calls to each other.

**EstimationGraphProofs**: `TypeCorrect`, `FreshEstimateHolds`,
`TotalsMatchModulesHolds`, for any tasks, starts and calls in flight on
one thread. What a value of the channels must be depends on the node that
reads it next, and there are as many copies of the channels as calls and
one in the checkpoint: `PositionOK` is stated of a node and a copy (at
"recover" every approved task has a row of this run's brief, at "analysis"
and "gate2" the estimate has exactly those tasks, and so on), and `IInv`
claims it of every copy. That is why overlapping calls cannot break it: a
call that overwrites the checkpoint overwrites node and channels together.
`InStep`, that the call which saved last is at the node the checkpoint
names, is what keeps a gate waiting only where a gate is.
`OnlyOwnDecisionsHolds`, `RunsEndReviewedHolds` and the action property
`PendingGateStaysHolds` have the hypothesis `OneAtATime` (one worker at
most), as they have in `graph_review`: section 4 tells what happens
without it. Their invariant is `SerialInv`: a decision in flight was sent
for the gate that is pending, or for none; and when no call is driving the
graph to a gate it has stopped at, that gate is pending or was cut
(`Settled`). This is the one exception the two theorems make, and
section 4 tells how it happens (`DecisionsOnPendingGates`).

**RagProofs**, of `RagEstimation`: `AnswersMatchCorpusHolds`, `WholeDocumentsHolds`,
`CitationsWereShownHolds`, for any requests, keys, ingests, paths and
chunks. Of the ingests (`CorpusInv`) it is `KeysHeld` that makes the
properties inductive: a transaction that has written its document holds
the unique key of its path, so that nobody else is writing under it and
nobody has committed; a commit therefore replaces nothing, and nobody has
been told anything else of this path before. Of the requests (`RagInv`),
`RequestOK` says what each local is at each statement, and `StoreOK` that
every stored answer has a `Source`: a request of that key whose shown
chunks ground it, and that is over, so that it stays the source whatever
others do. The answer to an ingest may be lost after its commit: `DocumentsOK`
speaks of what was committed, whatever the client was told. Chunks that were
committed stay committed (`ChunksOnlyGrow`).
`ImplementsCorpus` is the refinement: a behaviour of the composition is a
behaviour of `Corpus`, every step of a request a stutter.

Of `RagStages` and `Retrieval`: `StagedAgreesWithOneShotHolds`,
`ReportsAgreeWithSchemaHolds`, `GroundedByShownAnchorHolds`,
`BestFirstHolds`, `ConsensusOutranksHolds`, `DebugTellsTheTruthHolds`, for
any chunks, results of the branches, windows, logits, drafts and budgets.
The state machine is simple: `StagesInv` says of each thing the client
carries what it was computed from. The work is in the operators. `Ordered`
is a choice among the orderings of a set, so `OrderExists` shows by counting
predecessors that there is one, and `OrderedSorts`, `AscendingSorts`,
`Extremes`, `RankFusedSorts` and `RerankedSorts` say what each list made with
it is. `FusionRanked` adds up the shares of a chunk over the two lists;
`RankShare` and `ShareFalls` make a share a function of the rank that falls
strictly, from which "ranked first by both is first" follows for any lists.
For the debug screen, `DebugShowsProductionHolds` goes through its own
implementation of the search stage by stage and finds production's lists,
and `DebugAccounts` that every chunk it found is either shown or counted out.
For the staged context, `SameBlocks` compares the chunks that the stage
compresses, reorders and looks up again with the rows and contents that the
service joins, block by block; `KeptAgain` and `KeptShowsContext` say that the
chunks kept for the gate have the ids and the texts of the context.

**AgentLoopProofs**: `TraceExplainsHoursHolds`, `StopIsTruthfulHolds`, for
any tasks, limits and calls. The property speaks of the last derivation in
the trace when the loop is over; the invariant (`Explains`) says at every
step and for every task, named in the request or invented, that its
derivation is that of the last good call in the trace, and that one without
a derivation has no such call. `RowsOK` keeps the pass's rows until they
are merged, `StopOK` the rounds left. What a consensus is worth is left
open there: the theorem holds whatever the arithmetic is.
`ToolFiguresAreSoundHolds` is the arithmetic, for any neighbours and amounts.
`TotalSums` shows that the recursive function in `Total` is one (by the least
argument at which it would not be), `TotalBetween` that a sum is between the
same multiples of another as its terms are; that bounds the weighted mean
by its hours and the similarity by 1. `RoundedBetween` and `RoundedHalves`
say what rounding half to even may do to these, `MeanLeans` that of two
neighbours the closer is never the farther from the result. `SmallestOf`
finds the middle amounts of `TwiceMedian` among the amounts, and `RoundedNear`
bounds what the rounding to a tenth adds, so that the
tool's 1.15 of the median stays inside the plausibility check of the other:
for every amount that is not `Odd`, that is, negative or below three minutes
without being 0.

**RedisStateProofs**: `SerialUpdatesEffectiveHolds` and
`StalledLegsAreExplainedHolds`, for any PUTs, fields, legs, nodes, outages
and expiries. `OneReader` says that while PUTs have come one at a time the
one that has read is alone and holds the object that is stored, which
gives the write of a merged object its meaning (`MergedFacts`). For the
feed, `Explained` says of a run that has left the graph between two nodes
what the property says of one that nobody drives, and what else there is
before that: its leg is still at work; or its last word is in the feed this
process writes to, or was told to its caller, or could not be said
(`Spoken`); or a start has cleared that word, and is about to call the graph
or has had its own last word (`Clears`). `FeedChosen` keeps that a background
leg runs only where the store has been chosen, so that `Visible` is the feed it
writes to.

Every invariant and every action property that a passing run checks is one
of these theorems. Model-checked only:

- Liveness (`Terminates`, `EveryCallEnds`, `EveryRequestEnds`, `LoopEnds`,
  `FormComesBack`), which is out of the prover's reach.
- The definitions of section 4 that are refuted have no theorem; nor is it
  proved that they fail in general: a run shows one behaviour.

## 6. What is not modelled

- The content of prompts, texts, embeddings and estimates; regular
  expressions (which turns are anchors, which guardrail a request fails)
  are given sets.
- Request parsing and attachments, prompt rendering: pure functions of one
  request.
- Observability, audit and the persistence of calls: nothing reads them back.
- The conversational estimation service: no router constructs it.
- Middleware, migrations and wiring; the settings that matter are
  constants or variables of the models.
- Retrieval: the SQL of a search, the inspection endpoint of the debug
  screen, temporal weights (a stub). Ingestion: how a text is cut.
- The debug page and the rendering of the web interface; development tools,
  scripts and evaluations, which run outside the service.

`PROJECT.json` gives every component with its status and reason.

## 7. Plan

Done: all modules of the table, the runs, and the proofs of section 5. What
could follow, in this order:

1. `RagEstimation`: that a replayed answer is the stored one and that a stored
   one does not change until it expires, as an action property of the store.
2. `Retrieval`: that a wider recall never removes a chunk that both branches
   rank first, which relates two searches and so needs a run of its own.
3. `EstimationGraph`: several `estimation_id`s over one checkpointer, once the
   code keeps anything across them.
