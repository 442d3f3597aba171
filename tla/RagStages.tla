----------------------------- MODULE RagStages -----------------------------
(***************************************************************************)
(* The staged form of the grounded estimate (app/routers/rag_stages.py): a *)
(* client calls reformulate, retrieve, assemble, generate and verify one   *)
(* after the other and carries what each answered to the next, since the   *)
(* server keeps nothing; and, as functions of the same data, the context and the  *)
(* reports of the one-shot POST /estimate/rag.                             *)
(*                                                                         *)
(*   search  what the branches find for the reformulated question          *)
(*   wizard  what the client holds, and the status of its last call        *)
(***************************************************************************)
EXTENDS Retrieval

CONSTANTS
    Searches,      \* bound: pairs of branch outcomes
    Windows,       \* bound: the pairs recall_k, top_k_final
    Logits,        \* bound: what a cross-encoder may give the chunks
    Configs,       \* bound: the stage configurations asked for
    Budgets,       \* bound: max_context_tokens
    Drafts,        \* bound: what the model returns
    Collections,
    Rerankers,     \* as settings and runtime overrides make them
    Augmentation,  \* AUGMENTATION_ENABLED
    Size, ShortSize,   \* the tokens of a chunk's block, whole and compressed to
                       \* its key points
    Hours, ShortHours  \* the hours a chunk's text names, whole and compressed

Line == [component : STRING, grounded : BOOLEAN, cites : SUBSET Nat, hours : Nat]
Draft == [lines : Seq(Line), total : Nat, insufficient : BOOLEAN]

ASSUME StagesAssumption ==
    /\ Windows \subseteq (Nat \ {0}) \X (Nat \ {0})
    /\ Logits \subseteq [ChunkIds -> Int]
    /\ Budgets \subseteq Nat
    /\ Drafts \subseteq Draft
    /\ Augmentation \in BOOLEAN
    /\ Size \in [ChunkIds -> Nat] /\ ShortSize \in [ChunkIds -> Nat]
    /\ Hours \in [ChunkIds -> SUBSET Nat] /\ ShortHours \in [ChunkIds -> SUBSET Nat]
    /\ \A c \in ChunkIds : IsFiniteSet(Hours[c]) /\ IsFiniteSet(ShortHours[c])

\* The two statements: each chunk once, in the order of their ORDER BY;
\* nothing of one that failed.
ASSUME SearchAssumption ==
    /\ Searches \subseteq [vector : BranchOutcome, lexical : BranchOutcome]
    /\ \A s \in Searches :
         /\ s.vector.ok \/ s.vector.rows = <<>>
         /\ s.lexical.ok \/ s.lexical.rows = <<>>
         /\ \A i, j \in DOMAIN s.vector.rows : i < j =>
              /\ s.vector.rows[i].id # s.vector.rows[j].id
              /\ s.vector.rows[i].value <= s.vector.rows[j].value
         /\ \A i, j \in DOMAIN s.lexical.rows : i < j =>
              /\ s.lexical.rows[i].id # s.lexical.rows[j].id
              /\ s.lexical.rows[i].value >= s.lexical.rows[j].value

\* Unit is fine enough to tell the shares of the ranks apart, as the floats
\* of the code are.
ASSUME ResolutionAssumption ==
    \A w \in Windows : \A r \in 1 .. w[1] :
        Unit \div (RrfK + r) > IF r = w[1] THEN 0 ELSE Unit \div (RrfK + r + 1)

VARIABLES search, wizard

stageVars == <<search, wizard>>

----------------------------------------------------------------------------
(* Contexts.  A context is the sequence of the blocks in the prompt, each   *)
(* the id and the text of a chunk; a text is that of a chunk, whole or      *)
(* compressed to its key points.                                            *)
Whole(c) == [of |-> c, short |-> FALSE]
KeyPoints(text) == [text EXCEPT !.short = TRUE]
Tokens(text) == IF text.short THEN ShortSize[text.of] ELSE Size[text.of]
HoursIn(text) == IF text.short THEN ShortHours[text.of] ELSE Hours[text.of]

\* Nothing deletes a chunk, so every row has its content.
Contents == [c \in ChunkIds |-> Whole(c)]

EdgeLoaded(ids) ==
    LET Half(start) == [i \in 1 .. (Len(ids) + 2 - start) \div 2 |->
                           ids[start + 2 * (i - 1)]]
    IN  Half(1) \o Reverse(Half(2))

Length(blocks) == MapThenSumSet(LAMBDA i : Tokens(blocks[i].text), DOMAIN blocks)

\* The tail blocks are dropped until the rest fits.
Truncated(blocks, budget) ==
    Take(blocks, Max({n \in 0 .. Len(blocks) : Length(Take(blocks, n)) <= budget}))

TextsOf(blocks) == {blocks[i].text : i \in DOMAIN blocks}

(* The one-shot service augments the rows and, apart from them, the        *)
(* contents by chunk, and puts the two together when it assembles.         *)
AugmentedRows(ids) == IF Augmentation THEN EdgeLoaded(ids) ELSE ids

AugmentedContents ==
    IF Augmentation THEN [c \in ChunkIds |-> KeyPoints(Contents[c])] ELSE Contents

Assembled(rows, contents) ==
    [i \in DOMAIN rows |-> [id |-> rows[i], text |-> contents[rows[i]]]]

OneShotContext(ids, budget) ==
    Truncated(Assembled(AugmentedRows(ids), AugmentedContents), budget)

(* The stages carry chunks with their texts: retrieve puts them together,  *)
(* assemble compresses each, reorders them by looking each id up, and      *)
(* looks the ids that were kept up in the chunks it made.                  *)
StageChunks(ids) == [i \in DOMAIN ids |-> [id |-> ids[i], text |-> Contents[ids[i]]]]

Compressed(chunks) == [i \in DOMAIN chunks |-> [chunks[i] EXCEPT !.text = KeyPoints(@)]]

Reordered(chunks) ==
    LET order == EdgeLoaded([i \in DOMAIN chunks |-> chunks[i].id])
    IN  [i \in DOMAIN order |-> EntryOf(chunks, order[i])]

AugmentedChunks(chunks) == IF Augmentation THEN Reordered(Compressed(chunks)) ELSE chunks

\* Mutated: the ids are looked up in the chunks as the client sent them.
KeptAsSent(context, chunks) ==
    LET order == Ascending(Ids(context)) IN [i \in DOMAIN order |-> StageChunks(order)[i]]

KeptChunks(context, chunks) ==
    LET order == Ascending(Ids(context)) IN [i \in DOMAIN order |-> EntryOf(chunks, order[i])]

----------------------------------------------------------------------------
(* Estimates and their reports.  A line is [component, grounded, cites,    *)
(* hours]; an estimate [lines, total, insufficient].                       *)
TotalOf(lines) == MapThenSumSet(LAMBDA i : lines[i].hours, DOMAIN lines)

\* The validators of RagEstimationResult and of its lines.
Accepted(draft) ==
    \A i \in DOMAIN draft.lines :
        LET line == draft.lines[i]
        IN  IF line.grounded THEN line.cites # {}
            ELSE line.cites = {} /\ line.hours = 0

\* Mutated: the total is left as drafted.
ValidatedKeepingTotal(draft) == draft

Validated(draft) ==
    IF draft.lines = <<>> THEN draft ELSE [draft EXCEPT !.total = TotalOf(draft.lines)]

CitationStatus(line, ids) ==
    IF line.grounded
    THEN IF line.cites = {} THEN "integrity_violation"
         ELSE IF line.cites \subseteq ids THEN "grounded_ok" ELSE "dangling_citation"
    ELSE IF line.cites = {} /\ line.hours = 0 THEN "insufficient_data"
    ELSE "integrity_violation"

Citations(estimate, ids) ==
    [i \in DOMAIN estimate.lines |-> CitationStatus(estimate.lines[i], ids)]

Coherence(estimate) ==
    (IF estimate.insufficient /\ estimate.lines # <<>>
     THEN {"insufficient_context_violation"} ELSE {})
    \cup (IF estimate.lines # <<>> /\ estimate.total # TotalOf(estimate.lines)
          THEN {"total_hours_mismatch"} ELSE {})
    \cup {"duplicate_component" : i \in {j \in DOMAIN estimate.lines :
             \E k \in 1 .. j - 1 : estimate.lines[k].component = estimate.lines[j].component}}
    \cup {"zero_hours_grounded" : i \in {j \in DOMAIN estimate.lines :
             estimate.lines[j].grounded /\ estimate.lines[j].hours = 0}}

\* The tolerance over the largest anchor is a quarter of it.
NumericGrade(hours, anchors) ==
    IF anchors = {} THEN "insufficient"
    ELSE IF Max(anchors) <= 0 THEN "insufficient"
    ELSE IF 4 * hours <= 5 * Max(anchors) THEN "grounded" ELSE "degraded"

\* Mutated: the judge's grade is taken as it is.
WorseTrustingJudge(a, b) == b

Worse(a, b) ==
    IF "degraded" \in {a, b} THEN "degraded"
    ELSE IF "insufficient" \in {a, b} THEN "insufficient" ELSE "grounded"

\* judged: the grades of the judge; a line it left out, and every line when
\* it failed or there is no provider, is insufficient.
JudgeGrade(judged, i) == IF i \in DOMAIN judged THEN judged[i] ELSE "insufficient"

Grades(estimate, texts, judged) ==
    LET anchors == UNION {HoursIn(text) : text \in texts}
    IN  [i \in DOMAIN estimate.lines |->
            Worse(NumericGrade(estimate.lines[i].hours, anchors), JudgeGrade(judged, i))]

----------------------------------------------------------------------------
\* The parts of a retrieve call, kept for as long as its rows are.
NoCall == [kind |-> "none"]
NoEstimate == [lines |-> <<>>, total |-> 0, insufficient |-> FALSE]
NoSearch == [vector |-> Failed, lexical |-> Failed]

StagesInit ==
    /\ search = NoSearch
    /\ wizard = [stage |-> "reformulate", status |-> 0, call |-> NoCall, rows |-> <<>>,
                 ids |-> <<>>, budget |-> 0, context |-> <<>>, kept |-> <<>>,
                 estimate |-> NoEstimate, judged |-> <<>>, grades |-> <<>>]

Ids200(rows) == [i \in DOMAIN rows |-> rows[i].id]

Answers(w) == wizard' = w /\ UNCHANGED search
Refuses(status) == Answers([wizard EXCEPT !.status = status])

Retrieved(call, rows) ==
    Answers([wizard EXCEPT !.stage = "assemble", !.status = 200, !.call = call,
              !.rows = rows, !.ids = Ids200(rows)])

\* The answer is the search text, hence what the branches will find; a model
\* that fails, or a chain without a LiteLLM provider, is a 502.
StageReformulate ==
    /\ wizard.stage = "reformulate"
    /\ \/ Refuses(502)
       \/ /\ search' \in Searches
          /\ wizard' = [wizard EXCEPT !.stage = "retrieve", !.status = 200]

\* The modules and tasks of the query, for the hours of its tasks (TaskHours):
\* the wizard stays where it is.
StageStructure ==
    /\ wizard.stage # "reformulate"
    /\ Refuses(502) \/ Answers([wizard EXCEPT !.status = 200])

StageRetrieve ==
    /\ wizard.stage = "retrieve"
    /\ \E mode \in {"A", "B", "C", "D"}, w \in Windows, reranker \in Rerankers :
         \E logit \in IF reranker = "active" THEN Logits ELSE {CHOOSE l \in Logits : TRUE} :
             Retrieved([kind |-> "mode", mode |-> mode, recall |-> w[1], top |-> w[2],
                        reranker |-> reranker, logit |-> logit],
                       Retrieve(mode, search.vector, search.lexical, w[1], w[2],
                                reranker, logit))

StageRetrieveAdvanced ==
    /\ wizard.stage = "retrieve"
    /\ \E config \in Configs, collection \in Collections, w \in Windows, logit \in Logits :
         IF RefusedConfig(config) THEN Refuses(422)
         ELSE Retrieved([kind |-> "advanced"],
                        AdvancedRetrieve(config, collection, search.vector, search.lexical,
                                         w[1], w[2], "active", logit))

\* Any error of the searches' own work, of the reranker or of the contents.
StageRetrieveFails == wizard.stage = "retrieve" /\ Refuses(502)

\* kept_chunks are given in the order of their ids.
StageAssemble ==
    /\ wizard.stage = "assemble"
    /\ IF wizard.ids = <<>> THEN Refuses(422)
       ELSE \E budget \in Budgets :
              LET chunks == AugmentedChunks(StageChunks(wizard.ids))
                  context == Truncated(chunks, budget)
              IN  /\ search' = NoSearch
                  /\ wizard' = [wizard EXCEPT !.stage = "generate", !.status = 200,
                                  !.call = NoCall, !.rows = <<>>, !.budget = budget,
                                  !.context = context,
                                  !.kept = KeptChunks(context, chunks)]

\* An empty context block or no kept chunk is a 422, a chain without a
\* LiteLLM provider a 503, a draft that is not accepted at the last attempt
\* a 502.
StageGenerate ==
    /\ wizard.stage = "generate"
    /\ IF wizard.kept = <<>> THEN Refuses(422)
       ELSE \/ Refuses(503)
            \/ \E draft \in Drafts :
                 IF Accepted(draft)
                 THEN Answers([wizard EXCEPT !.stage = "verify", !.status = 200,
                                !.estimate = Validated(draft)])
                 ELSE Refuses(502)

\* use_judge, or HALLUCINATION_GATE_ENABLED; without it the report is empty.
StageVerify ==
    /\ wizard.stage = "verify"
    /\ \/ Answers([wizard EXCEPT !.stage = "done"])
       \/ \E lines \in SUBSET DOMAIN wizard.estimate.lines :
            \E judged \in [lines -> {"grounded", "degraded", "insufficient"}] :
              Answers([wizard EXCEPT !.stage = "done", !.judged = judged,
                        !.grades = Grades(wizard.estimate, TextsOf(wizard.kept), judged)])

StagesNext ==
    \/ StageReformulate \/ StageStructure
    \/ StageRetrieve \/ StageRetrieveAdvanced \/ StageRetrieveFails
    \/ StageAssemble \/ StageGenerate \/ StageVerify

StagesSpec == StagesInit /\ [][StagesNext]_stageVars

----------------------------------------------------------------------------
AtStage(stage) == wizard.stage = stage
CalledByMode == wizard.call.kind = "mode"

Shown(ids) == {ids[i] : i \in DOMAIN ids}

\* The chunks a retrieve call can choose from.
Candidates ==
    Ids(Recalled(ResolveMode(wizard.call.mode), search.vector, search.lexical,
                 wizard.call.recall))

(* The rows come best first by the score they show, whichever branch       *)
(* failed and whether they were fused, reranked or neither; and a reranker *)
(* has seen all that was recalled, so that no candidate it prefers is cut  *)
(* off before it (retrieve's order: fuse, cut to recall_k, rerank, cut to  *)
(* top_k_final).                                                           *)
BestFirst ==
    AtStage("assemble") =>
        /\ \A i \in 2 .. Len(wizard.rows) : wizard.rows[i].score <= wizard.rows[i - 1].score
        /\ \A i \in DOMAIN wizard.rows : wizard.rows[i].score \in 0 .. Unit
        /\ CalledByMode /\ EffectivePlan(ResolveMode(wizard.call.mode), wizard.call.reranker).rerank =>
               \A c \in Candidates \ Shown(wizard.ids) : \A i \in DOMAIN wizard.ids :
                   wizard.call.logit[c] <= wizard.call.logit[wizard.ids[i]]

RankIn(outcome, limit, c) == LET rows == Take(outcome.rows, limit)
                             IN  IF c \in Ids(rows)
                                 THEN CHOOSE i \in DOMAIN rows : rows[i].id = c ELSE limit + 1

(* Consensus wins: a chunk that each branch ranks at least as high as      *)
(* another, and one of them higher, is not left out or placed below that   *)
(* other (reciprocal_rank_fusion, the cuts after it).                      *)
ConsensusOutranks ==
    AtStage("assemble") /\ CalledByMode /\ search.vector.ok /\ search.lexical.ok =>
        LET Rank(b, c) == RankIn(b, wizard.call.recall, c)
            Beats(a, c) == /\ Rank(search.vector, a) <= Rank(search.vector, c)
                           /\ Rank(search.lexical, a) <= Rank(search.lexical, c)
                           /\ <<Rank(search.vector, a), Rank(search.lexical, a)>>
                                  # <<Rank(search.vector, c), Rank(search.lexical, c)>>
        IN  wizard.call.mode = "B" =>
                \A j \in DOMAIN wizard.ids : \A a \in DOMAIN CollectionOf :
                    Beats(a, wizard.ids[j]) => \E i \in 1 .. j - 1 : wizard.ids[i] = a

\* Asked for the same branches with the same limits, no threshold and the
\* default fusion, the debug screen has production's chunks in its order.
DebugShowsProduction ==
    AtStage("assemble") /\ CalledByMode /\ wizard.call.mode \in {"A", "B"} =>
        \A rerank \in BOOLEAN :
        LET request == [strategies |-> IF wizard.call.mode = "A" THEN {"vector"} ELSE {"hybrid"},
                        hybrid |-> TRUE, method |-> "rrf", threshold |-> 0,
                        k |-> [vector |-> wizard.call.recall, lexical |-> wizard.call.recall],
                        max |-> Min({wizard.call.recall, wizard.call.top}), rerank |-> rerank]
        IN  Ids200(RetrievalDebug(request, search.vector, search.lexical).final) = wizard.ids

\* A chunk a branch found is missing from a list that is not full only if
\* the threshold dropped it and the text search did not bring it back; one
\* that came back says it is below the threshold; and none is shown without
\* the branch that found it.  Asking for the reranker, which is the "transparent
\* placeholder", changes neither the list nor the diff made again after it.
DebugAccountsForAll(threshold, max) ==
    LET limit == [vector |-> 3, lexical |-> 3]
        Debug(rerank) ==
            RetrievalDebug([strategies |-> {"hybrid"}, hybrid |-> TRUE, method |-> "rrf",
                            threshold |-> threshold, k |-> limit, max |-> max,
                            rerank |-> rerank],
                           search.vector, search.lexical)
        debug == Debug(FALSE)
        shown == Ids(debug.final)
        Signals(c) == EntryOf(debug.final, c).signals
        diff == debug.diff
        lost == (diff.common \cup diff.vectorOnly \cup diff.lexicalOnly) \ shown
    IN  /\ Debug(TRUE) = debug
        /\ search.vector.ok /\ search.lexical.ok =>
            /\ Len(debug.final) < max => lost \subseteq diff.dropped \cap diff.vectorOnly
            /\ \A c \in shown :
                 /\ c \in diff.dropped => {"below_threshold", "lexical_exact_match"}
                                              \subseteq Signals(c)
                 /\ c \in diff.common <=> "branch_consensus" \in Signals(c)
                 /\ Signals(c) \cap {"semantic", "lexical_exact_match"} # {}

(* The debug screen can be trusted: it shows what production would return, *)
(* also when a branch fails (run_retrieval_debug against                   *)
(* RetrievalService.retrieve), and accounts for every chunk a branch found *)
(* at any threshold (build_ranking_diff and build_explanation, which see   *)
(* the entries before the threshold, against the fusion, which sees those  *)
(* after it).                                                              *)
DebugTellsTheTruth ==
    /\ DebugShowsProduction
    /\ AtStage("retrieve") => \A threshold \in {0, Unit \div 2, Unit} : \A max \in 1 .. 3 :
                             DebugAccountsForAll(threshold, max)

(* The wizard gives what the one-shot endpoint gives: from the same rows   *)
(* and budget the same blocks in the same order, although one augments     *)
(* chunks that carry their texts and the other rows and contents apart;    *)
(* and from the same answers of the models the same grades, although       *)
(* kept_chunks come back in the order of their ids and the gate reads them *)
(* instead of the context (augment_stage_chunks, stage_assemble,           *)
(* stage_verify against augment_retrieval_chunks, assemble_rag_context and *)
(* RagEstimationService.estimate).                                         *)
StagedAgreesWithOneShot ==
    wizard.stage \in {"generate", "verify", "done"} =>
        LET context == OneShotContext(wizard.ids, wizard.budget)
        IN  /\ wizard.context = context
            /\ Ids(wizard.kept) = Ids(context)
            /\ wizard.grades # <<>> =>
                   wizard.grades = Grades(wizard.estimate, TextsOf(context), wizard.judged)

(* The reports do not contradict the schema: what the validators let       *)
(* through is never flagged for its integrity or its total, whatever the   *)
(* model drafted, so these two flags of an answer mean a defect of the     *)
(* code and not of the model (align_total_hours_to_line_items,             *)
(* grounded_sources_integrity, verify_citations, check_coherence).         *)
ReportsAgreeWithSchema ==
    wizard.stage \in {"verify", "done"} =>
        /\ \A i \in DOMAIN wizard.estimate.lines :
             Citations(wizard.estimate, Ids(wizard.kept))[i] # "integrity_violation"
        /\ "total_hours_mismatch" \notin Coherence(wizard.estimate)

(* A line is graded grounded only on the strength of a chunk that is in    *)
(* the prompt: the texts the gate reads are cut with the context           *)
(* (truncate_assembled_context, numeric_anchor).                           *)
GroundedByShownAnchor ==
    AtStage("done") =>
        \A i \in DOMAIN wizard.grades : wizard.grades[i] = "grounded" =>
            \E text \in TextsOf(wizard.context) : \E h \in HoursIn(text) :
                4 * wizard.estimate.lines[i].hours <= 5 * h

(* "Place strongest chunks (best-first input) at both ends of the          *)
(* context" (reorder_edge_loaded_ids): of a context of two chunks or more, *)
(* the first and the last are the two best rows.  Refuted: the order is    *)
(* made before the cut to the budget, which drops the tail, the second     *)
(* best chunk first.                                                       *)
StrongestAtBothEnds ==
    wizard.stage \in {"generate", "verify", "done"} /\ Len(wizard.context) >= 2 =>
        {wizard.context[1].id, Last(wizard.context).id} = {wizard.ids[1], wizard.ids[2]}
=============================================================================
