----------------------------- MODULE Retrieval -----------------------------
(***************************************************************************)
(* What the chunk searches return and how it is ranked: the production     *)
(* service (app/embedding_pipeline/retrieval_service.py), the stage-       *)
(* configured one (advanced_retrieval.py) and the debug screen's           *)
(* (retrieval_debug.py, fusion.py), as functions of what the two branches  *)
(* found.                                                                  *)
(*                                                                         *)
(* A branch outcome is [ok, rows]: rows are the matching chunks, [id,      *)
(* value] best first, value being a cosine distance or a text rank, of     *)
(* which a statement returns its limit; a branch that raised is not ok.    *)
(* Scores are integers in 0 .. Unit, Unit standing for 1.0.                *)
(***************************************************************************)
EXTENDS Integers, SequencesExt

CONSTANTS
    Unit,
    RrfK,            \* retrieval_rrf_k
    CollectionOf,    \* the collection column of each chunk
    RoutingEnabled   \* RETRIEVAL_ROUTING_ENABLED

ChunkIds == DOMAIN CollectionOf

ASSUME RetrievalAssumption ==
    /\ Unit \in Nat \ {0} /\ RrfK \in Nat \ {0}
    /\ ChunkIds \subseteq Nat
    /\ RoutingEnabled \in BOOLEAN

BranchOutcome == [ok : BOOLEAN, rows : Seq([id : ChunkIds, value : Int])]
Failed == [ok |-> FALSE, rows |-> <<>>]

Take(s, n) == SubSeq(s, 1, IF n < Len(s) THEN n ELSE Len(s))
Ids(entries) == {entries[i].id : i \in DOMAIN entries}
EntryOf(entries, c) == entries[CHOOSE i \in DOMAIN entries : entries[i].id = c]
Clamp(x) == IF x < 0 THEN 0 ELSE IF x > Unit THEN Unit ELSE x

\* The elements of S in the order before, a set of pairs.
Ordered(S, before) ==
    CHOOSE s \in [1 .. Cardinality(S) -> S] :
        \A i, j \in 1 .. Cardinality(S) : i < j => <<s[i], s[j]>> \in before

Ascending(S) == Ordered(S, {p \in S \X S : p[1] < p[2]})

\* The entries of s at the positions kept.
Picked(s, kept) == LET order == Ascending(kept) IN [i \in DOMAIN order |-> s[order[i]]]

----------------------------------------------------------------------------
VectorEntries(rows) ==
    [i \in DOMAIN rows |->
        [id |-> rows[i].id, rank |-> i, score |-> Clamp(Unit - rows[i].value)]]

\* Where x lies between the least and the greatest of xs.
MinMax(x, xs) == IF Max(xs) = Min(xs) THEN Unit
                 ELSE ((x - Min(xs)) * Unit) \div (Max(xs) - Min(xs))

LexicalEntries(rows) ==
    LET ranks == {rows[i].value : i \in DOMAIN rows}
    IN  [i \in DOMAIN rows |-> [id |-> rows[i].id, rank |-> i,
                                score |-> MinMax(rows[i].value, ranks)]]

\* Best score first, ties by chunk id.
RankFusedScores(score) ==
    LET before == {p \in (DOMAIN score) \X (DOMAIN score) :
                      \/ score[p[1]] > score[p[2]]
                      \/ score[p[1]] = score[p[2]] /\ p[1] < p[2]}
        ids == Ordered(DOMAIN score, before)
    IN  [i \in DOMAIN ids |-> [id |-> ids[i], rank |-> i, score |-> score[ids[i]]]]

\* branches: from a branch's name to its entries.
Contributors(branches, c) == {b \in DOMAIN branches : c \in Ids(branches[b])}
AllIds(branches) == UNION {Ids(branches[b]) : b \in DOMAIN branches}

\* Mutated: a branch's share is assigned where it is to be added.
LastBranchFusion(branches) ==
    RankFusedScores([c \in AllIds(branches) |->
        Unit \div (RrfK + EntryOf(branches[IF "lexical" \in Contributors(branches, c)
                                           THEN "lexical" ELSE "vector"], c).rank)])

\* RRF: each branch a chunk is in adds its share.
ReciprocalRankFusion(branches) ==
    RankFusedScores([c \in AllIds(branches) |->
        MapThenSumSet(LAMBDA b : Unit \div (RrfK + EntryOf(branches[b], c).rank),
                      Contributors(branches, c))])

\* The division by the sum of the weights, the same for all, is left out.
WeightedFusion(branches, weight) ==
    RankFusedScores([c \in AllIds(branches) |->
        MapThenSumSet(LAMBDA b : weight[b] * EntryOf(branches[b], c).score,
                      Contributors(branches, c))])

----------------------------------------------------------------------------
(* The modes.  A reranker is "disabled" (RETRIEVAL_RERANK_ENABLED), "noop" *)
(* (no model configured) or "active".                                      *)
Hybrid == {"vector", "lexical"}

ResolveMode(mode) ==
    [branches |-> IF mode \in {"B", "D"} THEN Hybrid ELSE {"vector"},
     rerank |-> mode \in {"C", "D"}]

EffectivePlan(plan, reranker) == [plan EXCEPT !.rerank = @ /\ reranker = "active"]

\* CrossEncoderReranker: stable, by the model's score of each candidate.
Reranked(entries, logit) ==
    LET Logit(i) == logit[entries[i].id]
        before == {p \in (DOMAIN entries) \X (DOMAIN entries) :
                      \/ Logit(p[1]) > Logit(p[2])
                      \/ Logit(p[1]) = Logit(p[2]) /\ p[1] < p[2]}
        order == Ordered(DOMAIN entries, before)
    IN  [i \in DOMAIN order |-> entries[order[i]]]

\* The list that is reranked or cut.
Recalled(plan, vector, lexical, recall) ==
    LET hasLexical == lexical.ok /\ "lexical" \in plan.branches
        ve == VectorEntries(Take(vector.rows, recall))
        le == LexicalEntries(Take(lexical.rows, recall))
    IN  Take(IF vector.ok /\ hasLexical
             THEN ReciprocalRankFusion([vector |-> ve, lexical |-> le])
             ELSE IF vector.ok THEN ve
             ELSE IF hasLexical THEN le ELSE <<>>, recall)

FinalScore(entry, reranked, logit, logits) ==
    IF reranked THEN MinMax(logit[entry.id], logits) ELSE entry.score

\* Mutated: the cut to top_k_final comes before the reranker.
RowsCutBeforeRerank(plan, vector, lexical, recall, top, reranker, logit) ==
    LET reranked == EffectivePlan(plan, reranker).rerank
        recalled == Take(Recalled(plan, vector, lexical, recall), top)
        ordered == IF reranked THEN Reranked(recalled, logit) ELSE recalled
        logits == {logit[c] : c \in Ids(recalled)}
    IN  [i \in DOMAIN ordered |->
            [id |-> ordered[i].id,
             score |-> FinalScore(ordered[i], reranked, logit, logits)]]

Rows(plan, vector, lexical, recall, top, reranker, logit) ==
    LET reranked == EffectivePlan(plan, reranker).rerank
        recalled == Recalled(plan, vector, lexical, recall)
        ordered == IF reranked THEN Reranked(recalled, logit) ELSE recalled
        logits == {logit[c] : c \in Ids(recalled)}
    IN  [i \in DOMAIN Take(ordered, top) |->
            [id |-> ordered[i].id,
             score |-> FinalScore(ordered[i], reranked, logit, logits)]]

Retrieve(mode, vector, lexical, recall, top, reranker, logit) ==
    Rows(ResolveMode(mode), vector, lexical, recall, top, reranker, logit)

----------------------------------------------------------------------------
(* StageConfig: [search, rerank, fusion, routing].  Query transformation   *)
(* and temporal decay are stubs that change nothing.                       *)
Preset(mode) ==
    [search |-> IF mode \in {"B", "D"} THEN "hybrid" ELSE "vector",
     rerank |-> mode \in {"C", "D"}, fusion |-> "rrf", routing |-> FALSE]

StagePlan(config) ==
    [branches |-> IF config.search = "vector" THEN {"vector"} ELSE Hybrid,
     rerank |-> config.rerank]

\* A 422: only reciprocal rank fusion is supported.
RefusedConfig(config) == config.search = "hybrid" /\ config.fusion # "rrf"

\* The predicate on the collection that both statements get.
Routed(config, collection, outcome) ==
    IF config.routing /\ RoutingEnabled
    THEN [outcome EXCEPT !.rows =
             Picked(@, {i \in DOMAIN @ : CollectionOf[@[i].id] = collection})]
    ELSE outcome

AdvancedRetrieve(config, collection, vector, lexical, recall, top, reranker, logit) ==
    Rows(StagePlan(config), Routed(config, collection, vector),
         Routed(config, collection, lexical), recall, top, reranker, logit)

----------------------------------------------------------------------------
(* The debug screen.  A request is [strategies, hybrid, method, weight,    *)
(* threshold, k, max, rerank]: k is the top_k of each branch.              *)
HybridRequested(request) == "hybrid" \in request.strategies /\ request.hybrid

BranchSearched(request, branch, outcome) ==
    IF branch \in request.strategies \/ HybridRequested(request) THEN outcome ELSE Failed

\* Mutated: a score at the threshold is dropped.
StrictlyAboveThreshold(entries, threshold) ==
    Picked(entries, {i \in DOMAIN entries : entries[i].score > threshold})

AboveThreshold(entries, threshold) ==
    Picked(entries, {i \in DOMAIN entries : entries[i].score >= threshold})

ThresholdDrops(entries, threshold) == {c \in Ids(entries) : EntryOf(entries, c).score < threshold}

HybridEntries(request, ve, le) ==
    LET branches == [vector |-> AboveThreshold(ve, request.threshold), lexical |-> le]
    IN  IF request.method = "weighted" THEN WeightedFusion(branches, request.weight)
        ELSE ReciprocalRankFusion(branches)

RankingDiff(ve, le, final, drops, rerankDrops) ==
    [common |-> Ids(ve) \cap Ids(le),
     vectorOnly |-> Ids(ve) \ Ids(le),
     lexicalOnly |-> Ids(le) \ Ids(ve),
     rescued |-> {c \in Ids(final) : /\ EntryOf(final, c).rank <= 3
                                     /\ c \in (Ids(ve) \ Ids(le)) \cup (Ids(le) \ Ids(ve))},
     dropped |-> drops, rerankDropped |-> rerankDrops]

Explanation(c, ve, le, rescued, threshold) ==
    (IF c \in Ids(ve) THEN {"semantic"} ELSE {})
    \cup (IF c \in ThresholdDrops(ve, threshold) THEN {"below_threshold"} ELSE {})
    \cup (IF c \in Ids(le) THEN {"lexical_exact_match"} ELSE {})
    \cup (IF c \in Ids(ve) \cap Ids(le) THEN {"branch_consensus"} ELSE {})
    \cup (IF c \in rescued THEN {"hybrid_rescued"} ELSE {})

NoDiff == RankingDiff(<<>>, <<>>, <<>>, {}, {})

\* The first max entries, each with its explanation.
FinalResults(entries, ve, le, diff, request) ==
    [i \in DOMAIN Take(entries, request.max) |->
        [id |-> entries[i].id,
         signals |-> Explanation(entries[i].id, ve, le, diff.rescued, request.threshold)]]

\* A reranker answers with an order of the results' positions.  The only
\* one the endpoint gives is NoOpReranker.
NoOpOrder(results) == [i \in DOMAIN results |-> i]

RerankSignal(before, after) ==
    IF after < before THEN {"rerank_promoted"}
    ELSE IF after > before THEN {"rerank_demoted"} ELSE {}

ApplyRerank(results, order) ==
    [i \in DOMAIN order |->
        [results[order[i]] EXCEPT !.signals = @ \cup RerankSignal(order[i], i)]]

\* The diff is made again, from the positions of the reranked results.
RerankEntries(results, order) ==
    [i \in DOMAIN order |-> [id |-> results[order[i]].id, rank |-> i]]

RerankDrops(results, order) == Ids(results) \ Ids(RerankEntries(results, order))

RetrievalDebug(request, vector, lexical) ==
    LET v == BranchSearched(request, "vector", vector)
        l == BranchSearched(request, "lexical", lexical)
        ve == VectorEntries(Take(v.rows, request.k.vector))
        le == LexicalEntries(Take(l.rows, request.k.lexical))
        drops == ThresholdDrops(ve, request.threshold)
        fused == HybridRequested(request) /\ v.ok /\ l.ok
        entries == IF fused THEN HybridEntries(request, ve, le)
                   ELSE IF v.ok THEN AboveThreshold(ve, request.threshold)
                   ELSE le
        diff == IF fused THEN RankingDiff(ve, le, Take(entries, request.max), drops, {})
                ELSE NoDiff
        found == FinalResults(entries, ve, le, diff, request)
        order == NoOpOrder(found)
        reranked == request.rerank /\ found # <<>>
    IN  [final |-> IF reranked THEN ApplyRerank(found, order) ELSE found,
         diff |-> IF reranked /\ fused
                  THEN RankingDiff(ve, le, RerankEntries(found, order), drops,
                                   RerankDrops(found, order))
                  ELSE diff]
=============================================================================
