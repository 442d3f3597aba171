---------------------------- MODULE RagEstimation ----------------------------
(***************************************************************************)
(* POST /estimate/rag (app/routers/rag_estimations.py) from the look-up of *)
(* its Idempotency-Key to the answer: reformulation, the two search        *)
(* branches that share the request's database session                      *)
(* (app/embedding_pipeline/retrieval_service.py), the context, the model,  *)
(* the judge and the store (app/services/rag_idempotency.py), beside the   *)
(* ingests of Corpus.                                                      *)
(*                                                                         *)
(*   requests  the locals of each request and its answer                   *)
(*   store     per key, the answer kept for the clients that ask again     *)
(***************************************************************************)
EXTENDS Corpus

CONSTANTS
    Requests,      \* bound: the requests received
    Keys,          \* the Idempotency-Key headers
    NoKey,
    KeyOf,
    ModeOf,        \* the retrieval mode each request ends up with
    Matching,      \* chunks the full-text search finds for the question
    TopK,          \* top_k_final
    MaxAttempts,   \* structured_output_max_attempts
    Reformulating, \* requests with a transcript, or REFORMULATION_ENABLED
    HasRoute,      \* some provider of the chain is a LiteLLM one
    Reranking,     \* a cross-encoder is configured and enabled
    Judging,       \* HALLUCINATION_GATE_ENABLED
    OnRedis        \* the store is Redis (REDIS_URL), and may be unreachable

ASSUME RagAssumption ==
    /\ NoKey \notin Keys
    /\ KeyOf \in [Requests -> Keys \cup {NoKey}]
    /\ ModeOf \in [Requests -> {"A", "B", "C", "D", "bad"}]
    /\ Matching \subseteq Chunks
    /\ TopK \in Nat \ {0}
    /\ MaxAttempts \in Nat \ {0}
    /\ Reformulating \subseteq Requests
    /\ {HasRoute, Reranking, Judging, OnRedis} \subseteq BOOLEAN

VARIABLES requests, store

ragVars == <<requests, store>>
vars == <<documents, chunks, ingests, requests, store>>

----------------------------------------------------------------------------
\* resolve_mode; a reranker that is off or a no-op leaves mode A or B.
Branches(q) == IF ModeOf[q] \in {"B", "D"} THEN {"vector", "lexical"} ELSE {"vector"}
Reranks(q) == Reranking /\ ModeOf[q] \in {"C", "D"}

Min2(a, b) == IF a < b THEN a ELSE b

(* An answer of 200.  kind: "insufficient" is the outcome built without    *)
(* the model; cites: the chunks its lines name; dangling: those of them    *)
(* that the citation report flags.                                         *)
Answer == [kind : {"estimate", "insufficient"},
           cites : SUBSET Chunks,
           dangling : SUBSET Chunks]
Insufficient == [kind |-> "insufficient", cites |-> {}, dangling |-> {}]
NoAnswer == [kind |-> "none", cites |-> {}, dangling |-> {}]

Steps == {"lookup", "reformulate", "retrieve", "search", "rerank", "contents",
          "generate", "judge", "store"}
\* replayed: 200 with the stored answer; ok: 200 after the work; invalid:
\* 422; unavailable: 503; error: 500.
Ended == {"replayed", "ok", "invalid", "unavailable", "error"}

\* embedding (the query) -> ready -> querying -> found or failed.
BranchStates == {"off", "embedding", "ready", "querying", "found", "failed"}

(* tried: the attempts of the current completion; hits: what the branches  *)
(* have found; aborted: the session's transaction is; shown: the chunks of *)
(* the prompt's context; answer: what the client is or will be given.      *)
Request == [pc : Steps \cup Ended, tried : 0 .. MaxAttempts,
            branch : [{"vector", "lexical"} -> BranchStates],
            hits : SUBSET Chunks, aborted : BOOLEAN, shown : SUBSET Chunks,
            answer : Answer \cup {NoAnswer}]

NoBranch == [b \in {"vector", "lexical"} |-> "off"]

RagInit ==
    /\ requests = [q \in Requests |->
                     [pc |-> "lookup", tried |-> 0, branch |-> NoBranch, hits |-> {},
                      aborted |-> FALSE, shown |-> {},
                      answer |-> NoAnswer]]
    /\ store = [k \in Keys |-> NoAnswer]

At(q, pc) == requests[q].pc = pc

\* Request q changes alone; the store does not.
Becomes(q, r) ==
    /\ requests' = [requests EXCEPT ![q] = r]
    /\ UNCHANGED <<store, corpusVars>>

\* The locals of a step are of no use after it.
Goes(q, pc) == Becomes(q, [requests[q] EXCEPT !.pc = pc, !.tried = 0])
Fails(q, status) ==
    Becomes(q, [requests[q] EXCEPT !.pc = status, !.tried = 0, !.hits = {},
                  !.branch = NoBranch, !.aborted = FALSE, !.shown = {},
                  !.answer = NoAnswer])

----------------------------------------------------------------------------
\* estimate_rag up to the mode; an entry that can no longer be parsed is
\* deleted and counts as absent, as an expired one (Expire).
Lookup(q) ==
    /\ At(q, "lookup")
    /\ IF KeyOf[q] # NoKey /\ store[KeyOf[q]] # NoAnswer
       THEN Becomes(q, [requests[q] EXCEPT !.pc = "replayed",
                          !.answer = store[KeyOf[q]]])
       ELSE IF ModeOf[q] = "bad" THEN Fails(q, "invalid")
       ELSE Goes(q, "reformulate")

LookupFails(q) ==
    /\ At(q, "lookup")
    /\ OnRedis /\ KeyOf[q] # NoKey
    /\ Fails(q, "error")

\* The router maps a StructuredCompletionError to 503; a
\* QueryReformulationError is not one.
Reformulate(q) ==
    /\ At(q, "reformulate")
    /\ IF q \in Reformulating /\ ~HasRoute THEN Fails(q, "error")
       ELSE Goes(q, "retrieve")

\* Mutated: the counter of the attempts starts over.
AttemptFailsForgettingCount(q, pc, exhausted) ==
    /\ At(q, pc)
    /\ Becomes(q, [requests[q] EXCEPT !.tried = 1 - @])

\* complete_structured: an attempt fails; the last one fails the call.
AttemptFails(q, pc, exhausted) ==
    /\ At(q, pc)
    /\ IF requests[q].tried + 1 < MaxAttempts
       THEN Becomes(q, [requests[q] EXCEPT !.tried = @ + 1])
       ELSE exhausted

ReformulateAttemptFails(q) ==
    /\ q \in Reformulating /\ HasRoute
    /\ AttemptFails(q, "reformulate", Fails(q, "error"))

----------------------------------------------------------------------------
\* RetrievalService.retrieve: asyncio.gather starts the branches of the mode.
StartSearch(q) ==
    /\ At(q, "retrieve")
    /\ Becomes(q, [requests[q] EXCEPT !.pc = "search",
                     !.branch = [b \in {"vector", "lexical"} |->
                                   IF b \notin Branches(q) THEN "off"
                                   ELSE IF b = "vector" THEN "embedding" ELSE "ready"]])

SetBranch(q, b, state) == [requests[q] EXCEPT !.branch[b] = state]

EmbedQuery(q) ==
    /\ At(q, "search") /\ requests[q].branch["vector"] = "embedding"
    /\ \E state \in {"ready", "failed"} : Becomes(q, SetBranch(q, "vector", state))

\* The branches share one AsyncSession.  A statement issued while the other
\* branch's is in progress is refused, or waits for the connection.
Issue(q, b) ==
    /\ At(q, "search") /\ requests[q].branch[b] = "ready"
    /\ \/ Becomes(q, SetBranch(q, b, "querying"))
       \/ /\ \E c \in Branches(q) \ {b} : requests[q].branch[c] = "querying"
          /\ Becomes(q, SetBranch(q, b, "failed"))

\* The vector search ranks every embedded chunk, the full-text search those
\* that match.  In an aborted transaction every statement fails.
Found(q, b) ==
    /\ At(q, "search") /\ requests[q].branch[b] = "querying"
    /\ ~requests[q].aborted
    /\ Becomes(q, [SetBranch(q, b, "found") EXCEPT
                     !.hits = @ \cup (IF b = "vector" THEN chunks
                                      ELSE chunks \cap Matching)])

QueryFails(q, b) ==
    /\ At(q, "search") /\ requests[q].branch[b] = "querying"
    /\ Becomes(q, [SetBranch(q, b, "failed") EXCEPT !.aborted = TRUE])

Searched(q) ==
    /\ At(q, "search")
    /\ \A b \in Branches(q) : requests[q].branch[b] \in {"found", "failed"}

\* _insufficient_context_outcome: no line to verify, to check or to judge.
AnswerInsufficient(q) ==
    Becomes(q, [requests[q] EXCEPT !.pc = "store", !.branch = NoBranch,
                  !.aborted = FALSE, !.shown = {}, !.tried = 0,
                  !.answer = Insufficient])

\* A branch that failed counts as one that found nothing.
Gather(q) ==
    /\ Searched(q)
    /\ IF requests[q].hits = {} THEN AnswerInsufficient(q)
       ELSE \E best \in SUBSET requests[q].hits :
              /\ Cardinality(best) = Min2(TopK, Cardinality(requests[q].hits))
              /\ Becomes(q, [requests[q] EXCEPT !.branch = NoBranch, !.hits = best,
                               !.pc = IF Reranks(q) THEN "rerank" ELSE "contents"])

Rerank(q) == At(q, "rerank") /\ (Goes(q, "contents") \/ Fails(q, "error"))

\* get_contents_by_ids, on the same session; then what fits the budget.
ReadContents(q) ==
    /\ At(q, "contents")
    /\ ~requests[q].aborted
    /\ \E shown \in SUBSET requests[q].hits :
         IF shown = {} THEN AnswerInsufficient(q)
         ELSE IF ~HasRoute THEN Fails(q, "unavailable")
         ELSE Becomes(q, [requests[q] EXCEPT !.pc = "generate", !.hits = {},
                            !.shown = shown])

ContentsFail(q) == At(q, "contents") /\ Fails(q, "error")

----------------------------------------------------------------------------
\* Mutated: citations are compared with the corpus.
DanglingInCorpus(cites, ids) == cites \ chunks

Dangling(cites, ids) == cites \ ids

\* The model cites what it was shown, or a chunk it was not, or one that is
\* not there at all; verify_citations compares with the ids of the context.
Generate(q) ==
    /\ At(q, "generate")
    /\ \E cites \in SUBSET Chunks :
         Becomes(q, [requests[q] EXCEPT !.tried = 0,
                       !.pc = IF Judging THEN "judge" ELSE "store",
                       !.answer = [kind |-> "estimate", cites |-> cites,
                                   dangling |-> Dangling(cites, requests[q].shown)]])

GenerateAttemptFails(q) == AttemptFails(q, "generate", Fails(q, "unavailable"))

\* judge_estimate turns its own failure into grades: it stops nothing.
Judge(q) == At(q, "judge") /\ Goes(q, "store")
JudgeAttemptFails(q) == AttemptFails(q, "judge", Goes(q, "store"))

----------------------------------------------------------------------------
Store(q) ==
    /\ At(q, "store")
    /\ requests' = [requests EXCEPT ![q].pc = "ok"]
    /\ store' = IF KeyOf[q] = NoKey THEN store
                ELSE [store EXCEPT ![KeyOf[q]] = requests[q].answer]
    /\ UNCHANGED corpusVars

\* store.set is outside the try: the finished answer becomes a 500, even if
\* only the reply of Redis was lost.
StoreFails(q) ==
    /\ At(q, "store")
    /\ OnRedis /\ KeyOf[q] # NoKey
    /\ requests' = [requests EXCEPT ![q].pc = "error"]
    /\ store' \in {store, [store EXCEPT ![KeyOf[q]] = requests[q].answer]}
    /\ UNCHANGED corpusVars

\* The TTL, a restart of the process (memory) or an unreadable entry.
Expire(k) ==
    /\ store[k] # NoAnswer
    /\ store' = [store EXCEPT ![k] = NoAnswer]
    /\ UNCHANGED <<requests, corpusVars>>

Step(q) ==
    \/ Lookup(q)       \/ LookupFails(q)
    \/ Reformulate(q)  \/ ReformulateAttemptFails(q)
    \/ StartSearch(q)  \/ EmbedQuery(q)
    \/ \E b \in Branches(q) : Issue(q, b) \/ Found(q, b) \/ QueryFails(q, b)
    \/ Gather(q)       \/ Rerank(q)
    \/ ReadContents(q) \/ ContentsFail(q)
    \/ Generate(q)     \/ GenerateAttemptFails(q)
    \/ Judge(q)        \/ JudgeAttemptFails(q)
    \/ Store(q)        \/ StoreFails(q)

Init == CorpusInit /\ RagInit

Next ==
    \/ \E q \in Requests : Step(q)
    \/ \E k \in Keys : Expire(k)
    \/ (\E i \in Ingests : IngestStep(i)) /\ UNCHANGED ragVars

\* The event loop runs every request that can go on.
Fairness == \A q \in Requests : WF_vars(Step(q))

Spec == Init /\ [][Next]_vars /\ Fairness

----------------------------------------------------------------------------
(* Whoever is answered 200, by work or from the store, gets an estimate    *)
(* whose unflagged citations were all in a context that a request with the *)
(* same key (or the request itself) gave to the model, and every chunk of  *)
(* that context was read from a committed document: ingests that commit    *)
(* between the branches' statements, truncation and replays never let an   *)
(* unseen citation pass as grounded (verify_citations, IdempotencyStore).  *)
CitationsWereShown ==
    \A q \in Requests :
        At(q, "ok") \/ At(q, "replayed") =>
            \E p \in Requests :
                /\ p = q \/ (KeyOf[p] = KeyOf[q] /\ KeyOf[p] # NoKey)
                /\ requests[q].answer.cites \ requests[q].answer.dangling
                       \subseteq requests[p].shown
                /\ requests[p].shown \subseteq chunks

(* Every request is answered: attempts at the model are bounded, and a     *)
(* branch that fails, is refused its statement or waits for the other      *)
(* branch's cannot hold asyncio.gather for ever.                           *)
EveryRequestEnds == \A q \in Requests : <>(requests[q].pc \in Ended)

(* "Duplicate Idempotency-Key within TTL returns cached                    *)
(* RagEstimationResponse without re-running pipeline" (FR-10 of feature    *)
(* 062).  Refuted: of two requests that overlap, both look the key up      *)
(* before either has stored its answer.                                    *)
DuplicateNotRerun ==
    \A p, q \in Requests :
        p # q /\ KeyOf[p] = KeyOf[q] /\ KeyOf[p] # NoKey =>
            ~(requests[p].pc \in Steps \ {"lookup"} /\ requests[q].pc \in Steps \ {"lookup"})
=============================================================================
