------------------------------ MODULE RagProofs ------------------------------
(***************************************************************************)
(* What holds of the corpus and of POST /estimate/rag for any number of    *)
(* ingests, requests, keys, paths and chunks, and every setting; and of the*)
(* ranking, the context and the reports for any chunks, branch outcomes,   *)
(* windows, budgets and drafts.                                            *)
(***************************************************************************)
EXTENDS RagEstimation, RagStages, TLAPS, FiniteSetTheorems, FunctionTheorems

----------------------------------------------------------------------------
(* The ingests.                                                            *)

CorpusTypeOK ==
    /\ documents \in [Paths -> Ingests \cup {Nobody}]
    /\ chunks \in SUBSET Chunks
    /\ ingests \in [Ingests -> Ingest]

Writing == {"document", "rows"}

\* A committed document is that of an ingest of its path that has been
\* answered: 200, or 500 if the reply to its commit was lost.
DocumentsOK ==
    \A p \in Paths : documents[p] # Nobody =>
        /\ PathOf[documents[p]] = p
        /\ ingests[documents[p]].phase \in {"done", "failed"}

\* A transaction that has written its document holds the path's key: nobody
\* else does, and nobody has committed under it.
KeysHeld ==
    \A i \in Ingests : ingests[i].phase \in Writing =>
        /\ Committed(i) = Nobody
        /\ ~ KeyHeld(i)

\* An ingest that can still be rate limited has an attempt left.
AttemptsLeft(r) == r.phase \in {"looking", "embedding"} => r.tried < MaxEmbedAttempts

CorpusInv ==
    /\ CorpusTypeOK
    /\ \A i \in Ingests : AttemptsLeft(ingests[i])
    /\ DocumentsOK
    /\ KeysHeld
    /\ AnswersMatchCorpus
    /\ WholeDocuments

LEMMA PathOfType == \A i \in Ingests : PathOf[i] \in Paths
  BY CorpusAssumption

LEMMA CorpusInitially == CorpusInit => CorpusInv
<1> SUFFICES ASSUME CorpusInit PROVE CorpusInv
  OBVIOUS
<1>1. CorpusTypeOK
  BY DEF CorpusInit, CorpusTypeOK, Ingest, Phases, MaxEmbedAttempts
<1>2. \A i \in Ingests : Committed(i) = Nobody
  BY PathOfType DEF CorpusInit, Committed
<1>3. WholeDocuments
  BY <1>2, CorpusAssumption DEF CorpusInit, WholeDocuments
<1>. QED
  BY <1>1, <1>3
  DEF CorpusInit, CorpusInv, DocumentsOK, KeysHeld, Writing, AnswersMatchCorpus,
      AttemptsLeft, MaxEmbedAttempts

(* A step of an ingest other than Commit leaves the tables alone; it       *)
(* moves to a phase that claims no more than the tables show.              *)
LEMMA QuietStepOK ==
    ASSUME CorpusInv, NEW i \in Ingests, NEW r \in Ingest,
           ingests' = [ingests EXCEPT ![i] = r],
           UNCHANGED <<documents, chunks>>,
           ingests[i].phase \notin {"done", "failed"},
           r.phase # "done",
           AttemptsLeft(r),
           r.phase = "conflict" => r.named # Nobody /\ Committed(i) = r.named,
           r.phase \in Writing => Committed(i) = Nobody /\ ~ KeyHeld(i)
    PROVE  CorpusInv'
<1> USE DEF CorpusInv
<1>1. CorpusTypeOK'
  BY DEF CorpusTypeOK
<1>2. DocumentsOK'
  BY DEF DocumentsOK, CorpusTypeOK
<1>3. KeysHeld'
  <2> SUFFICES ASSUME NEW j \in Ingests, ingests'[j].phase \in Writing
               PROVE  Committed(j)' = Nobody /\ ~ KeyHeld(j)'
    BY DEF KeysHeld
  <2>1. CASE j = i
    BY <2>1 DEF Committed, KeyHeld, CorpusTypeOK
  <2>2. CASE j # i
    <3>1. ingests'[j] = ingests[j] /\ ingests[j].phase \in Writing
      BY <2>2 DEF CorpusTypeOK
    <3>2. Committed(j) = Nobody /\ ~ KeyHeld(j)
      BY <3>1 DEF KeysHeld
    <3>3. r.phase \in Writing => PathOf[i] # PathOf[j]
      BY <2>2, <3>1 DEF KeyHeld, Writing
    <3>. QED
      BY <3>2, <3>3 DEF Committed, KeyHeld, CorpusTypeOK, Writing
  <2>. QED
    BY <2>1, <2>2
<1>4. AnswersMatchCorpus'
  BY DEF AnswersMatchCorpus, Committed, CorpusTypeOK
<1>5. WholeDocuments'
  BY DEF WholeDocuments, Committed
<1>6. \A j \in Ingests : AttemptsLeft(ingests[j])'
  BY DEF CorpusTypeOK, AttemptsLeft
<1>. QED
  BY <1>1, <1>2, <1>3, <1>4, <1>5, <1>6

LEMMA CommitOK ==
    ASSUME CorpusInv, NEW i \in Ingests, Commit(i)
    PROVE  CorpusInv'
<1> USE DEF CorpusInv
<1>0. PICK answer \in {"done", "failed"} : Move(i, answer)
  BY DEF Commit
<1> DEFINE moved == [ingests[i] EXCEPT !.phase = answer]
<1>1. /\ ingests[i].phase = "rows"
      /\ ingests' = [ingests EXCEPT ![i] = moved]
      /\ documents' = [documents EXCEPT ![PathOf[i]] = i]
      /\ chunks' = chunks \cup ChunksOf[i]
      /\ ingests[i] \in Ingest
  BY <1>0 DEF Commit, Move, CorpusTypeOK
<1>2. moved \in Ingest /\ moved.phase \in {"done", "failed"}
  BY <1>1 DEF Ingest, Phases
<1>3. Committed(i) = Nobody /\ ~ KeyHeld(i)
  BY <1>1 DEF KeysHeld, Writing
<1>4. /\ PathOf[i] \in Paths /\ documents'[PathOf[i]] = i
      /\ i # Nobody
      /\ \A p \in Paths \ {PathOf[i]} : documents'[p] = documents[p]
  BY <1>1, PathOfType, CorpusAssumption DEF CorpusTypeOK
<1>5. CorpusTypeOK'
  BY <1>1, <1>2, CorpusAssumption DEF CorpusTypeOK
<1>6. DocumentsOK'
  <2> SUFFICES ASSUME NEW p \in Paths, documents'[p] # Nobody
               PROVE  /\ PathOf[documents'[p]] = p
                      /\ ingests'[documents'[p]].phase \in {"done", "failed"}
    BY DEF DocumentsOK
  <2>1. CASE p = PathOf[i]
    BY <2>1, <1>1, <1>2, <1>4 DEF CorpusTypeOK
  <2>2. CASE p # PathOf[i]
    <3>1. /\ documents'[p] = documents[p] /\ documents[p] \in Ingests
          /\ PathOf[documents[p]] = p /\ ingests[documents[p]].phase \in {"done", "failed"}
      BY <2>2, <1>4 DEF DocumentsOK, CorpusTypeOK
    <3>. QED
      BY <3>1, <1>1, <1>2 DEF CorpusTypeOK
  <2>. QED
    BY <2>1, <2>2
<1>7. KeysHeld'
  <2> SUFFICES ASSUME NEW j \in Ingests, ingests'[j].phase \in Writing
               PROVE  Committed(j)' = Nobody /\ ~ KeyHeld(j)'
    BY DEF KeysHeld
  <2>1. j # i /\ ingests'[j] = ingests[j]
    BY <1>1, <1>2 DEF CorpusTypeOK, Writing
  <2>2. Committed(j) = Nobody /\ ~ KeyHeld(j)
    BY <2>1 DEF KeysHeld
  <2>3. PathOf[j] # PathOf[i]
    BY <2>1, <2>2, <1>1 DEF KeyHeld
  <2>4. Committed(j)' = Nobody
    BY <2>2, <2>3, <1>4, PathOfType DEF Committed
  <2>5. ~ KeyHeld(j)'
    BY <2>2, <1>1, <1>2 DEF KeyHeld, CorpusTypeOK
  <2>. QED
    BY <2>4, <2>5
\* Nobody can have been told of a document of this path before.
<1>8. \A j \in Ingests : j # i /\ ingests[j].phase \in {"done", "conflict"}
                            => PathOf[j] # PathOf[i]
  <2> SUFFICES ASSUME NEW j \in Ingests, ingests[j].phase \in {"done", "conflict"}
               PROVE  PathOf[j] # PathOf[i]
    OBVIOUS
  <2>1. Committed(j) # Nobody
    BY CorpusAssumption DEF AnswersMatchCorpus
  <2>. QED
    BY <2>1, <1>3 DEF Committed
<1>9. AnswersMatchCorpus'
  <2> SUFFICES ASSUME NEW j \in Ingests
               PROVE  /\ ingests'[j].phase = "done" =>
                             Committed(j)' = j /\ ChunksOf[j] \subseteq chunks'
                      /\ ingests'[j].phase = "conflict" =>
                             /\ ingests'[j].named # Nobody
                             /\ Committed(j)' = ingests'[j].named
    BY DEF AnswersMatchCorpus
  <2>1. CASE j = i
    BY <2>1, <1>1, <1>2, <1>4 DEF Committed, CorpusTypeOK
  <2>2. CASE j # i
    <3>1. ingests'[j] = ingests[j]
      BY <2>2, <1>1 DEF CorpusTypeOK
    <3>2. ingests[j].phase \in {"done", "conflict"} => Committed(j)' = Committed(j)
      BY <2>2, <1>8, <1>4, PathOfType DEF Committed
    <3>. QED
      BY <3>1, <3>2, <1>1 DEF AnswersMatchCorpus
  <2>. QED
    BY <2>1, <2>2
<1>10. WholeDocuments'
  <2> DEFINE stored == {j \in Ingests : Committed(j) = j}
             storedNow == {j \in Ingests : Committed(j)' = j}
  <2>1. \A j \in Ingests : j # i => (Committed(j)' = j <=> Committed(j) = j)
    BY <1>3, <1>4, PathOfType, CorpusAssumption DEF Committed
  <2>2. Committed(i)' = i
    BY <1>4 DEF Committed
  <2>3. storedNow = stored \cup {i}
    BY <2>1, <2>2
  <2>4. chunks = UNION {ChunksOf[j] : j \in stored}
    BY DEF WholeDocuments
  <2>5. chunks' = UNION {ChunksOf[j] : j \in storedNow}
    BY <2>3, <2>4, <1>1
  <2>. QED
    BY <2>5 DEF WholeDocuments
<1>11. \A j \in Ingests : AttemptsLeft(ingests[j])'
  BY <1>1, <1>2 DEF CorpusTypeOK, AttemptsLeft
<1>. QED
  BY <1>5, <1>6, <1>7, <1>9, <1>10, <1>11

LEMMA IngestStepOK ==
    ASSUME CorpusInv, NEW i \in Ingests, IngestStep(i)
    PROVE  CorpusInv'
<1> USE DEF CorpusInv
<1>0. ingests[i] \in Ingest /\ ingests \in [Ingests -> Ingest]
  BY DEF CorpusTypeOK
<1>1. CASE FindDocument(i)
  <2> DEFINE refused == [ingests[i] EXCEPT !.phase = "conflict", !.named = Committed(i)]
             moved(phase) == [ingests[i] EXCEPT !.phase = phase]
  <2>1. ingests[i].phase = "looking" /\ UNCHANGED <<documents, chunks>>
    BY <1>1 DEF FindDocument
  <2>2. CASE Committed(i) # Nobody
    <3>1. Committed(i) \in Ingests
      BY <2>2, PathOfType DEF Committed, CorpusTypeOK
    <3>2. refused \in Ingest
      BY <3>1, <1>0 DEF Ingest, Phases
    <3>3. ingests' = [ingests EXCEPT ![i] = refused]
      BY <2>2, <1>1, <1>0 DEF FindDocument, Refuse
    <3>. QED
      BY <2>1, <2>2, <3>2, <3>3, <1>0, QuietStepOK DEF Writing, AttemptsLeft, Ingest
  <2>3. CASE Committed(i) = Nobody
    <3>1. PICK phase \in {"inserting", "embedding"} :
             ingests' = [ingests EXCEPT ![i] = moved(phase)]
      BY <2>3, <1>1, <1>0 DEF FindDocument, Move
    <3>2. /\ moved(phase) \in Ingest /\ moved(phase).phase = phase
          /\ AttemptsLeft(moved(phase))
      BY <2>1, <1>0 DEF Ingest, Phases, AttemptsLeft
    <3>. QED
      BY <2>1, <3>1, <3>2, QuietStepOK DEF Writing, AttemptsLeft
  <2>. QED
    BY <2>2, <2>3
<1>2. CASE EmbedChunks(i) \/ EmbedFails(i)
  <2> DEFINE moved(phase) == [ingests[i] EXCEPT !.phase = phase]
  <2>1. ingests[i].phase = "embedding" /\ UNCHANGED <<documents, chunks>>
    BY <1>2 DEF EmbedChunks, EmbedFails
  <2>2. PICK phase \in {"inserting", "failed"} :
             ingests' = [ingests EXCEPT ![i] = moved(phase)]
    BY <1>2, <1>0 DEF EmbedChunks, EmbedFails, Move
  <2>3. moved(phase) \in Ingest /\ moved(phase).phase = phase
    BY <1>0 DEF Ingest, Phases
  <2>. QED
    BY <2>1, <2>2, <2>3, QuietStepOK DEF Writing, AttemptsLeft
<1>3. CASE EmbedRateLimited(i)
  <2> DEFINE tried == ingests[i].tried + 1
             phase == IF tried < MaxEmbedAttempts THEN "embedding" ELSE "failed"
             limited == [ingests[i] EXCEPT !.tried = tried, !.phase = phase]
  <2>1. ingests[i].phase = "embedding" /\ UNCHANGED <<documents, chunks>>
    BY <1>3 DEF EmbedRateLimited
  <2>2. ingests' = [ingests EXCEPT ![i] = limited]
    BY <1>3, <1>0 DEF EmbedRateLimited
  <2>3. tried \in 0 .. MaxEmbedAttempts /\ AttemptsLeft(limited)
    BY <2>1, <1>0 DEF AttemptsLeft, Ingest, MaxEmbedAttempts
  <2>4. phase \in {"embedding", "failed"}
    OBVIOUS
  <2> HIDE DEF tried, phase
  <2>5. limited \in Ingest /\ limited.phase = phase
    BY <2>3, <2>4, <1>0 DEF Ingest, Phases
  <2> HIDE DEF limited
  <2>. QED
    BY <2>1, <2>2, <2>3, <2>4, <2>5, QuietStepOK DEF Writing, AttemptsLeft
<1>4. CASE InsertDocument(i)
  <2> DEFINE phase == IF Committed(i) # Nobody THEN "rolledback"
                      ELSE IF ChunksOf[i] = {} THEN "rows" ELSE "document"
             moved == [ingests[i] EXCEPT !.phase = phase]
  <2>1. /\ ingests[i].phase = "inserting" /\ UNCHANGED <<documents, chunks>>
        /\ ~ KeyHeld(i)
    BY <1>4 DEF InsertDocument
  <2>2. ingests' = [ingests EXCEPT ![i] = moved]
    BY <1>4, <1>0 DEF InsertDocument, Move
  <2>3. moved \in Ingest /\ moved.phase = phase
    BY <1>0 DEF Ingest, Phases
  <2>4. phase \in Writing => Committed(i) = Nobody
    BY DEF Writing
  <2>5. phase \notin {"done", "conflict", "looking", "embedding"}
    OBVIOUS
  <2> HIDE DEF phase, moved
  <2>. QED
    BY <2>1, <2>2, <2>3, <2>4, <2>5, QuietStepOK DEF AttemptsLeft
<1>5. CASE InsertChunks(i)
  <2> DEFINE moved == [ingests[i] EXCEPT !.phase = "rows"]
  <2>1. ingests[i].phase = "document" /\ UNCHANGED <<documents, chunks>>
    BY <1>5 DEF InsertChunks
  <2>2. ingests' = [ingests EXCEPT ![i] = moved]
    BY <1>5, <1>0 DEF InsertChunks, Move
  <2>3. moved \in Ingest /\ moved.phase = "rows"
    BY <1>0 DEF Ingest, Phases
  <2>4. Committed(i) = Nobody /\ ~ KeyHeld(i)
    BY <2>1 DEF KeysHeld, Writing
  <2>. QED
    BY <2>1, <2>2, <2>3, <2>4, QuietStepOK DEF AttemptsLeft
<1>6. CASE Commit(i)
  BY <1>6, CommitOK
<1>7. CASE WriteFails(i)
  <2> DEFINE moved == [ingests[i] EXCEPT !.phase = "failed"]
  <2>1. ingests[i].phase \notin {"done", "failed"} /\ UNCHANGED <<documents, chunks>>
    BY <1>7 DEF WriteFails
  <2>2. ingests' = [ingests EXCEPT ![i] = moved]
    BY <1>7, <1>0 DEF WriteFails, Move
  <2>3. moved \in Ingest /\ moved.phase = "failed"
    BY <1>0 DEF Ingest, Phases
  <2>. QED
    BY <2>1, <2>2, <2>3, QuietStepOK DEF Writing, AttemptsLeft
<1>8. CASE FindWinner(i)
  <2> DEFINE refused == [ingests[i] EXCEPT !.phase = "conflict", !.named = Committed(i)]
             moved == [ingests[i] EXCEPT !.phase = "failed"]
  <2>1. ingests[i].phase = "rolledback" /\ UNCHANGED <<documents, chunks>>
    BY <1>8 DEF FindWinner
  <2>2. CASE Committed(i) # Nobody
    <3>1. Committed(i) \in Ingests
      BY <2>2, PathOfType DEF Committed, CorpusTypeOK
    <3>2. refused \in Ingest
      BY <3>1, <1>0 DEF Ingest, Phases
    <3>3. ingests' = [ingests EXCEPT ![i] = refused]
      BY <2>2, <1>8, <1>0 DEF FindWinner, Refuse
    <3>. QED
      BY <2>1, <2>2, <3>2, <3>3, <1>0, QuietStepOK DEF Writing, AttemptsLeft, Ingest
  <2>3. CASE Committed(i) = Nobody
    <3>1. ingests' = [ingests EXCEPT ![i] = moved]
      BY <2>3, <1>8, <1>0 DEF FindWinner, Move
    <3>2. moved \in Ingest /\ moved.phase = "failed"
      BY <1>0 DEF Ingest, Phases
    <3>. QED
      BY <2>1, <3>1, <3>2, QuietStepOK DEF Writing, AttemptsLeft
  <2>. QED
    BY <2>2, <2>3
<1>. QED
  BY <1>1, <1>2, <1>3, <1>4, <1>5, <1>6, <1>7, <1>8 DEF IngestStep

----------------------------------------------------------------------------
(* The requests.                                                           *)

Grounded(answer, shown) == answer.cites \ answer.dangling \subseteq shown

\* A request with key k that has done the work of this answer.
Source(answer, k) ==
    \E p \in Requests : /\ KeyOf[p] = k
                        /\ requests[p].pc \in {"ok", "error"}
                        /\ Grounded(answer, requests[p].shown)

(* A request's locals: what it has found and shown was committed when it   *)
(* was read, and the answer it is about to give is grounded in it.         *)
RequestOK(q, r) ==
    /\ r \in Request
    /\ r.hits \subseteq chunks
    /\ r.shown \subseteq chunks
    /\ r.pc \in {"judge", "store", "ok"} => Grounded(r.answer, r.shown)
    /\ r.pc \in Steps => r.tried < MaxAttempts
    /\ r.pc = "replayed" => KeyOf[q] # NoKey /\ Source(r.answer, KeyOf[q])

StoreOK ==
    /\ store \in [Keys -> Answer \cup {NoAnswer}]
    /\ \A k \in Keys : store[k] # NoAnswer => Source(store[k], k)

RagInv ==
    /\ requests \in [Requests -> Request]
    /\ \A q \in Requests : RequestOK(q, requests[q])
    /\ StoreOK

IInv == CorpusInv /\ RagInv

LEMMA AnswerTypes ==
    /\ Insufficient \in Answer
    /\ NoAnswer \notin Answer
    /\ \A shown : Grounded(Insufficient, shown) /\ Grounded(NoAnswer, shown)
  BY DEF Answer, Insufficient, NoAnswer, Grounded

LEMMA RagInitially == Init => IInv
<1> SUFFICES ASSUME Init PROVE IInv
  OBVIOUS
<1> DEFINE new == [pc |-> "lookup", tried |-> 0, branch |-> NoBranch, hits |-> {},
                   aborted |-> FALSE, shown |-> {}, answer |-> NoAnswer]
<1>1. NoBranch \in [{"vector", "lexical"} -> BranchStates]
  BY DEF NoBranch, BranchStates
<1>2. new \in Request
  BY <1>1, RagAssumption DEF Request, Steps
<1>3. \A q \in Requests : RequestOK(q, new)
  BY <1>2, RagAssumption DEF RequestOK
<1>4. requests \in [Requests -> Request] /\ \A q \in Requests : requests[q] = new
  BY <1>2 DEF Init, RagInit
<1>5. StoreOK
  BY DEF StoreOK, Init, RagInit
<1>. QED
  BY <1>3, <1>4, <1>5, CorpusInitially DEF Init, IInv, RagInv

(* Whoever has done the work stays as it is, so an answer keeps its source *)
(* whatever the other requests do.                                         *)
LEMMA SourceStays ==
    ASSUME RagInv, NEW q \in Requests, NEW r \in Request,
           requests[q].pc \notin {"ok", "error"},
           requests' = [requests EXCEPT ![q] = r],
           NEW answer, NEW k, Source(answer, k)
    PROVE  Source(answer, k)'
<1>1. PICK p \in Requests : /\ KeyOf[p] = k
                            /\ requests[p].pc \in {"ok", "error"}
                            /\ Grounded(answer, requests[p].shown)
  BY DEF Source
<1>2. p # q /\ requests'[p] = requests[p]
  BY <1>1 DEF RagInv
<1>. QED
  BY <1>1, <1>2 DEF Source, Grounded

(* A step of a request that leaves the store alone preserves the           *)
(* invariant if what it makes of its locals is as they should be.          *)
LEMMA BecomesOK ==
    ASSUME IInv, NEW q \in Requests, NEW r, RequestOK(q, r), Becomes(q, r),
           requests[q].pc \notin {"ok", "error"}
    PROVE  IInv'
<1> USE DEF IInv
<1>1. /\ requests' = [requests EXCEPT ![q] = r]
      /\ UNCHANGED <<store, documents, chunks, ingests>>
      /\ r \in Request
  BY DEF Becomes, corpusVars, RequestOK
<1>2. CorpusInv'
  BY <1>1
  DEF CorpusInv, CorpusTypeOK, AttemptsLeft, DocumentsOK, KeysHeld, KeyHeld,
      Committed, AnswersMatchCorpus, WholeDocuments
<1>3. \A answer, k : Source(answer, k) => Source(answer, k)'
  BY <1>1, SourceStays
<1>4. requests' \in [Requests -> Request]
  BY <1>1 DEF RagInv
<1>5. ASSUME NEW p \in Requests
      PROVE  RequestOK(p, requests[p])'
  <2>1. CASE p = q
    <3>1. requests'[p] = r
      BY <2>1, <1>1 DEF RagInv
    <3>. QED
      BY <2>1, <3>1, <1>1, <1>3 DEF RequestOK
  <2>2. CASE p # q
    <3>1. requests'[p] = requests[p]
      BY <2>2, <1>1 DEF RagInv
    <3>. QED
      BY <3>1, <1>1, <1>3 DEF RequestOK, RagInv
  <2>. QED
    BY <2>1, <2>2
<1>6. StoreOK'
  BY <1>1, <1>3 DEF StoreOK, RagInv
<1>. QED
  BY <1>2, <1>4, <1>5, <1>6 DEF RagInv

LEMMA GoesOK ==
    ASSUME IInv, NEW q \in Requests, NEW pc \in Steps, Goes(q, pc),
           requests[q].pc \in Steps,
           pc = "store" => Grounded(requests[q].answer, requests[q].shown),
           pc # "judge"
    PROVE  IInv'
<1> DEFINE r == [requests[q] EXCEPT !.pc = pc, !.tried = 0]
<1>1. requests[q] \in Request /\ RequestOK(q, requests[q])
  BY DEF IInv, RagInv
<1>2. 0 \in 0 .. MaxAttempts /\ 0 < MaxAttempts
  BY RagAssumption
<1>3. /\ r \in Request /\ r.pc = pc /\ r.hits = requests[q].hits
      /\ r.shown = requests[q].shown /\ r.answer = requests[q].answer
      /\ r.tried = 0
  BY <1>1, <1>2 DEF Request
<1>4. RequestOK(q, r)
  BY <1>1, <1>2, <1>3 DEF RequestOK, Steps
<1>. QED
  BY <1>4, BecomesOK DEF Goes, Steps

LEMMA FailsOK ==
    ASSUME IInv, NEW q \in Requests, Fails(q, "error") \/ Fails(q, "invalid")
                                       \/ Fails(q, "unavailable"),
           requests[q].pc \in Steps
    PROVE  IInv'
<1>1. PICK status \in {"error", "invalid", "unavailable"} : Fails(q, status)
  OBVIOUS
<1> DEFINE r == [requests[q] EXCEPT !.pc = status, !.tried = 0, !.hits = {},
                   !.branch = NoBranch, !.aborted = FALSE, !.shown = {},
                   !.answer = NoAnswer]
<1>2. requests[q] \in Request
  BY DEF IInv, RagInv
<1>3. NoBranch \in [{"vector", "lexical"} -> BranchStates] /\ 0 \in 0 .. MaxAttempts
  BY RagAssumption DEF NoBranch, BranchStates
<1>4. r \in Request /\ r.pc = status /\ r.hits = {} /\ r.shown = {}
  BY <1>2, <1>3 DEF Request, Ended
<1>5. RequestOK(q, r)
  BY <1>4 DEF RequestOK, Steps, Ended
<1>. QED
  BY <1>1, <1>5, BecomesOK DEF Fails, Steps

LEMMA AttemptFailsOK ==
    ASSUME IInv, NEW q \in Requests, NEW pc \in {"reformulate", "generate", "judge"},
           requests[q].pc = pc,
           requests[q].tried + 1 < MaxAttempts,
           Becomes(q, [requests[q] EXCEPT !.tried = @ + 1])
    PROVE  IInv'
<1> DEFINE tried == requests[q].tried + 1
           r == [requests[q] EXCEPT !.tried = tried]
<1>1. requests[q] \in Request /\ RequestOK(q, requests[q])
  BY DEF IInv, RagInv
<1>2. tried \in 0 .. MaxAttempts /\ tried < MaxAttempts
  BY <1>1, RagAssumption DEF Request
<1>3. Becomes(q, r)
  OBVIOUS
<1> HIDE DEF tried
<1>4. /\ r \in Request /\ r.pc = pc /\ r.hits = requests[q].hits
      /\ r.shown = requests[q].shown /\ r.answer = requests[q].answer
      /\ r.tried = tried
  BY <1>1, <1>2 DEF Request
<1>5. RequestOK(q, r)
  BY <1>1, <1>2, <1>4 DEF RequestOK
<1> HIDE DEF r
<1>. QED
  BY <1>3, <1>5, BecomesOK

LEMMA InsufficientOK ==
    ASSUME IInv, NEW q \in Requests, requests[q].pc \in Steps,
           AnswerInsufficient(q)
    PROVE  IInv'
<1> DEFINE r == [requests[q] EXCEPT !.pc = "store", !.branch = NoBranch,
                   !.aborted = FALSE, !.shown = {}, !.tried = 0,
                   !.answer = Insufficient]
<1>1. requests[q] \in Request /\ RequestOK(q, requests[q])
  BY DEF IInv, RagInv
<1>2. /\ NoBranch \in [{"vector", "lexical"} -> BranchStates]
      /\ 0 \in 0 .. MaxAttempts /\ 0 < MaxAttempts
  BY RagAssumption DEF NoBranch, BranchStates
<1>3. /\ r \in Request /\ r.pc = "store" /\ r.hits = requests[q].hits
      /\ r.shown = {} /\ r.answer = Insufficient /\ r.tried = 0
  BY <1>1, <1>2, AnswerTypes DEF Request, Steps
<1>4. RequestOK(q, r)
  BY <1>1, <1>2, <1>3, AnswerTypes DEF RequestOK
<1>. QED
  BY <1>4, BecomesOK DEF AnswerInsufficient, Steps

\* While it searches, a request moves a branch and may add committed chunks.
LEMMA SearchStepOK ==
    ASSUME IInv, NEW q \in Requests, At(q, "search"), NEW r \in Request,
           Becomes(q, r), r.pc = "search", r.tried = requests[q].tried,
           r.hits \subseteq requests[q].hits \cup chunks,
           r.shown = requests[q].shown
    PROVE  IInv'
<1>1. RequestOK(q, requests[q]) /\ requests[q].pc = "search"
  BY DEF IInv, RagInv, At
<1>2. RequestOK(q, r)
  BY <1>1 DEF RequestOK, Steps
<1>. QED
  BY <1>1, <1>2, BecomesOK

LEMMA SetBranchType ==
    ASSUME IInv, NEW q \in Requests, At(q, "search"),
           NEW b \in {"vector", "lexical"}, NEW state \in BranchStates
    PROVE  LET r == SetBranch(q, b, state)
           IN  /\ r \in Request /\ r.pc = "search" /\ r.tried = requests[q].tried
               /\ r.hits = requests[q].hits /\ r.shown = requests[q].shown
  BY DEF IInv, RagInv, At, SetBranch, Request

LEMMA BranchStepOK ==
    ASSUME IInv, NEW q \in Requests, NEW b \in Branches(q),
           Issue(q, b) \/ Found(q, b) \/ QueryFails(q, b)
    PROVE  IInv'
<1>1. b \in {"vector", "lexical"}
  BY DEF Branches
<1>2. At(q, "search") /\ requests[q] \in Request /\ chunks \in SUBSET Chunks
  BY DEF IInv, RagInv, CorpusInv, CorpusTypeOK, Issue, Found, QueryFails
<1>3. CASE Issue(q, b)
  <2>1. PICK state \in {"querying", "failed"} : Becomes(q, SetBranch(q, b, state))
    BY <1>3 DEF Issue
  <2>. QED
    BY <2>1, <1>1, <1>2, SetBranchType, SearchStepOK DEF BranchStates
<1>4. CASE Found(q, b)
  <2> DEFINE found == IF b = "vector" THEN chunks ELSE chunks \cap Matching
             s == SetBranch(q, b, "found")
             r == [s EXCEPT !.hits = @ \cup found]
  <2>1. Becomes(q, r)
    BY <1>4 DEF Found
  <2>2. found \subseteq chunks
    OBVIOUS
  <2> HIDE DEF found
  <2>3. /\ s \in Request /\ s.pc = "search" /\ s.tried = requests[q].tried
        /\ s.hits = requests[q].hits /\ s.shown = requests[q].shown
    BY <1>1, <1>2, SetBranchType DEF BranchStates
  <2> HIDE DEF s
  <2>4. /\ r \in Request /\ r.pc = "search" /\ r.tried = requests[q].tried
        /\ r.hits = requests[q].hits \cup found /\ r.shown = requests[q].shown
    BY <1>2, <2>2, <2>3 DEF Request
  <2> HIDE DEF r
  <2>. QED
    BY <2>1, <2>2, <2>4, <1>2, SearchStepOK
<1>5. CASE QueryFails(q, b)
  <2> DEFINE s == SetBranch(q, b, "failed")
             r == [s EXCEPT !.aborted = TRUE]
  <2>1. Becomes(q, r)
    BY <1>5 DEF QueryFails
  <2>2. /\ s \in Request /\ s.pc = "search" /\ s.tried = requests[q].tried
        /\ s.hits = requests[q].hits /\ s.shown = requests[q].shown
    BY <1>1, <1>2, SetBranchType DEF BranchStates
  <2> HIDE DEF s
  <2>3. /\ r \in Request /\ r.pc = "search" /\ r.tried = requests[q].tried
        /\ r.hits = requests[q].hits /\ r.shown = requests[q].shown
    BY <2>2 DEF Request
  <2> HIDE DEF r
  <2>. QED
    BY <2>1, <2>3, <1>2, SearchStepOK
<1>. QED
  BY <1>3, <1>4, <1>5

LEMMA LookupOK ==
    ASSUME IInv, NEW q \in Requests, Lookup(q)
    PROVE  IInv'
<1>1. /\ requests[q] \in Request /\ RequestOK(q, requests[q])
      /\ requests[q].pc = "lookup" /\ KeyOf[q] \in Keys \cup {NoKey}
  BY RagAssumption DEF IInv, RagInv, Lookup, At
<1>2. CASE KeyOf[q] # NoKey /\ store[KeyOf[q]] # NoAnswer
  <2> DEFINE r == [requests[q] EXCEPT !.pc = "replayed", !.answer = store[KeyOf[q]]]
  <2>1. store[KeyOf[q]] \in Answer /\ Source(store[KeyOf[q]], KeyOf[q])
    BY <1>1, <1>2 DEF IInv, RagInv, StoreOK
  <2>2. /\ r \in Request /\ r.pc = "replayed" /\ r.answer = store[KeyOf[q]]
        /\ r.hits = requests[q].hits /\ r.shown = requests[q].shown
    BY <1>1, <2>1 DEF Request, Ended
  <2>3. RequestOK(q, r)
    BY <1>1, <1>2, <2>1, <2>2 DEF RequestOK, Steps, Ended
  <2>4. Becomes(q, r)
    BY <1>2 DEF Lookup
  <2> HIDE DEF r
  <2>. QED
    BY <1>1, <2>3, <2>4, BecomesOK
<1>3. CASE ~ (KeyOf[q] # NoKey /\ store[KeyOf[q]] # NoAnswer)
  <2>1. Fails(q, "invalid") \/ Goes(q, "reformulate")
    BY <1>3 DEF Lookup
  <2>. QED
    BY <1>1, <2>1, FailsOK, GoesOK DEF Steps
<1>. QED
  BY <1>2, <1>3

LEMMA SearchOK ==
    ASSUME IInv, NEW q \in Requests, StartSearch(q) \/ EmbedQuery(q) \/ Gather(q)
    PROVE  IInv'
<1>1. /\ requests[q] \in Request /\ RequestOK(q, requests[q])
      /\ requests[q].pc \in {"retrieve", "search"}
  BY DEF IInv, RagInv, StartSearch, EmbedQuery, Gather, Searched, At, Request
<1>2. CASE StartSearch(q)
  <2> DEFINE branch == [b \in {"vector", "lexical"} |->
                          IF b \notin Branches(q) THEN "off"
                          ELSE IF b = "vector" THEN "embedding" ELSE "ready"]
             r == [requests[q] EXCEPT !.pc = "search", !.branch = branch]
  <2>1. Becomes(q, r)
    BY <1>2 DEF StartSearch
  <2>2. branch \in [{"vector", "lexical"} -> BranchStates]
    BY DEF BranchStates
  <2> HIDE DEF branch
  <2>3. /\ r \in Request /\ r.pc = "search" /\ r.tried = requests[q].tried
        /\ r.hits = requests[q].hits /\ r.shown = requests[q].shown
    BY <1>1, <2>2 DEF Request, Steps
  <2>4. RequestOK(q, r)
    BY <1>1, <2>3 DEF RequestOK, Steps, Ended
  <2> HIDE DEF r
  <2>. QED
    BY <1>1, <2>1, <2>4, BecomesOK
<1>3. CASE EmbedQuery(q)
  <2>1. PICK state \in {"ready", "failed"} : Becomes(q, SetBranch(q, "vector", state))
    BY <1>3 DEF EmbedQuery
  <2>2. At(q, "search")
    BY <1>3 DEF EmbedQuery
  <2>. QED
    BY <2>1, <2>2, SetBranchType, SearchStepOK DEF BranchStates
<1>4. CASE Gather(q)
  <2>1. CASE requests[q].hits = {}
    BY <2>1, <1>1, <1>4, InsufficientOK DEF Gather, Steps
  <2>2. CASE requests[q].hits # {}
    <3> DEFINE pc == IF Reranks(q) THEN "rerank" ELSE "contents"
    <3>1. PICK best \in SUBSET requests[q].hits :
             Becomes(q, [requests[q] EXCEPT !.branch = NoBranch, !.hits = best, !.pc = pc])
      BY <2>2, <1>4 DEF Gather
    <3> DEFINE r == [requests[q] EXCEPT !.branch = NoBranch, !.hits = best, !.pc = pc]
    <3>2. /\ NoBranch \in [{"vector", "lexical"} -> BranchStates]
          /\ pc \in {"rerank", "contents"}
          /\ best \in SUBSET Chunks
      BY <1>1 DEF NoBranch, BranchStates, Request
    <3> HIDE DEF pc
    <3>3. /\ r \in Request /\ r.pc = pc /\ r.hits = best
          /\ r.tried = requests[q].tried
          /\ r.shown = requests[q].shown
      BY <1>1, <3>2 DEF Request, Steps
    <3>4. RequestOK(q, r)
      BY <1>1, <3>2, <3>3 DEF RequestOK, Steps, Ended
    <3>5. Becomes(q, r)
      BY <3>1
    <3> HIDE DEF r
    <3>. QED
      BY <1>1, <3>4, <3>5, BecomesOK
  <2>. QED
    BY <2>1, <2>2
<1>. QED
  BY <1>2, <1>3, <1>4

LEMMA ReadContentsOK ==
    ASSUME IInv, NEW q \in Requests, ReadContents(q)
    PROVE  IInv'
<1>1. /\ requests[q] \in Request /\ RequestOK(q, requests[q])
      /\ requests[q].pc = "contents"
  BY DEF IInv, RagInv, ReadContents, At
<1>2. PICK shown \in SUBSET requests[q].hits :
         IF shown = {} THEN AnswerInsufficient(q)
         ELSE IF ~HasRoute THEN Fails(q, "unavailable")
         ELSE Becomes(q, [requests[q] EXCEPT !.pc = "generate", !.hits = {},
                            !.shown = shown])
  BY DEF ReadContents
<1>3. CASE AnswerInsufficient(q) \/ Fails(q, "unavailable")
  BY <1>1, <1>3, InsufficientOK, FailsOK DEF Steps
<1>4. CASE Becomes(q, [requests[q] EXCEPT !.pc = "generate", !.hits = {},
                            !.shown = shown])
  <2> DEFINE r == [requests[q] EXCEPT !.pc = "generate", !.hits = {}, !.shown = shown]
  <2>1. /\ r \in Request /\ r.pc = "generate" /\ r.hits = {} /\ r.shown = shown
        /\ r.tried = requests[q].tried
    BY <1>1 DEF Request, Steps
  <2>2. RequestOK(q, r)
    BY <1>1, <2>1 DEF RequestOK, Steps
  <2>3. Becomes(q, r)
    BY <1>4
  <2> HIDE DEF r
  <2>. QED
    BY <1>1, <2>2, <2>3, BecomesOK
<1>. QED
  BY <1>2, <1>3, <1>4

LEMMA GenerateOK ==
    ASSUME IInv, NEW q \in Requests, Generate(q)
    PROVE  IInv'
<1>1. /\ requests[q] \in Request /\ RequestOK(q, requests[q])
      /\ requests[q].pc = "generate"
  BY DEF IInv, RagInv, Generate, At
<1> DEFINE pc == IF Judging THEN "judge" ELSE "store"
           answer(cites) == [kind |-> "estimate", cites |-> cites,
                             dangling |-> Dangling(cites, requests[q].shown)]
<1>2. PICK cites \in SUBSET Chunks :
         Becomes(q, [requests[q] EXCEPT !.tried = 0, !.pc = pc, !.answer = answer(cites)])
  BY DEF Generate
<1>3. /\ answer(cites) \in Answer /\ Grounded(answer(cites), requests[q].shown)
      /\ pc \in {"judge", "store"}
      /\ 0 \in 0 .. MaxAttempts /\ 0 < MaxAttempts
  BY RagAssumption DEF Answer, Grounded, Dangling
<1> HIDE DEF pc, answer
<1> DEFINE r == [requests[q] EXCEPT !.tried = 0, !.pc = pc, !.answer = answer(cites)]
<1>4. /\ r \in Request /\ r.pc = pc /\ r.hits = requests[q].hits /\ r.tried = 0
      /\ r.shown = requests[q].shown /\ r.answer = answer(cites)
  BY <1>1, <1>3 DEF Request, Steps
<1>5. RequestOK(q, r)
  BY <1>1, <1>3, <1>4 DEF RequestOK
<1>6. Becomes(q, r)
  BY <1>2
<1> HIDE DEF r
<1>. QED
  BY <1>1, <1>5, <1>6, BecomesOK

LEMMA StoreStepOK ==
    ASSUME IInv, NEW q \in Requests, Store(q) \/ StoreFails(q)
    PROVE  IInv'
<1> USE DEF IInv
<1>1. /\ requests[q] \in Request /\ RequestOK(q, requests[q])
      /\ requests[q].pc = "store" /\ KeyOf[q] \in Keys \cup {NoKey}
  BY RagAssumption DEF RagInv, Store, StoreFails, At
<1>2. PICK pc \in {"ok", "error"} :
          /\ requests' = [requests EXCEPT ![q].pc = pc]
          /\ \/ store' = store
             \/ /\ KeyOf[q] # NoKey
                /\ store' = [store EXCEPT ![KeyOf[q]] = requests[q].answer]
          /\ UNCHANGED <<documents, chunks, ingests>>
  BY DEF Store, StoreFails, corpusVars
<1> DEFINE r == [requests[q] EXCEPT !.pc = pc]
<1>3. requests' = [requests EXCEPT ![q] = r]
  BY <1>2, <1>1 DEF RagInv
<1>4. /\ r \in Request /\ r.pc = pc /\ r.hits = requests[q].hits
      /\ r.shown = requests[q].shown /\ r.answer = requests[q].answer
  BY <1>1 DEF Request, Ended
<1>5. RequestOK(q, r)
  BY <1>1, <1>4 DEF RequestOK, Steps
<1> HIDE DEF r
<1>6. requests'[q] = r /\ \A p \in Requests \ {q} : requests'[p] = requests[p]
  BY <1>3 DEF RagInv
<1>7. CorpusInv'
  BY <1>2
  DEF CorpusInv, CorpusTypeOK, AttemptsLeft, DocumentsOK, KeysHeld, KeyHeld,
      Committed, AnswersMatchCorpus, WholeDocuments
<1>8. \A answer, k : Source(answer, k) => Source(answer, k)'
  BY <1>1, <1>3, <1>4, SourceStays
<1>9. KeyOf[q] # NoKey => Source(requests[q].answer, KeyOf[q])'
  <2>1. Grounded(requests[q].answer, r.shown)
    BY <1>1, <1>4 DEF RequestOK
  <2>. QED
    BY <2>1, <1>4, <1>6 DEF Source, Grounded
<1>10. requests' \in [Requests -> Request]
  BY <1>3, <1>4 DEF RagInv
<1>11. ASSUME NEW p \in Requests
       PROVE  RequestOK(p, requests[p])'
  <2>1. RequestOK(p, requests'[p])
    BY <1>5, <1>6 DEF RagInv
  <2>. QED
    BY <2>1, <1>2, <1>8 DEF RequestOK
<1>12. StoreOK'
  <2>1. store' \in [Keys -> Answer \cup {NoAnswer}]
    BY <1>1, <1>2 DEF StoreOK, RagInv, Request
  <2>2. ASSUME NEW k \in Keys, NEW answer, answer = store'[k], answer # NoAnswer
        PROVE  Source(answer, k)'
    <3>1. CASE answer = store[k]
      BY <2>2, <3>1, <1>8 DEF StoreOK, RagInv
    <3>2. CASE answer # store[k]
      <4>1. k = KeyOf[q] /\ k # NoKey /\ answer = requests[q].answer
        BY <3>2, <2>2, <1>2 DEF StoreOK, RagInv
      <4>. QED
        BY <4>1, <1>9, <1>4, <1>6
    <3>. QED
      BY <3>1, <3>2
  <2>3. \A k \in Keys : (store[k] # NoAnswer => Source(store[k], k))'
    BY <2>2 DEF Source
  <2>. QED
    BY <2>1, <2>3 DEF StoreOK
<1>. QED
  BY <1>7, <1>10, <1>11, <1>12 DEF RagInv

LEMMA StepOK ==
    ASSUME IInv, NEW q \in Requests, Step(q)
    PROVE  IInv'
<1>1. CASE LookupFails(q) \/ Reformulate(q) \/ ReformulateAttemptFails(q)
  BY <1>1, FailsOK, GoesOK, AttemptFailsOK
  DEF LookupFails, Reformulate, ReformulateAttemptFails, AttemptFails, At, Steps
<1>2. CASE Rerank(q) \/ ContentsFail(q)
  BY <1>2, FailsOK, GoesOK DEF Rerank, ContentsFail, At, Steps
<1>3. CASE GenerateAttemptFails(q)
  BY <1>3, FailsOK, AttemptFailsOK DEF GenerateAttemptFails, AttemptFails, At, Steps
<1>4. CASE Judge(q) \/ JudgeAttemptFails(q)
  <2>1. /\ requests[q].pc = "judge"
        /\ Grounded(requests[q].answer, requests[q].shown)
    BY <1>4 DEF Judge, JudgeAttemptFails, AttemptFails, At, IInv, RagInv, RequestOK
  <2>. QED
    BY <1>4, <2>1, GoesOK, AttemptFailsOK
    DEF Judge, JudgeAttemptFails, AttemptFails, Steps
<1>. QED
  BY <1>1, <1>2, <1>3, <1>4, LookupOK, SearchOK, BranchStepOK, ReadContentsOK,
     GenerateOK, StoreStepOK
  DEF Step

LEMMA ExpireOK ==
    ASSUME IInv, NEW k \in Keys, Expire(k)
    PROVE  IInv'
<1> USE DEF IInv
<1>1. /\ store' = [store EXCEPT ![k] = NoAnswer]
      /\ UNCHANGED <<requests, documents, chunks, ingests>>
  BY DEF Expire, corpusVars
<1>2. CorpusInv'
  BY <1>1
  DEF CorpusInv, CorpusTypeOK, AttemptsLeft, DocumentsOK, KeysHeld, KeyHeld,
      Committed, AnswersMatchCorpus, WholeDocuments
<1>3. \A answer, l : Source(answer, l) => Source(answer, l)'
  BY <1>1 DEF Source
<1>4. StoreOK'
  BY <1>1, <1>3 DEF StoreOK, RagInv
<1>5. \A q \in Requests : RequestOK(q, requests[q])'
  BY <1>1, <1>3 DEF RequestOK, RagInv
<1>. QED
  BY <1>1, <1>2, <1>4, <1>5 DEF RagInv

(* A row that has been committed stays: no step takes a chunk away.        *)
LEMMA ChunksOnlyGrow ==
    ASSUME NEW i \in Ingests, IngestStep(i)
    PROVE  chunks \subseteq chunks'
  BY DEF IngestStep, FindDocument, EmbedChunks, EmbedRateLimited, EmbedFails,
         InsertDocument, InsertChunks, Commit, WriteFails, FindWinner

LEMMA IngestOK ==
    ASSUME IInv, NEW i \in Ingests, IngestStep(i), UNCHANGED ragVars
    PROVE  IInv'
<1> USE DEF IInv
<1>1. UNCHANGED <<requests, store>> /\ chunks \subseteq chunks'
  BY ChunksOnlyGrow DEF ragVars
<1>2. CorpusInv'
  BY IngestStepOK
<1>3. \A answer, k : Source(answer, k) => Source(answer, k)'
  BY <1>1 DEF Source
<1>4. StoreOK'
  BY <1>1, <1>3 DEF StoreOK, RagInv
<1>5. ASSUME NEW q \in Requests
      PROVE  RequestOK(q, requests[q])'
  BY <1>1, <1>3 DEF RequestOK, RagInv
<1>. QED
  BY <1>1, <1>2, <1>4, <1>5 DEF RagInv

LEMMA StutterOK ==
    ASSUME IInv, UNCHANGED vars
    PROVE  IInv'
  BY DEF vars, IInv, CorpusInv, CorpusTypeOK, AttemptsLeft, DocumentsOK, KeysHeld,
         KeyHeld, Committed, AnswersMatchCorpus, WholeDocuments, RagInv, RequestOK,
         StoreOK, Source

(* The inductive invariant: every step of a request, of an ingest and of   *)
(* the store's clock keeps the locals, the tables and the stored answers   *)
(* in agreement.                                                           *)
THEOREM Invariant == Spec => []IInv
<1>1. IInv /\ [Next]_vars => IInv'
  <2> SUFFICES ASSUME IInv, [Next]_vars PROVE IInv'
    OBVIOUS
  <2>. QED
    BY StepOK, ExpireOK, IngestOK, StutterOK DEF Next
<1>. QED
  BY <1>1, RagInitially, PTL DEF Spec

-----------------------------------------------------------------------------
(* Overlapping ingests of a path cannot both be accepted, and every 409    *)
(* names the document that is there (run_persistent_ingest): for any       *)
(* number of ingests, beside any number of requests.                       *)
THEOREM AnswersMatchCorpusHolds == Spec => []AnswersMatchCorpus
<1>1. IInv => AnswersMatchCorpus
  BY DEF IInv, CorpusInv
<1>. QED
  BY <1>1, Invariant, PTL

(* The chunk table holds whole documents, whatever failed in between.      *)
THEOREM WholeDocumentsHolds == Spec => []WholeDocuments
<1>1. IInv => WholeDocuments
  BY DEF IInv, CorpusInv
<1>. QED
  BY <1>1, Invariant, PTL

(* Whoever is answered 200 gets an estimate whose unflagged citations were *)
(* in a context made of committed chunks: its own, or that of the request  *)
(* with its key whose answer it is given (verify_citations,                *)
(* IdempotencyStore).                                                      *)
THEOREM CitationsWereShownHolds == Spec => []CitationsWereShown
<1>1. IInv => CitationsWereShown
  <2> SUFFICES ASSUME IInv, NEW q \in Requests, At(q, "ok") \/ At(q, "replayed")
               PROVE  \E p \in Requests :
                         /\ p = q \/ (KeyOf[p] = KeyOf[q] /\ KeyOf[p] # NoKey)
                         /\ requests[q].answer.cites \ requests[q].answer.dangling
                                \subseteq requests[p].shown
                         /\ requests[p].shown \subseteq chunks
    BY DEF CitationsWereShown
  <2>1. \A p \in Requests : RequestOK(p, requests[p])
    BY DEF IInv, RagInv
  <2>2. CASE At(q, "ok")
    BY <2>1, <2>2 DEF At, RequestOK, Grounded
  <2>3. CASE At(q, "replayed")
    BY <2>1, <2>3 DEF At, RequestOK, Source, Grounded
  <2>. QED
    BY <2>2, <2>3
<1>. QED
  BY <1>1, Invariant, PTL

(* Refinement: to the ingests the requests are no more than stuttering.    *)
(* Every behaviour of the composition is one of Corpus.                    *)
THEOREM ImplementsCorpus == Spec => CorpusSpec
<1>1. Init => CorpusInit
  BY DEF Init
<1>2. [Next]_vars => [CorpusNext]_corpusVars
  <2> SUFFICES ASSUME [Next]_vars PROVE [CorpusNext]_corpusVars
    OBVIOUS
  <2>1. ASSUME NEW q \in Requests, Step(q) PROVE UNCHANGED corpusVars
    BY <2>1
    DEF Step, Lookup, LookupFails, Reformulate, ReformulateAttemptFails,
        AttemptFails, StartSearch, EmbedQuery, Issue, Found, QueryFails, Gather,
        AnswerInsufficient, Rerank, ReadContents, ContentsFail, Generate,
        GenerateAttemptFails, Judge, JudgeAttemptFails, Store, StoreFails,
        Becomes, Goes, Fails
  <2>2. ASSUME NEW k \in Keys, Expire(k) PROVE UNCHANGED corpusVars
    BY <2>2 DEF Expire
  <2>3. CASE UNCHANGED vars
    BY <2>3 DEF vars, corpusVars
  <2>. QED
    BY <2>1, <2>2, <2>3 DEF Next, CorpusNext
<1>. QED
  BY <1>1, <1>2, PTL DEF Spec, CorpusSpec

----------------------------------------------------------------------------
(* The stages (RagStages).                                                 *)

----------------------------------------------------------------------------
(* Sorting: Ordered and what is made of it.                                *)

StrictOrder(S, before) ==
    /\ \A x \in S : <<x, x>> \notin before
    /\ \A x, y \in S : x # y => <<x, y>> \in before \/ <<y, x>> \in before
    /\ \A x, y, z \in S : <<x, y>> \in before /\ <<y, z>> \in before => <<x, z>> \in before

LEMMA OrderExists ==
    ASSUME NEW S, IsFiniteSet(S), NEW before, StrictOrder(S, before)
    PROVE  \E s \in [1 .. Cardinality(S) -> S] :
               \A i, j \in 1 .. Cardinality(S) : i < j => <<s[i], s[j]>> \in before
<1> DEFINE n == Cardinality(S)
           Below(x) == {y \in S : <<y, x>> \in before}
           rank == [x \in S |-> Cardinality(Below(x)) + 1]
<1>1. n \in Nat
  BY FS_CardinalityType
<1>2. \A x \in S : IsFiniteSet(Below(x)) /\ Cardinality(Below(x)) \in Nat
  <2> TAKE x \in S
  <2>1. IsFiniteSet(Below(x))
    BY FS_Subset
  <2> QED BY <2>1, FS_CardinalityType
<1>3. \A x, y \in S : <<x, y>> \in before => rank[x] < rank[y]
  <2> SUFFICES ASSUME NEW x \in S, NEW y \in S, <<x, y>> \in before PROVE rank[x] < rank[y]
    OBVIOUS
  <2>1. Below(x) \subseteq Below(y)
    BY DEF StrictOrder
  <2>2. x \in Below(y) /\ x \notin Below(x)
    BY DEF StrictOrder
  <2>3. /\ Cardinality(Below(x)) <= Cardinality(Below(y))
        /\ Cardinality(Below(y)) = Cardinality(Below(x)) => Below(y) = Below(x)
    BY <1>2, <2>1, FS_Subset
  <2>4. Cardinality(Below(x)) < Cardinality(Below(y))
    <3> HIDE DEF Below
    <3> QED BY <2>2, <2>3, <1>2
  <2> HIDE DEF Below
  <2> QED BY <2>4, <1>2
<1>4. \A x \in S : rank[x] \in 1 .. n
  <2> TAKE x \in S
  <2>1. Below(x) \in SUBSET (S \ {x})
    BY DEF StrictOrder
  <2>2. IsFiniteSet(S \ {x}) /\ Cardinality(S \ {x}) = n - 1
    BY FS_RemoveElement
  <2>3. Cardinality(Below(x)) <= n - 1
    BY <2>1, <2>2, FS_Subset
  <2> HIDE DEF Below
  <2> QED BY <2>3, <1>1, <1>2
<1>5. rank \in Injection(S, 1 .. n)
  <2>1. rank \in [S -> 1 .. n]
    BY <1>4
  <2>2. \A x, y \in S : rank[x] = rank[y] => x = y
    <3> SUFFICES ASSUME NEW x \in S, NEW y \in S, x # y PROVE rank[x] # rank[y]
      OBVIOUS
    <3>1. rank[x] < rank[y] \/ rank[y] < rank[x]
      BY <1>3 DEF StrictOrder
    <3>2. rank[x] \in Nat /\ rank[y] \in Nat
      BY <1>1, <1>4
    <3> HIDE DEF rank
    <3> QED BY <3>1, <3>2
  <2> HIDE DEF rank
  <2> QED BY <2>1, <2>2, Fun_IsInj
<1>6. \A i \in 1 .. n : \E x \in S : rank[x] = i
  <2>1. IsFiniteSet(1 .. n) /\ Cardinality(1 .. n) = n
    BY <1>1, FS_Interval
  <2>2. rank \in Surjection(S, 1 .. n)
    <3> HIDE DEF rank
    <3> QED BY <1>5, <2>1, FS_Injection
  <2> HIDE DEF rank
  <2> QED BY <2>2, Fun_SurjectionProperties
<1> DEFINE s == [i \in 1 .. n |-> CHOOSE x \in S : rank[x] = i]
<1>7. \A i \in 1 .. n : s[i] \in S /\ rank[s[i]] = i
  <2> HIDE DEF rank
  <2> QED BY <1>6
<1>8. \A i, j \in 1 .. n : i < j => <<s[i], s[j]>> \in before
  <2> SUFFICES ASSUME NEW i \in 1 .. n, NEW j \in 1 .. n, i < j
               PROVE  <<s[i], s[j]>> \in before
    OBVIOUS
  <2>1. s[i] \in S /\ s[j] \in S /\ rank[s[i]] = i /\ rank[s[j]] = j
    BY <1>7
  <2> HIDE DEF s, rank
  <2>2. s[i] # s[j] /\ ~ <<s[j], s[i]>> \in before
    BY <1>1, <1>3, <2>1
  <2> QED BY <2>1, <2>2 DEF StrictOrder
<1>9. s \in [1 .. n -> S]
  <2> HIDE DEF rank
  <2> QED BY <1>6
<1> HIDE DEF s
<1> QED BY <1>8, <1>9

LEMMA OrderedSorts ==
    ASSUME NEW S, IsFiniteSet(S), NEW before, StrictOrder(S, before)
    PROVE  LET s == Ordered(S, before)
               n == Cardinality(S)
           IN  /\ n \in Nat
               /\ s \in [1 .. n -> S]
               /\ \A i, j \in 1 .. n : i < j => <<s[i], s[j]>> \in before
               /\ \A i, j \in 1 .. n : s[i] = s[j] => i = j
               /\ \A x \in S : \E i \in 1 .. n : s[i] = x
<1> DEFINE s == Ordered(S, before)
           n == Cardinality(S)
<1>1. s \in [1 .. n -> S] /\ \A i, j \in 1 .. n : i < j => <<s[i], s[j]>> \in before
  BY OrderExists DEF Ordered
<1>2. n \in Nat
  BY FS_CardinalityType
<1> HIDE DEF s
<1> HIDE DEF n
<1>3. \A i, j \in 1 .. n : s[i] = s[j] => i = j
  <2> SUFFICES ASSUME NEW i \in 1 .. n, NEW j \in 1 .. n, i < j PROVE s[i] # s[j]
    BY <1>2
  <2> QED BY <1>1 DEF StrictOrder
<1>4. s \in Injection(1 .. n, S)
  BY <1>1, <1>3, Fun_IsInj
<1>5. Cardinality(1 .. n) = n
  BY <1>2, FS_Interval
<1>6. s \in Surjection(1 .. n, S)
  BY <1>4, <1>5, FS_Injection DEF n
<1>7. \A x \in S : \E i \in 1 .. n : s[i] = x
  BY <1>6 DEF Surjection
<1> QED BY <1>1, <1>2, <1>3, <1>7 DEF s, n

(* Ascending lists a finite set of numbers, each once.                     *)
LEMMA AscendingSorts ==
    ASSUME NEW S \in SUBSET Int, IsFiniteSet(S)
    PROVE  LET s == Ascending(S)
               n == Cardinality(S)
           IN  /\ n \in Nat
               /\ s \in [1 .. n -> S]
               /\ \A i, j \in 1 .. n : i < j => s[i] < s[j]
               /\ \A x \in S : \E i \in 1 .. n : s[i] = x
<1> DEFINE up == {p \in S \X S : p[1] < p[2]}
           s == Ascending(S)
           n == Cardinality(S)
<1>1. StrictOrder(S, up)
  BY DEF StrictOrder
<1>2. /\ n \in Nat
      /\ s \in [1 .. n -> S]
      /\ \A i, j \in 1 .. n : i < j => <<s[i], s[j]>> \in up
      /\ \A x \in S : \E i \in 1 .. n : s[i] = x
  <2> HIDE DEF up
  <2>1. s = Ordered(S, up)
    BY DEF Ascending, up
  <2> HIDE DEF s
  <2> QED BY <1>1, <2>1, OrderedSorts
<1> HIDE DEF s
<1> HIDE DEF n
<1>3. \A i, j \in 1 .. n : i < j => s[i] < s[j]
  BY <1>2
<1> QED BY <1>2, <1>3 DEF s, n

LEMMA Extremes ==
    ASSUME NEW S \in SUBSET Int, IsFiniteSet(S), S # {}
    PROVE  /\ Max(S) \in S /\ \A y \in S : y <= Max(S)
           /\ Min(S) \in S /\ \A y \in S : Min(S) <= y
<1> DEFINE s == Ascending(S)
           n == Cardinality(S)
<1>1. /\ n \in Nat
      /\ s \in [1 .. n -> S]
      /\ \A i, j \in 1 .. n : i < j => s[i] < s[j]
      /\ \A x \in S : \E i \in 1 .. n : s[i] = x
  BY AscendingSorts
<1> HIDE DEF s
<1> HIDE DEF n
<1>2. PICK x \in S : TRUE
  OBVIOUS
<1>3. 1 \in 1 .. n /\ n \in 1 .. n
  <2>1. PICK i \in 1 .. n : s[i] = x
    BY <1>1
  <2> QED BY <1>1, <2>1
<1>4. \A i \in 1 .. n : s[i] \in Int
  BY <1>1
<1>5. \A i \in 1 .. n : s[1] <= s[i] /\ s[i] <= s[n]
  <2> TAKE i \in 1 .. n
  <2>1. (i = 1 \/ 1 < i) /\ (i = n \/ i < n)
    BY <1>1
  <2>2. (1 < i => s[1] < s[i]) /\ (i < n => s[i] < s[n])
    BY <1>1, <1>3
  <2> QED BY <1>3, <1>4, <2>1, <2>2
<1>6. \A y \in S : s[1] <= y /\ y <= s[n]
  BY <1>1, <1>5
<1>7. s[1] \in S /\ s[n] \in S
  BY <1>1, <1>3
<1>8. Max(S) \in S /\ \A y \in S : y <= Max(S)
  BY <1>6, <1>7 DEF Max
<1>9. Min(S) \in S /\ \A y \in S : Min(S) <= y
  BY <1>6, <1>7 DEF Min
<1> QED BY <1>8, <1>9

(* The positions of a list, in order, are the list of the positions.       *)
LEMMA AscendingInterval ==
    ASSUME NEW n \in Nat
    PROVE  Ascending(1 .. n) = [i \in 1 .. n |-> i]
<1> DEFINE s == Ascending(1 .. n)
           Moved == {i \in 1 .. n : s[i] # i}
<1>1. IsFiniteSet(1 .. n) /\ Cardinality(1 .. n) = n
  BY FS_Interval
<1>2. /\ s \in [1 .. n -> 1 .. n]
      /\ \A i, j \in 1 .. n : i < j => s[i] < s[j]
      /\ \A x \in 1 .. n : \E i \in 1 .. n : s[i] = x
  BY <1>1, AscendingSorts
<1> HIDE DEF s
<1>3. Moved = {}
  <2> SUFFICES ASSUME Moved # {} PROVE FALSE
    OBVIOUS
  <2>1. Moved \in SUBSET Int /\ IsFiniteSet(Moved)
    BY <1>1, FS_Subset
  <2>2. PICK m \in 1 .. n : s[m] # m /\ \A i \in 1 .. m - 1 : s[i] = i
    <3>1. Min(Moved) \in Moved /\ \A y \in Moved : Min(Moved) <= y
      <4> HIDE DEF Moved
      <4> QED BY <2>1, Extremes
    <3>2. PICK m \in Moved : \A y \in Moved : m <= y
      <4> HIDE DEF Moved
      <4> QED BY <3>1
    <3> QED BY <3>2
  <2>3. PICK j \in 1 .. n : s[j] = m
    BY <1>2
  <2>4. j > m
    BY <2>2, <2>3
  <2>5. s[m] < m
    BY <1>2, <2>3, <2>4
  <2>6. s[m] \in 1 .. m - 1
    BY <1>2, <2>5
  <2>7. s[s[m]] = s[m]
    BY <2>2, <2>6
  <2> QED BY <1>2, <2>5, <2>6, <2>7
<1>4. \A i \in 1 .. n : s[i] = i
  BY <1>3
<1> QED BY <1>2, <1>4 DEF s

(* Where a number lies between the least and the greatest.                 *)
LEMMA MinMaxBounds ==
    ASSUME NEW S \in SUBSET Int, IsFiniteSet(S)
    PROVE  /\ \A x \in S : MinMax(x, S) \in 0 .. Unit
           /\ \A x, y \in S : x <= y => MinMax(x, S) <= MinMax(y, S)
<1>1. CASE S = {}
  BY <1>1
<1>2. CASE S # {}
  <2> DEFINE lo == Min(S)
             hi == Max(S)
  <2>1. /\ lo \in Int /\ hi \in Int
        /\ \A y \in S : lo <= y /\ y <= hi
    BY <1>2, Extremes
  <2>2. Unit \in Nat
    BY RetrievalAssumption
  <2>3. CASE lo = hi
    BY <2>2, <2>3 DEF MinMax
  <2>4. CASE lo # hi
    <3>1. hi - lo \in Nat \ {0}
      <4>1. PICK y \in S : TRUE
        BY <1>2
      <4>2. lo <= y /\ y <= hi /\ y \in Int
        BY <2>1
      <4> HIDE DEF lo, hi
      <4> QED BY <2>1, <2>4, <4>2
    <3>2. \A x \in S : x - lo \in Nat /\ x - lo <= hi - lo
      BY <2>1
    <3>3. \A x \in S : MinMax(x, S) = ((x - lo) * Unit) \div (hi - lo)
      BY <2>4 DEF MinMax
    <3> HIDE DEF lo, hi
    <3>4. ASSUME NEW x \in S PROVE MinMax(x, S) \in 0 .. Unit
      <4> DEFINE a == x - lo
                 d == hi - lo
      <4>1. a \in Nat /\ d \in Nat \ {0} /\ a <= d
        BY <3>1, <3>2
      <4> HIDE DEF a, d
      <4>2. (a * Unit) \div d \in 0 .. Unit
        BY <4>1, <2>2, Z3
      <4> QED BY <3>3, <4>2 DEF a, d
    <3>5. ASSUME NEW x \in S, NEW y \in S, x <= y PROVE MinMax(x, S) <= MinMax(y, S)
      <4> DEFINE a == x - lo
                 b == y - lo
                 d == hi - lo
      <4>1. a \in Nat /\ b \in Nat /\ d \in Nat \ {0} /\ a <= b
        BY <3>1, <3>2, <3>5, <2>1
      <4> HIDE DEF a, b, d
      <4>2. a * Unit \in Nat /\ b * Unit \in Nat /\ a * Unit <= b * Unit
        BY <4>1, <2>2
      <4>3. (a * Unit) \div d <= (b * Unit) \div d
        BY <4>1, <4>2, Z3
      <4> QED BY <3>3, <4>3 DEF a, b, d
    <3> QED BY <3>4, <3>5
  <2> QED BY <2>3, <2>4
<1> QED BY <1>1, <1>2

LEMMA ImageFinite ==
    ASSUME NEW D, IsFiniteSet(D), NEW f
    PROVE  IsFiniteSet({f[x] : x \in D})
<1> DEFINE T == {f[x] : x \in D}
           g == [x \in D |-> f[x]]
<1>1. g \in Surjection(D, T)
  BY DEF Surjection
<1> QED BY <1>1, FS_Surjection

LEMMA TakeProperties ==
    ASSUME NEW T, NEW s \in Seq(T), NEW n \in Nat
    PROVE  /\ Take(s, n) \in Seq(T)
           /\ Len(Take(s, n)) = IF n < Len(s) THEN n ELSE Len(s)
           /\ DOMAIN Take(s, n) = 1 .. Len(Take(s, n))
           /\ \A i \in DOMAIN Take(s, n) : i \in DOMAIN s /\ Take(s, n)[i] = s[i]
  BY DEF Take

(* Picked leaves out positions and keeps the order of the others.          *)
LEMMA PickedProperties ==
    ASSUME NEW T, NEW s \in Seq(T), NEW kept \in SUBSET DOMAIN s
    PROVE  LET n == Cardinality(kept)
               order == Ascending(kept)
           IN  /\ n \in Nat
               /\ order \in [1 .. n -> kept]
               /\ \A i, j \in 1 .. n : i < j => order[i] < order[j]
               /\ \A k \in kept : \E i \in 1 .. n : order[i] = k
               /\ Picked(s, kept) = [i \in 1 .. n |-> s[order[i]]]
               /\ Picked(s, kept) \in Seq(T)
<1> DEFINE n == Cardinality(kept)
           order == Ascending(kept)
<1>1. kept \in SUBSET Int /\ IsFiniteSet(kept)
  BY FS_Interval, FS_Subset
<1>2. /\ n \in Nat
      /\ order \in [1 .. n -> kept]
      /\ \A i, j \in 1 .. n : i < j => order[i] < order[j]
      /\ \A k \in kept : \E i \in 1 .. n : order[i] = k
  BY <1>1, AscendingSorts
<1>3. Picked(s, kept) = [i \in 1 .. n |-> s[order[i]]]
  BY <1>2 DEF Picked
<1> HIDE DEF n, order
<1>4. Picked(s, kept) \in Seq(T)
  BY <1>2, <1>3
<1> QED BY <1>2, <1>3, <1>4 DEF n, order

LEMMA PickedAll ==
    ASSUME NEW T, NEW s \in Seq(T)
    PROVE  Picked(s, DOMAIN s) = s
<1>1. DOMAIN s = 1 .. Len(s) /\ Len(s) \in Nat
  OBVIOUS
<1>2. Ascending(DOMAIN s) = [i \in 1 .. Len(s) |-> i]
  BY <1>1, AscendingInterval
<1> QED BY <1>1, <1>2 DEF Picked

----------------------------------------------------------------------------
(* Lists of entries, each chunk once, best score first.                    *)

Entry == [id : ChunkIds, rank : Nat, score : Nat]

EachOnce(list) == \A i, j \in DOMAIN list : list[i].id = list[j].id => i = j

BestScoreFirst(list) ==
    \A i, j \in DOMAIN list : i < j => list[j].score <= list[i].score

\* Entries of a branch, all or only some of them, each with its rank.
BranchList(list) ==
    /\ list \in Seq(Entry)
    /\ EachOnce(list)
    /\ \A i \in DOMAIN list : list[i].rank >= 1

RankedList(list) ==
    /\ list \in Seq(Entry)
    /\ EachOnce(list)
    /\ BestScoreFirst(list)
    /\ \A i \in DOMAIN list : list[i].rank = i /\ list[i].score \in 0 .. Unit

LEMMA RankedBranch == ASSUME NEW list, RankedList(list) PROVE BranchList(list)
  BY DEF RankedList, BranchList

(* What a statement returns.                                               *)
Statement == Seq([id : ChunkIds, value : Int])
Nearest(rows) == \A i, j \in DOMAIN rows : i < j => rows[i].value <= rows[j].value
Highest(rows) == \A i, j \in DOMAIN rows : i < j => rows[i].value >= rows[j].value

LEMMA StatementRows ==
    ASSUME NEW rows \in Statement
    PROVE  /\ DOMAIN rows = 1 .. Len(rows) /\ Len(rows) \in Nat
           /\ \A i \in DOMAIN rows : rows[i].id \in ChunkIds /\ rows[i].value \in Int
           /\ IsFiniteSet(DOMAIN rows)
<1>1. DOMAIN rows = 1 .. Len(rows) /\ Len(rows) \in Nat
  BY DEF Statement
<1>2. \A i \in DOMAIN rows : rows[i] \in [id : ChunkIds, value : Int]
  <2> DEFINE T == [id : ChunkIds, value : Int]
  <2>1. rows \in Seq(T)
    BY DEF Statement
  <2> HIDE DEF T
  <2>2. \A i \in DOMAIN rows : rows[i] \in T
    BY <2>1
  <2> QED BY <2>2 DEF T
<1>3. \A i \in DOMAIN rows : rows[i].id \in ChunkIds /\ rows[i].value \in Int
  BY <1>2
<1>4. IsFiniteSet(DOMAIN rows)
  BY <1>1, FS_Interval
<1> QED BY <1>1, <1>3, <1>4

LEMMA VectorRanked ==
    ASSUME NEW rows \in Statement, EachOnce(rows), Nearest(rows)
    PROVE  /\ RankedList(VectorEntries(rows))
           /\ DOMAIN VectorEntries(rows) = DOMAIN rows
           /\ \A i \in DOMAIN rows : VectorEntries(rows)[i].id = rows[i].id
<1> DEFINE list == VectorEntries(rows)
<1>1. Unit \in Nat
  BY RetrievalAssumption
<1>2. /\ DOMAIN rows = 1 .. Len(rows) /\ Len(rows) \in Nat
      /\ \A i \in DOMAIN rows : rows[i].id \in ChunkIds /\ rows[i].value \in Int
  BY StatementRows
<1>3. \A i \in DOMAIN rows : Clamp(Unit - rows[i].value) \in 0 .. Unit
  BY <1>1, <1>2 DEF Clamp
<1>4. \A i, j \in DOMAIN rows :
          i < j => Clamp(Unit - rows[j].value) <= Clamp(Unit - rows[i].value)
  BY <1>1, <1>2 DEF Clamp, Nearest
<1>5. /\ list \in Seq(Entry)
      /\ DOMAIN list = DOMAIN rows
      /\ \A i \in DOMAIN rows : /\ list[i].id = rows[i].id /\ list[i].rank = i
                               /\ list[i].score = Clamp(Unit - rows[i].value)
  BY <1>1, <1>2, <1>3 DEF VectorEntries, Entry
<1> HIDE DEF list
<1>6. RankedList(list)
  BY <1>3, <1>4, <1>5 DEF RankedList, BestScoreFirst, EachOnce
<1> QED BY <1>5, <1>6 DEF list

LEMMA LexicalRanked ==
    ASSUME NEW rows \in Statement, EachOnce(rows), Highest(rows)
    PROVE  /\ RankedList(LexicalEntries(rows))
           /\ DOMAIN LexicalEntries(rows) = DOMAIN rows
           /\ \A i \in DOMAIN rows : LexicalEntries(rows)[i].id = rows[i].id
<1> DEFINE list == LexicalEntries(rows)
           ranks == {rows[i].value : i \in DOMAIN rows}
           value == [i \in DOMAIN rows |-> rows[i].value]
<1>1. Unit \in Nat
  BY RetrievalAssumption
<1>2. /\ DOMAIN rows = 1 .. Len(rows) /\ Len(rows) \in Nat
      /\ \A i \in DOMAIN rows : rows[i].id \in ChunkIds /\ rows[i].value \in Int
  BY StatementRows
<1>3. ranks \in SUBSET Int /\ IsFiniteSet(ranks)
  <2>1. IsFiniteSet({value[i] : i \in DOMAIN rows})
    <3> HIDE DEF value
    <3> QED BY StatementRows, ImageFinite
  <2>2. {value[i] : i \in DOMAIN rows} = ranks
    OBVIOUS
  <2> QED BY <1>2, <2>1, <2>2
<1>4. /\ \A x \in ranks : MinMax(x, ranks) \in 0 .. Unit
      /\ \A x, y \in ranks : x <= y => MinMax(x, ranks) <= MinMax(y, ranks)
  <2> HIDE DEF ranks
  <2> QED BY <1>3, MinMaxBounds
<1>5. \A i \in DOMAIN rows : rows[i].value \in ranks
  OBVIOUS
<1>6. list = [i \in DOMAIN rows |-> [id |-> rows[i].id, rank |-> i,
                                    score |-> MinMax(rows[i].value, ranks)]]
  BY DEF LexicalEntries
<1> HIDE DEF ranks
<1>7. /\ list \in Seq(Entry)
      /\ DOMAIN list = DOMAIN rows
      /\ \A i \in DOMAIN rows : /\ list[i].id = rows[i].id /\ list[i].rank = i
                               /\ list[i].score = MinMax(rows[i].value, ranks)
  BY <1>1, <1>2, <1>4, <1>5, <1>6 DEF Entry
<1> HIDE DEF list
<1>8. BestScoreFirst(list)
  BY <1>4, <1>5, <1>7 DEF BestScoreFirst, Highest
<1>9. RankedList(list)
  BY <1>4, <1>5, <1>7, <1>8 DEF RankedList, EachOnce
<1> QED BY <1>7, <1>9 DEF list

LEMMA TakeRanked ==
    ASSUME NEW list, RankedList(list), NEW n \in Nat
    PROVE  RankedList(Take(list, n))
<1> DEFINE t == Take(list, n)
<1>1. list \in Seq(Entry)
  BY DEF RankedList
<1>2. /\ t \in Seq(Entry)
      /\ \A i \in DOMAIN t : i \in DOMAIN list /\ t[i] = list[i]
  BY <1>1, TakeProperties
<1> HIDE DEF t
<1>3. RankedList(t)
  BY <1>2 DEF RankedList, BestScoreFirst, EachOnce
<1> QED BY <1>3 DEF t

LEMMA NoneRanked == RankedList(<<>>)
  BY DEF RankedList, BestScoreFirst, EachOnce

(* Sorting by score, ties by the chunk's id.                               *)
LEMMA RankFusedSorts ==
    ASSUME NEW S \in SUBSET ChunkIds, IsFiniteSet(S), NEW score \in [S -> Nat]
    PROVE  LET list == RankFusedScores(score)
           IN  /\ list \in Seq(Entry)
               /\ EachOnce(list)
               /\ BestScoreFirst(list)
               /\ \A i \in DOMAIN list : /\ list[i].rank = i
                                         /\ list[i].id \in S
                                         /\ list[i].score = score[list[i].id]
               /\ \A c \in S : \E i \in DOMAIN list : list[i].id = c
<1> DEFINE list == RankFusedScores(score)
           before == {p \in S \X S :
                         \/ score[p[1]] > score[p[2]]
                         \/ score[p[1]] = score[p[2]] /\ p[1] < p[2]}
           ids == Ordered(S, before)
           n == Cardinality(S)
<1>1. \A c \in S : score[c] \in Nat /\ c \in Nat /\ c \in ChunkIds
  BY RetrievalAssumption
<1>2. StrictOrder(S, before)
  BY <1>1 DEF StrictOrder
<1>3. \A x, y \in S : <<x, y>> \in before => score[y] <= score[x]
  BY <1>1
<1>4. list = [i \in DOMAIN ids |-> [id |-> ids[i], rank |-> i, score |-> score[ids[i]]]]
  BY DEF RankFusedScores
<1> HIDE DEF before
<1>5. /\ n \in Nat
      /\ ids \in [1 .. n -> S]
      /\ \A i, j \in 1 .. n : i < j => <<ids[i], ids[j]>> \in before
      /\ \A i, j \in 1 .. n : ids[i] = ids[j] => i = j
      /\ \A x \in S : \E i \in 1 .. n : ids[i] = x
  BY <1>2, OrderedSorts
<1> HIDE DEF ids, n, list
<1>6. /\ DOMAIN list = 1 .. n
      /\ \A i \in 1 .. n : /\ list[i].id = ids[i] /\ list[i].rank = i
                           /\ list[i].score = score[ids[i]]
  BY <1>4, <1>5
<1>7. list \in Seq(Entry)
  BY <1>1, <1>4, <1>5 DEF Entry
<1>8. EachOnce(list)
  BY <1>5, <1>6 DEF EachOnce
<1>9. BestScoreFirst(list)
  <2> SUFFICES ASSUME NEW i \in 1 .. n, NEW j \in 1 .. n, i < j
               PROVE  list[j].score <= list[i].score
    BY <1>6 DEF BestScoreFirst
  <2>1. ids[i] \in S /\ ids[j] \in S /\ <<ids[i], ids[j]>> \in before
    BY <1>5
  <2>2. score[ids[j]] <= score[ids[i]]
    BY <1>3, <2>1
  <2> QED BY <1>6, <2>2
<1>10. \A c \in S : \E i \in DOMAIN list : list[i].id = c
  <2> TAKE c \in S
  <2>1. PICK i \in 1 .. n : ids[i] = c
    BY <1>5
  <2>2. i \in DOMAIN list /\ list[i].id = c
    BY <1>6, <2>1
  <2> QED BY <2>2
<1>11. \A i \in DOMAIN list : /\ list[i].rank = i /\ list[i].id \in S
                              /\ list[i].score = score[list[i].id]
  BY <1>5, <1>6
<1> QED BY <1>7, <1>8, <1>9, <1>10, <1>11 DEF list

----------------------------------------------------------------------------
(* Fusion: a chunk's score is the sum of its shares.                       *)

Share(list, c) == IF c \in Ids(list) THEN Unit \div (RrfK + EntryOf(list, c).rank) ELSE 0

Both(ve, le) == [vector |-> ve, lexical |-> le]

LEMMA EntryOfChunk ==
    ASSUME NEW list, NEW c \in Ids(list)
    PROVE  \E i \in DOMAIN list : list[i].id = c /\ EntryOf(list, c) = list[i]
  BY DEF Ids, EntryOf

LEMMA ShareType ==
    ASSUME NEW list, BranchList(list), NEW c
    PROVE  /\ Share(list, c) \in Nat
           /\ 2 * Share(list, c) <= Unit
<1>1. Unit \in Nat /\ RrfK \in Nat \ {0}
  BY RetrievalAssumption
<1>2. CASE c \notin Ids(list)
  BY <1>1, <1>2 DEF Share
<1>3. CASE c \in Ids(list)
  <2>1. PICK i \in DOMAIN list : EntryOf(list, c) = list[i]
    BY <1>3, EntryOfChunk
  <2>2. list[i].rank \in Nat /\ list[i].rank >= 1
    <3>1. list[i] \in Entry
      BY DEF BranchList
    <3> QED BY <3>1 DEF BranchList, Entry
  <2>3. Share(list, c) = Unit \div (RrfK + list[i].rank)
    BY <1>3, <2>1 DEF Share
  <2> DEFINE d == RrfK + list[i].rank
             q == Unit \div d
  <2>4. d \in Nat /\ d >= 2
    BY <1>1, <2>2
  <2>5. q \in Nat /\ d * q <= Unit
    <3> HIDE DEF d
    <3> QED BY <1>1, <2>4
  <2> HIDE DEF d, q
  <2>6. 2 * q <= d * q
    BY <2>4, <2>5
  <2>7. 2 * q <= Unit
    BY <1>1, <2>4, <2>5, <2>6
  <2> QED BY <2>3, <2>5, <2>7 DEF d, q
<1> QED BY <1>2, <1>3

LEMMA FusedShares ==
    ASSUME NEW ve, BranchList(ve), NEW le, BranchList(le), NEW c
    PROVE  MapThenSumSet(LAMBDA b : Unit \div (RrfK + EntryOf(Both(ve, le)[b], c).rank),
                         Contributors(Both(ve, le), c))
           = Share(ve, c) + Share(le, c)
<1> DEFINE S == Contributors(Both(ve, le), c)
           step(b) == Unit \div (RrfK + EntryOf(Both(ve, le)[b], c).rank)
           Adds(iter) == iter = [s \in SUBSET S |->
                            IF s = {} THEN 0
                            ELSE LET x == CHOOSE x \in s : TRUE
                                 IN  step(x) + iter[s \ {x}]]
           v == IF "vector" \in S THEN step("vector") ELSE 0
           l == IF "lexical" \in S THEN step("lexical") ELSE 0
           w == [s \in SUBSET S |-> (IF "vector" \in s THEN step("vector") ELSE 0)
                                   + (IF "lexical" \in s THEN step("lexical") ELSE 0)]
<1>1. S \subseteq {"vector", "lexical"}
  BY DEF Contributors, Both
<1>2. ("vector" \in S <=> c \in Ids(ve)) /\ ("lexical" \in S <=> c \in Ids(le))
  BY DEF Contributors, Both
<1>3. v = Share(ve, c) /\ l = Share(le, c)
  BY <1>2 DEF Share, Both
<1>4. v \in Nat /\ l \in Nat
  BY <1>3, ShareType
<1>5. MapThenSumSet(LAMBDA b : Unit \div (RrfK + EntryOf(Both(ve, le)[b], c).rank), S)
      = (CHOOSE iter : Adds(iter))[S]
  BY DEF MapThenSumSet, MapThenFoldSet
<1>6. /\ "vector" \in S => step("vector") \in Nat
      /\ "lexical" \in S => step("lexical") \in Nat
  BY <1>4
<1> HIDE DEF S, step
<1>7. Adds(w)
  <2>1. ASSUME NEW s \in SUBSET S
        PROVE  w[s] = IF s = {} THEN 0 ELSE LET x == CHOOSE x \in s : TRUE
                                            IN  step(x) + w[s \ {x}]
    <3>1. CASE s = {}
      BY <3>1
    <3>2. CASE s # {}
      <4>1. PICK x : x = CHOOSE y \in s : TRUE
        OBVIOUS
      <4>2. x \in s /\ x \in S /\ s \ {x} \in SUBSET S
        BY <3>2, <4>1
      <4>3. w[s] = step(x) + w[s \ {x}]
        <5>1. CASE x = "vector"
          BY <1>1, <1>6, <4>2, <5>1
        <5>2. CASE x = "lexical"
          BY <1>1, <1>6, <4>2, <5>2
        <5> QED BY <1>1, <4>2, <5>1, <5>2
      <4> HIDE DEF w
      <4> QED BY <3>2, <4>1, <4>3
    <3> QED BY <3>1, <3>2
  <2> QED BY <2>1
<1>8. PICK f : f = CHOOSE iter : Adds(iter)
  OBVIOUS
<1>9. Adds(f)
  <2> HIDE DEF Adds, w
  <2> QED BY <1>7, <1>8
<1>10. f[S] = v + l
  <2>1. \A s \in SUBSET S : f[s] = IF s = {} THEN 0 ELSE LET x == CHOOSE x \in s : TRUE
                                                        IN  step(x) + f[s \ {x}]
    BY <1>9
  <2>2. f[{}] = 0
    BY <2>1
  <2>3. \A x \in S : f[{x}] = step(x)
    <3> TAKE x \in S
    <3>1. PICK z : z = CHOOSE y \in {x} : TRUE
      OBVIOUS
    <3>2. f[{x}] = step(z) + f[{x} \ {z}]
      BY <2>1, <3>1
    <3>3. z = x /\ {x} \ {z} = {}
      BY <3>1
    <3>4. step(x) \in Nat
      BY <1>1, <1>6
    <3> QED BY <2>2, <3>2, <3>3, <3>4
  <2>4. CASE S = {}
    BY <2>2, <2>4
  <2>5. CASE S # {}
    <3>1. PICK x : x = CHOOSE y \in S : TRUE
      OBVIOUS
    <3>2. x \in S /\ f[S] = step(x) + f[S \ {x}]
      BY <2>1, <2>5, <3>1
    <3>3. CASE x = "vector"
      <4>1. S \ {x} = IF "lexical" \in S THEN {"lexical"} ELSE {}
        BY <1>1, <3>3
      <4> QED BY <1>6, <2>2, <2>3, <3>2, <3>3, <4>1
    <3>4. CASE x = "lexical"
      <4>1. S \ {x} = IF "vector" \in S THEN {"vector"} ELSE {}
        BY <1>1, <3>4
      <4> QED BY <1>6, <2>2, <2>3, <3>2, <3>4, <4>1
    <3> QED BY <1>1, <3>2, <3>3, <3>4
  <2> QED BY <2>4, <2>5
<1>11. (CHOOSE iter : Adds(iter))[S] = v + l
  BY <1>8, <1>10
<1> HIDE DEF Adds, v, l
<1> QED BY <1>3, <1>5, <1>11 DEF S

LEMMA IdsFinite ==
    ASSUME NEW list \in Seq(Entry)
    PROVE  Ids(list) \in SUBSET ChunkIds /\ IsFiniteSet(Ids(list))
<1> DEFINE id == [i \in DOMAIN list |-> list[i].id]
<1>1. DOMAIN list = 1 .. Len(list) /\ Len(list) \in Nat
  OBVIOUS
<1>2. IsFiniteSet(DOMAIN list)
  BY <1>1, FS_Interval
<1>3. IsFiniteSet({id[i] : i \in DOMAIN list})
  <2> HIDE DEF id
  <2> QED BY <1>2, ImageFinite
<1>4. {id[i] : i \in DOMAIN list} = Ids(list)
  BY DEF Ids
<1>5. \A i \in DOMAIN list : list[i] \in Entry
  <2> HIDE DEF id
  <2> QED OBVIOUS
<1>6. Ids(list) \in SUBSET ChunkIds
  BY <1>5 DEF Ids, Entry
<1> QED BY <1>3, <1>4, <1>6

(* The fused list: every chunk of a branch once, best first, its score the *)
(* sum of its shares.                                                      *)
LEMMA FusionRanked ==
    ASSUME NEW ve, BranchList(ve), NEW le, BranchList(le)
    PROVE  LET list == ReciprocalRankFusion(Both(ve, le))
           IN  /\ RankedList(list)
               /\ Ids(list) = Ids(ve) \cup Ids(le)
               /\ \A i \in DOMAIN list :
                     list[i].score = Share(ve, list[i].id) + Share(le, list[i].id)
<1> DEFINE list == ReciprocalRankFusion(Both(ve, le))
           S == AllIds(Both(ve, le))
           score == [c \in S |-> Share(ve, c) + Share(le, c)]
<1>1. S = Ids(ve) \cup Ids(le)
  <2>1. DOMAIN Both(ve, le) = {"vector", "lexical"}
    BY DEF Both
  <2>2. Both(ve, le)["vector"] = ve /\ Both(ve, le)["lexical"] = le
    BY DEF Both
  <2> QED BY <2>1, <2>2 DEF AllIds
<1>2. S \in SUBSET ChunkIds /\ IsFiniteSet(S)
  BY <1>1, IdsFinite, FS_Union DEF BranchList
<1>3. \A c \in S : score[c] \in Nat /\ score[c] \in 0 .. Unit
  <2> TAKE c \in S
  <2>1. /\ Share(ve, c) \in Nat /\ 2 * Share(ve, c) <= Unit
        /\ Share(le, c) \in Nat /\ 2 * Share(le, c) <= Unit
    BY ShareType
  <2> QED BY <2>1, RetrievalAssumption
<1>4. score \in [S -> Nat]
  BY <1>3
<1>5. list = RankFusedScores(score)
  <2>1. \A c \in S :
           MapThenSumSet(LAMBDA b : Unit \div (RrfK + EntryOf(Both(ve, le)[b], c).rank),
                         Contributors(Both(ve, le), c)) = score[c]
    BY FusedShares
  <2>2. [c \in S |->
           MapThenSumSet(LAMBDA b : Unit \div (RrfK + EntryOf(Both(ve, le)[b], c).rank),
                         Contributors(Both(ve, le), c))] = score
    BY <2>1
  <2> QED BY <2>2 DEF ReciprocalRankFusion
<1> HIDE DEF list, S, score
<1>6. /\ list \in Seq(Entry)
      /\ EachOnce(list)
      /\ BestScoreFirst(list)
      /\ \A i \in DOMAIN list : /\ list[i].rank = i
                                /\ list[i].id \in S
                                /\ list[i].score = score[list[i].id]
      /\ \A c \in S : \E i \in DOMAIN list : list[i].id = c
  BY <1>2, <1>4, <1>5, RankFusedSorts
<1>7. RankedList(list)
  BY <1>3, <1>6 DEF RankedList
<1>8. Ids(list) = S
  BY <1>6 DEF Ids
<1>9. \A i \in DOMAIN list : list[i].score = Share(ve, list[i].id) + Share(le, list[i].id)
  BY <1>6 DEF score
<1> QED BY <1>1, <1>7, <1>8, <1>9 DEF list

----------------------------------------------------------------------------
(* What is recalled and what is returned.                                  *)

BranchesOK(vector, lexical) ==
    /\ vector \in BranchOutcome /\ EachOnce(vector.rows) /\ Nearest(vector.rows)
    /\ lexical \in BranchOutcome /\ EachOnce(lexical.rows) /\ Highest(lexical.rows)

LEMMA SearchesOK == \A s \in Searches : BranchesOK(s.vector, s.lexical)
<1> TAKE s \in Searches
<1>1. s.vector \in BranchOutcome /\ s.lexical \in BranchOutcome
  BY SearchAssumption
<1>2. s.vector.rows \in Statement /\ s.lexical.rows \in Statement
  BY <1>1 DEF BranchOutcome, Statement
<1>3. /\ DOMAIN s.vector.rows = 1 .. Len(s.vector.rows)
      /\ DOMAIN s.lexical.rows = 1 .. Len(s.lexical.rows)
  BY <1>2, StatementRows
<1>4. /\ \A i, j \in DOMAIN s.vector.rows : i < j =>
           s.vector.rows[i].id # s.vector.rows[j].id
      /\ \A i, j \in DOMAIN s.lexical.rows : i < j =>
           s.lexical.rows[i].id # s.lexical.rows[j].id
  BY SearchAssumption
<1>5. EachOnce(s.vector.rows) /\ EachOnce(s.lexical.rows)
  BY <1>3, <1>4 DEF EachOnce
<1>6. Nearest(s.vector.rows) /\ Highest(s.lexical.rows)
  BY SearchAssumption DEF Nearest, Highest
<1> QED BY <1>1, <1>5, <1>6 DEF BranchesOK

LEMMA TakeStatement ==
    ASSUME NEW rows \in Statement, EachOnce(rows), NEW n \in Nat
    PROVE  /\ Take(rows, n) \in Statement /\ EachOnce(Take(rows, n))
           /\ Nearest(rows) => Nearest(Take(rows, n))
           /\ Highest(rows) => Highest(Take(rows, n))
<1> DEFINE t == Take(rows, n)
<1>1. t \in Statement /\ \A i \in DOMAIN t : i \in DOMAIN rows /\ t[i] = rows[i]
  <2> DEFINE T == [id : ChunkIds, value : Int]
  <2>1. rows \in Seq(T)
    BY DEF Statement
  <2> HIDE DEF T
  <2>2. t \in Seq(T) /\ \A i \in DOMAIN t : i \in DOMAIN rows /\ t[i] = rows[i]
    BY <2>1, TakeProperties
  <2> QED BY <2>2 DEF T, Statement
<1> HIDE DEF t
<1>2. EachOnce(t)
  BY <1>1 DEF EachOnce
<1>3. Nearest(rows) => Nearest(t)
  BY <1>1 DEF Nearest
<1>4. Highest(rows) => Highest(t)
  BY <1>1 DEF Highest
<1> QED BY <1>1, <1>2, <1>3, <1>4 DEF t

VectorList(vector, n) == VectorEntries(Take(vector.rows, n))
LexicalList(lexical, n) == LexicalEntries(Take(lexical.rows, n))

LEMMA BranchesRanked ==
    ASSUME NEW vector, NEW lexical, BranchesOK(vector, lexical), NEW n \in Nat
    PROVE  RankedList(VectorList(vector, n)) /\ RankedList(LexicalList(lexical, n))
<1>1. vector.rows \in Statement /\ lexical.rows \in Statement
  BY DEF BranchesOK, BranchOutcome, Statement
<1>2. /\ Take(vector.rows, n) \in Statement /\ EachOnce(Take(vector.rows, n))
      /\ Nearest(Take(vector.rows, n))
  BY <1>1, TakeStatement DEF BranchesOK
<1>3. /\ Take(lexical.rows, n) \in Statement /\ EachOnce(Take(lexical.rows, n))
      /\ Highest(Take(lexical.rows, n))
  BY <1>1, TakeStatement DEF BranchesOK
<1> QED BY <1>2, <1>3, VectorRanked, LexicalRanked DEF VectorList, LexicalList

LEMMA RecalledRanked ==
    ASSUME NEW plan, NEW vector, NEW lexical, BranchesOK(vector, lexical), NEW n \in Nat
    PROVE  RankedList(Recalled(plan, vector, lexical, n))
<1> DEFINE hasLexical == lexical.ok /\ "lexical" \in plan.branches
           fused == ReciprocalRankFusion(Both(VectorList(vector, n), LexicalList(lexical, n)))
           list == IF vector.ok /\ hasLexical THEN fused
                   ELSE IF vector.ok THEN VectorList(vector, n)
                   ELSE IF hasLexical THEN LexicalList(lexical, n) ELSE <<>>
<1>1. RankedList(VectorList(vector, n)) /\ RankedList(LexicalList(lexical, n))
  BY BranchesRanked
<1>2. RankedList(fused)
  BY <1>1, RankedBranch, FusionRanked
<1>3. RankedList(list)
  <2> HIDE DEF fused
  <2> QED BY <1>1, <1>2, NoneRanked
<1>4. Recalled(plan, vector, lexical, n) = Take(list, n)
  BY DEF Recalled, VectorList, LexicalList, Both
<1> HIDE DEF list
<1> QED BY <1>3, <1>4, TakeRanked

(* The reranker gives the same entries, the best logit first.              *)
LEMMA RerankedSorts ==
    ASSUME NEW list, RankedList(list), NEW logit \in [ChunkIds -> Int]
    PROVE  LET order == Reranked(list, logit)
           IN  /\ order \in Seq(Entry)
               /\ EachOnce(order)
               /\ Ids(order) = Ids(list)
               /\ \A i, j \in DOMAIN order : i < j =>
                     logit[order[j].id] <= logit[order[i].id]
<1> DEFINE D == DOMAIN list
           Logit(i) == logit[list[i].id]
           before == {p \in D \X D :
                         \/ Logit(p[1]) > Logit(p[2])
                         \/ Logit(p[1]) = Logit(p[2]) /\ p[1] < p[2]}
           s == Ordered(D, before)
           n == Cardinality(D)
           order == Reranked(list, logit)
<1>1. list \in Seq(Entry) /\ D = 1 .. Len(list) /\ Len(list) \in Nat
  BY DEF RankedList
<1>2. IsFiniteSet(D)
  BY <1>1, FS_Interval
<1>3. \A i \in D : list[i] \in Entry
  BY <1>1
<1>4. \A i \in D : list[i].id \in ChunkIds /\ Logit(i) \in Int
  <2>1. \A i \in D : list[i].id \in ChunkIds
    BY <1>3 DEF Entry
  <2> QED BY <2>1
<1>5. order = [i \in DOMAIN s |-> list[s[i]]]
  BY DEF Reranked
<1> HIDE DEF Logit
<1>6. StrictOrder(D, before)
  BY <1>1, <1>4 DEF StrictOrder
<1>7. \A i, j \in D : <<i, j>> \in before => Logit(j) <= Logit(i)
  BY <1>4
<1> HIDE DEF before
<1>8. /\ n \in Nat
      /\ s \in [1 .. n -> D]
      /\ \A i, j \in 1 .. n : i < j => <<s[i], s[j]>> \in before
      /\ \A i, j \in 1 .. n : s[i] = s[j] => i = j
      /\ \A x \in D : \E i \in 1 .. n : s[i] = x
  BY <1>2, <1>6, OrderedSorts
<1> HIDE DEF s, n, order
<1>9. /\ order \in Seq(Entry)
      /\ DOMAIN order = 1 .. n
      /\ \A i \in 1 .. n : s[i] \in D /\ order[i] = list[s[i]]
  BY <1>3, <1>5, <1>8
<1>10. EachOnce(order)
  BY <1>8, <1>9 DEF EachOnce, RankedList
<1>11. Ids(order) = Ids(list)
  <2>1. Ids(order) \subseteq Ids(list)
    BY <1>9 DEF Ids
  <2>2. ASSUME NEW c \in Ids(list) PROVE c \in Ids(order)
    <3>1. PICK x \in D : list[x].id = c
      BY DEF Ids
    <3>2. PICK i \in 1 .. n : s[i] = x
      BY <1>8
    <3>3. i \in DOMAIN order /\ order[i].id = c
      BY <1>9, <3>1, <3>2
    <3> QED BY <3>3 DEF Ids
  <2> QED BY <2>1, <2>2
<1>12. ASSUME NEW i \in 1 .. n, NEW j \in 1 .. n, i < j
       PROVE  logit[order[j].id] <= logit[order[i].id]
  <2>1. Logit(s[j]) <= Logit(s[i])
    BY <1>7, <1>8, <1>9, <1>12
  <2> QED BY <2>1, <1>9 DEF Logit
<1> QED BY <1>9, <1>10, <1>11, <1>12 DEF order

Row == [id : ChunkIds, score : 0 .. Unit]

(* The rows: each chunk once, best score first; the first of what was      *)
(* recalled, or those the reranker prefers.                                *)
RowsFit(rows, plan, vector, lexical, recall, top, reranker, logit) ==
    LET recalled == Recalled(plan, vector, lexical, recall)
    IN  /\ rows \in Seq(Row)
        /\ EachOnce(rows)
        /\ BestScoreFirst(rows)
        /\ IF EffectivePlan(plan, reranker).rerank
           THEN \A c \in Ids(recalled) \ Ids(rows) : \A i \in DOMAIN rows :
                    logit[c] <= logit[rows[i].id]
           ELSE /\ DOMAIN rows = DOMAIN Take(recalled, top)
                /\ \A i \in DOMAIN rows : rows[i].id = recalled[i].id

LEMMA RowsProperties ==
    ASSUME NEW plan, NEW vector, NEW lexical, BranchesOK(vector, lexical),
           NEW recall \in Nat, NEW top \in Nat, NEW reranker, NEW logit,
           EffectivePlan(plan, reranker).rerank => logit \in [ChunkIds -> Int]
    PROVE  RowsFit(Rows(plan, vector, lexical, recall, top, reranker, logit),
                   plan, vector, lexical, recall, top, reranker, logit)
<1> DEFINE reranked == EffectivePlan(plan, reranker).rerank
           recalled == Recalled(plan, vector, lexical, recall)
           ordered == IF reranked THEN Reranked(recalled, logit) ELSE recalled
           logits == {logit[c] : c \in Ids(recalled)}
           rows == Rows(plan, vector, lexical, recall, top, reranker, logit)
           Final(i) == FinalScore(ordered[i], reranked, logit, logits)
           D == DOMAIN Take(ordered, top)
<1>1. rows = [i \in D |-> [id |-> ordered[i].id, score |-> Final(i)]]
  BY DEF Rows
<1>2. RankedList(recalled)
  BY RecalledRanked
<1> HIDE DEF reranked, recalled
<1>3. /\ ordered \in Seq(Entry) /\ EachOnce(ordered) /\ Ids(ordered) = Ids(recalled)
      /\ reranked => \A i, j \in DOMAIN ordered : i < j =>
                         logit[ordered[j].id] <= logit[ordered[i].id]
  <2>1. CASE reranked
    <3>1. logit \in [ChunkIds -> Int]
      BY <2>1 DEF reranked
    <3> QED BY <1>2, <2>1, <3>1, RerankedSorts
  <2>2. CASE ~ reranked
    BY <1>2, <2>2 DEF RankedList
  <2> QED BY <2>1, <2>2
<1>4. ~ reranked => ordered = recalled
  OBVIOUS
<1> HIDE DEF ordered
<1>5. /\ D = 1 .. Len(Take(ordered, top))
      /\ Len(Take(ordered, top)) = IF top < Len(ordered) THEN top ELSE Len(ordered)
      /\ \A i \in D : i \in DOMAIN ordered
  BY <1>3, TakeProperties
<1>6. Len(ordered) \in Nat /\ DOMAIN ordered = 1 .. Len(ordered)
      /\ Len(Take(ordered, top)) \in Nat
  BY <1>3, <1>5
<1>7. \A i \in DOMAIN ordered : ordered[i] \in Entry /\ ordered[i].id \in ChunkIds
                                /\ ordered[i].id \in Ids(recalled)
  <2>1. \A i \in DOMAIN ordered : ordered[i] \in Entry
    BY <1>3
  <2> QED BY <1>3, <2>1 DEF Entry, Ids
<1>8. /\ \A i \in DOMAIN ordered : Final(i) \in 0 .. Unit
      /\ \A i, j \in DOMAIN ordered : i < j => Final(j) <= Final(i)
  <2>1. CASE reranked
    <3>1. logit \in [ChunkIds -> Int]
      BY <2>1 DEF reranked
    <3>2. IsFiniteSet(Ids(recalled)) /\ Ids(recalled) \in SUBSET ChunkIds
      BY <1>2, IdsFinite DEF RankedList
    <3>3. logits \in SUBSET Int /\ IsFiniteSet(logits)
      BY <3>1, <3>2, ImageFinite
    <3>4. /\ \A x \in logits : MinMax(x, logits) \in 0 .. Unit
          /\ \A x, y \in logits : x <= y => MinMax(x, logits) <= MinMax(y, logits)
      <4> HIDE DEF logits
      <4> QED BY <3>3, MinMaxBounds
    <3>5. \A i \in DOMAIN ordered : logit[ordered[i].id] \in logits
      BY <1>7
    <3>6. \A i \in DOMAIN ordered : Final(i) = MinMax(logit[ordered[i].id], logits)
      BY <2>1 DEF FinalScore
    <3> HIDE DEF logits, Final
    <3> QED BY <1>3, <2>1, <3>4, <3>5, <3>6
  <2>2. CASE ~ reranked
    <3>1. \A i \in DOMAIN ordered : Final(i) = recalled[i].score
      BY <1>4, <2>2 DEF FinalScore
    <3> HIDE DEF Final
    <3> QED BY <1>2, <1>4, <2>2, <3>1 DEF RankedList, BestScoreFirst
  <2> QED BY <2>1, <2>2
<1> HIDE DEF Final, D, rows
<1>9. /\ DOMAIN rows = D
      /\ \A i \in D : rows[i].id = ordered[i].id /\ rows[i].score = Final(i)
  BY <1>1
<1>10. rows \in Seq(Row)
  <2>1. \A i \in D : [id |-> ordered[i].id, score |-> Final(i)] \in Row
    BY <1>5, <1>7, <1>8 DEF Row
  <2> QED BY <1>1, <1>5, <1>6, <2>1
<1>11. EachOnce(rows)
  BY <1>3, <1>5, <1>9 DEF EachOnce
<1>12. BestScoreFirst(rows)
  BY <1>5, <1>8, <1>9 DEF BestScoreFirst
<1>13. ASSUME reranked, NEW c \in Ids(recalled) \ Ids(rows), NEW i \in DOMAIN rows
       PROVE  logit[c] <= logit[rows[i].id]
  <2>1. PICK j \in DOMAIN ordered : ordered[j].id = c
    BY <1>3 DEF Ids
  <2>2. j \notin D
    BY <1>9, <2>1 DEF Ids
  <2>3. i < j
    BY <1>5, <1>6, <1>9, <2>2
  <2> QED BY <1>3, <1>5, <1>9, <1>13, <2>1, <2>3
<1>14. ASSUME ~ reranked
       PROVE  DOMAIN rows = DOMAIN Take(recalled, top)
              /\ \A i \in DOMAIN rows : rows[i].id = recalled[i].id
  BY <1>4, <1>9, <1>14 DEF D
<1> HIDE DEF logits
<1> QED BY <1>10, <1>11, <1>12, <1>13, <1>14 DEF RowsFit, reranked, recalled, rows

(* Routing keeps the order of a branch and each chunk once.                *)
LEMMA RoutedOK ==
    ASSUME NEW config, NEW collection, NEW vector, NEW lexical, BranchesOK(vector, lexical)
    PROVE  BranchesOK(Routed(config, collection, vector), Routed(config, collection, lexical))
<1>1. ASSUME NEW outcome \in BranchOutcome, EachOnce(outcome.rows)
      PROVE  LET routed == Routed(config, collection, outcome)
             IN  /\ routed \in BranchOutcome
                 /\ EachOnce(routed.rows)
                 /\ Nearest(outcome.rows) => Nearest(routed.rows)
                 /\ Highest(outcome.rows) => Highest(routed.rows)
  <2> DEFINE routed == Routed(config, collection, outcome)
             rows == outcome.rows
             kept == {i \in DOMAIN rows : CollectionOf[rows[i].id] = collection}
             T == [id : ChunkIds, value : Int]
  <2>1. CASE ~ (config.routing /\ RoutingEnabled)
    BY <1>1, <2>1 DEF Routed
  <2>2. CASE config.routing /\ RoutingEnabled
    <3>1. rows \in Seq(T) /\ outcome.ok \in BOOLEAN
      BY DEF BranchOutcome
    <3>2. routed = [outcome EXCEPT !.rows = Picked(rows, kept)]
      BY <2>2 DEF Routed
    <3> HIDE DEF T
    <3> DEFINE n == Cardinality(kept)
               order == Ascending(kept)
    <3>3. /\ n \in Nat
          /\ order \in [1 .. n -> kept]
          /\ \A i, j \in 1 .. n : i < j => order[i] < order[j]
          /\ Picked(rows, kept) = [i \in 1 .. n |-> rows[order[i]]]
          /\ Picked(rows, kept) \in Seq(T)
      <4>1. kept \in SUBSET DOMAIN rows
        OBVIOUS
      <4> HIDE DEF kept, rows
      <4> QED BY <3>1, <4>1, PickedProperties
    <3> HIDE DEF n, order
    <3>4. routed.rows = Picked(rows, kept) /\ routed \in BranchOutcome
      BY <3>2, <3>3 DEF BranchOutcome, T
    <3> DEFINE p == routed.rows
    <3>5. /\ DOMAIN p = 1 .. n
          /\ \A i \in 1 .. n : order[i] \in DOMAIN rows /\ p[i] = rows[order[i]]
      <4> HIDE DEF routed
      <4> QED BY <3>3, <3>4
    <3>6. \A i, j \in 1 .. n : order[i] = order[j] => i = j
      <4> SUFFICES ASSUME NEW i \in 1 .. n, NEW j \in 1 .. n, i < j PROVE order[i] # order[j]
        OBVIOUS
      <4>1. order[i] < order[j] /\ order[i] \in Int
        BY <3>1, <3>3, <3>5
      <4> QED BY <4>1
    <3> HIDE DEF p
    <3>7. EachOnce(p)
      BY <1>1, <3>5, <3>6 DEF EachOnce
    <3>8. Nearest(rows) => Nearest(p)
      BY <3>3, <3>5 DEF Nearest
    <3>9. Highest(rows) => Highest(p)
      BY <3>3, <3>5 DEF Highest
    <3> QED BY <3>4, <3>7, <3>8, <3>9 DEF p
  <2> QED BY <2>1, <2>2
<1> QED BY <1>1 DEF BranchesOK

----------------------------------------------------------------------------
(* The wizard.                                                             *)

Stages == {"reformulate", "retrieve", "assemble", "generate", "verify", "done"}

Wizard ==
    wizard = [stage |-> wizard.stage, status |-> wizard.status, call |-> wizard.call,
              rows |-> wizard.rows, ids |-> wizard.ids, budget |-> wizard.budget,
              context |-> wizard.context, kept |-> wizard.kept,
              estimate |-> wizard.estimate, judged |-> wizard.judged,
              grades |-> wizard.grades]

\* Logits matter only to a reranker.
LogitFits(plan, reranker, logit) ==
    EffectivePlan(plan, reranker).rerank => logit \in [ChunkIds -> Int]

ByMode(call, rows) ==
    \E mode \in {"A", "B", "C", "D"}, w \in Windows, reranker \in Rerankers :
        /\ call = [kind |-> "mode", mode |-> mode, recall |-> w[1], top |-> w[2],
                   reranker |-> reranker, logit |-> call.logit]
        /\ LogitFits(ResolveMode(mode), reranker, call.logit)
        /\ rows = Retrieve(mode, search.vector, search.lexical, w[1], w[2], reranker,
                           call.logit)

ByConfig(call, rows) ==
    /\ call = [kind |-> "advanced"]
    /\ \E config \in Configs, collection \in Collections, w \in Windows, logit \in Logits :
          rows = AdvancedRetrieve(config, collection, search.vector, search.lexical,
                                  w[1], w[2], "active", logit)

\* The rows are what the client's last call retrieved.
RowsRetrieved ==
    AtStage("assemble") =>
        /\ ByMode(wizard.call, wizard.rows) \/ ByConfig(wizard.call, wizard.rows)
        /\ wizard.ids = Ids200(wizard.rows)

\* The context is that of the ids.
ContextAssembled ==
    wizard.stage \in {"generate", "verify", "done"} =>
        /\ wizard.ids \in Seq(ChunkIds)
        /\ wizard.budget \in Budgets
        /\ LET views == AugmentedChunks(StageChunks(wizard.ids))
           IN  /\ wizard.context = Truncated(views, wizard.budget)
               /\ wizard.kept = KeptChunks(wizard.context, views)

\* The estimate is a draft that passed the validators.
EstimateValidated ==
    wizard.stage \in {"verify", "done"} =>
        \E draft \in Drafts : Accepted(draft) /\ wizard.estimate = Validated(draft)

\* The grades are those of the estimate, if there are any.
GradesGiven ==
    wizard.grades = <<>> \/ (AtStage("done") /\
        wizard.grades = Grades(wizard.estimate, TextsOf(wizard.kept), wizard.judged))

StagesInv ==
    /\ Wizard /\ wizard.stage \in Stages
    /\ wizard.stage \in {"retrieve", "assemble"} => search \in Searches
    /\ RowsRetrieved
    /\ ContextAssembled
    /\ EstimateValidated
    /\ GradesGiven

LEMMA StagesInitially == StagesInit => StagesInv
  BY DEF StagesInit, StagesInv, Wizard, Stages, RowsRetrieved, ContextAssembled,
         EstimateValidated, GradesGiven, AtStage

(* An answer that only reports a status leaves the rest as it was.         *)
LEMMA StatusKeeps ==
    ASSUME StagesInv, NEW status, wizard' = [wizard EXCEPT !.status = status],
           UNCHANGED search
    PROVE  StagesInv'
<1>1. /\ wizard'.stage = wizard.stage /\ wizard'.call = wizard.call
      /\ wizard'.rows = wizard.rows /\ wizard'.ids = wizard.ids
      /\ wizard'.budget = wizard.budget /\ wizard'.context = wizard.context
      /\ wizard'.kept = wizard.kept /\ wizard'.estimate = wizard.estimate
      /\ wizard'.judged = wizard.judged /\ wizard'.grades = wizard.grades
  BY DEF StagesInv, Wizard
<1>2. Wizard'
  BY DEF StagesInv, Wizard
<1>3. search' = search
  OBVIOUS
<1>4. RowsRetrieved'
  BY <1>1, <1>3 DEF StagesInv, RowsRetrieved, AtStage, ByMode, ByConfig
<1>5. ContextAssembled'
  BY <1>1 DEF StagesInv, ContextAssembled
<1>6. EstimateValidated'
  BY <1>1 DEF StagesInv, EstimateValidated
<1>7. GradesGiven'
  BY <1>1 DEF StagesInv, GradesGiven, AtStage
<1> QED BY <1>1, <1>2, <1>3, <1>4, <1>5, <1>6, <1>7 DEF StagesInv

LEMMA ReformulateStep == StagesInv /\ StageReformulate => StagesInv'
<1> SUFFICES ASSUME StagesInv, StageReformulate PROVE StagesInv'
  OBVIOUS
<1>1. CASE Refuses(502)
  BY <1>1, StatusKeeps DEF Refuses, Answers
<1>2. CASE /\ search' \in Searches
           /\ wizard' = [wizard EXCEPT !.stage = "retrieve", !.status = 200]
  <2>1. /\ wizard'.stage = "retrieve" /\ wizard'.grades = wizard.grades
        /\ wizard.stage = "reformulate"
    BY <1>2 DEF StagesInv, Wizard, StageReformulate
  <2>2. Wizard'
    BY <1>2 DEF StagesInv, Wizard
  <2>3. wizard'.grades = <<>>
    BY <2>1 DEF StagesInv, GradesGiven, AtStage
  <2> QED BY <1>2, <2>1, <2>2, <2>3
          DEF StagesInv, Stages, RowsRetrieved, ContextAssembled, EstimateValidated,
              GradesGiven, AtStage
<1> QED BY <1>1, <1>2 DEF StageReformulate

LEMMA StructureStep == StagesInv /\ StageStructure => StagesInv'
  BY StatusKeeps DEF StageStructure, Refuses, Answers

LEMMA RetrieveFailsStep == StagesInv /\ StageRetrieveFails => StagesInv'
  BY StatusKeeps DEF StageRetrieveFails, Refuses, Answers

LEMMA RetrievedKeeps ==
    ASSUME StagesInv, AtStage("retrieve"), NEW call, NEW rows, Retrieved(call, rows),
           ByMode(call, rows) \/ ByConfig(call, rows)
    PROVE  StagesInv'
<1>1. wizard' = [wizard EXCEPT !.stage = "assemble", !.status = 200, !.call = call,
                   !.rows = rows, !.ids = Ids200(rows)]
      /\ search' = search
  BY DEF Retrieved, Answers
<1>2. /\ wizard'.stage = "assemble" /\ wizard'.call = call /\ wizard'.rows = rows
      /\ wizard'.ids = Ids200(rows) /\ wizard'.grades = wizard.grades
  BY <1>1 DEF StagesInv, Wizard
<1>3. Wizard'
  BY <1>1 DEF StagesInv, Wizard
<1>4. wizard'.grades = <<>> /\ search \in Searches
  BY <1>2 DEF StagesInv, GradesGiven, AtStage
<1>5. ByMode(call, rows)' \/ ByConfig(call, rows)'
  BY <1>1 DEF ByMode, ByConfig
<1>6. RowsRetrieved'
  BY <1>2, <1>5 DEF RowsRetrieved, AtStage
<1> QED BY <1>1, <1>2, <1>3, <1>4, <1>6
        DEF StagesInv, Stages, ContextAssembled, EstimateValidated, GradesGiven, AtStage

LEMMA RetrieveStep == StagesInv /\ StageRetrieve => StagesInv'
<1> SUFFICES ASSUME StagesInv, StageRetrieve PROVE StagesInv'
  OBVIOUS
<1> DEFINE Offered(reranker) ==
               IF reranker = "active" THEN Logits ELSE {CHOOSE l \in Logits : TRUE}
           Call(mode, w, reranker, logit) ==
               [kind |-> "mode", mode |-> mode, recall |-> w[1], top |-> w[2],
                reranker |-> reranker, logit |-> logit]
           RowsOf(mode, w, reranker, logit) ==
               Retrieve(mode, search.vector, search.lexical, w[1], w[2], reranker, logit)
<1>1. PICK mode \in {"A", "B", "C", "D"}, w \in Windows, reranker \in Rerankers :
         \E logit \in Offered(reranker) :
             Retrieved(Call(mode, w, reranker, logit), RowsOf(mode, w, reranker, logit))
  BY DEF StageRetrieve
<1>2. PICK logit \in Offered(reranker) :
         Retrieved(Call(mode, w, reranker, logit), RowsOf(mode, w, reranker, logit))
  BY <1>1
<1>3. LogitFits(ResolveMode(mode), reranker, logit)
  <2>1. EffectivePlan(ResolveMode(mode), reranker).rerank => reranker = "active"
    BY DEF EffectivePlan, ResolveMode
  <2>2. reranker = "active" => logit \in [ChunkIds -> Int]
    BY StagesAssumption
  <2> QED BY <2>1, <2>2 DEF LogitFits
<1> DEFINE call == Call(mode, w, reranker, logit)
           rows == RowsOf(mode, w, reranker, logit)
<1>4. ByMode(call, rows)
  <2>1. call.logit = logit
    OBVIOUS
  <2> QED BY <1>3, <2>1 DEF ByMode
<1>5. AtStage("retrieve")
  BY DEF StageRetrieve, AtStage
<1>6. Retrieved(call, rows)
  BY <1>2
<1> HIDE DEF call, rows
<1> QED BY <1>4, <1>5, <1>6, RetrievedKeeps

LEMMA RetrieveAdvancedStep == StagesInv /\ StageRetrieveAdvanced => StagesInv'
<1> SUFFICES ASSUME StagesInv, StageRetrieveAdvanced PROVE StagesInv'
  OBVIOUS
<1>1. PICK config \in Configs, collection \in Collections, w \in Windows, logit \in Logits :
         IF RefusedConfig(config) THEN Refuses(422)
         ELSE Retrieved([kind |-> "advanced"],
                        AdvancedRetrieve(config, collection, search.vector, search.lexical,
                                         w[1], w[2], "active", logit))
  BY DEF StageRetrieveAdvanced
<1>2. CASE RefusedConfig(config)
  <2>1. Refuses(422)
    BY <1>1, <1>2
  <2> QED BY <2>1, StatusKeeps DEF Refuses, Answers
<1>3. CASE ~ RefusedConfig(config)
  <2> DEFINE call == [kind |-> "advanced"]
             rows == AdvancedRetrieve(config, collection, search.vector, search.lexical,
                                      w[1], w[2], "active", logit)
  <2>1. ByConfig(call, rows)
    BY DEF ByConfig
  <2>2. AtStage("retrieve")
    BY DEF StageRetrieveAdvanced, AtStage
  <2>3. Retrieved(call, rows)
    BY <1>1, <1>3
  <2> HIDE DEF call, rows
  <2> QED BY <2>1, <2>2, <2>3, RetrievedKeeps
<1> QED BY <1>2, <1>3

LEMMA WindowType == \A w \in Windows : w[1] \in Nat \ {0} /\ w[2] \in Nat \ {0}
  BY StagesAssumption

LEMMA ModeRows ==
    ASSUME NEW call, NEW rows, search \in Searches, ByMode(call, rows)
    PROVE  /\ call.recall \in Nat \ {0} /\ call.top \in Nat \ {0}
           /\ <<call.recall, call.top>> \in Windows
           /\ RowsFit(rows, ResolveMode(call.mode), search.vector, search.lexical,
                      call.recall, call.top, call.reranker, call.logit)
           /\ rows = Retrieve(call.mode, search.vector, search.lexical, call.recall,
                              call.top, call.reranker, call.logit)
<1>1. PICK mode \in {"A", "B", "C", "D"}, w \in Windows, reranker \in Rerankers :
        /\ call = [kind |-> "mode", mode |-> mode, recall |-> w[1], top |-> w[2],
                   reranker |-> reranker, logit |-> call.logit]
        /\ LogitFits(ResolveMode(mode), reranker, call.logit)
        /\ rows = Retrieve(mode, search.vector, search.lexical, w[1], w[2], reranker,
                           call.logit)
  BY DEF ByMode
<1>2. PICK logit : logit = call.logit
  OBVIOUS
<1>3. call.mode = mode /\ call.recall = w[1] /\ call.top = w[2] /\ call.reranker = reranker
  BY <1>1
<1>4. w[1] \in Nat \ {0} /\ w[2] \in Nat \ {0} /\ <<w[1], w[2]>> = w
  BY WindowType, StagesAssumption
<1>5. BranchesOK(search.vector, search.lexical)
  BY SearchesOK
<1>6. EffectivePlan(ResolveMode(mode), reranker).rerank => logit \in [ChunkIds -> Int]
  BY <1>1, <1>2 DEF LogitFits
<1>7. rows = Rows(ResolveMode(mode), search.vector, search.lexical, w[1], w[2], reranker, logit)
  BY <1>1, <1>2 DEF Retrieve
<1>8. RowsFit(rows, ResolveMode(mode), search.vector, search.lexical, w[1], w[2], reranker, logit)
  <2>1. w[1] \in Nat /\ w[2] \in Nat
    BY <1>4
  <2> QED BY <1>5, <1>6, <1>7, <2>1, RowsProperties
<1> QED BY <1>1, <1>2, <1>3, <1>4, <1>8

LEMMA ConfigRows ==
    ASSUME NEW call, NEW rows, search \in Searches, ByConfig(call, rows)
    PROVE  rows \in Seq(Row) /\ EachOnce(rows) /\ BestScoreFirst(rows)
<1>1. PICK config \in Configs, collection \in Collections, w \in Windows, logit \in Logits :
         rows = AdvancedRetrieve(config, collection, search.vector, search.lexical,
                                 w[1], w[2], "active", logit)
  BY DEF ByConfig
<1> DEFINE vector == Routed(config, collection, search.vector)
           lexical == Routed(config, collection, search.lexical)
<1>2. BranchesOK(vector, lexical)
  <2>1. BranchesOK(search.vector, search.lexical)
    BY SearchesOK
  <2> QED BY <2>1, RoutedOK
<1>3. rows = Rows(StagePlan(config), vector, lexical, w[1], w[2], "active", logit)
  BY <1>1 DEF AdvancedRetrieve
<1> HIDE DEF vector, lexical
<1>4. w[1] \in Nat /\ w[2] \in Nat /\ logit \in [ChunkIds -> Int]
  BY WindowType, StagesAssumption
<1>5. RowsFit(rows, StagePlan(config), vector, lexical, w[1], w[2], "active", logit)
  BY <1>2, <1>3, <1>4, RowsProperties
<1> QED BY <1>5 DEF RowsFit

LEMMA RetrievedRows ==
    ASSUME StagesInv, AtStage("assemble")
    PROVE  /\ wizard.rows \in Seq(Row) /\ EachOnce(wizard.rows)
           /\ BestScoreFirst(wizard.rows)
           /\ wizard.ids = Ids200(wizard.rows) /\ wizard.ids \in Seq(ChunkIds)
<1>1. search \in Searches
  BY DEF StagesInv, AtStage
<1>2. ByMode(wizard.call, wizard.rows) \/ ByConfig(wizard.call, wizard.rows)
  BY DEF StagesInv, RowsRetrieved
<1>3. wizard.rows \in Seq(Row) /\ EachOnce(wizard.rows) /\ BestScoreFirst(wizard.rows)
  <2>1. CASE ByMode(wizard.call, wizard.rows)
    BY <1>1, <2>1, ModeRows DEF RowsFit
  <2>2. CASE ByConfig(wizard.call, wizard.rows)
    BY <1>1, <2>2, ConfigRows
  <2> QED BY <1>2, <2>1, <2>2
<1>4. wizard.ids = Ids200(wizard.rows)
  BY DEF StagesInv, RowsRetrieved
<1>5. Ids200(wizard.rows) \in Seq(ChunkIds)
  <2>1. \A i \in DOMAIN wizard.rows : wizard.rows[i] \in Row
    BY <1>3
  <2>2. \A i \in DOMAIN wizard.rows : wizard.rows[i].id \in ChunkIds
    BY <2>1 DEF Row
  <2>3. DOMAIN wizard.rows = 1 .. Len(wizard.rows) /\ Len(wizard.rows) \in Nat
    BY <1>3
  <2> QED BY <2>2, <2>3 DEF Ids200
<1> QED BY <1>3, <1>4, <1>5

LEMMA AssembleStep == StagesInv /\ StageAssemble => StagesInv'
<1> SUFFICES ASSUME StagesInv, StageAssemble PROVE StagesInv'
  OBVIOUS
<1>1. CASE wizard.ids = <<>>
  <2>1. Refuses(422)
    BY <1>1 DEF StageAssemble
  <2> QED BY <2>1, StatusKeeps DEF Refuses, Answers
<1>2. CASE wizard.ids # <<>>
  <2> DEFINE views == AugmentedChunks(StageChunks(wizard.ids))
             context(budget) == Truncated(views, budget)
             kept(budget) == KeptChunks(context(budget), views)
  <2>1. PICK budget \in Budgets :
          wizard' = [wizard EXCEPT !.stage = "generate", !.status = 200,
                           !.call = NoCall, !.rows = <<>>, !.budget = budget,
                           !.context = context(budget), !.kept = kept(budget)]
    BY <1>2 DEF StageAssemble
  <2> HIDE DEF context, kept
  <2>3. /\ wizard'.stage = "generate" /\ wizard'.ids = wizard.ids
        /\ wizard'.budget = budget /\ wizard'.context = context(budget)
        /\ wizard'.kept = kept(budget)
        /\ wizard'.grades = wizard.grades /\ Wizard'
    BY <2>1 DEF StagesInv, Wizard
  <2>4. wizard.ids \in Seq(ChunkIds) /\ AtStage("assemble")
    BY RetrievedRows DEF StageAssemble, AtStage
  <2>5. ContextAssembled'
    BY <2>3, <2>4 DEF ContextAssembled, context, kept
  <2>6. wizard'.grades = <<>>
    BY <2>3, <2>4 DEF StagesInv, GradesGiven, AtStage
  <2> QED BY <2>3, <2>5, <2>6
          DEF StagesInv, Stages, RowsRetrieved, EstimateValidated, GradesGiven, AtStage
<1> QED BY <1>1, <1>2

LEMMA GenerateStep == StagesInv /\ StageGenerate => StagesInv'
<1> SUFFICES ASSUME StagesInv, StageGenerate PROVE StagesInv'
  OBVIOUS
<1>1. CASE \E status : Refuses(status)
  BY <1>1, StatusKeeps DEF Refuses, Answers
<1>2. CASE ~ \E status : Refuses(status)
  <2>1. PICK draft \in Drafts :
          /\ Accepted(draft)
          /\ Answers([wizard EXCEPT !.stage = "verify", !.status = 200,
                       !.estimate = Validated(draft)])
    BY <1>2 DEF StageGenerate
  <2>2. /\ wizard'.stage = "verify" /\ wizard'.estimate = Validated(draft)
        /\ wizard'.ids = wizard.ids /\ wizard'.budget = wizard.budget
        /\ wizard'.context = wizard.context /\ wizard'.kept = wizard.kept
        /\ wizard'.grades = wizard.grades /\ Wizard'
    BY <2>1 DEF StagesInv, Wizard, Answers
  <2>3. wizard.stage = "generate"
    BY DEF StageGenerate
  <2>4. ContextAssembled'
    BY <2>2, <2>3 DEF StagesInv, ContextAssembled
  <2>5. EstimateValidated'
    BY <2>1, <2>2 DEF EstimateValidated
  <2>6. wizard'.grades = <<>>
    BY <2>2, <2>3 DEF StagesInv, GradesGiven, AtStage
  <2> QED BY <2>2, <2>4, <2>5, <2>6 DEF StagesInv, Stages, RowsRetrieved, GradesGiven, AtStage
<1> QED BY <1>1, <1>2

LEMMA VerifyStep == StagesInv /\ StageVerify => StagesInv'
<1> SUFFICES ASSUME StagesInv, StageVerify PROVE StagesInv'
  OBVIOUS
<1>1. wizard.stage = "verify" /\ wizard.grades = <<>>
  BY DEF StageVerify, StagesInv, GradesGiven, AtStage
<1>2. PICK judged, grades :
        /\ wizard' = [wizard EXCEPT !.stage = "done", !.judged = judged, !.grades = grades]
        /\ \/ grades = <<>>
           \/ grades = Grades(wizard.estimate, TextsOf(wizard.kept), judged)
  <2>1. CASE Answers([wizard EXCEPT !.stage = "done"])
    <3>1. wizard' = [wizard EXCEPT !.stage = "done", !.judged = wizard.judged,
                       !.grades = wizard.grades]
      BY <2>1 DEF Answers, StagesInv, Wizard
    <3> QED BY <1>1, <3>1
  <2>2. CASE \E lines \in SUBSET DOMAIN wizard.estimate.lines :
               \E judged \in [lines -> {"grounded", "degraded", "insufficient"}] :
                 Answers([wizard EXCEPT !.stage = "done", !.judged = judged,
                           !.grades = Grades(wizard.estimate, TextsOf(wizard.kept), judged)])
    BY <2>2 DEF Answers
  <2> QED BY <2>1, <2>2 DEF StageVerify
<1>3. /\ wizard'.stage = "done" /\ wizard'.judged = judged /\ wizard'.grades = grades
      /\ wizard'.estimate = wizard.estimate
      /\ wizard'.ids = wizard.ids /\ wizard'.budget = wizard.budget
      /\ wizard'.context = wizard.context /\ wizard'.kept = wizard.kept /\ Wizard'
  BY <1>2 DEF StagesInv, Wizard
<1>4. ContextAssembled'
  BY <1>1, <1>3 DEF StagesInv, ContextAssembled
<1>5. EstimateValidated'
  BY <1>1, <1>3 DEF StagesInv, EstimateValidated
<1>6. GradesGiven'
  BY <1>2, <1>3 DEF GradesGiven, AtStage
<1> QED BY <1>3, <1>4, <1>5, <1>6 DEF StagesInv, Stages, RowsRetrieved, AtStage

LEMMA StagesStep == StagesInv /\ [StagesNext]_stageVars => StagesInv'
<1> SUFFICES ASSUME StagesInv, [StagesNext]_stageVars PROVE StagesInv'
  OBVIOUS
<1>1. CASE UNCHANGED stageVars
  BY <1>1 DEF stageVars, StagesInv, Wizard, RowsRetrieved, ByMode, ByConfig, ContextAssembled,
              EstimateValidated, GradesGiven, AtStage
<1>2. CASE StagesNext
  BY <1>2, ReformulateStep, StructureStep, RetrieveStep, RetrieveAdvancedStep,
     RetrieveFailsStep, AssembleStep, GenerateStep, VerifyStep DEF StagesNext
<1> QED BY <1>1, <1>2

(* What the wizard carries is always what the stages before it made.       *)
THEOREM WizardInvariant == StagesSpec => []StagesInv
<1>1. StagesInit => StagesInv
  BY StagesInitially
<1>2. StagesInv /\ [StagesNext]_stageVars => StagesInv'
  BY StagesStep
<1> QED BY <1>1, <1>2, PTL DEF StagesSpec

----------------------------------------------------------------------------
(* The context is a sequence of the blocks it was made from.               *)

Text == [of : ChunkIds, short : BOOLEAN]
Block == [id : ChunkIds, text : Text]

LEMMA EdgeLoadedType ==
    ASSUME NEW T, NEW ids \in Seq(T)
    PROVE  EdgeLoaded(ids) \in Seq(T)
<1> DEFINE half(start) == [i \in 1 .. (Len(ids) + 2 - start) \div 2 |-> ids[start + 2 * (i - 1)]]
<1>1. Len(ids) \in Nat /\ \A i \in 1 .. Len(ids) : ids[i] \in T
  OBVIOUS
<1>2. ASSUME NEW start \in {1, 2} PROVE half(start) \in Seq(T)
  <2> DEFINE m == (Len(ids) + 2 - start) \div 2
  <2>1. m \in Nat /\ 2 * m <= Len(ids) + 2 - start
    BY <1>1
  <2> HIDE DEF m
  <2>2. \A i \in 1 .. m : start + 2 * (i - 1) \in 1 .. Len(ids)
    BY <1>1, <2>1
  <2>3. half(start) = [i \in 1 .. m |-> ids[start + 2 * (i - 1)]]
    BY DEF m
  <2> HIDE DEF half
  <2> QED BY <1>1, <2>1, <2>2, <2>3
<1>3. EdgeLoaded(ids) = half(1) \o Reverse(half(2))
  BY DEF EdgeLoaded
<1> HIDE DEF half
<1>4. Reverse(half(2)) \in Seq(T)
  <2>1. half(2) \in Seq(T)
    BY <1>2
  <2>2. PICK t : t = half(2)
    OBVIOUS
  <2>3. Len(t) \in Nat /\ \A i \in 1 .. Len(t) : t[(Len(t) - i) + 1] \in T
    BY <2>1, <2>2
  <2>4. Reverse(t) \in Seq(T)
    BY <2>3 DEF Reverse
  <2> QED BY <2>2, <2>4
<1> QED BY <1>2, <1>3, <1>4

(* Both paths put the same blocks in the same order before the cut: the    *)
(* stage looks each id up among its compressed chunks, the service in its  *)
(* compressed contents.                                                    *)
LEMMA SameBlocks ==
    ASSUME NEW ids \in Seq(ChunkIds)
    PROVE  LET views == AugmentedChunks(StageChunks(ids))
           IN  /\ views = Assembled(AugmentedRows(ids), AugmentedContents)
               /\ views \in Seq(Block)
               /\ \A i \in DOMAIN views : views[i].text = AugmentedContents[views[i].id]
<1> DEFINE n == Len(ids)
           sent == StageChunks(ids)
           short == Compressed(sent)
<1>1. n \in Nat /\ DOMAIN ids = 1 .. n /\ \A i \in 1 .. n : ids[i] \in ChunkIds
  OBVIOUS
<1>2. \A c \in ChunkIds : Contents[c] \in Text /\ KeyPoints(Contents[c]) \in Text
  BY DEF Contents, Whole, KeyPoints, Text
<1>3. sent = [i \in 1 .. n |-> [id |-> ids[i], text |-> Contents[ids[i]]]]
  BY <1>1 DEF StageChunks
<1>4. CASE ~ Augmentation
  <2>1. AugmentedChunks(sent) = sent /\ AugmentedRows(ids) = ids
        /\ AugmentedContents = Contents
    BY <1>4 DEF AugmentedChunks, AugmentedRows, AugmentedContents
  <2>2. sent = Assembled(ids, Contents)
    BY DEF StageChunks, Assembled
  <2>3. \A i \in 1 .. n : sent[i] \in Block /\ sent[i].text = Contents[sent[i].id]
    BY <1>1, <1>2, <1>3 DEF Block
  <2>4. sent \in Seq(Block) /\ DOMAIN sent = 1 .. n
    BY <1>1, <1>3, <2>3
  <2> HIDE DEF sent
  <2> QED BY <2>1, <2>2, <2>3, <2>4 DEF sent
<1>5. CASE Augmentation
  <2> DEFINE texts == AugmentedContents
             given == [i \in DOMAIN short |-> short[i].id]
             order == EdgeLoaded(ids)
             rows == [i \in DOMAIN order |-> [id |-> order[i], text |-> texts[order[i]]]]
  <2>1. \A c \in ChunkIds : texts[c] = KeyPoints(Contents[c]) /\ texts[c] \in Text
    BY <1>2, <1>5 DEF AugmentedContents
  <2>2. short = [i \in 1 .. n |-> [id |-> ids[i], text |-> texts[ids[i]]]]
    <3>1. DOMAIN sent = 1 .. n /\ \A i \in 1 .. n :
             sent[i] = [id |-> ids[i], text |-> Contents[ids[i]]]
      BY <1>3
    <3>2. short = [i \in 1 .. n |-> [sent[i] EXCEPT !.text = KeyPoints(sent[i].text)]]
      BY <3>1 DEF Compressed
    <3> HIDE DEF sent, texts, short
    <3>3. \A i \in 1 .. n : [sent[i] EXCEPT !.text = KeyPoints(sent[i].text)]
                               = [id |-> ids[i], text |-> texts[ids[i]]]
      BY <1>1, <2>1, <3>1
    <3> QED BY <3>2, <3>3
  <2> HIDE DEF texts, short
  <2>3. given = ids
    BY <1>1, <2>2
  <2> DEFINE used == {ids[i] : i \in 1 .. n}
  <2>4. order \in Seq(used)
    <3>1. ids \in Seq(used)
      BY <1>1
    <3> HIDE DEF used
    <3> QED BY <3>1, EdgeLoadedType
  <2>5. Len(order) \in Nat /\ DOMAIN order = 1 .. Len(order)
        /\ \A i \in DOMAIN order : order[i] \in used /\ order[i] \in ChunkIds
    <3>1. used \subseteq ChunkIds
      BY <1>1
    <3> HIDE DEF order, used
    <3> QED BY <2>4, <3>1
  <2>6. ASSUME NEW c \in used
        PROVE  EntryOf(short, c) = [id |-> c, text |-> texts[c]]
    <3>1. \E i \in DOMAIN short : short[i].id = c
      BY <2>2
    <3>2. PICK k \in DOMAIN short : k = (CHOOSE i \in DOMAIN short : short[i].id = c)
                                    /\ short[k].id = c
      BY <3>1
    <3>3. EntryOf(short, c) = short[k]
      BY <3>2 DEF EntryOf
    <3> QED BY <2>2, <3>2, <3>3
  <2>7. AugmentedChunks(sent) = [i \in DOMAIN order |-> EntryOf(short, order[i])]
    <3>1. AugmentedChunks(sent) = Reordered(short)
      BY <1>5 DEF AugmentedChunks, short
    <3>2. Reordered(short) = LET o == EdgeLoaded(given)
                             IN  [i \in DOMAIN o |-> EntryOf(short, o[i])]
      BY DEF Reordered
    <3> HIDE DEF given
    <3> QED BY <2>3, <3>1, <3>2
  <2> HIDE DEF order, used
  <2>8. AugmentedChunks(sent) = rows
    BY <2>5, <2>6, <2>7
  <2>9. rows = Assembled(AugmentedRows(ids), AugmentedContents)
    BY <1>5 DEF Assembled, AugmentedRows, texts, order
  <2>10. /\ rows \in Seq(Block)
         /\ \A i \in DOMAIN rows : rows[i].text = texts[rows[i].id]
    <3>1. \A i \in DOMAIN order : rows[i] \in Block /\ rows[i].text = texts[rows[i].id]
      BY <2>1, <2>5 DEF Block
    <3>2. rows \in Seq(Block) /\ DOMAIN rows = DOMAIN order
      BY <2>5, <3>1
    <3> QED BY <3>1, <3>2
  <2> HIDE DEF rows, sent
  <2> QED BY <2>8, <2>9, <2>10 DEF sent, texts
<1> QED BY <1>4, <1>5

LEMMA LengthOfNothing ==
    ASSUME NEW T, NEW blocks \in Seq(T)
    PROVE  Length(Take(blocks, 0)) = 0
<1>1. DOMAIN Take(blocks, 0) = {}
  BY TakeProperties
<1> DEFINE none == Take(blocks, 0)
           Adds(iter) == iter = [s \in SUBSET {} |->
                            IF s = {} THEN 0
                            ELSE LET x == CHOOSE x \in s : TRUE
                                 IN  Tokens(none[x].text) + iter[s \ {x}]]
<1>2. Length(none) = (CHOOSE iter : Adds(iter))[{}]
  BY <1>1 DEF Length, MapThenSumSet, MapThenFoldSet
<1>3. Adds([s \in SUBSET {} |-> 0])
  OBVIOUS
<1>4. PICK f : f = CHOOSE iter : Adds(iter)
  OBVIOUS
<1>5. Adds(f)
  <2> HIDE DEF Adds
  <2> QED BY <1>3, <1>4
<1>6. f[{}] = 0
  BY <1>5
<1> QED BY <1>2, <1>4, <1>6

LEMMA TruncatedType ==
    ASSUME NEW T, NEW blocks \in Seq(T), NEW budget \in Nat
    PROVE  /\ Truncated(blocks, budget) \in Seq(T)
           /\ \A i \in DOMAIN Truncated(blocks, budget) :
                 i \in DOMAIN blocks /\ Truncated(blocks, budget)[i] = blocks[i]
<1> DEFINE fits == {n \in 0 .. Len(blocks) : Length(Take(blocks, n)) <= budget}
<1>1. Len(blocks) \in Nat
  OBVIOUS
<1>2. 0 \in fits
  BY <1>1, LengthOfNothing
<1>3. fits \in SUBSET Int /\ IsFiniteSet(fits)
  <2>1. IsFiniteSet(0 .. Len(blocks)) /\ fits \in SUBSET (0 .. Len(blocks))
    BY <1>1, FS_Interval
  <2>2. fits \in SUBSET Int
    BY <1>1
  <2> HIDE DEF fits
  <2>3. IsFiniteSet(fits)
    BY <2>1, FS_Subset
  <2> QED BY <2>2, <2>3
<1>4. Max(fits) \in fits
  <2> HIDE DEF fits
  <2> QED BY <1>2, <1>3, Extremes
<1>5. Max(fits) \in Nat
  <2>1. fits \in SUBSET Nat
    BY <1>1
  <2> HIDE DEF fits
  <2> QED BY <1>4, <2>1
<1>6. Truncated(blocks, budget) = Take(blocks, Max(fits))
  BY DEF Truncated
<1> HIDE DEF fits
<1> QED BY <1>5, <1>6, TakeProperties

(* Looking the ids up again, in their order, loses and repeats no block.   *)
LEMMA KeptAgain ==
    ASSUME NEW views \in Seq(Block),
           \A i \in DOMAIN views : views[i].text = AugmentedContents[views[i].id],
           NEW context \in Seq(Block),
           \A i \in DOMAIN context : i \in DOMAIN views /\ context[i] = views[i]
    PROVE  LET kept == KeptChunks(context, views)
           IN  /\ Ids(kept) = Ids(context)
               /\ TextsOf(kept) = TextsOf(context)
               /\ TextsOf(context) \in SUBSET Text /\ IsFiniteSet(TextsOf(context))
<1> DEFINE texts == AugmentedContents
           S == Ids(context)
           n == Cardinality(S)
           order == Ascending(S)
           kept == KeptChunks(context, views)
<1>1. DOMAIN context = 1 .. Len(context) /\ Len(context) \in Nat
      /\ \A i \in DOMAIN context : context[i] \in Block
  OBVIOUS
<1>2. S \in SUBSET Int
  <2>1. ChunkIds \subseteq Int
    BY RetrievalAssumption
  <2> QED BY <1>1, <2>1 DEF Ids, Block
<1>3. IsFiniteSet(DOMAIN context)
  BY <1>1, FS_Interval
<1>4. IsFiniteSet(S) /\ IsFiniteSet(TextsOf(context))
  <2> DEFINE ids == [i \in DOMAIN context |-> context[i].id]
             of == [i \in DOMAIN context |-> context[i].text]
  <2>1. S = {ids[i] : i \in DOMAIN context} /\ TextsOf(context) = {of[i] : i \in DOMAIN context}
    BY DEF Ids, TextsOf
  <2> HIDE DEF ids, of, S
  <2>2. IsFiniteSet({ids[i] : i \in DOMAIN context})
    BY <1>3, ImageFinite
  <2>3. IsFiniteSet({of[i] : i \in DOMAIN context})
    BY <1>3, ImageFinite
  <2> QED BY <2>1, <2>2, <2>3
<1>5. /\ n \in Nat
      /\ order \in [1 .. n -> S]
      /\ \A x \in S : \E i \in 1 .. n : order[i] = x
  <2> HIDE DEF S
  <2> QED BY <1>2, <1>4, AscendingSorts
<1>6. kept = [i \in 1 .. n |-> EntryOf(views, order[i])]
  BY <1>5 DEF KeptChunks
<1> HIDE DEF n, order, kept, texts
<1>7. \A i \in DOMAIN views : views[i].text = texts[views[i].id]
  BY DEF texts
<1>8. ASSUME NEW c \in S
      PROVE  EntryOf(views, c).id = c /\ EntryOf(views, c).text = texts[c]
  <2>1. \E i \in DOMAIN views : views[i].id = c
    BY DEF Ids
  <2>2. PICK k \in DOMAIN views : k = (CHOOSE i \in DOMAIN views : views[i].id = c)
                                   /\ views[k].id = c
    BY <2>1
  <2>3. EntryOf(views, c) = views[k]
    BY <2>2 DEF EntryOf
  <2> QED BY <1>7, <2>2, <2>3
<1>9. DOMAIN kept = 1 .. n
      /\ \A i \in 1 .. n : kept[i].id = order[i] /\ kept[i].text = texts[order[i]]
  BY <1>5, <1>6, <1>8
<1>10. \A i \in DOMAIN context : context[i].text = texts[context[i].id]
  BY <1>7
<1>11. Ids(kept) = S
  <2> HIDE DEF S
  <2> QED BY <1>5, <1>9 DEF Ids
<1>12. TextsOf(kept) = {texts[c] : c \in S}
  <2> HIDE DEF S
  <2>1. TextsOf(kept) = {texts[order[i]] : i \in 1 .. n}
    BY <1>9 DEF TextsOf
  <2>2. {texts[order[i]] : i \in 1 .. n} = {texts[c] : c \in S}
    BY <1>5
  <2> QED BY <2>1, <2>2
<1>13. TextsOf(context) = {texts[c] : c \in S}
  BY <1>10 DEF TextsOf, Ids
<1>14. TextsOf(context) \in SUBSET Text
  BY <1>1 DEF TextsOf, Block
<1> HIDE DEF S
<1> QED BY <1>4, <1>11, <1>12, <1>13, <1>14 DEF S, kept

LEMMA KeptShowsContext ==
    ASSUME StagesInv, wizard.stage \in {"generate", "verify", "done"}
    PROVE  /\ wizard.context = OneShotContext(wizard.ids, wizard.budget)
           /\ Ids(wizard.kept) = Ids(wizard.context)
           /\ TextsOf(wizard.kept) = TextsOf(wizard.context)
           /\ TextsOf(wizard.context) \in SUBSET Text
           /\ IsFiniteSet(TextsOf(wizard.context))
<1> DEFINE views == AugmentedChunks(StageChunks(wizard.ids))
<1>1. /\ wizard.ids \in Seq(ChunkIds) /\ wizard.budget \in Nat
      /\ wizard.context = Truncated(views, wizard.budget)
      /\ wizard.kept = KeptChunks(wizard.context, views)
  BY StagesAssumption DEF StagesInv, ContextAssembled
<1>2. /\ views = Assembled(AugmentedRows(wizard.ids), AugmentedContents)
      /\ views \in Seq(Block)
      /\ \A i \in DOMAIN views : views[i].text = AugmentedContents[views[i].id]
  BY <1>1, SameBlocks
<1>3. wizard.context = OneShotContext(wizard.ids, wizard.budget)
  BY <1>1, <1>2 DEF OneShotContext
<1> HIDE DEF views
<1>4. /\ wizard.context \in Seq(Block)
      /\ \A i \in DOMAIN wizard.context :
            i \in DOMAIN views /\ wizard.context[i] = views[i]
  <2>1. PICK T : T = Block
    OBVIOUS
  <2>2. views \in Seq(T)
    BY <1>2, <2>1
  <2>3. \A budget \in Nat :
            /\ Truncated(views, budget) \in Seq(T)
            /\ \A i \in DOMAIN Truncated(views, budget) :
                  i \in DOMAIN views /\ Truncated(views, budget)[i] = views[i]
    BY <2>2, TruncatedType, Zenon
  <2>4. wizard.budget \in Nat /\ wizard.context = Truncated(views, wizard.budget)
    BY <1>1
  <2> QED BY <2>1, <2>3, <2>4
<1>5. /\ Ids(wizard.kept) = Ids(wizard.context)
      /\ TextsOf(wizard.kept) = TextsOf(wizard.context)
      /\ TextsOf(wizard.context) \in SUBSET Text
      /\ IsFiniteSet(TextsOf(wizard.context))
  <2>1. PICK context : context = wizard.context
    OBVIOUS
  <2>2. /\ context \in Seq(Block)
        /\ \A i \in DOMAIN context : i \in DOMAIN views /\ context[i] = views[i]
    BY <1>4, <2>1
  <2>3. wizard.kept = KeptChunks(context, views)
    BY <1>1, <2>1
  <2>4. /\ Ids(KeptChunks(context, views)) = Ids(context)
        /\ TextsOf(KeptChunks(context, views)) = TextsOf(context)
        /\ TextsOf(context) \in SUBSET Text /\ IsFiniteSet(TextsOf(context))
    BY <1>2, <2>2, KeptAgain
  <2> QED BY <2>1, <2>3, <2>4
<1> QED BY <1>3, <1>5

(* The wizard and the one-shot endpoint show the model the same context,   *)
(* and grade its estimate by the same texts, for any rows and budget: the  *)
(* stages augment views that carry their texts, the service rows and      *)
(* contents apart, and reordering kept_chunks by their ids loses and       *)
(* repeats none.                                                           *)
THEOREM StagedAgreesWithOneShotHolds == StagesSpec => []StagedAgreesWithOneShot
<1>1. StagesInv => StagedAgreesWithOneShot
  <2> SUFFICES ASSUME StagesInv, wizard.stage \in {"generate", "verify", "done"}
               PROVE  LET context == OneShotContext(wizard.ids, wizard.budget)
                      IN  /\ wizard.context = context
                          /\ Ids(wizard.kept) = Ids(context)
                          /\ wizard.grades # <<>> =>
                                 wizard.grades = Grades(wizard.estimate, TextsOf(context),
                                                        wizard.judged)
    BY DEF StagedAgreesWithOneShot
  <2>1. /\ wizard.context = OneShotContext(wizard.ids, wizard.budget)
        /\ Ids(wizard.kept) = Ids(wizard.context)
        /\ TextsOf(wizard.kept) = TextsOf(wizard.context)
    BY KeptShowsContext
  <2>2. wizard.grades # <<>> =>
            wizard.grades = Grades(wizard.estimate, TextsOf(wizard.kept), wizard.judged)
    BY DEF StagesInv, GradesGiven
  <2> QED BY <2>1, <2>2
<1> QED BY <1>1, WizardInvariant, PTL

(* What the validators let through is not reported on, for any draft.      *)
LEMMA ValidatedLines ==
    ASSUME NEW draft \in Drafts, Accepted(draft)
    PROVE  /\ Validated(draft).lines = draft.lines
           /\ draft.lines # <<>> => Validated(draft).total = TotalOf(draft.lines)
           /\ DOMAIN draft.lines = 1 .. Len(draft.lines) /\ Len(draft.lines) \in Nat
           /\ \A i \in DOMAIN draft.lines : draft.lines[i] \in Line
<1>1. draft \in Draft
  BY StagesAssumption
<1>2. draft.lines \in Seq(Line)
  BY <1>1 DEF Draft
<1>3. /\ Validated(draft).lines = draft.lines
      /\ draft.lines # <<>> => Validated(draft).total = TotalOf(draft.lines)
  BY <1>1 DEF Validated, Draft
<1> HIDE DEF Line
<1> QED BY <1>2, <1>3

(* No line of an estimate the wizard holds is an integrity violation, and  *)
(* its total is that of its lines.                                         *)
THEOREM ReportsAgreeWithSchemaHolds == StagesSpec => []ReportsAgreeWithSchema
<1>1. StagesInv => ReportsAgreeWithSchema
  <2> SUFFICES ASSUME StagesInv, wizard.stage \in {"verify", "done"}
               PROVE  /\ \A i \in DOMAIN wizard.estimate.lines :
                            Citations(wizard.estimate, Ids(wizard.kept))[i]
                                # "integrity_violation"
                      /\ "total_hours_mismatch" \notin Coherence(wizard.estimate)
    BY DEF ReportsAgreeWithSchema
  <2>1. PICK draft \in Drafts : Accepted(draft) /\ wizard.estimate = Validated(draft)
    BY DEF StagesInv, EstimateValidated
  <2>2. /\ wizard.estimate.lines = draft.lines
        /\ draft.lines # <<>> => wizard.estimate.total = TotalOf(draft.lines)
        /\ \A i \in DOMAIN draft.lines : draft.lines[i] \in Line
    BY <2>1, ValidatedLines
  <2>3. ASSUME NEW i \in DOMAIN draft.lines
        PROVE  CitationStatus(draft.lines[i], Ids(wizard.kept)) # "integrity_violation"
    <3>1. IF draft.lines[i].grounded THEN draft.lines[i].cites # {}
          ELSE draft.lines[i].cites = {} /\ draft.lines[i].hours = 0
      BY <2>1 DEF Accepted
    <3> QED BY <3>1 DEF CitationStatus
  <2>4. \A i \in DOMAIN wizard.estimate.lines :
           Citations(wizard.estimate, Ids(wizard.kept))[i] # "integrity_violation"
    BY <2>2, <2>3 DEF Citations
  <2>5. "total_hours_mismatch" \notin Coherence(wizard.estimate)
    BY <2>2 DEF Coherence
  <2> QED BY <2>4, <2>5
<1> QED BY <1>1, WizardInvariant, PTL

LEMMA AnchorsFinite ==
    ASSUME NEW texts \in SUBSET Text, IsFiniteSet(texts)
    PROVE  LET anchors == UNION {HoursIn(text) : text \in texts}
           IN  anchors \in SUBSET Nat /\ IsFiniteSet(anchors)
<1> DEFINE named == [text \in texts |-> HoursIn(text)]
           sets == {named[text] : text \in texts}
<1>1. IsFiniteSet(sets)
  <2> HIDE DEF named
  <2> QED BY ImageFinite
<1>2. sets = {HoursIn(text) : text \in texts}
  OBVIOUS
<1>3. \A h \in sets : IsFiniteSet(h) /\ h \in SUBSET Nat
  BY <1>2, StagesAssumption DEF HoursIn, Text
<1> HIDE DEF sets, named
<1>4. IsFiniteSet(UNION sets)
  BY <1>1, <1>3, FS_UNION
<1>5. UNION sets \in SUBSET Nat
  BY <1>3
<1> QED BY <1>2, <1>4, <1>5

LEMMA GroundedNeedsAnchor ==
    ASSUME NEW estimate, NEW texts \in SUBSET Text, IsFiniteSet(texts), NEW judged,
           NEW i \in DOMAIN Grades(estimate, texts, judged),
           Grades(estimate, texts, judged)[i] = "grounded"
    PROVE  \E text \in texts : \E h \in HoursIn(text) : 4 * estimate.lines[i].hours <= 5 * h
<1> DEFINE anchors == UNION {HoursIn(text) : text \in texts}
           hours == estimate.lines[i].hours
<1>1. Worse(NumericGrade(hours, anchors), JudgeGrade(judged, i)) = "grounded"
  BY DEF Grades
<1>2. anchors \in SUBSET Nat /\ IsFiniteSet(anchors)
  BY AnchorsFinite
<1> HIDE DEF anchors, hours
<1>3. NumericGrade(hours, anchors) \notin {"degraded", "insufficient"}
  BY <1>1 DEF Worse
<1>4. anchors # {} /\ 4 * hours <= 5 * Max(anchors)
  BY <1>3 DEF NumericGrade
<1>5. Max(anchors) \in anchors
  <2>1. anchors \in SUBSET Int
    BY <1>2
  <2> QED BY <1>2, <1>4, <2>1, Extremes
<1> QED BY <1>4, <1>5 DEF anchors, hours

(* A line is grounded only by an anchor of a chunk in the prompt: neither  *)
(* the judge nor a chunk that was cut can make it so (gate_line,           *)
(* _merge_grades).                                                         *)
THEOREM GroundedByShownAnchorHolds == StagesSpec => []GroundedByShownAnchor
<1>1. StagesInv => GroundedByShownAnchor
  <2> SUFFICES ASSUME StagesInv, AtStage("done"), NEW i \in DOMAIN wizard.grades,
                      wizard.grades[i] = "grounded"
               PROVE  \E text \in TextsOf(wizard.context) : \E h \in HoursIn(text) :
                          4 * wizard.estimate.lines[i].hours <= 5 * h
    BY DEF GroundedByShownAnchor
  <2>1. wizard.grades = Grades(wizard.estimate, TextsOf(wizard.kept), wizard.judged)
    BY DEF StagesInv, GradesGiven
  <2>2. /\ TextsOf(wizard.kept) = TextsOf(wizard.context)
        /\ TextsOf(wizard.context) \in SUBSET Text
        /\ IsFiniteSet(TextsOf(wizard.context))
    BY KeptShowsContext DEF AtStage
  <2> QED BY <2>1, <2>2, GroundedNeedsAnchor
<1> QED BY <1>1, WizardInvariant, PTL

----------------------------------------------------------------------------
(* The ranking.                                                            *)

(* The rows of every retrieve call are shown best first, scores between 0  *)
(* and Unit, and a reranker leaves out only chunks it likes no better than *)
(* any it returns, for any windows, logits and failures of the branches    *)
(* (RetrievalService.retrieve and advanced_retrieve: fuse, cut to          *)
(* recall_k, rerank, cut to top_k_final).                                  *)
THEOREM BestFirstHolds == StagesSpec => []BestFirst
<1>1. StagesInv => BestFirst
  <2> SUFFICES ASSUME StagesInv, AtStage("assemble")
               PROVE  /\ \A i \in 2 .. Len(wizard.rows) :
                            wizard.rows[i].score <= wizard.rows[i - 1].score
                      /\ \A i \in DOMAIN wizard.rows : wizard.rows[i].score \in 0 .. Unit
                      /\ CalledByMode /\ EffectivePlan(ResolveMode(wizard.call.mode),
                                                wizard.call.reranker).rerank =>
                            \A c \in Candidates \ Shown(wizard.ids) : \A i \in DOMAIN wizard.ids :
                                wizard.call.logit[c] <= wizard.call.logit[wizard.ids[i]]
    BY DEF BestFirst
  <2>1. /\ wizard.rows \in Seq(Row) /\ BestScoreFirst(wizard.rows)
        /\ wizard.ids = Ids200(wizard.rows)
    BY RetrievedRows
  <2>2. Len(wizard.rows) \in Nat /\ DOMAIN wizard.rows = 1 .. Len(wizard.rows)
    BY <2>1
  <2>3. \A i \in 2 .. Len(wizard.rows) : wizard.rows[i].score <= wizard.rows[i - 1].score
    <3> TAKE i \in 2 .. Len(wizard.rows)
    <3>1. i \in DOMAIN wizard.rows /\ i - 1 \in DOMAIN wizard.rows /\ i - 1 < i
      BY <2>2
    <3> QED BY <2>1, <3>1 DEF BestScoreFirst
  <2>4. \A i \in DOMAIN wizard.rows : wizard.rows[i].score \in 0 .. Unit
    <3>1. \A i \in DOMAIN wizard.rows : wizard.rows[i] \in Row
      BY <2>1
    <3> QED BY <3>1 DEF Row
  <2>5. ASSUME CalledByMode,
               EffectivePlan(ResolveMode(wizard.call.mode), wizard.call.reranker).rerank,
               NEW c \in Candidates \ Shown(wizard.ids), NEW i \in DOMAIN wizard.ids
        PROVE  wizard.call.logit[c] <= wizard.call.logit[wizard.ids[i]]
    <3>1. ByMode(wizard.call, wizard.rows) /\ search \in Searches
      BY <2>5 DEF StagesInv, RowsRetrieved, ByConfig, CalledByMode, AtStage
    <3>2. RowsFit(wizard.rows, ResolveMode(wizard.call.mode), search.vector, search.lexical,
                  wizard.call.recall, wizard.call.top, wizard.call.reranker,
                  wizard.call.logit)
      BY <3>1, ModeRows
    <3>3. DOMAIN wizard.ids = DOMAIN wizard.rows /\ Shown(wizard.ids) = Ids(wizard.rows)
          /\ wizard.ids[i] = wizard.rows[i].id
      BY <2>1 DEF Ids200, Shown, Ids
    <3>4. c \in Ids(Recalled(ResolveMode(wizard.call.mode), search.vector, search.lexical,
                             wizard.call.recall)) \ Ids(wizard.rows)
      BY <3>3 DEF Candidates
    <3> QED BY <2>5, <3>2, <3>3, <3>4 DEF RowsFit
  <2> QED BY <2>3, <2>4, <2>5
<1> QED BY <1>1, WizardInvariant, PTL

(* A share falls from rank to rank, and what is not found has none.        *)
ShareAt(r, limit) == IF r = limit + 1 THEN 0 ELSE Unit \div (RrfK + r)

LEMMA ShareFalls ==
    ASSUME NEW w \in Windows, NEW r \in 1 .. w[1] + 1, NEW t \in 1 .. w[1] + 1
    PROVE  /\ ShareAt(r, w[1]) \in Nat
           /\ r < t => ShareAt(r, w[1]) > ShareAt(t, w[1])
<1>1. w[1] \in Nat /\ Unit \in Nat /\ RrfK \in Nat \ {0}
  BY WindowType, RetrievalAssumption
<1>2. ASSUME NEW x \in 1 .. w[1] PROVE Unit \div (RrfK + x) \in Nat
  <2> DEFINE d == RrfK + x
  <2>1. d \in Nat \ {0}
    BY <1>1
  <2> HIDE DEF d
  <2>2. Unit \div d \in Nat
    BY <1>1, <2>1
  <2> QED BY <2>2 DEF d
<1>3. ShareAt(r, w[1]) \in Nat
  BY <1>1, <1>2 DEF ShareAt
<1>4. ASSUME r < t PROVE ShareAt(r, w[1]) > ShareAt(t, w[1])
  <2>1. r \in 1 .. w[1] /\ ShareAt(r, w[1]) = Unit \div (RrfK + r)
    BY <1>1, <1>4 DEF ShareAt
  <2>2. Unit \div (RrfK + r) > IF r = w[1] THEN 0 ELSE Unit \div (RrfK + r + 1)
    BY <2>1, ResolutionAssumption
  <2>3. CASE t = w[1] + 1
    <3>1. ShareAt(t, w[1]) = 0
      BY <2>3 DEF ShareAt
    <3>2. r = w[1] \/ (r + 1 \in 1 .. w[1] /\ RrfK + (r + 1) = RrfK + r + 1)
      BY <1>1, <2>1
    <3>3. r # w[1] => Unit \div (RrfK + r + 1) \in Nat
      BY <1>2, <3>2
    <3> QED BY <1>2, <2>1, <2>2, <3>1, <3>3
  <2>4. CASE t # w[1] + 1
    <3> DEFINE d == RrfK + r + 1
               e == RrfK + t
    <3>1. /\ t \in 1 .. w[1] /\ r # w[1]
          /\ d \in Nat \ {0} /\ e \in Nat \ {0} /\ d <= e
      BY <1>1, <1>4, <2>1, <2>4
    <3>2. ShareAt(t, w[1]) = Unit \div e
      BY <2>4 DEF ShareAt
    <3>3. Unit \div (RrfK + r) > Unit \div d
      BY <2>2, <3>1
    <3> HIDE DEF d, e
    <3>4. Unit \div e <= Unit \div d /\ Unit \div e \in Nat /\ Unit \div d \in Nat
      <4>1. Unit \div e \in Nat /\ Unit \div d \in Nat
        BY <1>1, <3>1
      <4>2. PICK p \in Nat : p = Unit \div d
        BY <4>1
      <4>3. PICK q \in Nat : q = Unit \div e
        BY <4>1
      <4>4. e * q <= Unit /\ Unit < d * p + d
        BY <1>1, <3>1, <4>2, <4>3
      <4>5. d * q <= e * q
        BY <3>1, <4>3
      <4>6. d * q < d * p + d
        BY <1>1, <3>1, <4>2, <4>3, <4>4, <4>5
      <4>7. q <= p
        <5>1. CASE q >= p + 1
          <6>1. d * q >= d * (p + 1) /\ d * (p + 1) = d * p + d
            BY <3>1, <4>2, <4>3, <5>1
          <6> QED BY <3>1, <4>2, <4>3, <4>6, <6>1
        <5> QED BY <4>2, <4>3, <5>1
      <4> QED BY <4>1, <4>2, <4>3, <4>7
    <3> QED BY <2>1, <3>2, <3>3, <3>4, <1>2
  <2> QED BY <2>3, <2>4
<1> QED BY <1>3, <1>4

(* A list made of a branch's first n rows, entry by entry.                 *)
Lists(list, outcome, n) ==
    /\ RankedList(list)
    /\ Ids(list) = Ids(Take(outcome.rows, n))
    /\ DOMAIN list = DOMAIN Take(outcome.rows, n)
    /\ DOMAIN list \subseteq 1 .. n
    /\ \A i \in DOMAIN list : list[i].id = Take(outcome.rows, n)[i].id

LEMMA BranchLists ==
    ASSUME NEW vector, NEW lexical, BranchesOK(vector, lexical), NEW n \in Nat
    PROVE  Lists(VectorList(vector, n), vector, n) /\ Lists(LexicalList(lexical, n), lexical, n)
<1>1. vector.rows \in Statement /\ lexical.rows \in Statement
  BY DEF BranchesOK, BranchOutcome, Statement
<1>2. /\ Take(vector.rows, n) \in Statement /\ EachOnce(Take(vector.rows, n))
      /\ Nearest(Take(vector.rows, n))
  BY <1>1, TakeStatement DEF BranchesOK
<1>3. /\ Take(lexical.rows, n) \in Statement /\ EachOnce(Take(lexical.rows, n))
      /\ Highest(Take(lexical.rows, n))
  BY <1>1, TakeStatement DEF BranchesOK
<1>4. ASSUME NEW rows \in Statement PROVE DOMAIN Take(rows, n) \subseteq 1 .. n
  <2> DEFINE T == [id : ChunkIds, value : Int]
  <2>1. rows \in Seq(T)
    BY DEF Statement
  <2> HIDE DEF T
  <2>2. /\ DOMAIN Take(rows, n) = 1 .. Len(Take(rows, n))
        /\ Len(Take(rows, n)) = IF n < Len(rows) THEN n ELSE Len(rows)
        /\ Len(rows) \in Nat
    BY <2>1, TakeProperties
  <2> QED BY <2>2
<1>5. Lists(VectorList(vector, n), vector, n)
  <2>1. /\ RankedList(VectorList(vector, n))
        /\ DOMAIN VectorList(vector, n) = DOMAIN Take(vector.rows, n)
        /\ \A i \in DOMAIN VectorList(vector, n) :
              VectorList(vector, n)[i].id = Take(vector.rows, n)[i].id
    BY <1>2, VectorRanked DEF VectorList
  <2> QED BY <1>1, <1>4, <2>1 DEF Lists, Ids
<1>6. Lists(LexicalList(lexical, n), lexical, n)
  <2>1. /\ RankedList(LexicalList(lexical, n))
        /\ DOMAIN LexicalList(lexical, n) = DOMAIN Take(lexical.rows, n)
        /\ \A i \in DOMAIN LexicalList(lexical, n) :
              LexicalList(lexical, n)[i].id = Take(lexical.rows, n)[i].id
    BY <1>3, LexicalRanked DEF LexicalList
  <2> QED BY <1>1, <1>4, <2>1 DEF Lists, Ids
<1> QED BY <1>5, <1>6

LEMMA RankShare ==
    ASSUME NEW n \in Nat, NEW list, NEW outcome, Lists(list, outcome, n), NEW c
    PROVE  /\ RankIn(outcome, n, c) \in 1 .. n + 1
           /\ Share(list, c) = ShareAt(RankIn(outcome, n, c), n)
           /\ c \in Ids(list) <=> RankIn(outcome, n, c) # n + 1
<1> DEFINE rows == Take(outcome.rows, n)
<1>1. CASE c \in Ids(list)
  <2>1. PICK i \in DOMAIN list : i = RankIn(outcome, n, c) /\ list[i].id = c
    <3>1. \E i \in DOMAIN rows : rows[i].id = c
      BY <1>1 DEF Lists, Ids
    <3>2. PICK i : i = CHOOSE k \in DOMAIN rows : rows[k].id = c
      OBVIOUS
    <3>3. i \in DOMAIN rows /\ rows[i].id = c
      BY <3>1, <3>2
    <3>4. RankIn(outcome, n, c) = i
      BY <1>1, <3>2 DEF RankIn, Lists
    <3> HIDE DEF rows
    <3> QED BY <3>3, <3>4 DEF Lists, rows
  <2>2. PICK k \in DOMAIN list : list[k].id = c /\ EntryOf(list, c) = list[k]
    BY <1>1, EntryOfChunk
  <2>3. k = i
    BY <2>1, <2>2 DEF Lists, RankedList, EachOnce
  <2>4. Share(list, c) = Unit \div (RrfK + i)
    BY <1>1, <2>2, <2>3 DEF Share, Lists, RankedList
  <2>5. i \in 1 .. n
    BY DEF Lists
  <2>6. i # n + 1
    BY <2>5
  <2> QED BY <1>1, <2>1, <2>4, <2>5, <2>6 DEF ShareAt
<1>2. CASE c \notin Ids(list)
  <2>1. RankIn(outcome, n, c) = n + 1
    BY <1>2 DEF RankIn, Lists
  <2>2. Share(list, c) = 0
    BY <1>2 DEF Share
  <2>3. n + 1 \in 1 .. n + 1
    OBVIOUS
  <2> QED BY <1>2, <2>1, <2>2, <2>3 DEF ShareAt
<1> QED BY <1>1, <1>2

(* A chunk no branch ranks lower than another, and one ranks higher, is    *)
(* returned before that other, for any two lists and any windows           *)
(* (reciprocal_rank_fusion and the two cuts).                              *)
THEOREM ConsensusOutranksHolds == StagesSpec => []ConsensusOutranks
<1>1. StagesInv => ConsensusOutranks
  <2> DEFINE n == wizard.call.recall
             V(c) == RankIn(search.vector, n, c)
             L(c) == RankIn(search.lexical, n, c)
             ve == VectorList(search.vector, n)
             le == LexicalList(search.lexical, n)
             fused == ReciprocalRankFusion(Both(ve, le))
  <2> SUFFICES ASSUME StagesInv, AtStage("assemble"), CalledByMode, search.vector.ok, search.lexical.ok,
                      wizard.call.mode = "B", NEW j \in DOMAIN wizard.ids,
                      NEW a \in DOMAIN CollectionOf,
                      V(a) <= V(wizard.ids[j]), L(a) <= L(wizard.ids[j]),
                      <<V(a), L(a)>> # <<V(wizard.ids[j]), L(wizard.ids[j])>>
               PROVE  \E i \in 1 .. j - 1 : wizard.ids[i] = a
    BY DEF ConsensusOutranks
  <2>1. ByMode(wizard.call, wizard.rows) /\ search \in Searches
    BY DEF StagesInv, RowsRetrieved, ByConfig, CalledByMode, AtStage
  <2>2. /\ n \in Nat \ {0} /\ wizard.call.top \in Nat \ {0}
        /\ <<n, wizard.call.top>> \in Windows
        /\ RowsFit(wizard.rows, ResolveMode("B"), search.vector, search.lexical,
                   n, wizard.call.top, wizard.call.reranker, wizard.call.logit)
    BY <2>1, ModeRows
  <2>3. BranchesOK(search.vector, search.lexical)
    BY <2>1, SearchesOK
  <2>4. Lists(ve, search.vector, n) /\ Lists(le, search.lexical, n)
    BY <2>2, <2>3, BranchLists
  <2>5. BranchList(ve) /\ BranchList(le)
    BY <2>4, RankedBranch DEF Lists
  <2> HIDE DEF ve, le
  <2>6. /\ RankedList(fused)
        /\ Ids(fused) = Ids(ve) \cup Ids(le)
        /\ \A i \in DOMAIN fused :
              fused[i].score = Share(ve, fused[i].id) + Share(le, fused[i].id)
    BY <2>5, FusionRanked
  <2>7. Recalled(ResolveMode("B"), search.vector, search.lexical, n) = Take(fused, n)
    BY DEF Recalled, ResolveMode, Hybrid, Both, VectorList, LexicalList, ve, le
  <2>8. ~ EffectivePlan(ResolveMode("B"), wizard.call.reranker).rerank
    BY DEF EffectivePlan, ResolveMode
  <2> HIDE DEF fused, n
  <2>9. /\ DOMAIN wizard.rows = DOMAIN Take(Take(fused, n), wizard.call.top)
        /\ \A i \in DOMAIN wizard.rows : wizard.rows[i].id = Take(fused, n)[i].id
    BY <2>2, <2>7, <2>8 DEF RowsFit
  <2>10. /\ DOMAIN wizard.ids = DOMAIN wizard.rows
         /\ \A i \in DOMAIN wizard.ids : wizard.ids[i] = wizard.rows[i].id
    BY DEF StagesInv, RowsRetrieved, Ids200
  <2>11. /\ fused \in Seq(Entry) /\ Take(fused, n) \in Seq(Entry)
         /\ DOMAIN Take(Take(fused, n), wizard.call.top)
               = 1 .. Len(Take(Take(fused, n), wizard.call.top))
         /\ \A i \in DOMAIN Take(Take(fused, n), wizard.call.top) :
               i \in DOMAIN Take(fused, n)
         /\ \A i \in DOMAIN Take(fused, n) :
               i \in DOMAIN fused /\ Take(fused, n)[i] = fused[i]
    BY <2>2, <2>6, TakeProperties DEF RankedList
  <2> DEFINE m == Len(Take(Take(fused, n), wizard.call.top))
  <2>12. m \in Nat
    BY <2>2, <2>11, TakeProperties
  <2> HIDE DEF m
  <2>13. /\ DOMAIN wizard.ids = 1 .. m
         /\ \A i \in 1 .. m : i \in DOMAIN fused /\ wizard.ids[i] = fused[i].id
    BY <2>9, <2>10, <2>11 DEF m
  <2> DEFINE c == wizard.ids[j]
  <2>14. /\ j \in DOMAIN fused /\ fused[j].id = c
         /\ fused[j].score = Share(ve, c) + Share(le, c)
    BY <2>6, <2>13
  <2>15. /\ V(a) \in 1 .. n + 1 /\ V(c) \in 1 .. n + 1
         /\ L(a) \in 1 .. n + 1 /\ L(c) \in 1 .. n + 1
         /\ Share(ve, a) = ShareAt(V(a), n) /\ Share(ve, c) = ShareAt(V(c), n)
         /\ Share(le, a) = ShareAt(L(a), n) /\ Share(le, c) = ShareAt(L(c), n)
         /\ a \in Ids(ve) <=> V(a) # n + 1
         /\ a \in Ids(le) <=> L(a) # n + 1
    BY <2>2, <2>4, RankShare
  <2> HIDE DEF c, V, L
  <2>16. /\ V(a) <= V(c) /\ L(a) <= L(c) /\ (V(a) < V(c) \/ L(a) < L(c))
    BY <2>2, <2>15 DEF c
  <2>17. a \in Ids(fused)
    BY <2>2, <2>6, <2>15, <2>16
  <2>18. Share(ve, a) + Share(le, a) > Share(ve, c) + Share(le, c)
    <3>1. PICK w \in Windows : w[1] = n
      BY <2>2
    <3>2. /\ ShareAt(V(a), n) \in Nat /\ ShareAt(V(c), n) \in Nat
          /\ V(a) < V(c) => ShareAt(V(a), n) > ShareAt(V(c), n)
      BY <2>15, <3>1, ShareFalls
    <3>3. /\ ShareAt(L(a), n) \in Nat /\ ShareAt(L(c), n) \in Nat
          /\ L(a) < L(c) => ShareAt(L(a), n) > ShareAt(L(c), n)
      BY <2>15, <3>1, ShareFalls
    <3>4. (V(a) = V(c) \/ V(a) < V(c)) /\ (L(a) = L(c) \/ L(a) < L(c))
      BY <2>2, <2>15, <2>16
    <3> QED BY <2>15, <2>16, <3>2, <3>3, <3>4
  <2>19. PICK i \in DOMAIN fused : fused[i].id = a
    BY <2>17 DEF Ids
  <2>20. fused[i].score > fused[j].score
    BY <2>6, <2>14, <2>18, <2>19
  <2>21. i < j
    <3>1. /\ i \in Int /\ j \in Int
          /\ j < i => fused[i].score <= fused[j].score
      BY <2>6, <2>11, <2>14 DEF RankedList, BestScoreFirst
    <3>2. fused[i].score \in Nat /\ fused[j].score \in Nat
      <4>1. fused[i] \in Entry /\ fused[j] \in Entry
        BY <2>11, <2>14
      <4> QED BY <4>1 DEF Entry
    <3>3. i # j
      BY <2>20, <3>2
    <3>4. ~ (j < i)
      BY <2>20, <3>1, <3>2
    <3> QED BY <3>1, <3>3, <3>4
  <2>22. i \in 1 .. m /\ i \in 1 .. j - 1
    <3>1. i \in Nat /\ 1 <= i
      BY <2>11, <2>19
    <3>2. j \in 1 .. m
      BY <2>13, <2>14
    <3> QED BY <2>12, <2>21, <3>1, <3>2
  <2> QED BY <2>13, <2>19, <2>22
<1> QED BY <1>1, WizardInvariant, PTL

----------------------------------------------------------------------------
(* The debug screen.                                                       *)

LEMMA NothingListed ==
    ASSUME NEW n \in Nat
    PROVE  /\ Take(<<>>, n) = <<>>
           /\ VectorEntries(<<>>) = <<>> /\ LexicalEntries(<<>>) = <<>>
  BY DEF Take, VectorEntries, LexicalEntries

LEMMA FirstEntries ==
    ASSUME NEW list, RankedList(list), NEW n \in Nat, NEW m \in Nat
    PROVE  /\ DOMAIN Take(list, Min({n, m})) = DOMAIN Take(Take(list, n), m)
           /\ \A i \in DOMAIN Take(Take(list, n), m) : Take(list, n)[i] = list[i]
<1>1. list \in Seq(Entry) /\ Len(list) \in Nat
  BY DEF RankedList
<1>2. Min({n, m}) = IF n < m THEN n ELSE m
  <2>1. IsFiniteSet({n, m})
    <3>1. IsFiniteSet({n} \cup {m})
      BY FS_Singleton, FS_AddElement
    <3>2. {n} \cup {m} = {n, m}
      OBVIOUS
    <3> QED BY <3>1, <3>2
  <2>2. /\ Min({n, m}) \in {n, m}
        /\ \A y \in {n, m} : Min({n, m}) <= y
    <3>1. {n, m} \in SUBSET Int /\ {n, m} # {}
      OBVIOUS
    <3> QED BY <2>1, <3>1, Extremes
  <2> QED BY <2>2
<1>3. PICK k \in Nat : k = Min({n, m})
  BY <1>2
<1>4. /\ Take(list, n) \in Seq(Entry)
      /\ Len(Take(list, n)) = IF n < Len(list) THEN n ELSE Len(list)
      /\ \A i \in DOMAIN Take(list, n) : Take(list, n)[i] = list[i]
  BY <1>1, TakeProperties
<1>5. /\ DOMAIN Take(Take(list, n), m) = 1 .. Len(Take(Take(list, n), m))
      /\ Len(Take(Take(list, n), m)) =
            IF m < Len(Take(list, n)) THEN m ELSE Len(Take(list, n))
      /\ \A i \in DOMAIN Take(Take(list, n), m) : i \in DOMAIN Take(list, n)
  BY <1>4, TakeProperties
<1>6. /\ DOMAIN Take(list, k) = 1 .. Len(Take(list, k))
      /\ Len(Take(list, k)) = IF k < Len(list) THEN k ELSE Len(list)
  BY <1>1, TakeProperties
<1>7. Len(Take(list, k)) = Len(Take(Take(list, n), m))
  <2> DEFINE a == Len(list)
             b == Len(Take(list, n))
             c == Len(Take(list, k))
             d == Len(Take(Take(list, n), m))
  <2>1. a \in Nat /\ b = (IF n < a THEN n ELSE a)
    BY <1>1, <1>4
  <2>2. c = (IF k < a THEN k ELSE a) /\ d = (IF m < b THEN m ELSE b)
    BY <1>5, <1>6
  <2>3. k = IF n < m THEN n ELSE m
    BY <1>2, <1>3
  <2> HIDE DEF a, b, c, d
  <2>4. c = d
    BY <2>1, <2>2, <2>3
  <2> QED BY <2>4 DEF c, d
<1> QED BY <1>3, <1>4, <1>5, <1>6, <1>7

LEMMA NoThreshold ==
    ASSUME NEW list, RankedList(list)
    PROVE  AboveThreshold(list, 0) = list
<1>1. list \in Seq(Entry)
  BY DEF RankedList
<1>2. \A i \in DOMAIN list : list[i].score >= 0
  <2>1. \A i \in DOMAIN list : list[i] \in Entry
    BY <1>1
  <2> QED BY <2>1 DEF Entry
<1>3. {i \in DOMAIN list : list[i].score >= 0} = DOMAIN list
  BY <1>2
<1> QED BY <1>1, <1>3, PickedAll DEF AboveThreshold

(* The placeholder reranker changes neither the results nor their number.  *)
LEMMA NoOpKeeps ==
    ASSUME NEW results, \A i \in DOMAIN results :
               results[i] = [id |-> results[i].id, signals |-> results[i].signals],
           results = [i \in DOMAIN results |-> results[i]], DOMAIN results \subseteq Nat
    PROVE  ApplyRerank(results, NoOpOrder(results)) = results
<1> DEFINE order == NoOpOrder(results)
<1>1. DOMAIN order = DOMAIN results /\ \A i \in DOMAIN results : order[i] = i
  BY DEF NoOpOrder
<1>2. \A i \in Nat : RerankSignal(i, i) = {}
  BY DEF RerankSignal
<1> HIDE DEF order
<1>3. ASSUME NEW i \in DOMAIN results
      PROVE  [results[order[i]] EXCEPT !.signals = @ \cup RerankSignal(order[i], i)]
             = results[i]
  <2>1. order[i] = i /\ RerankSignal(order[i], i) = {}
    BY <1>1, <1>2
  <2>2. PICK r : r = results[i]
    OBVIOUS
  <2>3. r = [id |-> r.id, signals |-> r.signals]
    BY <2>2
  <2>4. [r EXCEPT !.signals = @ \cup {}] = r
    BY <2>3
  <2> QED BY <2>1, <2>2, <2>4
<1> QED BY <1>1, <1>3 DEF ApplyRerank, order

LEMMA FoundResults ==
    ASSUME NEW entries \in Seq(Entry), NEW ve, NEW le, NEW diff, NEW request,
           request.max \in Nat
    PROVE  LET found == FinalResults(entries, ve, le, diff, request)
           IN  /\ DOMAIN found = DOMAIN Take(entries, request.max)
               /\ DOMAIN found \subseteq Nat
               /\ DOMAIN found \subseteq DOMAIN entries
               /\ \A i \in DOMAIN found :
                     /\ found[i].id = entries[i].id
                     /\ found[i].signals = Explanation(entries[i].id, ve, le, diff.rescued,
                                                       request.threshold)
               /\ ApplyRerank(found, NoOpOrder(found)) = found
<1> DEFINE found == FinalResults(entries, ve, le, diff, request)
           n == request.max
           Signals(c) == Explanation(c, ve, le, diff.rescued, request.threshold)
<1>1. found = [i \in DOMAIN Take(entries, n) |->
                  [id |-> entries[i].id, signals |-> Signals(entries[i].id)]]
  BY DEF FinalResults
<1> HIDE DEF found, Signals, n
<1>2. /\ DOMAIN Take(entries, n) = 1 .. Len(Take(entries, n))
      /\ \A i \in DOMAIN Take(entries, n) : i \in DOMAIN entries
  BY TakeProperties DEF n
<1>3. /\ DOMAIN found = DOMAIN Take(entries, n)
      /\ \A i \in DOMAIN found : /\ found[i].id = entries[i].id
                                 /\ found[i].signals = Signals(entries[i].id)
                                 /\ found[i] = [id |-> found[i].id,
                                               signals |-> found[i].signals]
      /\ found = [i \in DOMAIN found |-> found[i]]
  BY <1>1
<1>4. DOMAIN found \subseteq Nat /\ DOMAIN found \subseteq DOMAIN entries
  BY <1>2, <1>3
<1>5. ApplyRerank(found, NoOpOrder(found)) = found
  BY <1>3, <1>4, NoOpKeeps
<1> QED BY <1>3, <1>4, <1>5 DEF found, Signals, n

DebugVector(request, vector) ==
    VectorEntries(Take(BranchSearched(request, "vector", vector).rows, request.k.vector))
DebugLexical(request, lexical) ==
    LexicalEntries(Take(BranchSearched(request, "lexical", lexical).rows, request.k.lexical))

DebugFused(request, vector, lexical) ==
    /\ HybridRequested(request)
    /\ BranchSearched(request, "vector", vector).ok
    /\ BranchSearched(request, "lexical", lexical).ok

DebugEntries(request, vector, lexical) ==
    LET ve == DebugVector(request, vector)
        le == DebugLexical(request, lexical)
    IN  IF DebugFused(request, vector, lexical) THEN HybridEntries(request, ve, le)
        ELSE IF BranchSearched(request, "vector", vector).ok
             THEN AboveThreshold(ve, request.threshold)
        ELSE le

DebugDiff(request, vector, lexical) ==
    LET ve == DebugVector(request, vector)
        le == DebugLexical(request, lexical)
    IN  IF DebugFused(request, vector, lexical)
        THEN RankingDiff(ve, le, Take(DebugEntries(request, vector, lexical), request.max),
                         ThresholdDrops(ve, request.threshold), {})
        ELSE NoDiff

DebugFound(request, vector, lexical) ==
    FinalResults(DebugEntries(request, vector, lexical), DebugVector(request, vector),
                 DebugLexical(request, lexical), DebugDiff(request, vector, lexical), request)

(* The final results and the diff, whether or not a rerank was asked for.  *)
LEMMA DebugAnswer ==
    ASSUME NEW request, NEW vector, NEW lexical, request.max \in Nat,
           DebugEntries(request, vector, lexical) \in Seq(Entry),
           DebugFused(request, vector, lexical) =>
               RankedList(DebugEntries(request, vector, lexical))
    PROVE  RetrievalDebug(request, vector, lexical)
           = [final |-> DebugFound(request, vector, lexical),
              diff |-> DebugDiff(request, vector, lexical)]
<1> DEFINE ve == DebugVector(request, vector)
           le == DebugLexical(request, lexical)
           entries == DebugEntries(request, vector, lexical)
           fused == DebugFused(request, vector, lexical)
           diff == DebugDiff(request, vector, lexical)
           found == DebugFound(request, vector, lexical)
           order == NoOpOrder(found)
           drops == ThresholdDrops(ve, request.threshold)
           again == RankingDiff(ve, le, RerankEntries(found, order), drops,
                                RerankDrops(found, order))
           reranked == request.rerank /\ found # <<>>
<1>1. RetrievalDebug(request, vector, lexical)
      = [final |-> IF reranked THEN ApplyRerank(found, order) ELSE found,
         diff |-> IF reranked /\ fused THEN again ELSE diff]
  BY DEF RetrievalDebug, DebugVector, DebugLexical, DebugEntries, DebugFused, DebugDiff,
         DebugFound
<1>2. found = FinalResults(entries, ve, le, diff, request)
  BY DEF DebugFound
<1>3. fused => diff = RankingDiff(ve, le, Take(entries, request.max), drops, {})
  BY DEF DebugDiff, entries
<1> HIDE DEF ve, le, entries, fused, diff, found, drops
<1>4. /\ entries \in Seq(Entry)
      /\ fused => EachOnce(entries) /\ \A i \in DOMAIN entries : entries[i].rank = i
  BY DEF RankedList, entries, fused
<1>5. /\ DOMAIN found = DOMAIN Take(entries, request.max)
      /\ DOMAIN found \subseteq Nat /\ DOMAIN found \subseteq DOMAIN entries
      /\ \A i \in DOMAIN found : found[i].id = entries[i].id
      /\ ApplyRerank(found, order) = found
  BY <1>2, <1>4, FoundResults
<1> DEFINE after == RerankEntries(found, order)
           before == Take(entries, request.max)
<1>6. /\ DOMAIN after = DOMAIN found
      /\ \A i \in DOMAIN after : after[i].id = found[i].id /\ after[i].rank = i
  BY DEF RerankEntries, NoOpOrder
<1>7. /\ DOMAIN before = DOMAIN found
      /\ \A i \in DOMAIN before : before[i] = entries[i]
  BY <1>4, <1>5, TakeProperties
<1> HIDE DEF after, before
<1>8. Ids(after) = Ids(found) /\ Ids(before) = Ids(found)
  BY <1>5, <1>6, <1>7 DEF Ids
<1>9. ASSUME fused, NEW c \in Ids(found)
      PROVE  EntryOf(after, c).rank = EntryOf(before, c).rank
  <2>1. PICK i \in DOMAIN after : after[i].id = c /\ EntryOf(after, c) = after[i]
    BY <1>8, <1>9, EntryOfChunk
  <2>2. PICK j \in DOMAIN before : before[j].id = c /\ EntryOf(before, c) = before[j]
    BY <1>8, <1>9, EntryOfChunk
  <2>3. i \in DOMAIN entries /\ j \in DOMAIN entries /\ entries[i].id = entries[j].id
    BY <1>5, <1>6, <1>7, <2>1, <2>2
  <2>4. i = j
    BY <1>4, <1>9, <2>3 DEF EachOnce
  <2> QED BY <1>4, <1>6, <1>7, <1>9, <2>1, <2>2, <2>3, <2>4
<1>10. RerankDrops(found, order) = {}
  BY <1>8 DEF RerankDrops, after
<1>11. ASSUME fused
       PROVE  again = RankingDiff(ve, le, before, drops, {})
  <2>1. again = RankingDiff(ve, le, after, drops, {})
    BY <1>10 DEF after
  <2>2. {c \in Ids(after) : /\ EntryOf(after, c).rank <= 3
                            /\ c \in (Ids(ve) \ Ids(le)) \cup (Ids(le) \ Ids(ve))}
        = {c \in Ids(before) : /\ EntryOf(before, c).rank <= 3
                               /\ c \in (Ids(ve) \ Ids(le)) \cup (Ids(le) \ Ids(ve))}
    BY <1>8, <1>9, <1>11
  <2> QED BY <2>1, <2>2 DEF RankingDiff
<1>12. fused => again = diff
  BY <1>3, <1>11 DEF before
<1> HIDE DEF again, order, reranked
<1>13. RetrievalDebug(request, vector, lexical) = [final |-> found, diff |-> diff]
  BY <1>1, <1>5, <1>12
<1>14. /\ found = DebugFound(request, vector, lexical)
       /\ diff = DebugDiff(request, vector, lexical)
  BY DEF found, diff
<1> QED BY <1>13, <1>14, Zenon

FailedHasNone(vector, lexical) ==
    (vector.ok \/ vector.rows = <<>>) /\ (lexical.ok \/ lexical.rows = <<>>)

\* A debug request with production's branches and limits and no threshold.
AsProduction(request, mode, recall) ==
    /\ mode \in {"A", "B"}
    /\ request.strategies = (IF mode = "A" THEN {"vector"} ELSE {"hybrid"})
    /\ request.hybrid /\ request.method = "rrf" /\ request.threshold = 0
    /\ request.k = [vector |-> recall, lexical |-> recall]

(* For such a request the debug screen cuts the list that production cuts. *)
LEMMA SameLists ==
    ASSUME NEW vector, NEW lexical, BranchesOK(vector, lexical),
           FailedHasNone(vector, lexical), NEW recall \in Nat,
           NEW request, NEW mode, AsProduction(request, mode, recall)
    PROVE  LET entries == DebugEntries(request, vector, lexical)
           IN  /\ RankedList(entries)
               /\ Recalled(ResolveMode(mode), vector, lexical, recall) = Take(entries, recall)
<1> DEFINE v == BranchSearched(request, "vector", vector)
           l == BranchSearched(request, "lexical", lexical)
           ve == VectorList(vector, recall)
           le == LexicalList(lexical, recall)
           entries == DebugEntries(request, vector, lexical)
           recalled == Recalled(ResolveMode(mode), vector, lexical, recall)
           list == IF vector.ok /\ lexical.ok /\ mode = "B" THEN ReciprocalRankFusion(Both(ve, le))
                   ELSE IF vector.ok THEN ve
                   ELSE IF lexical.ok /\ mode = "B" THEN le ELSE <<>>
<1>1. RankedList(ve) /\ RankedList(le)
  BY BranchesRanked
<1>2. RankedList(list)
  BY <1>1, RankedBranch, FusionRanked, NoneRanked
<1>3. HybridRequested(request) <=> mode = "B"
  BY DEF HybridRequested, AsProduction
<1>4. v = vector /\ l = IF mode = "B" THEN lexical ELSE Failed
  BY <1>3 DEF BranchSearched, AsProduction
<1>5. DebugVector(request, vector) = ve
  BY <1>4 DEF DebugVector, VectorList, AsProduction
<1>6. DebugLexical(request, lexical) = IF mode = "B" THEN le ELSE <<>>
  BY <1>4, NothingListed DEF DebugLexical, LexicalList, Failed, AsProduction
<1>7. ~ lexical.ok => le = <<>>
  BY NothingListed DEF LexicalList, FailedHasNone
<1>8. AboveThreshold(ve, request.threshold) = ve
  BY <1>1, NoThreshold DEF AsProduction
<1>9. HybridEntries(request, ve, le) = ReciprocalRankFusion(Both(ve, le))
  BY <1>8 DEF HybridEntries, Both, AsProduction
<1>10. DebugFused(request, vector, lexical) <=> vector.ok /\ lexical.ok /\ mode = "B"
  BY <1>3, <1>4 DEF DebugFused
<1>11. ResolveMode(mode).branches = IF mode = "B" THEN Hybrid ELSE {"vector"}
  BY DEF ResolveMode, AsProduction
<1>12. recalled = Take(list, recall)
  BY <1>11 DEF Recalled, Hybrid, Both, VectorList, LexicalList
<1> HIDE DEF ve, le, v, l
<1>13. entries = list
  <2>1. CASE mode = "B"
    BY <2>1, <1>4, <1>5, <1>6, <1>7, <1>8, <1>9, <1>10 DEF DebugEntries, v
  <2>2. CASE mode = "A"
    BY <2>2, <1>4, <1>5, <1>6, <1>8, <1>10 DEF DebugEntries, v
  <2> QED BY <2>1, <2>2 DEF AsProduction
<1> QED BY <1>2, <1>12, <1>13

LEMMA DebugShowsProductionHolds == StagesInv => DebugShowsProduction
<1> SUFFICES ASSUME StagesInv, AtStage("assemble"), CalledByMode, wizard.call.mode \in {"A", "B"},
                    NEW rerank \in BOOLEAN
             PROVE  LET request == [strategies |-> IF wizard.call.mode = "A" THEN {"vector"}
                                                   ELSE {"hybrid"},
                                    hybrid |-> TRUE, method |-> "rrf", threshold |-> 0,
                                    k |-> [vector |-> wizard.call.recall,
                                           lexical |-> wizard.call.recall],
                                    max |-> Min({wizard.call.recall, wizard.call.top}),
                                    rerank |-> rerank]
                    IN  Ids200(RetrievalDebug(request, search.vector, search.lexical).final)
                        = wizard.ids
  BY DEF DebugShowsProduction
<1> DEFINE recall == wizard.call.recall
           top == wizard.call.top
           mode == wizard.call.mode
           request == [strategies |-> IF mode = "A" THEN {"vector"} ELSE {"hybrid"},
                       hybrid |-> TRUE, method |-> "rrf", threshold |-> 0,
                       k |-> [vector |-> recall, lexical |-> recall],
                       max |-> Min({recall, top}), rerank |-> rerank]
           entries == DebugEntries(request, search.vector, search.lexical)
           recalled == Recalled(ResolveMode(mode), search.vector, search.lexical, recall)
<1>1. search \in Searches /\ wizard.stage = "assemble" /\ wizard.call.kind = "mode"
  BY DEF StagesInv, AtStage, CalledByMode
<1>2. ByMode(wizard.call, wizard.rows)
  BY <1>1 DEF StagesInv, RowsRetrieved, AtStage, ByConfig
<1>3. /\ recall \in Nat /\ top \in Nat
      /\ RowsFit(wizard.rows, ResolveMode(mode), search.vector, search.lexical,
                 recall, top, wizard.call.reranker, wizard.call.logit)
  BY <1>1, <1>2, ModeRows
<1>4. BranchesOK(search.vector, search.lexical) /\ FailedHasNone(search.vector, search.lexical)
  BY <1>1, SearchesOK, SearchAssumption DEF FailedHasNone
<1>5. /\ AsProduction(request, mode, recall)
      /\ request.max = Min({recall, top})
  BY DEF AsProduction
<1> HIDE DEF request, recall, top, mode
<1>6. RankedList(entries) /\ recalled = Take(entries, recall)
  BY <1>3, <1>4, <1>5, SameLists
<1>7. ~ EffectivePlan(ResolveMode(mode), wizard.call.reranker).rerank
  BY DEF EffectivePlan, ResolveMode, mode
<1> HIDE DEF entries, recalled
<1>8. /\ DOMAIN wizard.rows = DOMAIN Take(recalled, top)
      /\ \A i \in DOMAIN wizard.rows : wizard.rows[i].id = recalled[i].id
  BY <1>3, <1>7 DEF RowsFit, recalled
<1>9. request.max \in Nat
  <2>1. IsFiniteSet({recall} \cup {top})
    BY FS_Singleton, FS_AddElement
  <2>2. {recall} \cup {top} = {recall, top}
    OBVIOUS
  <2>3. {recall, top} \in SUBSET Int /\ {recall, top} # {}
    BY <1>3
  <2>4. Min({recall, top}) \in {recall, top}
    BY <2>1, <2>2, <2>3, Extremes
  <2> QED BY <1>3, <1>5, <2>4
<1> DEFINE final == RetrievalDebug(request, search.vector, search.lexical).final
           diff == DebugDiff(request, search.vector, search.lexical)
<1>10. final = FinalResults(entries, DebugVector(request, search.vector),
                            DebugLexical(request, search.lexical), diff, request)
  BY <1>6, <1>9, DebugAnswer DEF DebugFound, entries, RankedList
<1> HIDE DEF final, diff
<1>11. /\ DOMAIN final = DOMAIN Take(entries, Min({recall, top}))
       /\ \A i \in DOMAIN final : final[i].id = entries[i].id
  BY <1>5, <1>6, <1>9, <1>10, FoundResults DEF RankedList
<1>12. /\ DOMAIN final = DOMAIN Take(recalled, top)
       /\ \A i \in DOMAIN Take(recalled, top) : recalled[i] = entries[i]
  BY <1>3, <1>6, <1>11, FirstEntries
<1>13. wizard.ids = [i \in DOMAIN wizard.rows |-> wizard.rows[i].id]
  BY <1>1 DEF StagesInv, RowsRetrieved, Ids200, AtStage
<1>14. Ids200(final) = [i \in DOMAIN wizard.rows |-> wizard.rows[i].id]
  BY <1>8, <1>11, <1>12 DEF Ids200
<1>15. Ids200(RetrievalDebug(request, search.vector, search.lexical).final) = wizard.ids
  BY <1>13, <1>14 DEF final
<1> QED BY <1>15 DEF request, recall, top, mode

(* What the threshold leaves of a ranked list.                             *)
LEMMA ThresholdKeeps ==
    ASSUME NEW list, RankedList(list), NEW threshold \in Int
    PROVE  /\ BranchList(AboveThreshold(list, threshold))
           /\ Ids(AboveThreshold(list, threshold))
                 = Ids(list) \ ThresholdDrops(list, threshold)
<1> DEFINE keep == {i \in DOMAIN list : list[i].score >= threshold}
           above == AboveThreshold(list, threshold)
           n == Cardinality(keep)
           order == Ascending(keep)
<1>1. list \in Seq(Entry) /\ EachOnce(list) /\ \A i \in DOMAIN list : list[i].rank = i
  BY DEF RankedList
<1>2. keep \in SUBSET DOMAIN list
  OBVIOUS
<1>3. above = Picked(list, keep)
  BY DEF AboveThreshold
<1> HIDE DEF keep
<1>4. /\ n \in Nat /\ order \in [1 .. n -> keep]
      /\ \A i, j \in 1 .. n : i < j => order[i] < order[j]
      /\ \A k \in keep : \E i \in 1 .. n : order[i] = k
      /\ above = [i \in 1 .. n |-> list[order[i]]]
      /\ above \in Seq(Entry)
  BY <1>1, <1>2, <1>3, PickedProperties
<1> HIDE DEF above, n, order
<1>5. DOMAIN list \subseteq Nat \ {0}
  BY <1>1
<1>6. /\ DOMAIN above = 1 .. n
      /\ \A i \in 1 .. n : above[i] = list[order[i]] /\ order[i] \in keep
  BY <1>4
<1>7. EachOnce(above)
  <2> SUFFICES ASSUME NEW i \in 1 .. n, NEW j \in 1 .. n, above[i].id = above[j].id
               PROVE  i = j
    BY <1>6 DEF EachOnce
  <2>1. order[i] = order[j]
    BY <1>1, <1>2, <1>6 DEF EachOnce
  <2>2. order[i] \in Nat
    BY <1>2, <1>5, <1>6
  <2>3. ~ i < j /\ ~ j < i
    BY <1>4, <2>1, <2>2
  <2> QED BY <1>4, <2>3
<1>8. \A i \in DOMAIN above : above[i].rank >= 1
  BY <1>1, <1>2, <1>5, <1>6
<1>9. ASSUME NEW c
      PROVE  c \in Ids(above) <=> c \in Ids(list) /\ c \notin ThresholdDrops(list, threshold)
  <2>1. ASSUME NEW i \in DOMAIN list, list[i].id = c
        PROVE  EntryOf(list, c) = list[i]
    BY <1>1, <2>1, EntryOfChunk DEF EachOnce, Ids
  <2>2. ASSUME NEW i \in DOMAIN list
        PROVE  i \in keep <=> ~ list[i].score < threshold
    <3>1. list[i].score \in Int
      <4>1. list[i] \in Entry
        BY <1>1
      <4> QED BY <4>1 DEF Entry
    <3> QED BY <3>1 DEF keep
  <2>3. c \in Ids(above) <=> \E k \in keep : list[k].id = c
    BY <1>4, <1>6 DEF Ids
  <2>4. (\E k \in keep : list[k].id = c)
        <=> \E i \in DOMAIN list : list[i].id = c /\ ~ EntryOf(list, c).score < threshold
    BY <1>2, <2>1, <2>2
  <2> QED BY <2>3, <2>4 DEF Ids, ThresholdDrops
<1>10. BranchList(above)
  BY <1>4, <1>7, <1>8 DEF BranchList
<1>11. Ids(above) = Ids(list) \ ThresholdDrops(list, threshold)
  BY <1>9 DEF ThresholdDrops
<1> QED BY <1>10, <1>11 DEF above

LEMMA DebugAccounts ==
    ASSUME StagesInv, AtStage("retrieve"), NEW threshold \in {0, Unit \div 2, Unit},
           NEW max \in 1 .. 3
    PROVE  DebugAccountsForAll(threshold, max)
<1> DEFINE vector == search.vector
           lexical == search.lexical
           request(rerank) ==
               [strategies |-> {"hybrid"}, hybrid |-> TRUE, method |-> "rrf",
                threshold |-> threshold, k |-> [vector |-> 3, lexical |-> 3],
                max |-> max, rerank |-> rerank]
           ve == VectorList(vector, 3)
           le == LexicalList(lexical, 3)
           both == vector.ok /\ lexical.ok
           kept == AboveThreshold(ve, threshold)
           drops == ThresholdDrops(ve, threshold)
           entries == IF both THEN ReciprocalRankFusion(Both(kept, le))
                      ELSE IF vector.ok THEN kept ELSE le
           diff == IF both THEN RankingDiff(ve, le, Take(entries, max), drops, {}) ELSE NoDiff
           final == [i \in DOMAIN Take(entries, max) |->
                        [id |-> entries[i].id,
                         signals |-> Explanation(entries[i].id, ve, le, diff.rescued,
                                                 threshold)]]
           Debug(rerank) == RetrievalDebug(request(rerank), vector, lexical)
<1>1. BranchesOK(vector, lexical)
  BY SearchesOK DEF StagesInv, AtStage
<1>2. threshold \in Int
  <2>1. Unit \in Int /\ Unit \div 2 \in Int
    BY RetrievalAssumption
  <2> QED BY <2>1
<1>3. RankedList(ve) /\ RankedList(le)
  BY <1>1, BranchesRanked
<1>4. BranchList(kept) /\ Ids(kept) = Ids(ve) \ drops
  BY <1>2, <1>3, ThresholdKeeps
<1> DEFINE list == ReciprocalRankFusion(Both(kept, le))
<1>5. RankedList(list) /\ Ids(list) = Ids(kept) \cup Ids(le)
  BY <1>3, <1>4, RankedBranch, FusionRanked
<1>6. /\ entries \in Seq(Entry)
      /\ both => RankedList(entries) /\ Ids(entries) = Ids(kept) \cup Ids(le)
  BY <1>3, <1>4, <1>5 DEF RankedList, BranchList
<1>7. ASSUME NEW rerank \in BOOLEAN
      PROVE  Debug(rerank) = [final |-> final, diff |-> diff]
  <2> DEFINE r == request(rerank)
  <2>1. /\ r.strategies = {"hybrid"} /\ r.hybrid /\ r.method = "rrf" /\ r.max = max
        /\ r.threshold = threshold /\ r.k = [vector |-> 3, lexical |-> 3]
    OBVIOUS
  <2> HIDE DEF r
  <2>2. HybridRequested(r)
    BY <2>1 DEF HybridRequested
  <2>3. /\ BranchSearched(r, "vector", vector) = vector
        /\ BranchSearched(r, "lexical", lexical) = lexical
    BY <2>2 DEF BranchSearched
  <2>4. DebugVector(r, vector) = ve /\ DebugLexical(r, lexical) = le
    BY <2>1, <2>3 DEF DebugVector, DebugLexical, VectorList, LexicalList
  <2>5. DebugFused(r, vector, lexical) <=> both
    BY <2>2, <2>3 DEF DebugFused
  <2> HIDE DEF ve, le, kept, vector, lexical
  <2>6. HybridEntries(r, ve, le) = ReciprocalRankFusion(Both(kept, le))
    BY <2>1 DEF HybridEntries, Both, kept
  <2>7. DebugEntries(r, vector, lexical) = entries
    BY <2>1, <2>3, <2>4, <2>5, <2>6 DEF DebugEntries, kept
  <2>8. DebugDiff(r, vector, lexical) = diff
    BY <2>1, <2>4, <2>5, <2>7 DEF DebugDiff
  <2>9. DebugFound(r, vector, lexical) = final
    BY <2>1, <2>4, <2>7, <2>8 DEF DebugFound, FinalResults
  <2> HIDE DEF entries, final, diff
  <2>10. RetrievalDebug(r, vector, lexical) = [final |-> final, diff |-> diff]
    BY <1>6, <2>1, <2>5, <2>7, <2>8, <2>9, DebugAnswer
  <2> QED BY <2>10 DEF r
<1> HIDE DEF request
<1>8. Debug(TRUE) = Debug(FALSE) /\ Debug(FALSE).final = final /\ Debug(FALSE).diff = diff
  <2> HIDE DEF Debug, final, diff
  <2>1. TRUE \in BOOLEAN /\ FALSE \in BOOLEAN
    OBVIOUS
  <2>2. Debug(TRUE) = [final |-> final, diff |-> diff]
    BY <1>7, <2>1
  <2>3. Debug(FALSE) = [final |-> final, diff |-> diff]
    BY <1>7, <2>1
  <2>4. Debug(TRUE) = Debug(FALSE)
    BY <2>2, <2>3, Zenon
  <2>5. Debug(FALSE).final = final /\ Debug(FALSE).diff = diff
    <3> DEFINE answer == Debug(FALSE)
    <3>1. answer = [final |-> final, diff |-> diff]
      BY <2>3, Zenon
    <3> HIDE DEF answer
    <3>2. answer.final = final /\ answer.diff = diff
      BY <3>1
    <3> QED BY <3>2, Zenon DEF answer
  <2> QED BY <2>4, <2>5
<1> DEFINE shown == Ids(final)
           Signals(c) == EntryOf(final, c).signals
           lost == (diff.common \cup diff.vectorOnly \cup diff.lexicalOnly) \ shown
<1>9. ASSUME both
      PROVE  /\ diff.common = Ids(ve) \cap Ids(le)
             /\ diff.vectorOnly = Ids(ve) \ Ids(le)
             /\ diff.lexicalOnly = Ids(le) \ Ids(ve)
             /\ diff.dropped = drops
  BY <1>9 DEF RankingDiff
<1>10. /\ DOMAIN Take(entries, max) = 1 .. Len(Take(entries, max))
       /\ Len(Take(entries, max)) = IF max < Len(entries) THEN max ELSE Len(entries)
       /\ Len(entries) \in Nat /\ DOMAIN entries = 1 .. Len(entries)
  BY <1>6, TakeProperties
<1>11. drops \subseteq Ids(ve)
  BY DEF ThresholdDrops
<1> DEFINE n == Len(Take(entries, max))
           rescued == diff.rescued
<1>12. n \in Nat /\ n = IF max < Len(entries) THEN max ELSE Len(entries)
  BY <1>10
<1>13. /\ DOMAIN final = 1 .. n
       /\ \A i \in 1 .. n : /\ final[i].id = entries[i].id
                            /\ final[i].signals
                                 = Explanation(entries[i].id, ve, le, rescued, threshold)
  BY <1>10
<1>14. Len(final) = n
  <2> DEFINE elements == {final[i] : i \in 1 .. n}
  <2> HIDE DEF final, n
  <2>1. final = [i \in 1 .. n |-> final[i]]
    BY <1>13 DEF final
  <2>2. \A i \in 1 .. n : final[i] \in elements
    OBVIOUS
  <2> HIDE DEF elements
  <2>3. final \in [1 .. n -> elements]
    BY <2>1, <2>2
  <2> QED BY <1>12, <2>3
<1> HIDE DEF entries, final, diff, ve, le, kept, both, n, rescued, drops
<1>15. shown \subseteq Ids(entries)
  <2>1. \A i \in DOMAIN final : i \in DOMAIN entries /\ final[i].id = entries[i].id
    <3>1. PICK k \in Nat : k = Len(entries)
      BY <1>10
    <3>2. max \in Int /\ n \in Nat /\ n = IF max < k THEN max ELSE k
      BY <1>12, <3>1
    <3>3. 1 .. n \subseteq 1 .. k
      BY <3>2
    <3> QED BY <1>10, <1>13, <3>1, <3>3
  <2> QED BY <2>1 DEF Ids
<1>16. ASSUME both, Len(final) < max
       PROVE  lost \subseteq diff.dropped \cap diff.vectorOnly
  <2>1. n < max
    BY <1>14, <1>16
  <2>2. PICK k \in Nat : k = Len(entries)
    BY <1>10
  <2>3. max \in Int /\ n \in Nat /\ n = IF max < k THEN max ELSE k
    BY <1>12, <2>2
  <2> HIDE DEF n
  <2>4. n = Len(entries)
    BY <2>1, <2>2, <2>3
  <2>5. shown = Ids(entries)
    BY <2>4, <1>10, <1>13 DEF Ids
  <2> QED BY <2>5, <1>4, <1>6, <1>9, <1>16
<1>17. ASSUME both, NEW c \in shown
       PROVE  /\ c \in diff.dropped => {"below_threshold", "lexical_exact_match"}
                                           \subseteq Signals(c)
              /\ c \in diff.common <=> "branch_consensus" \in Signals(c)
              /\ Signals(c) \cap {"semantic", "lexical_exact_match"} # {}
  <2>1. PICK i \in DOMAIN final : final[i].id = c /\ EntryOf(final, c) = final[i]
    BY <1>17, EntryOfChunk
  <2>2. Signals(c) = Explanation(c, ve, le, rescued, threshold)
    BY <1>13, <2>1
  <2>3. c \in (Ids(ve) \ drops) \cup Ids(le)
    BY <1>4, <1>6, <1>15, <1>17
  <2> HIDE DEF shown, Signals
  <2>4. c \in drops =>
           c \in Ids(le) /\ {"below_threshold", "lexical_exact_match"} \subseteq Signals(c)
    BY <2>2, <2>3 DEF Explanation, drops
  <2>5. c \in Ids(ve) \cap Ids(le) <=> "branch_consensus" \in Signals(c)
    BY <2>2 DEF Explanation
  <2>6. c \in Ids(ve) => "semantic" \in Signals(c)
    BY <2>2 DEF Explanation
  <2>7. c \in Ids(le) => "lexical_exact_match" \in Signals(c)
    BY <2>2 DEF Explanation
  <2> QED BY <1>9, <1>17, <2>3, <2>4, <2>5, <2>6, <2>7
<1> HIDE DEF shown, Signals, lost
<1>18. /\ Debug(TRUE) = Debug(FALSE)
       /\ both =>
            /\ Len(final) < max => lost \subseteq diff.dropped \cap diff.vectorOnly
            /\ \A c \in shown :
                 /\ c \in diff.dropped => {"below_threshold", "lexical_exact_match"}
                                              \subseteq Signals(c)
                 /\ c \in diff.common <=> "branch_consensus" \in Signals(c)
                 /\ Signals(c) \cap {"semantic", "lexical_exact_match"} # {}
  BY <1>8, <1>16, <1>17
<1> HIDE DEF Debug
<1> QED BY <1>8, <1>18 DEF DebugAccountsForAll, Debug, request, both, shown, Signals, lost

(* The debug screen can be trusted: asked as production asks it shows what *)
(* production would return, also when a branch fails, and at any threshold *)
(* it accounts for every chunk a branch found (run_retrieval_debug,        *)
(* build_ranking_diff, build_explanation against retrieve).                *)
THEOREM DebugTellsTheTruthHolds == StagesSpec => []DebugTellsTheTruth
<1>1. StagesInv => DebugTellsTheTruth
  BY DebugShowsProductionHolds, DebugAccounts DEF DebugTellsTheTruth
<1> QED BY <1>1, WizardInvariant, PTL
=============================================================================
