------------------------------- MODULE Corpus -------------------------------
(***************************************************************************)
(* POST /embeddings/ingest and the text corpus scripts                     *)
(* (app/embedding_pipeline/persistent_ingest.py, text_corpus_ingest.py):   *)
(* a document and its embedded chunks are written in one transaction,      *)
(* after a look-up and an embedding call during which other ingests run.   *)
(*                                                                         *)
(*   documents  per source path, the ingest whose document is committed    *)
(*   chunks     the committed rows of the chunk table                      *)
(*   ingests    what each ingest is doing and what it has answered         *)
(***************************************************************************)
EXTENDS Naturals, FiniteSets

CONSTANTS
    Ingests,    \* bound: the ingest requests received
    Paths,
    PathOf,     \* the source path each ingest names
    Chunks,
    ChunksOf,   \* the chunks its budget is cut into, possibly none
    Nobody

ASSUME CorpusAssumption ==
    /\ PathOf \in [Ingests -> Paths]
    /\ ChunksOf \in [Ingests -> SUBSET Chunks]
    /\ Nobody \notin Ingests

VARIABLES documents, chunks, ingests

corpusVars == <<documents, chunks, ingests>>

\* Attempts at one batch of embeddings; only a rate limit is tried again.
MaxEmbedAttempts == 3

\* done: 200; conflict: 409; failed: 500.
Phases == {"looking", "embedding", "inserting", "document", "rows",
           "rolledback", "done", "conflict", "failed"}

(* tried: the rate-limited attempts at the embeddings.  named: the         *)
(* document a 409 names.                                                   *)
Ingest == [phase : Phases, tried : 0 .. MaxEmbedAttempts,
           named : Ingests \cup {Nobody}]

CorpusInit ==
    /\ documents = [p \in Paths |-> Nobody]
    /\ chunks = {}
    /\ ingests = [i \in Ingests |->
                    [phase |-> "looking", tried |-> 0, named |-> Nobody]]

Committed(i) == documents[PathOf[i]]

Move(i, phase) == ingests' = [ingests EXCEPT ![i].phase = phase]

\* DuplicateDocumentError: the answer names the document that is there.
Refuse(i) ==
    ingests' = [ingests EXCEPT ![i].phase = "conflict", ![i].named = Committed(i)]

----------------------------------------------------------------------------
FindDocument(i) ==
    /\ ingests[i].phase = "looking"
    /\ IF Committed(i) # Nobody THEN Refuse(i)
       ELSE Move(i, IF ChunksOf[i] = {} THEN "inserting" ELSE "embedding")
    /\ UNCHANGED <<documents, chunks>>

EmbedChunks(i) ==
    /\ ingests[i].phase = "embedding"
    /\ Move(i, "inserting")
    /\ UNCHANGED <<documents, chunks>>

EmbedRateLimited(i) ==
    /\ ingests[i].phase = "embedding"
    /\ ingests' = [ingests EXCEPT ![i].tried = @ + 1,
                     ![i].phase = IF ingests[i].tried + 1 < MaxEmbedAttempts
                                  THEN "embedding" ELSE "failed"]
    /\ UNCHANGED <<documents, chunks>>

\* Any other error of the embedding call.
EmbedFails(i) ==
    /\ ingests[i].phase = "embedding"
    /\ Move(i, "failed")
    /\ UNCHANGED <<documents, chunks>>

\* Postgres: an insert that meets an uncommitted row of the same unique key
\* waits for that transaction.
KeyHeld(i) == \E j \in Ingests \ {i} : /\ PathOf[j] = PathOf[i]
                                       /\ ingests[j].phase \in {"document", "rows"}

\* Mutated: the path has no unique key.
InsertDocumentUnchecked(i) ==
    /\ ingests[i].phase = "inserting"
    /\ Move(i, IF ChunksOf[i] = {} THEN "rows" ELSE "document")
    /\ UNCHANGED <<documents, chunks>>

InsertDocument(i) ==
    /\ ingests[i].phase = "inserting"
    /\ ~KeyHeld(i)
    /\ Move(i, IF Committed(i) # Nobody THEN "rolledback"
               ELSE IF ChunksOf[i] = {} THEN "rows" ELSE "document")
    /\ UNCHANGED <<documents, chunks>>

InsertChunks(i) ==
    /\ ingests[i].phase = "document"
    /\ Move(i, "rows")
    /\ UNCHANGED <<documents, chunks>>

\* The commit may take place and its reply be lost: that is a 500 too.
Commit(i) ==
    /\ ingests[i].phase = "rows"
    /\ \E answer \in {"done", "failed"} : Move(i, answer)
    /\ documents' = [documents EXCEPT ![PathOf[i]] = i]
    /\ chunks' = chunks \cup ChunksOf[i]

\* Mutated: each statement is committed on its own.
WriteFailsHalfway(i) ==
    /\ ingests[i].phase \in {"inserting", "document", "rows"}
    /\ Move(i, "failed")
    /\ documents' = IF ingests[i].phase = "inserting" THEN documents
                    ELSE [documents EXCEPT ![PathOf[i]] = i]
    /\ UNCHANGED chunks

\* An error of the database, or the process's end: what the transaction
\* wrote is gone.
WriteFails(i) ==
    /\ ingests[i].phase \in {"inserting", "document", "rows"}
    /\ Move(i, "failed")
    /\ UNCHANGED <<documents, chunks>>

\* After an IntegrityError: whose document won is looked up again.
FindWinner(i) ==
    /\ ingests[i].phase = "rolledback"
    /\ IF Committed(i) # Nobody THEN Refuse(i) ELSE Move(i, "failed")
    /\ UNCHANGED <<documents, chunks>>

IngestStep(i) ==
    \/ FindDocument(i)   \/ EmbedChunks(i)   \/ EmbedRateLimited(i)
    \/ EmbedFails(i)     \/ InsertDocument(i) \/ InsertChunks(i)
    \/ Commit(i)         \/ WriteFails(i)    \/ FindWinner(i)

CorpusNext == \E i \in Ingests : IngestStep(i)

CorpusSpec == CorpusInit /\ [][CorpusNext]_corpusVars

----------------------------------------------------------------------------
(* Every ingest that was answered 200 is the one whose document is stored  *)
(* under its path, with all its chunks, and every 409 names the document   *)
(* that is there: overlapping ingests of one path, each of which found     *)
(* nothing before it embedded, cannot both be accepted                     *)
(* (run_persistent_ingest's find, embed, insert, and its except            *)
(* IntegrityError).                                                        *)
AnswersMatchCorpus ==
    \A i \in Ingests :
        /\ ingests[i].phase = "done" =>
               Committed(i) = i /\ ChunksOf[i] \subseteq chunks
        /\ ingests[i].phase = "conflict" =>
               ingests[i].named # Nobody /\ Committed(i) = ingests[i].named

(* The chunk table holds whole documents: a chunk is there only with the   *)
(* document it belongs to and all its siblings, whatever failed in         *)
(* between (one commit at the end of the try).                             *)
WholeDocuments ==
    chunks = UNION {ChunksOf[i] : i \in {j \in Ingests : Committed(j) = j}}
=============================================================================
