--------------------------- MODULE ProviderChain ---------------------------
(***************************************************************************)
(* The markdown estimates of POST /estimate and /estimate/stream           *)
(* (app/routers/estimations.py, app/services/llm_service.py): each call    *)
(* asks the providers of the configured chain (app/services/llm_chain.py)  *)
(* one after the other, first for the requirements if it asked for two     *)
(* phases, then for the estimate.  What can go wrong at a provider is what *)
(* app/services/ai_model_service.py makes of LiteLLM's exceptions.         *)
(*                                                                         *)
(*   settings   the chain and the switches, fixed while the process runs   *)
(*   calls      the locals of each call and what its client has received   *)
(*   clock      the second it is                                           *)
(*   files      per second, whose estimate output-responses/ holds under   *)
(*              that second's name                                         *)
(***************************************************************************)
EXTENDS Integers, Sequences

CONSTANTS
    Calls,       \* bound: the calls received
    NoCall,
    MaxLive,     \* bound: providers named in LLM_PROVIDERS that have a key
    MaxChunks,   \* bound: deltas of one provider's stream
    MaxSecond    \* bound on the clock

ASSUME ChainAssumption ==
    /\ NoCall \notin Calls
    /\ MaxLive \in Nat
    /\ MaxChunks \in Nat \ {0}
    /\ MaxSecond \in Nat

VARIABLES settings, calls, clock, files

vars == <<settings, calls, clock, files>>

\* Providers are numbered in the order of the chain.  The static fallback,
\* if there is one, comes after the live ones and never fails.  A chain
\* without any provider does not start (build_provider_chain raises).
Settings == {s \in [live : 0 .. MaxLive, static : BOOLEAN,
                    authFallback : BOOLEAN, persist : BOOLEAN] :
               s.live > 0 \/ s.static}

Seconds == 0 .. MaxSecond

\* idle -> extracting (two phases) -> answering -> done (200, or the "done"
\* event) | failed (503, or the "error" event); refused: out of the domain;
\* crashed: an exception nothing catches (500); gone: the client of a stream
\* has disconnected.
Ended == {"done", "failed", "refused", "crashed", "gone"}
Phases == {"idle", "extracting", "answering"} \cup Ended

\* What a provider's failure is for the service: a ProviderConfigError, any
\* other ProviderError, or another exception.
Failures == {"config", "unavailable", "unexpected"}

(* at: the provider being asked; from: the one whose extraction replaced   *)
(* the transcript (0: none); tried: how the providers asked for the        *)
(* estimate failed; sent: the providers whose chunks the client was sent;  *)
(* emitted: how many of them since provider at was asked; answer: whose    *)
(* text completed the answer (0: none); second: when its file was written. *)
Call == [phase : Phases, stream : BOOLEAN, twoPhase : BOOLEAN,
         at : Nat, from : Nat, tried : Seq(Failures),
         sent : Seq(Nat), emitted : Nat, answer : Nat,
         second : Seconds \cup {-1}]

IdleCall == [phase |-> "idle", stream |-> FALSE, twoPhase |-> FALSE,
             at |-> 1, from |-> 0, tried |-> <<>>,
             sent |-> <<>>, emitted |-> 0, answer |-> 0, second |-> -1]

Init ==
    /\ settings \in Settings
    /\ calls = [c \in Calls |-> IdleCall]
    /\ clock = 0
    /\ files = [s \in Seconds |-> NoCall]

ChainLength == settings.live + (IF settings.static THEN 1 ELSE 0)

IsStatic(p) == settings.static /\ p = settings.live + 1

-----------------------------------------------------------------------------
(* Mutated forms of the definitions below.                                 *)

\* The flag that something was emitted is set up once, before the loop.
AskNextStillEmitted(call) ==
    IF call.at >= ChainLength
    THEN [call EXCEPT !.phase = "failed", !.emitted = 0]
    ELSE [call EXCEPT !.at = @ + 1]

\* After the last provider the chain starts over.
AskRound(call) ==
    IF call.at >= ChainLength
    THEN [call EXCEPT !.at = 1, !.tried = <<>>]
    ELSE [call EXCEPT !.at = @ + 1]

\* The name of the file leaves the time of day out.
FileOfTheDay == 0

-----------------------------------------------------------------------------
\* What LiteLLM or the gateway may raise while a live provider is asked.
Causes == {"timeout", "auth", "missing_model", "bad_request", "rate_limit",
           "api_error", "other", "empty", "internal"}

(* _map_litellm_exception, an empty text, and an exception outside its try *)
(* (reading or recording an answer).                                       *)
Mapped(cause) ==
    IF cause \in {"auth", "missing_model", "bad_request"} THEN "config"
    ELSE IF cause = "internal" THEN "unexpected"
    ELSE "unavailable"

MayFallBack(kind) ==
    \/ kind = "unavailable"
    \/ kind = "config" /\ settings.authFallback

\* How many providers are asked for the requirements: the live ones.
ExtractionLength == settings.live

\* The loop's next round, or its end.
AskNext(call) ==
    IF call.at >= ChainLength
    THEN [call EXCEPT !.phase = "failed", !.emitted = 0]
    ELSE [call EXCEPT !.at = @ + 1, !.emitted = 0]

\* build_output_filename: the second of the write.
FileSecond == clock

\* The guided form is rendered, and the domain guardrail accepts it.
Receive(c, stream, twoPhase) ==
    /\ calls[c].phase = "idle"
    /\ calls' = [calls EXCEPT ![c] = [IdleCall EXCEPT
           !.stream = stream, !.twoPhase = twoPhase,
           !.phase = IF ~ twoPhase THEN "answering"
                     ELSE IF ExtractionLength = 0 THEN "failed"
                     ELSE "extracting"]]
    /\ UNCHANGED <<settings, clock, files>>

\* DomainGuardrailError: 422, or the "error" event.
Refuse(c, stream) ==
    /\ calls[c].phase = "idle"
    /\ calls' = [calls EXCEPT ![c].phase = "refused", ![c].stream = stream]
    /\ UNCHANGED <<settings, clock, files>>

\* _extract_requirements_two_phase returns the first text there is.
Extract(c) ==
    /\ calls[c].phase = "extracting"
    /\ calls' = [calls EXCEPT ![c] = [calls[c] EXCEPT
           !.phase = "answering", !.from = calls[c].at, !.at = 1]]
    /\ UNCHANGED <<settings, clock, files>>

(* Here every ProviderError is passed over, a configuration error too; any *)
(* other exception leaves the service, and only the stream catches it.     *)
ExtractionFails(c, cause) ==
    /\ calls[c].phase = "extracting"
    /\ ~ IsStatic(calls[c].at)
    /\ LET call == calls[c]
       IN  calls' = [calls EXCEPT ![c] =
               IF Mapped(cause) = "unexpected"
               THEN [call EXCEPT !.phase = IF call.stream THEN "failed"
                                                         ELSE "crashed"]
               ELSE IF call.at >= ExtractionLength
               THEN [call EXCEPT !.phase = "failed"]
               ELSE [call EXCEPT !.at = @ + 1]]
    /\ UNCHANGED <<settings, clock, files>>

(* A live provider fails, before its first delta or after some: the chunks *)
(* already sent stay sent, and the next provider begins a text of its own. *)
AttemptFails(c, cause) ==
    /\ calls[c].phase = "answering"
    /\ ~ IsStatic(calls[c].at)
    /\ cause = "empty" => calls[c].emitted = 0
    /\ LET failed == [calls[c] EXCEPT !.tried = Append(@, Mapped(cause))]
       IN  calls' = [calls EXCEPT ![c] =
               IF MayFallBack(Mapped(cause)) THEN AskNext(failed)
               ELSE [failed EXCEPT !.phase = "failed", !.emitted = 0]]
    /\ UNCHANGED <<settings, clock, files>>

Answering(c, stream) ==
    /\ calls[c].phase = "answering"
    /\ calls[c].stream = stream

Answered(c) == [calls[c] EXCEPT !.phase = "done", !.answer = calls[c].at,
                                !.emitted = 0]

\* A text, and nothing to be written: 200.
Complete(c) ==
    /\ Answering(c, FALSE)
    /\ ~ settings.persist
    /\ calls' = [calls EXCEPT ![c] = Answered(c)]
    /\ UNCHANGED <<settings, clock, files>>

\* A text, written to its file before the 200.
CompleteAndSave(c) ==
    /\ Answering(c, FALSE)
    /\ settings.persist
    /\ calls' = [calls EXCEPT ![c] = [Answered(c) EXCEPT !.second = clock]]
    /\ files' = [files EXCEPT ![FileSecond] = c]
    /\ UNCHANGED <<settings, clock>>

(* A text that cannot be written: 503.  A file the write had opened is cut *)
(* short.                                                                  *)
SaveFails(c) ==
    /\ Answering(c, FALSE)
    /\ settings.persist
    /\ calls' = [calls EXCEPT ![c].phase = "failed", ![c].second = clock]
    /\ files' \in {files, [files EXCEPT ![FileSecond] = NoCall]}
    /\ UNCHANGED <<settings, clock>>

\* A delta is sent on; the static fallback's whole text is one chunk.
SendChunk(c) ==
    /\ Answering(c, TRUE)
    /\ calls[c].emitted < (IF IsStatic(calls[c].at) THEN 1 ELSE MaxChunks)
    /\ calls' = [calls EXCEPT ![c].sent = Append(@, calls[c].at),
                              ![c].emitted = @ + 1]
    /\ UNCHANGED <<settings, clock, files>>

\* The provider's stream ends; an empty one is AttemptFails(c, "empty").
EndStream(c) ==
    /\ Answering(c, TRUE)
    /\ calls[c].emitted > 0
    /\ calls' = [calls EXCEPT ![c] = Answered(c)]
    /\ UNCHANGED <<settings, clock, files>>

\* The client of a stream goes away and the response is cancelled.
Disconnect(c) ==
    /\ calls[c].stream
    /\ calls[c].phase \in {"extracting", "answering"}
    /\ calls' = [calls EXCEPT ![c].phase = "gone"]
    /\ UNCHANGED <<settings, clock, files>>

Tick ==
    /\ clock < MaxSecond
    /\ clock' = clock + 1
    /\ UNCHANGED <<settings, calls, files>>

\* What a call under way does by itself.
Progress(c) ==
    \/ Extract(c)
    \/ \E cause \in Causes : ExtractionFails(c, cause) \/ AttemptFails(c, cause)
    \/ Complete(c) \/ CompleteAndSave(c) \/ SaveFails(c)
    \/ SendChunk(c) \/ EndStream(c)

Next ==
    \/ \E c \in Calls :
          \/ \E stream \in BOOLEAN :
                \/ \E twoPhase \in BOOLEAN : Receive(c, stream, twoPhase)
                \/ Refuse(c, stream)
          \/ Progress(c)
          \/ Disconnect(c)
    \/ Tick

(* A provider's answer, its stream or its failure comes in the end: each   *)
(* attempt has a timeout and a bounded number of output tokens.            *)
Fairness == \A c \in Calls : WF_vars(Progress(c))

Spec == Init /\ [][Next]_vars /\ Fairness

-----------------------------------------------------------------------------
(* Type invariant.                                                         *)
TypeOK ==
    /\ settings \in Settings
    /\ calls \in [Calls -> Call]
    /\ \A c \in Calls : calls[c].at \in 1 .. ChainLength
    /\ clock \in Seconds
    /\ files \in [Seconds -> Calls \cup {NoCall}]

(* No provider is asked for an estimate after one whose failure forbids it:*)
(* an unexpected exception, or a configuration error without               *)
(* LLM_AUTH_FALLBACK.  So the degraded answer is given only when every     *)
(* live provider has failed in this call, each in a way that permits it.   *)
OnlyPermittedFallback ==
    \A c \in Calls : \A i \in DOMAIN calls[c].tried :
       \/ calls[c].tried[i] = "unavailable"
       \/ calls[c].tried[i] = "config" /\ settings.authFallback
       \/ i = Len(calls[c].tried) /\ calls[c].at = i /\ calls[c].phase = "failed"

(* The static text is never taken for requirements: a call in two phases   *)
(* puts a live provider's extraction to the chain, or does not get there.  *)
ExtractedByLive ==
    \A c \in Calls :
       calls[c].twoPhase /\ calls[c].phase \in {"answering", "done"} =>
          calls[c].from \in 1 .. settings.live

(* What a finished call shows as its answer is the whole text of the one   *)
(* provider that did not fail, and every one before it did.  A stream may  *)
(* carry beginnings of earlier providers' texts, but in front of it only,  *)
(* in the order of the chain.                                              *)
AnswerIsWhole ==
    \A c \in Calls : LET call == calls[c] IN
       call.phase = "done" =>
          /\ Len(call.tried) = call.answer - 1
          /\ call.stream =>
                /\ call.sent # <<>>
                /\ call.sent[Len(call.sent)] = call.answer
                /\ \A i, j \in DOMAIN call.sent :
                      i < j => call.sent[i] <= call.sent[j]

(* With the static fallback a call is turned away only for a reason the    *)
(* fallback does not cover: no provider extracted the requirements, an     *)
(* error that stops the chain, or a file that was not written.             *)
StaticAnswers ==
    \A c \in Calls : LET call == calls[c] IN
       settings.static /\ call.phase = "failed" =>
          \/ call.twoPhase /\ call.from = 0
          \/ /\ call.tried # <<>>
             /\ LET last == call.tried[Len(call.tried)]
                IN  \/ last = "unexpected"
                    \/ last = "config" /\ ~ settings.authFallback
          \/ call.second # -1

(* An answer that was saved is still in the file of its second, unless     *)
(* another call has written, or tried to write, in the same second.        *)
AnswersSaved ==
    \A c \in Calls :
       settings.persist /\ calls[c].phase = "done" /\ ~ calls[c].stream =>
          \/ files[calls[c].second] = c
          \/ \E d \in Calls \ {c} : calls[d].second = calls[c].second

(* Every call that was received is answered, refused or abandoned by its   *)
(* client, whatever the providers do.                                      *)
EveryCallEnds ==
    \A c \in Calls : calls[c].phase # "idle" ~> calls[c].phase \in Ended
=============================================================================
