--------------------------- MODULE SessionSubmit ---------------------------
(***************************************************************************)
(* POST /sessions/{id}/estimate on one session: the submits of a session   *)
(* run as coroutines on one event loop.  Begin runs from the session       *)
(* lookup to the await of the LLM pipeline, and other submits may run      *)
(* before it returns.  A Finish is what the service then writes to the     *)
(* session; a submit with an estimate goes on in the router, where         *)
(* assembling the response may raise before the estimate is shown.         *)
(* (app/services/simplified_session_estimation_service.py,                 *)
(* app/routers/sessions.py; sessions share no state with each other.)      *)
(*                                                                         *)
(*   history      session.conversation_history                             *)
(*   submitCount  session.submit_count                                     *)
(*   metadata     session.last_derived_metadata (and project_metadata,     *)
(*                which is rendered from it and written with it)           *)
(*   payload      whose request is session.last_normalized_payload         *)
(*   estimate     whose result is session.last_estimate                    *)
(*   submits      the locals of each submit's coroutine, and its answer    *)
(*   accepted     history variable: the submits that became turns, in order*)
(*   overlapped   history variable: two submits were in flight at once     *)
(***************************************************************************)
EXTENDS ConversationHistory, FiniteSets

CONSTANTS
    Facts,          \* constraint lines a transcript may contain
    FactsOf,        \* FactsOf[r]: the constraint lines of r's transcript
    Names, NoName,  \* project name, type and audience, filled in or left out
    NameOf,         \* NameOf[r]: what r's form says of them
    NoMetadata,     \* last_derived_metadata is None
    ConstraintCap,  \* _CONSTRAINT_CAP
    MaxInFlight     \* bound: submits of the session in flight at once

ASSUME SubmitAssumption ==
    /\ IsFiniteSet(Facts)
    /\ FactsOf \in [Requests -> SUBSET Facts]
    /\ NoName \notin Names
    /\ NameOf \in [Requests -> Names \cup {NoName}]
    /\ ConstraintCap \in Nat
    /\ \A r \in Requests : Cardinality(FactsOf[r]) <= ConstraintCap
    /\ MaxInFlight \in Nat \ {0}

VARIABLES history, submitCount, metadata, payload, estimate, submits,
          accepted, overlapped

vars == <<history, submitCount, metadata, payload, estimate, submits,
          accepted, overlapped>>

Metadata == [name : Names, facts : SUBSET Facts]

ASSUME NoMetadataAssumption == NoMetadata \notin Metadata

\* idle -> awaiting -> assembling -> ok (200) | broken (500);
\* awaiting -> unavailable (503) | rejected (422 or 500);
\* idle -> invalid (422) when the form is incomplete.
Phases == {"idle", "awaiting", "assembling", "ok", "broken", "unavailable",
           "rejected", "invalid"}

Submit == [phase : Phases, messages : Seq(Message),
           merged : Metadata \cup {NoMetadata}, fullForm : BOOLEAN]

IdleSubmit == [phase |-> "idle", messages |-> <<>>,
               merged |-> NoMetadata, fullForm |-> FALSE]

InFlight == {r \in Requests : submits[r].phase = "awaiting"}

\* Begin works on a copy of what it reads; the answer keeps only how the
\* request was put to the model.
Answer(r, phase) ==
    submits' = [submits EXCEPT ![r] = [IdleSubmit EXCEPT
                    !.phase = phase, !.fullForm = submits[r].fullForm]]

(* A new session: Session() as the store creates it.  Its first submit     *)
(* attaches a compression policy before it reads the history, or no submit *)
(* ever does (CONVERSATION_COMPRESSION_ENABLED).                           *)
Init ==
    /\ \E c \in BOOLEAN : history = EmptyHistory(c)
    /\ submitCount = 0
    /\ metadata = NoMetadata
    /\ payload = NoRequest
    /\ estimate = NoRequest
    /\ submits = [r \in Requests |-> IdleSubmit]
    /\ accepted = <<>>
    /\ overlapped = FALSE

-----------------------------------------------------------------------------
(* Mutated forms of the definitions below.                                 *)

\* Only the latest transcript's constraints are kept.
MergedForgettingFacts(r) == {FactsOf[r]}

\* The assistant's message is appended before the user's.
RememberTurnReversed(h, r, n) ==
    AddUserMessage(AddAssistantMessage(h, AssistantMessage(r)),
                   UserMessage(r, n))

\* Something is awaited while the response is assembled.
LoopFreeAlways == TRUE

-----------------------------------------------------------------------------
(* No submit is between the service's writes and the router's: nothing is  *)
(* awaited there, so no other submit runs before that one has answered.    *)
LoopFree == \A q \in Requests : submits[q].phase # "assembling"

(* _apply_session_field_defaults: what the form leaves out is taken from   *)
(* the session's earlier metadata.                                         *)
ResolvedName(r) ==
    IF NameOf[r] = NoName /\ metadata # NoMetadata THEN metadata.name
                                                    ELSE NameOf[r]

FormComplete(r) == ResolvedName(r) # NoName

(* merge_derived_metadata: earlier constraints come first and the list is  *)
(* cut at the cap, so which of the new ones are dropped depends on their   *)
(* order in the transcript.                                                *)
MergedFacts(r) ==
    IF metadata = NoMetadata THEN {FactsOf[r]}
    ELSE LET all == metadata.facts \cup FactsOf[r]
         IN  {kept \in SUBSET all :
                /\ metadata.facts \subseteq kept
                /\ Cardinality(kept) <= ConstraintCap
                /\ kept = all \/ Cardinality(kept) = ConstraintCap}

\* The prompt is built from the window as it is now, before the await.
MessagesOverride(r) ==
    Append(ToMessagesList(history), UserMessage(r, 0))

\* The label of the turn a submit becomes, read after the await.
TurnIndex(r) == submitCount + 1

RememberTurn(h, r, n) ==
    AddAssistantMessage(AddUserMessage(h, UserMessage(r, n)),
                        AssistantMessage(r))

\* The form is incomplete and the session has nothing to fill it in with, or
\* an attachment is refused, which any request may meet.
BeginInvalid(r) ==
    /\ LoopFree
    /\ submits[r].phase = "idle"
    /\ Answer(r, "invalid")
    /\ UNCHANGED <<history, submitCount, metadata, payload, estimate,
                   accepted, overlapped>>

\* run_submit up to the await of the pipeline.
Begin(r) ==
    /\ LoopFree
    /\ submits[r].phase = "idle"
    /\ FormComplete(r)
    /\ Cardinality(InFlight) < MaxInFlight
    /\ \E facts \in MergedFacts(r) :
         submits' = [submits EXCEPT ![r] =
             [phase    |-> "awaiting",
              messages |-> MessagesOverride(r),
              merged   |-> [name |-> ResolvedName(r), facts |-> facts],
              fullForm |-> submitCount = 0]]
    /\ overlapped' = (overlapped \/ InFlight # {})
    /\ UNCHANGED <<history, submitCount, metadata, payload, estimate, accepted>>

\* What run_submit writes to the session whatever the pipeline returned.
RecordSubmit(r) ==
    /\ metadata' = submits[r].merged
    /\ payload' = r
    /\ submitCount' = submitCount + 1

(* The pipeline returned an estimate and the service makes it a turn.      *)
(* Only the model's call checks the messages; a guardrail's degraded       *)
(* answer and a semantic-cache hit never reach it.                         *)
FinishWithEstimate(r, source) ==
    /\ LoopFree
    /\ submits[r].phase = "awaiting"
    /\ source = "model" => ValidForCompletion(submits[r].messages)
    /\ history' = RememberTurn(history, r, TurnIndex(r))
    /\ accepted' = Append(accepted, r)
    /\ RecordSubmit(r)
    /\ Answer(r, "assembling")
    /\ UNCHANGED <<estimate, overlapped>>

\* The response is assembled, its estimate stored and the router answers 200.
ShowEstimate(r) ==
    /\ submits[r].phase = "assembling"
    /\ estimate' = r
    /\ Answer(r, "ok")
    /\ UNCHANGED <<history, submitCount, metadata, payload, accepted, overlapped>>

\* Assembling the response, its dump or its observation raised (500): the
\* turn stays, beside the estimate of an earlier one.
ShowFails(r) ==
    /\ submits[r].phase = "assembling"
    /\ Answer(r, "broken")
    /\ UNCHANGED <<history, submitCount, metadata, payload, estimate, accepted,
                   overlapped>>

RecordFailed(r) == UNCHANGED <<history, accepted, estimate>>

\* The pipeline returned no estimate and the router answers 503.
FinishWithoutEstimate(r) ==
    /\ LoopFree
    /\ submits[r].phase = "awaiting"
    /\ RecordFailed(r)
    /\ RecordSubmit(r)
    /\ Answer(r, "unavailable")
    /\ UNCHANGED overlapped

RecordRaised(r) ==
    UNCHANGED <<history, submitCount, metadata, payload, estimate, accepted>>

\* The pipeline raised: a guardrail's refusal (422), or an error before the
\* cache lookup (500).
FinishRaised(r) ==
    /\ LoopFree
    /\ submits[r].phase = "awaiting"
    /\ RecordRaised(r)
    /\ Answer(r, "rejected")
    /\ UNCHANGED overlapped

Next ==
    \E r \in Requests :
       \/ BeginInvalid(r)
       \/ Begin(r)
       \/ \E source \in {"model", "guardrail", "cache"} :
             FinishWithEstimate(r, source)
       \/ ShowEstimate(r)
       \/ ShowFails(r)
       \/ FinishWithoutEstimate(r)
       \/ FinishRaised(r)

Spec == Init /\ [][Next]_vars

-----------------------------------------------------------------------------
(* Type invariant.                                                         *)
TypeOK ==
    /\ history \in History
    /\ submitCount \in Nat
    /\ metadata \in Metadata \cup {NoMetadata}
    /\ payload \in Requests \cup {NoRequest}
    /\ estimate \in Requests \cup {NoRequest}
    /\ submits \in [Requests -> Submit]
    /\ accepted \in Seq(Requests)
    /\ overlapped \in BOOLEAN

(* The service's own validator accepts every message list the service has  *)
(* built for a submit in flight: system, whole turns, the new user message.*)
PromptsValid ==
    \A r \in InFlight : ValidForCompletion(submits[r].messages)

(* The same of a session without compression, whatever the order and the   *)
(* outcome of its submits.                                                 *)
PlainPromptsValid == ~ history.compressed => PromptsValid

\* How many turns the window holds.
WindowTurns == Len(history.turns) \div 2

(* However submits interleave and fail, the window is the newest max_turns *)
(* accepted turns, oldest first, each a user message followed by its own   *)
(* assistant message (run_submit's two appends and _enforce_window).       *)
WindowHoldsNewestTurns ==
    /\ WindowTurns = IF Len(accepted) < MaxTurns THEN Len(accepted) ELSE MaxTurns
    /\ Len(history.turns) = 2 * WindowTurns
    /\ \A i \in 1 .. WindowTurns :
         LET r == accepted[Len(accepted) - WindowTurns + i]
         IN  /\ history.turns[2 * i - 1].role = "user"
             /\ history.turns[2 * i - 1].req = r
             /\ history.turns[2 * i] = AssistantMessage(r)

(* The "[Turn n]" labels the model reads grow along the window, even when  *)
(* submits overlap or fail in between: the label is computed after the     *)
(* await, with the increment.                                              *)
TurnLabelsIncrease ==
    \A i, j \in DOMAIN history.turns :
       /\ i < j
       /\ history.turns[i].role = "user"
       /\ history.turns[j].role = "user"
       => history.turns[i].index < history.turns[j].index

\* Submits whose turn is in the history and whose estimate was not stored.
Unshown(r) == submits[r].phase \in {"assembling", "broken"}

(* The estimate GET /sessions/{id} shows is that of a turn, and the newest *)
(* one whose response was assembled: never that of an older submit that    *)
(* answered late, and every turn after it is one whose response raised     *)
(* between the service's write and the router's, or is being assembled.    *)
EstimateOfNewestTurn ==
    \/ /\ estimate = NoRequest
       /\ \A j \in DOMAIN accepted : Unshown(accepted[j])
    \/ \E i \in DOMAIN accepted :
          /\ accepted[i] = estimate
          /\ submits[estimate].phase = "ok"
          /\ \A j \in (i + 1) .. Len(accepted) : Unshown(accepted[j])

\* The constraint lines of every submit that was recorded are in the
\* session's metadata, or the list is full.
FactsKept ==
    \A r \in Requests :
       submits[r].phase \in {"assembling", "ok", "broken", "unavailable"} =>
          \/ FactsOf[r] \subseteq metadata.facts
          \/ Cardinality(metadata.facts) = ConstraintCap

(* While submits come one at a time, merge_derived_metadata loses no       *)
(* constraint of any submit that was recorded, failed ones included.       *)
SerialFactsKept == ~ overlapped => FactsKept

(* The turn that opens the history was put to the model as the full guided *)
(* form, with its attachments, unless a failed submit took the first turn. *)
OpeningTurnIsFullForm ==
    accepted # <<>> =>
       \/ submits[accepted[1]].fullForm
       \/ \E r \in Requests : submits[r].phase = "unavailable"

\* The submits whose turns are in the window, as the abstract memory sees it.
RememberedSubmits == [i \in 1 .. WindowTurns |-> history.turns[2 * i - 1].req]

Memory == INSTANCE SlidingWindow WITH
              Turns <- Requests, Size <- MaxTurns, window <- RememberedSubmits

(* The two awaiting segments of every submit, the appends and the deletes  *)
(* implement a memory that takes one whole turn at a time.                 *)
ImplementsSlidingWindow == Memory!Spec

(* Under compression the turns outside the window are still the session's: *)
(* an anchored turn stays verbatim among the anchors or in the window, its *)
(* two messages side by side (FR-04 of feature 064).                       *)
AnchorsVerbatim ==
    LET kept == history.anchors \o history.turns
    IN  \A i \in DOMAIN accepted :
           history.compressed /\ accepted[i] \in Anchored =>
           \E j \in 1 .. (Len(kept) - 1) :
              /\ kept[j].role = "user" /\ kept[j].req = accepted[i]
              /\ kept[j + 1] = AssistantMessage(accepted[i])

(* Under compression every accepted turn is still in the window, among the *)
(* anchors or in the summary, until the summary is full.                   *)
NoTurnForgotten ==
    LET kept == history.anchors \o history.turns \o history.summary
    IN  \/ ~ history.compressed
        \/ Len(history.summary) = SummaryCap
        \/ \A i \in DOMAIN accepted :
              \E j \in DOMAIN kept : kept[j] = AssistantMessage(accepted[i])

(* The compression loop's exit condition holds after every step: one       *)
(* eviction is all a submit ever needs.                                    *)
WindowBounded == Len(history.turns) <= 2 * MaxTurns
=============================================================================
