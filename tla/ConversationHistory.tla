------------------------ MODULE ConversationHistory ------------------------
(***************************************************************************)
(* The bounded message memory of one session                               *)
(* (app/services/sessions.py, ConversationHistory), the compression policy *)
(* that may replace its sliding window                                     *)
(* (app/services/conversation_compression/), and the check a message list  *)
(* must pass before a structured completion                                *)
(* (app/services/structured_llm_client.py).  No state lives here: a        *)
(* history is a record and each method an operator on it.                  *)
(*                                                                         *)
(* A message is its role, the submit whose text it carries and, for a user *)
(* message, the number in its "[Turn n]" label.  The text itself is        *)
(* abstracted to what the code reads in it: whether an anchor pattern      *)
(* matches.                                                                *)
(***************************************************************************)
EXTENDS Integers, Sequences

CONSTANTS
    Requests,    \* the submits a session may receive
    NoRequest,   \* the system prompt and the summary belong to no one submit
    Anchored,    \* the submits whose turn message (their transcript, cut to 240
                 \* characters) matches an anchor pattern
    MaxTurns,    \* ConversationHistory(max_turns=...)
    SummaryCap   \* how many messages fit in the summary's 4000 characters

ASSUME HistoryAssumption ==
    /\ NoRequest \notin Requests
    /\ Anchored \subseteq Requests
    /\ MaxTurns \in Nat \ {0}
    /\ SummaryCap \in Nat

Message == [role  : {"system", "user", "assistant"},
            req   : Requests \cup {NoRequest},
            index : Nat]

\* compressed: a policy is attached (enable_compression).
History == [turns : Seq(Message), anchors : Seq(Message), summary : Seq(Message),
            compressed : BOOLEAN]

EmptyHistory(c) == [turns |-> <<>>, anchors |-> <<>>, summary |-> <<>>,
                    compressed |-> c]

SystemMessage == [role |-> "system", req |-> NoRequest, index |-> 0]
SummaryMessage == [role |-> "user", req |-> NoRequest, index |-> 0]
UserMessage(r, n) == [role |-> "user", req |-> r, index |-> n]
AssistantMessage(r) == [role |-> "assistant", req |-> r, index |-> 0]

Longest(s, n) == SubSeq(s, 1, IF Len(s) <= n THEN Len(s) ELSE n)

-----------------------------------------------------------------------------
(* Mutated forms of the definitions below.                                 *)

\* The window's bound is taken to be exclusive.
EnforceWindowExclusive(ts) ==
    LET excess == (Len(ts) \div 2) - MaxTurns + 1
    IN  IF excess > 0 THEN SubSeq(ts, 2 * excess + 1, Len(ts)) ELSE ts

\* An anchored turn is folded into the summary like any other.
EvictFirstIgnoringAnchors(h) ==
    [h EXCEPT !.turns = SubSeq(@, 3, Len(@)),
              !.summary = Longest(@ \o SubSeq(h.turns, 1, 2), SummaryCap)]

\* Each summary replaces the last one.
EvictFirstForgettingSummary(h) ==
    [h EXCEPT !.turns = SubSeq(@, 3, Len(@)),
              !.summary = Longest(SubSeq(h.turns, 1, 2), SummaryCap)]

-----------------------------------------------------------------------------
(* ConversationHistory._enforce_window: pairs are deleted from the front   *)
(* while len(turns) // 2 exceeds max_turns.                                *)
EnforceWindow(ts) ==
    LET excess == (Len(ts) \div 2) - MaxTurns
    IN  IF excess > 0 THEN SubSeq(ts, 2 * excess + 1, Len(ts)) ELSE ts

\* The roles a structured completion expects at position i after the system
\* message: user, assistant, user, ...
ExpectedRole(i) == IF i % 2 = 1 THEN "user" ELSE "assistant"

IsTurn(first, second) == first.role = "user" /\ second.role = "assistant"

(* One iteration of CompressionPolicy.apply: a message that does not begin *)
(* a turn is deleted alone; an anchored turn moves to the anchors; any     *)
(* other turn is folded into the summary, which is cut when it is full.    *)
EvictFirst(h) ==
    IF ~ IsTurn(h.turns[1], h.turns[2])
    THEN [h EXCEPT !.turns = Tail(@)]
    ELSE IF h.turns[1].req \in Anchored
    THEN [h EXCEPT !.turns = SubSeq(@, 3, Len(@)),
                   !.anchors = @ \o SubSeq(h.turns, 1, 2)]
    ELSE [h EXCEPT !.turns = SubSeq(@, 3, Len(@)),
                   !.summary = Longest(@ \o SubSeq(h.turns, 1, 2), SummaryCap)]

(* The policy's loop runs while more than 2 * max_turns messages are left. *)
(* Turns enter two messages at a time and the policy runs after each, so   *)
(* one iteration ends it: WindowBounded (SessionSubmit) is the loop's exit    *)
(* condition.                                                              *)
Compress(h) == IF Len(h.turns) > 2 * MaxTurns THEN EvictFirst(h) ELSE h

\* add_user_message: under compression the window is not touched here.
AddUserMessage(h, m) ==
    [h EXCEPT !.turns = IF h.compressed THEN Append(@, m)
                                        ELSE EnforceWindow(Append(@, m))]

\* add_assistant_message: the policy, or else the window, runs on every one.
AddAssistantMessage(h, m) ==
    IF h.compressed
    THEN Compress([h EXCEPT !.turns = Append(@, m)])
    ELSE [h EXCEPT !.turns = EnforceWindow(Append(@, m))]

\* to_messages_list: system prompt, summary if there is one, anchors, turns.
ToMessagesList(h) ==
    <<SystemMessage>>
      \o (IF h.summary = <<>> THEN <<>> ELSE <<SummaryMessage>>)
      \o h.anchors \o h.turns

(* _validate_messages_for_structured_completion: a system message, then    *)
(* whole user/assistant pairs, then the user message to be answered.       *)
ValidForCompletion(msgs) ==
    /\ msgs # <<>>
    /\ msgs[1].role = "system"
    /\ msgs[Len(msgs)].role = "user"
    /\ (Len(msgs) - 2) % 2 = 0
    /\ \A i \in 1 .. (Len(msgs) - 2) : msgs[i + 1].role = ExpectedRole(i)
=============================================================================
