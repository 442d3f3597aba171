----------------------------- MODULE WebSession -----------------------------
(***************************************************************************)
(* The estimator page (useSessionEstimate.ts, EstimationWorkbench.tsx) in   *)
(* front of the session endpoints (routers/sessions.py).                    *)
(*                                                                         *)
(* The page holds one active session and three panels.  Every click starts  *)
(* a call; calls are served by the API and answered to the page in any      *)
(* order, and may fail before or after they are served.  An answer is       *)
(* applied by the closure that made the call, whatever the page shows by    *)
(* then.  The API keeps its sessions in process memory: a restart loses     *)
(* them all.                                                               *)
(*                                                                         *)
(* What a panel shows is the pair <<session, turn>> it was produced by.     *)
(***************************************************************************)
EXTENDS Naturals

CONSTANTS MaxSessions,  \* bound on the sessions the API creates
          None,
          MaxClicks,    \* bound on what the user does
          MaxRestarts   \* bound on restarts of the API process

ASSUME PageAssumption == MaxSessions \in Nat \ {0} /\ None \notin Nat

VARIABLES server,       \* [made, live, turns, saved]: the in-memory store
          view,         \* the state of the hook and of the workbench
          calls,        \* the calls in flight
          clicks, restarts,
          impatient    \* has the user ever acted while a call was in flight?

pageVars == <<server, view, calls, clicks, restarts, impatient>>

Sessions == 1..MaxSessions   \* a uuid is a name: numbered as handed out

Ok(payload) == [ok |-> TRUE, gone |-> FALSE, payload |-> payload]
Failed      == [ok |-> FALSE, gone |-> FALSE, payload |-> None]
Gone        == [ok |-> FALSE, gone |-> TRUE, payload |-> None]

(* A call: what it asks, for which session, what its closure captured (the  *)
(* metadata shown, or whether the reset is waiting), and its reply.         *)
Call(id, kind, target, captured) ==
  [id |-> id, kind |-> kind, target |-> target, captured |-> captured,
   served |-> FALSE, reply |-> Failed]

---------------------------------------------------------------------------
\* The page

(* Mutant: the result panel is left as it was.                              *)
ClearedMetadataOnly(v) == [v EXCEPT !.metadata = None,
                                    !.metadataStatus = "empty"]

Cleared(v) == [v EXCEPT !.metadata = None, !.metadataStatus = "empty",
                        !.estimate = None, !.estimateStatus = "empty"]

FormDisabled == view.status # "ready" \/ view.resetting \/ view.selecting

SidebarOpen == view.listStatus = "ready" /\ ~FormDisabled

PageInit ==
  /\ server = [made |-> 0, live |-> {}, turns |-> [s \in Sessions |-> 0],
               saved |-> [s \in Sessions |-> 0]]
  /\ view = [session |-> None, status |-> "loading", error |-> FALSE,
             resetting |-> FALSE, selecting |-> FALSE,
             list |-> {}, listStatus |-> "idle",
             metadata |-> None, metadataStatus |-> "empty",
             estimate |-> None, estimateStatus |-> "empty",
             form |-> None, rag |-> None, ragStatus |-> "empty"]
  /\ calls = {Call(0, "create", None, FALSE)}
  /\ clicks = 0 /\ restarts = 0 /\ impatient = FALSE

(* A click of the user: it starts one call and changes the page at once.    *)
Click(kind, target, captured, shown) ==
  /\ clicks < MaxClicks
  /\ clicks' = clicks + 1
  /\ impatient' = (impatient \/ calls # {})
  /\ calls' = calls \cup {Call(clicks + 1, kind, target, captured)}
  /\ view' = shown
  /\ UNCHANGED <<server, restarts>>

RetrySession ==
  /\ view.error
  /\ Click("create", None, FALSE,
           [view EXCEPT !.status = "loading", !.error = FALSE])

NewConversation ==
  /\ view.status = "ready" /\ ~view.resetting
  /\ Click("create", None, TRUE,
           [Cleared(view) EXCEPT !.resetting = TRUE, !.status = "loading",
                                 !.error = FALSE, !.form = None,
                                 !.rag = None, !.ragStatus = "empty"])

SelectSession(s) ==
  /\ SidebarOpen /\ s \in view.list /\ s # view.session
  /\ Click("get", s, None,
           [view EXCEPT !.selecting = TRUE, !.metadataStatus = "loading",
                        !.estimateStatus = "loading",
                        !.rag = None, !.ragStatus = "empty"])

SubmitEstimate ==
  /\ ~FormDisabled /\ view.estimateStatus # "loading"
  /\ Click("submit", view.session, view.metadata,
           [view EXCEPT !.estimateStatus = "loading",
                        !.metadataStatus = "loading"])

RefreshList ==
  /\ view.listStatus = "error"
  /\ Click("list", None, FALSE, [view EXCEPT !.listStatus = "loading"])

RunRag ==
  /\ ~FormDisabled /\ view.ragStatus # "loading"
  /\ Click("rag", view.session, None, [view EXCEPT !.ragStatus = "loading"])

UserClicks ==
  \/ RetrySession \/ NewConversation \/ SubmitEstimate \/ RefreshList \/ RunRag
  \/ \E s \in Sessions : SelectSession(s)

---------------------------------------------------------------------------
\* The API

(* The call is done: it changed the store and its reply is on the way.      *)
Serve(c, reply, store) ==
  /\ ~c.served
  /\ calls' = (calls \ {c}) \cup {[c EXCEPT !.served = TRUE, !.reply = reply]}
  /\ server' = store
  /\ UNCHANGED <<view, clicks, restarts, impatient>>

ServeCreate(c) ==
  LET s == server.made + 1 IN
  /\ c.kind = "create" /\ s \in Sessions
  /\ Serve(c, Ok(s), [server EXCEPT !.made = s, !.live = @ \cup {s}])

ServeList(c) == c.kind = "list" /\ Serve(c, Ok(server.live), server)

ServeGet(c) ==
  /\ c.kind = "get"
  /\ Serve(c, IF c.target \in server.live
              THEN Ok(<<server.turns[c.target], server.saved[c.target]>>)
              ELSE Gone, server)

(* The turn is counted and its metadata kept before the pipeline's outcome  *)
(* is looked at; the estimate is saved only when there is one.              *)
CountTurn(s) == [server EXCEPT !.turns[s] = @ + 1]
SaveEstimate(s) == [CountTurn(s) EXCEPT !.saved[s] = server.turns[s] + 1]

ServeSubmit(c) ==
  /\ c.kind = "submit"
  /\ \/ c.target \notin server.live /\ Serve(c, Gone, server)
     \/ c.target \in server.live
        /\ Serve(c, Ok(server.turns[c.target] + 1), SaveEstimate(c.target))
     \/ c.target \in server.live /\ Serve(c, Failed, CountTurn(c.target))

ServeRag(c) == c.kind = "rag" /\ Serve(c, Ok(c.target), server)

(* The request is refused, or the network fails before or after it is       *)
(* served: the page cannot tell whether the session was created or the turn *)
(* was taken.                                                               *)
CallFails(c) ==
  \/ Serve(c, Failed, server)
  \/ c.kind = "create" /\ server.made < MaxSessions
     /\ Serve(c, Failed, [server EXCEPT !.made = @ + 1,
                                        !.live = @ \cup {server.made + 1}])
  \/ c.kind = "submit" /\ c.target \in server.live
     /\ Serve(c, Failed, SaveEstimate(c.target))

(* The process restarts: its sessions are gone and so are the calls in it.  *)
Restart ==
  /\ restarts < MaxRestarts
  /\ restarts' = restarts + 1
  /\ server' = [server EXCEPT !.live = {}]
  /\ calls' = {[c EXCEPT !.served = TRUE] : c \in calls}
  /\ UNCHANGED <<view, clicks, impatient>>

---------------------------------------------------------------------------
\* The answers, applied by the closure that made the call

(* The closure goes on: c is answered and the calls of "more" begin.        *)
Resolve(c, shown, more) ==
  /\ c.served
  /\ view' = shown
  /\ calls' = (calls \ {c}) \cup more
  /\ UNCHANGED <<server, clicks, restarts, impatient>>

ListFor(c, resets) == {Call(c.id, "list", None, resets)}

(* Mutant: a reset that fails does not put its flag back (no finally).      *)
CreateAnsweredKeepingFlag(c) ==
  /\ c.kind = "create"
  /\ IF c.reply.ok
     THEN Resolve(c, [view EXCEPT !.session = c.reply.payload,
                                 !.status = "ready", !.listStatus = "loading"],
                 ListFor(c, c.captured))
     ELSE Resolve(c, [view EXCEPT !.session = None, !.status = "error",
                                 !.error = TRUE], {})

(* bootstrapSession and resetConversation: the new session becomes active   *)
(* and its list is awaited; only resetConversation has a flag to put back.  *)
CreateAnswered(c) ==
  /\ c.kind = "create"
  /\ IF c.reply.ok
     THEN Resolve(c, [view EXCEPT !.session = c.reply.payload,
                                 !.status = "ready", !.listStatus = "loading"],
                 ListFor(c, c.captured))
     ELSE Resolve(c, [view EXCEPT !.session = None, !.status = "error",
                                 !.error = TRUE,
                                 !.resetting = @ /\ ~c.captured], {})

ListAnswered(c) ==
  /\ c.kind = "list"
  /\ Resolve(c, [view EXCEPT
                  !.list = IF c.reply.ok THEN c.reply.payload ELSE {},
                  !.listStatus = IF c.reply.ok THEN "ready" ELSE "error",
                  !.resetting = @ /\ ~c.captured], {})

(* Mutant: a session with turns and no saved estimate keeps the spinner.    *)
ApplyDetailWithoutMissing(v, s, turns, saved) ==
  [v EXCEPT !.metadata = IF turns > 0 THEN <<s, turns>> ELSE None,
            !.metadataStatus = IF turns > 0 THEN "available" ELSE "empty",
            !.estimate = IF saved > 0 THEN <<s, saved>> ELSE None,
            !.estimateStatus = IF saved > 0 THEN "available"
                               ELSE IF turns > 0 THEN @ ELSE "empty"]

(* applySessionDetailToPanels *)
ApplySessionDetail(v, s, turns, saved) ==
  [v EXCEPT !.metadata = IF turns > 0 THEN <<s, turns>> ELSE None,
            !.metadataStatus = IF turns > 0 THEN "available" ELSE "empty",
            !.estimate = IF saved > 0 THEN <<s, saved>> ELSE None,
            !.estimateStatus = IF saved > 0 THEN "available"
                               ELSE IF turns > 0 THEN "error" ELSE "empty"]

GetAnswered(c) ==
  /\ c.kind = "get"
  /\ IF c.reply.ok
     THEN Resolve(c,
            [ApplySessionDetail(view, c.target, c.reply.payload[1],
                                c.reply.payload[2])
               EXCEPT !.session = c.target, !.status = "ready",
                      !.error = FALSE, !.selecting = FALSE,
                      !.form = IF c.reply.payload[1] > 0 THEN c.target
                               ELSE None], {})
     ELSE Resolve(c, [Cleared(view) EXCEPT !.error = @ \/ c.reply.gone,
                                          !.selecting = FALSE], {})

(* submitEstimate writes the panels of the page as it is now.               *)
SubmitAnswered(c) ==
  /\ c.kind = "submit"
  /\ IF c.reply.ok
     THEN LET result == <<c.target, c.reply.payload>> IN
          Resolve(c, [view EXCEPT
                       !.metadata = result, !.metadataStatus = "available",
                       !.estimate = result, !.estimateStatus = "available",
                       !.listStatus = "loading"], ListFor(c, FALSE))
     ELSE Resolve(c, [view EXCEPT
                       !.metadataStatus = IF c.captured # None
                                          THEN "available" ELSE "empty",
                       !.estimateStatus = "error"], {})

RagAnswered(c) ==
  /\ c.kind = "rag"
  /\ Resolve(c, IF c.reply.ok
               THEN [view EXCEPT !.rag = c.reply.payload,
                                 !.ragStatus = "available"]
               ELSE [view EXCEPT !.ragStatus = "error"], {})

Answered(c) ==
  \/ CreateAnswered(c) \/ ListAnswered(c) \/ GetAnswered(c)
  \/ SubmitAnswered(c) \/ RagAnswered(c)

Served(c) ==
  \/ ServeCreate(c) \/ ServeList(c) \/ ServeGet(c) \/ ServeSubmit(c)
  \/ ServeRag(c) \/ CallFails(c)

PageNext ==
  \/ UserClicks
  \/ \E c \in calls : Served(c) \/ Answered(c)
  \/ Restart

(* fetch settles every call, with a response or a network error, and the    *)
(* browser runs the continuation of every settled promise.  Nothing makes   *)
(* the user click.                                                          *)
Ids == 0..MaxClicks
ServesCall(i)   == \E c \in calls : c.id = i /\ Served(c)
AnswersCall(i)  == \E c \in calls : c.id = i /\ Answered(c)
Fairness == \A i \in Ids : WF_pageVars(ServesCall(i)) /\ WF_pageVars(AnswersCall(i))

PageSpec == PageInit /\ [][PageNext]_pageVars /\ Fairness

---------------------------------------------------------------------------
\* Properties

Pending(kinds) == \E c \in calls : c.kind \in kinds

(* Whatever the order of the answers and whichever of them fail, a spinner  *)
(* or a disabled form always has a call in flight whose answer will end it: *)
(* a select that fails, a reset over a submit or a retry over a select      *)
(* leaves nothing loading behind.                                           *)
SpinnersHaveCalls ==
  /\ "loading" \in {view.estimateStatus, view.metadataStatus}
       => Pending({"submit", "get"})
  /\ view.status = "loading" => Pending({"create"})
  /\ view.resetting => \E c \in calls : c.kind \in {"create", "list"} /\ c.captured
  /\ view.selecting => Pending({"get"})
  /\ view.listStatus = "loading" => Pending({"list"})
  /\ view.ragStatus = "loading" => Pending({"rag"})

(* A user who waits for each answer is shown the active session: its last   *)
(* estimate, metadata no older than the estimate, and a sidebar that lists  *)
(* it, through failed submits and failed selections; the first two even     *)
(* when the API restarts.  (The Retry that follows a 404 keeps the form and *)
(* the RAG result of the session before it.)  Whoever does not wait, and    *)
(* opens another session while a submit is under way, is shown its answer   *)
(* under the name of the other one, against AC-17 and AC-19 of feature 021. *)
PatientUserSeesActiveSession ==
  ~impatient =>
    /\ view.estimateStatus = "available" =>
         /\ view.estimate[1] = view.session
         /\ ~Pending({"get", "submit", "create"}) =>
              view.estimate[2] = server.saved[view.session]
    /\ view.metadataStatus = "available" /\ view.estimateStatus = "available" =>
         /\ view.metadata[1] = view.session
         /\ view.metadata[2] >= view.estimate[2]
    /\ view.listStatus = "ready" /\ view.session # None /\ ~Pending({"create"}) =>
         view.session \in view.list \/ restarts > 0
    /\ restarts = 0 =>
         /\ view.form \in {None, view.session}
         /\ view.ragStatus = "available" => view.rag = view.session

(* Under fair answers the page never locks up: again and again either the   *)
(* form can be submitted or the Retry of the session header is there.       *)
FormComesBack ==
  []<>(\/ ~FormDisabled /\ view.estimateStatus # "loading"
       \/ view.error)

(* AC-17 and AC-19 of feature 021: the panels belong to the session the     *)
(* header names.  Refuted: a submit that is answered after another session  *)
(* was opened fills the panels of that one.                                 *)
PanelOfActiveSession ==
  view.estimateStatus = "available" => view.estimate[1] = view.session
=============================================================================
