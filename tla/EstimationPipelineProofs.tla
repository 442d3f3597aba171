---------------------- MODULE EstimationPipelineProofs ----------------------
(***************************************************************************)
(* The safety of the guarded pipeline and of its cache, for any number of  *)
(* calls, any requests and any sequence of deployments.  IInv says what is *)
(* known of a call at each of its phases, and that every entry of the      *)
(* store is the approved estimate of a call that got as far as writing it; *)
(* such a call is settled: nothing the entry says of it changes any more.  *)
(***************************************************************************)
EXTENDS EstimationPipeline, TLAPS

Settled == {"expiry", "success", "lost"}

\* The estimate of c is its own and passes the output guardrails it enforces.
Approved(c) ==
    /\ calls[c].estimate \in Estimate
    /\ calls[c].estimate.by = c
    /\ calls[c].estimate.flaws \cap calls[c].settings.enforced = {}

\* What a call answered from the store has in common with the call that wrote
\* the entry.
Fits(c) ==
    LET w == calls[c].estimate.by IN
    /\ calls[c].estimate \in Estimate
    /\ w # c
    /\ calls[w].phase \in Settled
    /\ calls[w].request.fields = calls[c].request.fields
    /\ Similarity[calls[c].request.text][calls[w].request.text] >= Threshold
    /\ ~calls[w].request.acb
    /\ VersionsBumped =>
         calls[c].estimate.flaws \cap calls[c].settings.enforced = {}

Served(c) ==
    calls[c].settings.mode = "serve" /\ ~calls[c].request.acb /\ Fits(c)

CallInv(c) ==
    /\ calls[c].phase # "new" =>
         calls[c].request \in Requests /\ calls[c].settings \in Deployments
    /\ calls[c].phase \in Waiting \cup {"success"} =>
         calls[c].request.failing \cap calls[c].settings.enforced = {}
    /\ calls[c].phase \in {"prelude", "lookup", "write", "expiry"} => ~calls[c].request.acb
    /\ calls[c].phase \in {"write", "expiry"} => Approved(c)
    /\ calls[c].phase # "success" => calls[c].hit = Nothing
    /\ calls[c].phase = "success" => Approved(c) \/ Served(c)
    /\ calls[c].hit # Nothing => Served(c)

EntryInv(e) ==
    LET w == e.estimate.by IN
    /\ calls[w].phase \in Settled
    /\ e.bucket = BucketOf(w)
    /\ e.text = calls[w].request.text
    /\ ~calls[w].request.acb
    /\ e.estimate.flaws \cap calls[w].settings.enforced = {}

IInv ==
    /\ TypeOK
    /\ \A c \in Calls : CallInv(c)
    /\ \A e \in entries : EntryInv(e)

-----------------------------------------------------------------------------
THEOREM InitInv == Init => IInv
<1> SUFFICES ASSUME Init PROVE IInv
    OBVIOUS
<1>1. TypeOK
    BY PipelineAssumption DEF Init, TypeOK, Fresh, Call, Phases
<1>2. \A c \in Calls : CallInv(c)
    BY DEF Init, CallInv, Fresh, Waiting
<1>3. \A e \in entries : EntryInv(e)
    BY DEF Init
<1> QED
    BY <1>1, <1>2, <1>3 DEF IInv

\* A step that changes one call, and changes nothing of it that matters to
\* the entries if it is settled, leaves what is known of the other calls and
\* of the entries as it was.
LEMMA OthersKept ==
    ASSUME IInv, NEW c \in Calls, NEW r,
           calls' = [calls EXCEPT ![c] = r],
           calls[c].phase \in Settled =>
             r.phase \in Settled /\ r.request = calls[c].request
                                 /\ r.settings = calls[c].settings
    PROVE  /\ \A d \in Calls \ {c} : CallInv(d)'
           /\ \A e \in entries : EntryInv(e)'
<1>1. calls \in [Calls -> Call] /\ entries \subseteq Entry
    BY DEF IInv, TypeOK
<1>2. /\ calls'[c] = r
      /\ \A d \in Calls \ {c} : calls'[d] = calls[d]
    BY <1>1
<1>3. \A w \in Calls : calls[w].phase \in Settled =>
        calls'[w].phase \in Settled /\ calls'[w].request = calls[w].request
                                    /\ calls'[w].settings = calls[w].settings
    BY <1>2
<1>4. ASSUME NEW d \in Calls \ {c} PROVE CallInv(d)'
  <2>1. CallInv(d) /\ calls'[d] = calls[d]
      BY <1>2 DEF IInv
  <2>2. Approved(d) => Approved(d)'
      BY <2>1 DEF Approved
  <2>3. ASSUME Fits(d) PROVE Fits(d)'
    <3>1. calls[d].estimate.by \in Calls
        BY <2>3 DEF Fits, Estimate
    <3>2. calls'[calls[d].estimate.by].request = calls[calls[d].estimate.by].request
          /\ calls'[calls[d].estimate.by].phase \in Settled
        BY <3>1, <2>3, <1>3 DEF Fits
    <3> QED
        BY <3>2, <2>3, <2>1 DEF Fits
  <2> QED
      BY <2>1, <2>2, <2>3 DEF CallInv, Served
<1>5. ASSUME NEW e \in entries PROVE EntryInv(e)'
  <2>1. e.estimate.by \in Calls
      BY <1>1 DEF Entry, Estimate
  <2>2. EntryInv(e)
      BY DEF IInv
  <2>3. BucketOf(e.estimate.by)' = BucketOf(e.estimate.by)
      BY <2>1, <2>2, <1>3 DEF EntryInv, BucketOf, RulesVersion
  <2> QED
      BY <2>1, <2>2, <2>3, <1>3 DEF EntryInv
<1> QED
    BY <1>4, <1>5

\* A step of one call keeps the invariant if it leaves that call in order.
LEMMA CallStep ==
    ASSUME IInv, NEW c \in Calls, NEW r \in Call,
           calls' = [calls EXCEPT ![c] = r],
           UNCHANGED <<settings, entries, deploys>>,
           calls[c].phase \in Settled =>
             r.phase \in Settled /\ r.request = calls[c].request
                                 /\ r.settings = calls[c].settings,
           CallInv(c)'
    PROVE  IInv'
<1>1. TypeOK'
    BY DEF IInv, TypeOK
<1>2. \A d \in Calls : CallInv(d)'
    BY OthersKept
<1>3. \A e \in entries' : EntryInv(e)'
    BY OthersKept
<1> QED
    BY <1>1, <1>2, <1>3 DEF IInv

\* A step that only moves a call from one phase to another.
LEMMA GotoStep ==
    ASSUME IInv, NEW c \in Calls, NEW p \in Phases \ {"new"}, Goto(c, p),
           UNCHANGED <<settings, entries, deploys>>,
           calls[c].phase # "new",
           calls[c].phase \in Settled => p \in Settled,
           CallInv(c)'
    PROVE  IInv'
<1> DEFINE r == [calls[c] EXCEPT !.phase = p]
<1>1. calls[c] \in Call
    BY DEF IInv, TypeOK
<1>2. r \in Call /\ r.phase = p /\ r.request = calls[c].request
                 /\ r.settings = calls[c].settings
    BY <1>1 DEF Call
<1>3. calls' = [calls EXCEPT ![c] = r]
    BY DEF Goto
<1> HIDE DEF r
<1> QED
    BY <1>2, <1>3, CallStep
-----------------------------------------------------------------------------
(* One lemma per operation                                                 *)

LEMMA ReceiveStep == ASSUME IInv, NEW c \in Calls, Receive(c) PROVE IInv'
<1>1. PICK q \in Requests :
        calls' = [calls EXCEPT ![c].request = q, ![c].settings = settings,
                               ![c].phase = AfterInput(settings, q)]
    BY DEF Receive
<1> DEFINE r == [calls[c] EXCEPT !.request = q, !.settings = settings,
                                 !.phase = AfterInput(settings, q)]
<1>2. /\ calls[c] \in Call /\ calls[c].phase = "new" /\ CallInv(c)
      /\ calls \in [Calls -> Call] /\ settings \in Deployments
    BY DEF IInv, TypeOK, Receive
<1>3. q \in Request /\ settings \in Settings
    BY <1>2, PipelineAssumption
<1>4. AfterInput(settings, q) \in {"refused", "degraded", "model", "prelude"}
    BY DEF AfterInput
<1>5. r \in Call /\ r.request = q /\ r.settings = settings
      /\ r.phase = AfterInput(settings, q) /\ r.hit = calls[c].hit
    BY <1>2, <1>4 DEF Call, Phases
<1>6. calls' = [calls EXCEPT ![c] = r]
    BY <1>1
<1>7. calls'[c] = r
    BY <1>2, <1>6
<1> HIDE DEF r
<1>8. CallInv(c)'
  <2>1. AfterInput(settings, q) \in {"model", "prelude"} =>
          q.failing \cap settings.enforced = {}
      BY <1>3 DEF AfterInput, Blocked, Filtered, Request, InputGuards
  <2>2. AfterInput(settings, q) = "prelude" => ~q.acb
      BY DEF AfterInput
  <2>3. calls[c].hit = Nothing
      BY <1>2 DEF CallInv
  <2>4. /\ calls'[c].phase \in {"refused", "degraded", "model", "prelude"}
        /\ calls'[c].phase \in {"model", "prelude"} =>
             calls'[c].request.failing \cap calls'[c].settings.enforced = {}
        /\ calls'[c].phase = "prelude" => ~calls'[c].request.acb
        /\ calls'[c].request \in Requests /\ calls'[c].settings \in Deployments
        /\ calls'[c].hit = Nothing
      BY <1>2, <1>4, <1>5, <1>7, <2>1, <2>2, <2>3
  <2> QED
      BY <2>4 DEF CallInv, Waiting
<1> QED
    BY <1>2, <1>5, <1>6, <1>8, CallStep DEF Receive, Settled

LEMMA PreludeStep == ASSUME IInv, NEW c \in Calls, Prelude(c) PROVE IInv'
<1>1. /\ calls[c] \in Call /\ calls[c].phase = "prelude" /\ CallInv(c)
      /\ calls \in [Calls -> Call]
    BY DEF IInv, TypeOK, Prelude
<1>2. CASE Goto(c, "lookup")
  <2>1. calls'[c] = [calls[c] EXCEPT !.phase = "lookup"]
      BY <1>1, <1>2 DEF Goto
  <2>2. CallInv(c)'
      BY <1>1, <2>1 DEF CallInv, Waiting, Call
  <2> QED
      BY <1>1, <1>2, <2>2, GotoStep DEF Prelude, Phases, Settled
<1>3. CASE Goto(c, "crashed")
  <2>1. calls'[c] = [calls[c] EXCEPT !.phase = "crashed"]
      BY <1>1, <1>3 DEF Goto
  <2>2. CallInv(c)'
      BY <1>1, <2>1 DEF CallInv, Waiting, Call
  <2> QED
      BY <1>1, <1>3, <2>2, GotoStep DEF Prelude, Phases, Settled
<1> QED
    BY <1>2, <1>3 DEF Prelude

LEMMA MissStep == ASSUME IInv, NEW c \in Calls, Miss(c) PROVE IInv'
<1>1. /\ calls[c] \in Call /\ calls[c].phase = "lookup" /\ CallInv(c)
      /\ calls \in [Calls -> Call]
    BY DEF IInv, TypeOK, Miss
<1>2. calls'[c] = [calls[c] EXCEPT !.phase = "model"]
    BY <1>1 DEF Miss, Goto
<1>3. CallInv(c)'
    BY <1>1, <1>2 DEF CallInv, Waiting, Call
<1> QED
    BY <1>1, <1>3, GotoStep DEF Miss, Phases, Settled

\* The writer of the entry is settled, so it is another call; the buckets
\* agree, so its rules are the rules of the call that is served.
LEMMA HitStep == ASSUME IInv, NEW c \in Calls, Hit(c) PROVE IInv'
<1>1. /\ calls[c] \in Call /\ calls[c].phase = "lookup" /\ CallInv(c)
      /\ calls \in [Calls -> Call] /\ calls[c].settings.mode = "serve"
    BY DEF IInv, TypeOK, Hit
<1>2. PICK e \in Nearest(c) :
        /\ Score(c, e) >= Threshold
        /\ calls' = [calls EXCEPT ![c].phase = "success",
                                  ![c].estimate = e.estimate, ![c].hit = e]
    BY DEF Hit
<1>3. e \in entries /\ e \in Entry /\ e.bucket = BucketOf(c) /\ EntryInv(e)
    BY DEF Nearest, Candidates, IInv, TypeOK
<1> DEFINE r == [calls[c] EXCEPT !.phase = "success", !.estimate = e.estimate, !.hit = e]
           w == e.estimate.by
<1>4. e.estimate \in Estimate /\ w \in Calls
    BY <1>3 DEF Entry, Estimate
<1>5. r \in Call /\ r.phase = "success" /\ r.estimate = e.estimate /\ r.hit = e
      /\ r.request = calls[c].request /\ r.settings = calls[c].settings
    BY <1>1, <1>3, <1>4 DEF Call, Phases
<1>6. calls' = [calls EXCEPT ![c] = r]
    BY <1>2
<1>7. w # c
    BY <1>1, <1>3 DEF EntryInv, Settled
<1>8. calls'[c] = r /\ calls'[w] = calls[w]
    BY <1>1, <1>4, <1>6, <1>7
<1>9. Fits(c)'
  <2>1. calls[w].phase \in Settled /\ ~calls[w].request.acb
        /\ calls[w].request.text = e.text
      BY <1>3 DEF EntryInv
  <2>2. BucketOf(w) = BucketOf(c)
      BY <1>3 DEF EntryInv
  <2>3. calls[w].request.fields = calls[c].request.fields
        /\ RulesVersion(calls[w].settings) = RulesVersion(calls[c].settings)
      BY <2>2 DEF BucketOf
  <2>4. Similarity[calls[c].request.text][calls[w].request.text] >= Threshold
      BY <1>2, <2>1 DEF Score
  <2>5. VersionsBumped =>
          e.estimate.flaws \cap calls[c].settings.enforced = {}
      BY <1>3, <2>3 DEF RulesVersion, EntryInv
  <2> HIDE DEF r
  <2> QED
      BY <1>4, <1>5, <1>7, <1>8, <2>1, <2>3, <2>4, <2>5 DEF Fits
<1> HIDE DEF r
<1>10. CallInv(c)'
  <2>1. /\ ~calls[c].request.acb
        /\ calls[c].request.failing \cap calls[c].settings.enforced = {}
        /\ calls[c].request \in Requests /\ calls[c].settings \in Deployments
      BY <1>1 DEF CallInv, Waiting
  <2>2. Served(c)'
      BY <1>1, <1>5, <1>8, <1>9, <2>1 DEF Served
  <2> QED
      BY <1>5, <1>8, <2>1, <2>2 DEF CallInv
<1> QED
    BY <1>1, <1>5, <1>6, <1>10, CallStep DEF Hit, Settled

LEMMA ModelErrorStep == ASSUME IInv, NEW c \in Calls, ModelError(c) PROVE IInv'
<1>1. /\ calls[c] \in Call /\ calls[c].phase = "model" /\ CallInv(c)
      /\ calls \in [Calls -> Call]
    BY DEF IInv, TypeOK, ModelError
<1>2. calls'[c] = [calls[c] EXCEPT !.phase = "error"]
    BY <1>1 DEF ModelError, Goto
<1>3. CallInv(c)'
    BY <1>1, <1>2 DEF CallInv, Waiting, Call
<1> QED
    BY <1>1, <1>3, GotoStep DEF ModelError, Phases, Settled

LEMMA ModelAnswersStep == ASSUME IInv, NEW c \in Calls, ModelAnswers(c) PROVE IInv'
<1>1. /\ calls[c] \in Call /\ calls[c].phase = "model" /\ CallInv(c)
      /\ calls \in [Calls -> Call]
    BY DEF IInv, TypeOK, ModelAnswers
<1>2. PICK flaws \in SUBSET OutputGuards :
        calls' = [calls EXCEPT ![c].phase = AfterOutput(c, flaws),
                               ![c].estimate = [by |-> c, flaws |-> flaws]]
    BY DEF ModelAnswers
<1> DEFINE r == [calls[c] EXCEPT !.phase = AfterOutput(c, flaws),
                                 !.estimate = [by |-> c, flaws |-> flaws]]
<1>3. AfterOutput(c, flaws) \in {"degraded", "success", "write"}
    BY DEF AfterOutput
<1>4. [by |-> c, flaws |-> flaws] \in Estimate
    BY DEF Estimate
<1>5. r \in Call /\ r.phase = AfterOutput(c, flaws) /\ r.hit = calls[c].hit
      /\ r.estimate = [by |-> c, flaws |-> flaws]
      /\ r.request = calls[c].request /\ r.settings = calls[c].settings
    BY <1>1, <1>3, <1>4 DEF Call, Phases
<1>6. calls' = [calls EXCEPT ![c] = r]
    BY <1>2
<1>7. calls'[c] = r
    BY <1>1, <1>6
<1> HIDE DEF r
<1>8. AfterOutput(c, flaws) \in {"success", "write"} => Approved(c)'
    BY <1>4, <1>5, <1>7 DEF AfterOutput, Approved
<1>9. AfterOutput(c, flaws) = "write" => ~calls[c].request.acb
    BY DEF AfterOutput
<1>10. CallInv(c)'
    BY <1>1, <1>3, <1>5, <1>7, <1>8, <1>9 DEF CallInv, Waiting
<1> QED
    BY <1>1, <1>5, <1>6, <1>10, CallStep DEF ModelAnswers, Settled

\* The answer of a call that leaves its write, however that went.
LEMMA AnsweredAfterWrite ==
    ASSUME IInv, NEW c \in Calls, calls[c].phase \in {"write", "expiry"},
           NEW p \in {"expiry", "success"}, Goto(c, p)
    PROVE  CallInv(c)'
<1>1. calls[c] \in Call /\ CallInv(c) /\ calls \in [Calls -> Call]
    BY DEF IInv, TypeOK
<1>2. calls'[c] = [calls[c] EXCEPT !.phase = p]
    BY <1>1 DEF Goto
<1>3. /\ calls'[c].phase = p
      /\ calls'[c].request = calls[c].request
      /\ calls'[c].settings = calls[c].settings
      /\ calls'[c].estimate = calls[c].estimate
      /\ calls'[c].hit = calls[c].hit
    BY <1>1, <1>2 DEF Call
<1>4. Approved(c)'
    BY <1>1, <1>3 DEF CallInv, Approved
<1> QED
    BY <1>1, <1>3, <1>4 DEF CallInv, Waiting

LEMMA WriteSkippedStep == ASSUME IInv, NEW c \in Calls, WriteSkipped(c) PROVE IInv'
<1>1. CallInv(c)'
    BY AnsweredAfterWrite DEF WriteSkipped
<1> QED
    BY <1>1, GotoStep DEF WriteSkipped, Phases, Settled

LEMMA ExpiryFailsStep == ASSUME IInv, NEW c \in Calls, ExpiryFails(c) PROVE IInv'
<1>1. CallInv(c)'
    BY AnsweredAfterWrite DEF ExpiryFails
<1> QED
    BY <1>1, GotoStep DEF ExpiryFails, Phases, Settled

LEMMA CallDiesStep == ASSUME IInv, NEW c \in Calls, CallDies(c) PROVE IInv'
<1>1. /\ calls[c] \in Call /\ calls[c].phase \in Waiting /\ CallInv(c)
      /\ calls \in [Calls -> Call]
    BY DEF IInv, TypeOK, CallDies
<1>2. calls'[c] = [calls[c] EXCEPT !.phase = "lost"]
    BY <1>1 DEF CallDies, Goto
<1>3. CallInv(c)'
    BY <1>1, <1>2 DEF CallInv, Waiting, Call
<1> QED
    BY <1>1, <1>3, GotoStep DEF CallDies, Phases, Settled, Waiting

\* The new entry is the approved estimate of the call that writes it.
LEMMA WriteStep == ASSUME IInv, NEW c \in Calls, Write(c) PROVE IInv'
<1>1. /\ calls[c] \in Call /\ calls[c].phase = "write" /\ CallInv(c)
      /\ calls \in [Calls -> Call]
    BY DEF IInv, TypeOK, Write
<1> DEFINE r == [calls[c] EXCEPT !.phase = "expiry"]
<1>2. r \in Call /\ r.phase = "expiry" /\ r.request = calls[c].request
      /\ r.settings = calls[c].settings
    BY <1>1 DEF Call, Phases
<1>3. calls' = [calls EXCEPT ![c] = r]
    BY DEF Write, Goto
<1>4. calls'[c] = r
    BY <1>1, <1>3
<1> HIDE DEF r
<1>5. /\ calls[c].request \in Request /\ calls[c].settings \in Settings
      /\ ~calls[c].request.acb /\ Approved(c)
    BY <1>1, PipelineAssumption DEF CallInv
<1>6. NewEntry(c) \in Entry
  <2>1. BucketOf(c) \in Bucket
      BY <1>5 DEF BucketOf, RulesVersion, Bucket, Request, Settings
  <2> QED
      BY <1>5, <2>1 DEF NewEntry, Entry, Request, Approved
<1>7. ASSUME NEW e, e = NewEntry(c) PROVE EntryInv(e)'
  <2>1. e.bucket = BucketOf(c) /\ e.text = calls[c].request.text
        /\ e.estimate = calls[c].estimate /\ e.estimate.by = c
      BY <1>5, <1>7 DEF NewEntry, Approved
  <2>2. BucketOf(c)' = BucketOf(c)
      BY <1>2, <1>4 DEF BucketOf, RulesVersion
  <2> QED
      BY <1>2, <1>4, <1>5, <2>1, <2>2 DEF EntryInv, Approved, Settled
<1>8. TypeOK'
    BY <1>2, <1>3, <1>6 DEF Write, IInv, TypeOK
<1>9. CallInv(c)'
    BY <1>1, AnsweredAfterWrite DEF Write
<1>10. (\A d \in Calls : CallInv(d)') /\ (\A e \in entries : EntryInv(e)')
    BY <1>1, <1>2, <1>3, <1>9, OthersKept DEF Settled
<1> QED
    BY <1>7, <1>8, <1>10 DEF Write, IInv

LEMMA SetExpiryStep == ASSUME IInv, NEW c \in Calls, SetExpiry(c) PROVE IInv'
<1>1. /\ calls[c] \in Call /\ calls[c].phase = "expiry" /\ CallInv(c)
      /\ calls \in [Calls -> Call] /\ entries \subseteq Entry
    BY DEF IInv, TypeOK, SetExpiry
<1> DEFINE r == [calls[c] EXCEPT !.phase = "success"]
<1>2. r \in Call /\ r.phase = "success" /\ r.request = calls[c].request
      /\ r.settings = calls[c].settings
    BY <1>1 DEF Call, Phases
<1>3. calls' = [calls EXCEPT ![c] = r]
    BY DEF SetExpiry, Goto
<1> HIDE DEF r
<1>4. CallInv(c)'
    BY <1>1, AnsweredAfterWrite DEF SetExpiry
<1>5. (\A d \in Calls : CallInv(d)') /\ (\A e \in entries : EntryInv(e)')
    BY <1>1, <1>2, <1>3, <1>4, OthersKept DEF Settled
\* Only the expiry of the entry changes.
<1>6. ASSUME NEW e \in entries'
      PROVE  e \in Entry /\ EntryInv(e)'
  <2>1. PICK o \in entries :
          e = IF o = NewEntry(c) THEN [o EXCEPT !.expiring = TRUE] ELSE o
      BY DEF SetExpiry
  <2>2. o \in Entry /\ EntryInv(o)'
      BY <1>1, <1>5
  <2>3. e \in Entry /\ e.bucket = o.bucket /\ e.text = o.text /\ e.estimate = o.estimate
      BY <2>1, <2>2 DEF Entry
  <2> QED
      BY <2>2, <2>3 DEF EntryInv
<1>7. TypeOK'
    BY <1>2, <1>3, <1>6 DEF SetExpiry, IInv, TypeOK
<1> QED
    BY <1>5, <1>6, <1>7 DEF IInv

\* What is known of the calls and entries does not depend on the settings of
\* the day.
LEMMA CallsUnchanged ==
    ASSUME IInv, UNCHANGED calls, entries' \subseteq entries, TypeOK'
    PROVE  IInv'
<1>1. ASSUME NEW c \in Calls PROVE CallInv(c)'
    BY DEF IInv, CallInv, Served, Approved, Fits
<1>2. ASSUME NEW e \in entries' PROVE EntryInv(e)'
    BY DEF IInv, EntryInv, BucketOf
<1> QED
    BY <1>1, <1>2 DEF IInv

THEOREM StepInv == IInv /\ [Next]_vars => IInv'
<1> SUFFICES ASSUME IInv, [Next]_vars PROVE IInv'
    OBVIOUS
<1>1. ASSUME NEW c \in Calls,
             \/ Receive(c) \/ Prelude(c) \/ Miss(c) \/ Hit(c) \/ ModelError(c)
             \/ ModelAnswers(c) \/ Write(c) \/ WriteSkipped(c) \/ SetExpiry(c)
             \/ ExpiryFails(c) \/ CallDies(c)
      PROVE  IInv'
    BY <1>1, ReceiveStep, PreludeStep, MissStep, HitStep, ModelErrorStep,
       ModelAnswersStep, WriteStep, WriteSkippedStep, SetExpiryStep,
       ExpiryFailsStep, CallDiesStep
<1>2. CASE EntryExpires
  <2>1. TypeOK' /\ UNCHANGED calls /\ entries' \subseteq entries
      BY <1>2 DEF EntryExpires, IInv, TypeOK
  <2> QED
      BY <2>1, CallsUnchanged
<1>3. CASE Deploy
  <2>1. TypeOK' /\ UNCHANGED calls /\ entries' \subseteq entries
      BY <1>3, PipelineAssumption DEF Deploy, IInv, TypeOK
  <2> QED
      BY <2>1, CallsUnchanged
<1>4. CASE UNCHANGED vars
  <2>1. TypeOK' /\ UNCHANGED calls /\ entries' \subseteq entries
      BY <1>4 DEF vars, IInv, TypeOK
  <2> QED
      BY <2>1, CallsUnchanged
<1> QED
    BY <1>1, <1>2, <1>3, <1>4 DEF Next

THEOREM Inductive == Spec => []IInv
<1> QED
    BY InitInv, StepInv, PTL DEF Spec

-----------------------------------------------------------------------------
\* Every variable keeps its type, for any requests and deployments.
THEOREM TypeCorrect == Spec => []TypeOK
<1>1. IInv => TypeOK
    BY DEF IInv
<1> QED
    BY <1>1, Inductive, PTL

\* If the rules version is bumped with the guardrails, every answer shown as
\* a success passes the guardrails its call enforces, wherever it comes from.
THEOREM ApprovedIfBumped == Spec => [](VersionsBumped => ServedApproved)
<1>1. ASSUME IInv, VersionsBumped PROVE ServedApproved
  <2> SUFFICES ASSUME NEW c \in Calls, calls[c].phase = "success"
               PROVE (calls[c].request.failing \cup calls[c].estimate.flaws)
                       \cap calls[c].settings.enforced = {}
      BY DEF ServedApproved
  <2>1. /\ calls[c].request.failing \cap calls[c].settings.enforced = {}
        /\ Approved(c) \/ Served(c)
      BY <1>1 DEF IInv, CallInv
  <2>2. calls[c].estimate.flaws \cap calls[c].settings.enforced = {}
      BY <1>1, <2>1 DEF Approved, Served, Fits
  <2> QED
      BY <2>1, <2>2
<1>2. IInv => (VersionsBumped => ServedApproved)
    BY <1>1
<1> QED
    BY <1>2, Inductive, PTL

\* Whoever is answered from the store gets the estimate of another call for a
\* request that fits, with any number of overlapping calls and deployments.
THEOREM FitsRequest == Spec => []ServedFitsRequest
<1>1. IInv => ServedFitsRequest
    BY DEF IInv, CallInv, Served, Fits, ServedFitsRequest, Settled
<1> QED
    BY <1>1, Inductive, PTL

\* No call is answered from the store unless it was received while serving
\* was on, and no Actor-Critic-Boss call is.
THEOREM OnlyServeMode == Spec => []OnlyServeModeServes
<1>1. IInv => OnlyServeModeServes
    BY DEF IInv, CallInv, Served, OnlyServeModeServes
<1> QED
    BY <1>1, Inductive, PTL

=============================================================================
