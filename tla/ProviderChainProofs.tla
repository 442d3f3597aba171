------------------------ MODULE ProviderChainProofs ------------------------
(***************************************************************************)
(* What holds of the provider chain for any number of calls and providers, *)
(* any length of a stream, and every setting.                              *)
(***************************************************************************)
EXTENDS ProviderChain, TLAPS

Permitted(kind) ==
    kind = "unavailable" \/ (kind = "config" /\ settings.authFallback)

(***************************************************************************)
(* What a call's locals say of each other, phase by phase.                 *)
(***************************************************************************)

\* While requirements are extracted nothing has been asked or sent.
ExtractingOK(call) ==
    call.phase = "extracting" =>
       /\ call.twoPhase
       /\ call.at \in 1 .. settings.live
       /\ call.tried = <<>> /\ call.sent = <<>> /\ call.emitted = 0
       /\ call.from = 0 /\ call.second = -1

\* The chunks sent so far, up to provider p, in the order of the chain.
InOrder(sent, p) ==
    /\ \A i \in DOMAIN sent : sent[i] <= p
    /\ \A i, j \in DOMAIN sent : i < j => sent[i] <= sent[j]

\* While the estimate is asked for, every provider before this one failed.
AnsweringOK(call) ==
    call.phase = "answering" =>
       /\ Len(call.tried) = call.at - 1
       /\ \A i \in DOMAIN call.tried : Permitted(call.tried[i])
       /\ InOrder(call.sent, call.at)
       /\ call.emitted > 0 =>
             call.sent # <<>> /\ call.sent[Len(call.sent)] = call.at
       /\ call.second = -1

FallbackOK(call) ==
    \A i \in DOMAIN call.tried :
       \/ Permitted(call.tried[i])
       \/ i = Len(call.tried) /\ call.at = i /\ call.phase = "failed"

ExtractedOK(call) ==
    call.twoPhase /\ call.phase \in {"answering", "done"} =>
       call.from \in 1 .. settings.live

WholeOK(call) ==
    call.phase = "done" =>
       /\ Len(call.tried) = call.answer - 1
       /\ call.stream =>
             /\ call.sent # <<>>
             /\ call.sent[Len(call.sent)] = call.answer
             /\ \A i, j \in DOMAIN call.sent :
                   i < j => call.sent[i] <= call.sent[j]

StaticOK(call) ==
    settings.static /\ call.phase = "failed" =>
       \/ call.twoPhase /\ call.from = 0
       \/ /\ call.tried # <<>>
          /\ LET last == call.tried[Len(call.tried)]
             IN  \/ last = "unexpected"
                 \/ last = "config" /\ ~ settings.authFallback
       \/ call.second # -1

CallOK(call) ==
    /\ call \in Call
    /\ call.at \in 1 .. ChainLength
    /\ ExtractingOK(call)
    /\ AnsweringOK(call)
    /\ FallbackOK(call)
    /\ ExtractedOK(call)
    /\ WholeOK(call)
    /\ StaticOK(call)

\* A file is written last, and every answer that should have one has one.
SecondOK(call) ==
    /\ call.phase \in {"idle", "extracting", "answering"} => call.second = -1
    /\ settings.persist /\ call.phase = "done" /\ ~ call.stream =>
          call.second \in Seconds

IInv ==
    /\ TypeOK
    /\ \A c \in Calls : CallOK(calls[c])
    /\ \A c \in Calls : SecondOK(calls[c])
    /\ AnswersSaved

-----------------------------------------------------------------------------
(* Each step of a call on its own record.                                  *)
LEMMA SettingsFacts ==
    ASSUME settings \in Settings
    PROVE  /\ settings.live \in Nat /\ settings.static \in BOOLEAN
           /\ settings.authFallback \in BOOLEAN
           /\ ChainLength \in Nat \ {0}
           /\ settings.live <= ChainLength
           /\ ChainLength <= settings.live + 1
           /\ settings.static => ChainLength = settings.live + 1
<1>1. /\ settings.live \in Nat /\ settings.static \in BOOLEAN
      /\ settings.authFallback \in BOOLEAN
      /\ settings.live > 0 \/ settings.static
  BY ChainAssumption DEF Settings
<1>. QED
  BY <1>1 DEF ChainLength

LEMMA IdleCallOK ==
    ASSUME settings \in Settings
    PROVE  CallOK(IdleCall)
<1>1. <<>> \in Seq(Failures) /\ <<>> \in Seq(Nat)
  OBVIOUS
<1>2. IdleCall \in Call
  BY <1>1 DEF IdleCall, Call, Phases, Ended
<1>3. IdleCall.at \in 1 .. ChainLength
  BY SettingsFacts DEF IdleCall
<1>. QED
  BY <1>2, <1>3
  DEF CallOK, IdleCall, ExtractingOK, AnsweringOK, FallbackOK, ExtractedOK,
      WholeOK, StaticOK

LEMMA ReceivedOK ==
    ASSUME settings \in Settings, NEW stream \in BOOLEAN, NEW twoPhase \in BOOLEAN
    PROVE  CallOK([IdleCall EXCEPT
               !.stream = stream, !.twoPhase = twoPhase,
               !.phase = IF ~ twoPhase THEN "answering"
                         ELSE IF ExtractionLength = 0 THEN "failed"
                         ELSE "extracting"])
<1> DEFINE phase == IF ~ twoPhase THEN "answering"
                    ELSE IF ExtractionLength = 0 THEN "failed"
                    ELSE "extracting"
           new == [IdleCall EXCEPT !.stream = stream, !.twoPhase = twoPhase,
                                   !.phase = phase]
<1>1. /\ IdleCall \in Call /\ IdleCall.at = 1 /\ IdleCall.from = 0
      /\ IdleCall.tried = <<>> /\ IdleCall.sent = <<>>
      /\ IdleCall.emitted = 0 /\ IdleCall.second = -1
  BY IdleCallOK DEF CallOK, IdleCall
<1>2. phase \in Phases
  BY DEF Phases, Ended
<1>3. twoPhase /\ phase = "extracting" => settings.live > 0
  BY SettingsFacts DEF ExtractionLength
<1>4. /\ phase = "extracting" => twoPhase
      /\ phase = "answering" => ~ twoPhase
      /\ phase = "failed" => twoPhase
      /\ phase # "done"
  OBVIOUS
<1> HIDE DEF phase
<1>5. new \in Call
  BY <1>1, <1>2 DEF Call
<1>6. /\ new.phase = phase /\ new.twoPhase = twoPhase
      /\ new.at = 1 /\ new.from = 0 /\ new.tried = <<>> /\ new.sent = <<>>
      /\ new.emitted = 0 /\ new.second = -1
  BY <1>1 DEF Call
<1> HIDE DEF new
<1>7. new.at \in 1 .. ChainLength
  BY <1>6, SettingsFacts
<1>8. ExtractingOK(new)
  BY <1>3, <1>4, <1>6, SettingsFacts DEF ExtractingOK
<1>9. AnsweringOK(new)
  BY <1>6 DEF AnsweringOK, InOrder
<1>10. FallbackOK(new) /\ ExtractedOK(new) /\ WholeOK(new) /\ StaticOK(new)
  BY <1>4, <1>6 DEF FallbackOK, ExtractedOK, WholeOK, StaticOK
<1>11. CallOK(new)
  BY <1>5, <1>7, <1>8, <1>9, <1>10 DEF CallOK
<1>. QED
  BY <1>11 DEF new, phase

LEMMA RefusedOK ==
    ASSUME settings \in Settings, NEW call, CallOK(call), call.phase = "idle",
           NEW stream \in BOOLEAN
    PROVE  CallOK([call EXCEPT !.phase = "refused", !.stream = stream])
<1> DEFINE new == [call EXCEPT !.phase = "refused", !.stream = stream]
<1>1. call \in Call /\ call.at \in 1 .. ChainLength /\ FallbackOK(call)
  BY DEF CallOK
<1>2. new \in Call /\ new.at \in 1 .. ChainLength
  BY <1>1 DEF Call, Phases, Ended
<1>3. FallbackOK(new)
  BY <1>1 DEF FallbackOK, Call
<1>4. /\ ExtractingOK(new) /\ AnsweringOK(new) /\ ExtractedOK(new)
      /\ WholeOK(new) /\ StaticOK(new)
  BY <1>1 DEF ExtractingOK, AnsweringOK, ExtractedOK, WholeOK, StaticOK, Call
<1>. QED
  BY <1>2, <1>3, <1>4 DEF CallOK

LEMMA ExtractedIsOK ==
    ASSUME settings \in Settings, NEW call, CallOK(call),
           call.phase = "extracting"
    PROVE  CallOK([call EXCEPT !.phase = "answering", !.from = call.at, !.at = 1])
<1> DEFINE new == [call EXCEPT !.phase = "answering", !.from = call.at, !.at = 1]
<1>1. /\ call \in Call /\ call.at \in 1 .. settings.live
      /\ call.tried = <<>> /\ call.sent = <<>> /\ call.emitted = 0
      /\ call.second = -1 /\ call.at \in Nat
  BY DEF CallOK, ExtractingOK, Call
<1>2. new \in Call /\ new.at = 1
  BY <1>1 DEF Call, Phases, Ended
<1>. new.at \in 1 .. ChainLength
  BY <1>2, SettingsFacts
<1>3. ExtractingOK(new) /\ AnsweringOK(new)
  BY <1>1 DEF ExtractingOK, AnsweringOK, InOrder, Call
<1>4. FallbackOK(new) /\ ExtractedOK(new) /\ WholeOK(new) /\ StaticOK(new)
  BY <1>1 DEF FallbackOK, ExtractedOK, WholeOK, StaticOK, Call
<1>. QED
  BY <1>2, <1>3, <1>4 DEF CallOK

LEMMA ExtractionFailedOK ==
    ASSUME settings \in Settings, NEW call, CallOK(call),
           call.phase = "extracting", NEW kind
    PROVE  CallOK(IF kind = "unexpected"
                  THEN [call EXCEPT !.phase = IF call.stream THEN "failed"
                                                            ELSE "crashed"]
                  ELSE IF call.at >= ExtractionLength
                  THEN [call EXCEPT !.phase = "failed"]
                  ELSE [call EXCEPT !.at = @ + 1])
<1>1. /\ call \in Call /\ call.at \in 1 .. settings.live /\ call.twoPhase
      /\ call.tried = <<>> /\ call.sent = <<>> /\ call.emitted = 0
      /\ call.second = -1 /\ call.from = 0
  BY DEF CallOK, ExtractingOK
<1>2. ASSUME NEW p \in {"failed", "crashed"}
      PROVE  CallOK([call EXCEPT !.phase = p])
  BY <1>1, SettingsFacts
  DEF CallOK, Call, Phases, Ended, ExtractingOK, AnsweringOK, FallbackOK,
      ExtractedOK, WholeOK, StaticOK
<1>3. ASSUME ~ (call.at >= ExtractionLength)
      PROVE  CallOK([call EXCEPT !.at = @ + 1])
  <2> DEFINE new == [call EXCEPT !.at = @ + 1]
  <2>1. call.at + 1 \in 1 .. settings.live
    BY <1>1, <1>3, SettingsFacts DEF ExtractionLength
  <2>2. new \in Call /\ new.at \in 1 .. ChainLength
    BY <1>1, <2>1, SettingsFacts DEF Call
  <2>3. ExtractingOK(new) /\ AnsweringOK(new)
    BY <1>1, <2>1 DEF ExtractingOK, AnsweringOK, Call
  <2>4. FallbackOK(new) /\ ExtractedOK(new) /\ WholeOK(new) /\ StaticOK(new)
    BY <1>1 DEF FallbackOK, ExtractedOK, WholeOK, StaticOK, Call
  <2>. QED
    BY <2>2, <2>3, <2>4 DEF CallOK
<1>. QED
  BY <1>2, <1>3

\* One more failure recorded.
LEMMA AppendFailure ==
    ASSUME NEW tried \in Seq(Failures), NEW kind \in Failures
    PROVE  /\ Append(tried, kind) \in Seq(Failures)
           /\ Len(Append(tried, kind)) = Len(tried) + 1
           /\ \A i \in DOMAIN tried : Append(tried, kind)[i] = tried[i]
           /\ Append(tried, kind)[Len(tried) + 1] = kind
           /\ DOMAIN Append(tried, kind) = DOMAIN tried \cup {Len(tried) + 1}
           /\ DOMAIN tried = 1 .. Len(tried) /\ Len(tried) \in Nat
OBVIOUS

\* A live provider fails: the call ends, or goes on with the next provider.
LEMMA AttemptFailedOK ==
    ASSUME settings \in Settings, NEW call, CallOK(call),
           call.phase = "answering", ~ IsStatic(call.at), NEW kind \in Failures
    PROVE  LET failed == [call EXCEPT !.tried = Append(@, kind)]
           IN  CallOK(IF MayFallBack(kind) THEN AskNext(failed)
                      ELSE [failed EXCEPT !.phase = "failed", !.emitted = 0])
<1> DEFINE tried == Append(call.tried, kind)
           ended == [call EXCEPT !.tried = tried, !.phase = "failed", !.emitted = 0]
           next == [call EXCEPT !.tried = tried, !.at = @ + 1, !.emitted = 0]
<1>1. /\ call \in Call /\ call.at \in 1 .. ChainLength /\ call.at \in Nat
      /\ call.tried \in Seq(Failures) /\ call.sent \in Seq(Nat)
      /\ Len(call.tried) = call.at - 1
      /\ \A i \in DOMAIN call.tried : Permitted(call.tried[i])
      /\ InOrder(call.sent, call.at)
      /\ call.second = -1
  BY DEF CallOK, AnsweringOK, Call
<1>2. /\ tried \in Seq(Failures) /\ Len(tried) = call.at
      /\ \A i \in DOMAIN tried : i = call.at \/ Permitted(tried[i])
      /\ tried[call.at] = kind
      /\ tried # <<>>
  <2>1. /\ tried \in Seq(Failures) /\ Len(tried) = Len(call.tried) + 1
        /\ \A i \in DOMAIN call.tried : tried[i] = call.tried[i]
        /\ tried[Len(call.tried) + 1] = kind
        /\ DOMAIN tried = DOMAIN call.tried \cup {Len(call.tried) + 1}
    BY <1>1, AppendFailure
  <2>2. Len(call.tried) + 1 = call.at
    BY <1>1
  <2>. QED
    BY <1>1, <2>1, <2>2
<1>3. MayFallBack(kind) <=> Permitted(kind)
  BY DEF MayFallBack, Permitted
<1> HIDE DEF tried
<1>4. ASSUME \/ ~ MayFallBack(kind)
             \/ call.at >= ChainLength
      PROVE  CallOK(ended)
  <2>1. ended \in Call /\ ended.at \in 1 .. ChainLength
    BY <1>1, <1>2 DEF Call, Phases, Ended
  <2>2. ExtractingOK(ended) /\ AnsweringOK(ended) /\ ExtractedOK(ended)
        /\ WholeOK(ended)
    BY <1>1 DEF ExtractingOK, AnsweringOK, ExtractedOK, WholeOK, Call
  <2>3. FallbackOK(ended)
    BY <1>1, <1>2 DEF FallbackOK, Call
  <2>4. StaticOK(ended)
    <3> SUFFICES ASSUME settings.static PROVE ~ MayFallBack(kind)
      BY <1>1, <1>2 DEF StaticOK, MayFallBack, Failures, Call
    <3>1. ~ (call.at >= ChainLength)
      BY <1>1, SettingsFacts DEF IsStatic
    <3>. QED
      BY <1>4, <3>1
  <2>. QED
    BY <2>1, <2>2, <2>3, <2>4 DEF CallOK
<1>5. ASSUME MayFallBack(kind), ~ (call.at >= ChainLength)
      PROVE  CallOK(next)
  <2>0. call.at + 1 \in Nat /\ call.at + 1 \in 1 .. ChainLength
    BY <1>1, <1>5, SettingsFacts
  <2>1. next \in Call /\ next.at \in 1 .. ChainLength
    BY <1>1, <1>2, <2>0 DEF Call
  <2>2. InOrder(call.sent, call.at + 1)
    <3>1. \A i \in DOMAIN call.sent : call.sent[i] \in Nat
      BY <1>1
    <3>. QED
      BY <1>1, <3>1 DEF InOrder
  <2>3. \A i \in DOMAIN tried : Permitted(tried[i])
    BY <1>2, <1>3, <1>5
  <2>4. AnsweringOK(next) /\ FallbackOK(next)
    BY <1>1, <1>2, <2>2, <2>3 DEF AnsweringOK, FallbackOK, Call
  <2>5. ExtractingOK(next) /\ ExtractedOK(next) /\ WholeOK(next) /\ StaticOK(next)
    BY <1>1 DEF ExtractingOK, CallOK, ExtractedOK, WholeOK, StaticOK, Call
  <2>. QED
    BY <2>1, <2>4, <2>5 DEF CallOK
<1>6. /\ [[call EXCEPT !.tried = tried] EXCEPT !.phase = "failed", !.emitted = 0] = ended
      /\ AskNext([call EXCEPT !.tried = tried]) =
            IF call.at >= ChainLength THEN ended ELSE next
  BY <1>1 DEF AskNext, Call
<1>. QED
  BY <1>4, <1>5, <1>6 DEF tried

\* The answer is complete, whether or not it was written to a file.
LEMMA AnsweredOK ==
    ASSUME settings \in Settings, NEW call, CallOK(call),
           call.phase = "answering", call.stream => call.emitted > 0,
           NEW second \in Seconds \cup {-1}
    PROVE  CallOK([call EXCEPT !.phase = "done", !.answer = call.at,
                               !.emitted = 0, !.second = second])
<1> DEFINE new == [call EXCEPT !.phase = "done", !.answer = call.at,
                               !.emitted = 0, !.second = second]
<1>1. /\ call \in Call /\ call.at \in 1 .. ChainLength /\ call.at \in Nat
      /\ AnsweringOK(call) /\ FallbackOK(call) /\ ExtractedOK(call)
  BY DEF CallOK, Call
<1>2. new \in Call /\ new.at \in 1 .. ChainLength
  BY <1>1 DEF Call, Phases, Ended
<1>3. WholeOK(new)
  BY <1>1 DEF WholeOK, AnsweringOK, InOrder, Call
<1>4. FallbackOK(new)
  BY <1>1 DEF FallbackOK, AnsweringOK, Call
<1>5. ExtractingOK(new) /\ AnsweringOK(new) /\ ExtractedOK(new) /\ StaticOK(new)
  BY <1>1 DEF ExtractingOK, AnsweringOK, ExtractedOK, StaticOK, Call
<1>. QED
  BY <1>2, <1>3, <1>4, <1>5 DEF CallOK

LEMMA UnsavedOK ==
    ASSUME settings \in Settings, NEW call, CallOK(call),
           call.phase = "answering", NEW second \in Seconds
    PROVE  CallOK([call EXCEPT !.phase = "failed", !.second = second])
<1> DEFINE new == [call EXCEPT !.phase = "failed", !.second = second]
<1>1. /\ call \in Call /\ call.at \in 1 .. ChainLength
      /\ AnsweringOK(call) /\ FallbackOK(call)
  BY DEF CallOK
<1>2. second # -1
  BY DEF Seconds
<1>3. new \in Call /\ new.at \in 1 .. ChainLength
  BY <1>1 DEF Call, Phases, Ended
<1>4. FallbackOK(new)
  BY <1>1 DEF FallbackOK, AnsweringOK, Call
<1>5. /\ ExtractingOK(new) /\ AnsweringOK(new) /\ ExtractedOK(new)
      /\ WholeOK(new) /\ StaticOK(new)
  BY <1>1, <1>2 DEF ExtractingOK, AnsweringOK, ExtractedOK, WholeOK, StaticOK, Call
<1>. QED
  BY <1>3, <1>4, <1>5 DEF CallOK

LEMMA ChunkSentOK ==
    ASSUME settings \in Settings, NEW call, CallOK(call),
           call.phase = "answering"
    PROVE  CallOK([call EXCEPT !.sent = Append(@, call.at), !.emitted = @ + 1])
<1> DEFINE sent == Append(call.sent, call.at)
           new == [call EXCEPT !.sent = sent, !.emitted = @ + 1]
<1>1. /\ call \in Call /\ call.at \in 1 .. ChainLength /\ call.at \in Nat
      /\ call.sent \in Seq(Nat) /\ call.emitted \in Nat
      /\ AnsweringOK(call) /\ FallbackOK(call) /\ ExtractedOK(call)
      /\ InOrder(call.sent, call.at)
  BY DEF CallOK, Call, AnsweringOK
<1>2. /\ sent \in Seq(Nat) /\ Len(sent) = Len(call.sent) + 1
      /\ \A i \in DOMAIN call.sent : sent[i] = call.sent[i]
      /\ sent[Len(sent)] = call.at
      /\ DOMAIN sent = DOMAIN call.sent \cup {Len(sent)}
      /\ DOMAIN call.sent = 1 .. Len(call.sent) /\ Len(call.sent) \in Nat
      /\ sent # <<>>
  BY <1>1
<1> HIDE DEF sent
<1>3. InOrder(sent, call.at)
  <2>1. ASSUME NEW i \in DOMAIN sent PROVE sent[i] <= call.at
    BY <1>1, <1>2 DEF InOrder
  <2>2. ASSUME NEW i \in DOMAIN sent, NEW j \in DOMAIN sent, i < j
        PROVE  sent[i] <= sent[j]
    <3>1. i \in DOMAIN call.sent
      BY <1>2, <2>2
    <3>2. CASE j \in DOMAIN call.sent
      BY <1>1, <1>2, <2>2, <3>1, <3>2 DEF InOrder
    <3>3. CASE j = Len(sent)
      BY <1>2, <2>1, <3>3
    <3>. QED
      BY <1>2, <3>2, <3>3
  <2>. QED
    BY <2>1, <2>2 DEF InOrder
<1>4. new \in Call /\ new.at \in 1 .. ChainLength
  <2>1. call.emitted + 1 \in Nat
    BY <1>1
  <2>. QED
    BY <1>1, <1>2, <2>1 DEF Call
<1>5. AnsweringOK(new)
  BY <1>1, <1>2, <1>3 DEF AnsweringOK, Call
<1>6. /\ ExtractingOK(new) /\ FallbackOK(new) /\ ExtractedOK(new)
      /\ WholeOK(new) /\ StaticOK(new)
  BY <1>1 DEF ExtractingOK, FallbackOK, ExtractedOK, WholeOK, StaticOK, Call
<1>7. CallOK(new)
  BY <1>4, <1>5, <1>6 DEF CallOK
<1>. QED
  BY <1>7 DEF sent

LEMMA GoneOK ==
    ASSUME settings \in Settings, NEW call, CallOK(call),
           call.phase \in {"extracting", "answering"}
    PROVE  CallOK([call EXCEPT !.phase = "gone"])
<1> DEFINE new == [call EXCEPT !.phase = "gone"]
<1>1. call \in Call /\ call.at \in 1 .. ChainLength /\ FallbackOK(call)
  BY DEF CallOK
<1>2. new \in Call /\ new.at \in 1 .. ChainLength
  BY <1>1 DEF Call, Phases, Ended
<1>3. FallbackOK(new)
  BY <1>1 DEF FallbackOK, Call
<1>4. /\ ExtractingOK(new) /\ AnsweringOK(new) /\ ExtractedOK(new)
      /\ WholeOK(new) /\ StaticOK(new)
  BY <1>1 DEF ExtractingOK, AnsweringOK, ExtractedOK, WholeOK, StaticOK, Call
<1>. QED
  BY <1>2, <1>3, <1>4 DEF CallOK

-----------------------------------------------------------------------------
(* The whole state.                                                        *)

\* One call's record is replaced by a good one.
LEMMA CallReplaced ==
    ASSUME IInv, settings' = settings, NEW c \in Calls, NEW new, CallOK(new),
           SecondOK(new), calls' = [calls EXCEPT ![c] = new]
    PROVE  /\ calls' \in [Calls -> Call]
           /\ (\A d \in Calls : calls[d].at \in 1 .. ChainLength)'
           /\ (\A d \in Calls : CallOK(calls[d]))'
           /\ (\A d \in Calls : SecondOK(calls[d]))'
<1>1. \A d \in Calls : calls'[d] = IF d = c THEN new ELSE calls[d]
  BY DEF IInv, TypeOK
<1>2. calls' \in [Calls -> Call]
  BY DEF IInv, TypeOK, CallOK
<1>3. \A d \in Calls : CallOK(calls'[d]) /\ SecondOK(calls'[d])
  BY <1>1 DEF IInv
<1>4. ASSUME NEW d \in Calls
      PROVE  CallOK(calls[d])' /\ SecondOK(calls[d])'
  <2>1. CallOK(calls'[d]) /\ SecondOK(calls'[d])
    BY <1>3
  <2>2. calls'[d] \in Call /\ calls'[d].at \in 1 .. ChainLength'
    BY <2>1 DEF CallOK, ChainLength
  <2>3. ExtractingOK(calls[d])' /\ ExtractedOK(calls[d])' /\ WholeOK(calls[d])'
    BY <2>1 DEF CallOK, ExtractingOK, ExtractedOK, WholeOK
  <2>4. AnsweringOK(calls[d])' /\ FallbackOK(calls[d])'
    BY <2>1 DEF CallOK, AnsweringOK, FallbackOK, InOrder, Permitted
  <2>5. StaticOK(calls[d])' /\ SecondOK(calls[d])'
    BY <2>1 DEF CallOK, StaticOK, SecondOK
  <2>. QED
    BY <2>2, <2>3, <2>4, <2>5 DEF CallOK
<1>5. \A d \in Calls : (calls[d].at \in 1 .. ChainLength)'
  BY <1>4 DEF CallOK
<1>. QED
  BY <1>2, <1>4, <1>5

\* A step that writes no file leaves the saved answers where they are.
LEMMA NothingWritten ==
    ASSUME IInv, UNCHANGED <<settings, clock, files>>, NEW c \in Calls, NEW new,
           CallOK(new), calls' = [calls EXCEPT ![c] = new],
           calls[c].phase \in {"idle", "extracting", "answering"},
           new.second = -1,
           new.phase = "done" => new.stream \/ ~ settings.persist
    PROVE  IInv'
<1>1. SecondOK(new)
  BY DEF SecondOK
<1>2. /\ calls' \in [Calls -> Call]
      /\ (\A d \in Calls : calls[d].at \in 1 .. ChainLength)'
      /\ (\A d \in Calls : CallOK(calls[d]))'
      /\ (\A d \in Calls : SecondOK(calls[d]))'
  BY <1>1, CallReplaced
<1>3. TypeOK'
  BY <1>2 DEF IInv, TypeOK
<1>4. \A d \in Calls : calls'[d].second = calls[d].second
  BY DEF IInv, TypeOK, SecondOK
<1>5. \A d \in Calls : settings.persist /\ calls'[d].phase = "done"
                          /\ ~ calls'[d].stream => calls'[d] = calls[d]
  BY DEF IInv, TypeOK
<1>6. AnswersSaved'
  BY <1>4, <1>5 DEF IInv, AnswersSaved
<1>. QED
  BY <1>2, <1>3, <1>6 DEF IInv

\* A step that writes, or fails to write, the file of this second.
LEMMA FileWritten ==
    ASSUME IInv, UNCHANGED <<settings, clock>>, NEW c \in Calls, NEW new,
           CallOK(new), calls' = [calls EXCEPT ![c] = new],
           calls[c].phase = "answering", new.second = clock,
           new.phase \in {"done", "failed"}, NEW holder \in {c, NoCall},
           new.phase = "done" => holder = c,
           \/ files' = [files EXCEPT ![clock] = holder]
           \/ files' = files /\ new.phase = "failed"
    PROVE  IInv'
<1>1. clock \in Seconds /\ files \in [Seconds -> Calls \cup {NoCall}]
  BY DEF IInv, TypeOK
<1>2. SecondOK(new)
  BY <1>1 DEF SecondOK
<1>3. /\ calls' \in [Calls -> Call]
      /\ (\A d \in Calls : calls[d].at \in 1 .. ChainLength)'
      /\ (\A d \in Calls : CallOK(calls[d]))'
      /\ (\A d \in Calls : SecondOK(calls[d]))'
  BY <1>2, CallReplaced
<1>4. TypeOK'
  BY <1>1, <1>3 DEF IInv, TypeOK
<1>5. \A d \in Calls : calls'[d] = IF d = c THEN new ELSE calls[d]
  BY DEF IInv, TypeOK
<1>6. ASSUME NEW d \in Calls, settings.persist, calls'[d].phase = "done",
             ~ calls'[d].stream
      PROVE  \/ files'[calls'[d].second] = d
             \/ \E e \in Calls \ {d} : calls'[e].second = calls'[d].second
  <2>1. CASE d = c
    BY <1>1, <1>5, <1>6, <2>1
  <2>2. CASE d # c
    <3>1. calls'[d] = calls[d] /\ calls[d].second \in Seconds
      BY <1>5, <1>6, <2>2 DEF IInv, SecondOK
    <3>2. CASE calls[d].second = clock
      BY <1>5, <2>2, <3>1, <3>2
    <3>3. CASE calls[d].second # clock
      <4>1. files'[calls[d].second] = files[calls[d].second]
        BY <1>1, <3>1, <3>3
      <4>2. calls[c].second = -1 /\ calls[d].second # -1
        BY <3>1 DEF IInv, SecondOK, Seconds
      <4>3. \/ files[calls[d].second] = d
            \/ \E e \in Calls \ {d} : calls[e].second = calls[d].second
        BY <1>6, <3>1 DEF IInv, AnswersSaved
      <4>4. ASSUME NEW e \in Calls \ {d}, calls[e].second = calls[d].second
            PROVE  calls'[e].second = calls'[d].second
        BY <1>5, <3>1, <4>2, <4>4
      <4>. QED
        BY <3>1, <4>1, <4>3, <4>4
    <3>. QED
      BY <3>2, <3>3
  <2>. QED
    BY <2>1, <2>2
<1>7. AnswersSaved'
  BY <1>6 DEF AnswersSaved
<1>. QED
  BY <1>3, <1>4, <1>7 DEF IInv

LEMMA InitIInv == Init => IInv
<1> SUFFICES ASSUME Init PROVE IInv
  OBVIOUS
<1>1. settings \in Settings /\ CallOK(IdleCall)
  BY IdleCallOK DEF Init
<1>2. \A c \in Calls : calls[c] = IdleCall
  BY DEF Init
<1>3. 0 \in Seconds
  BY ChainAssumption DEF Seconds
<1>4. TypeOK
  BY <1>1, <1>3 DEF Init, TypeOK, CallOK
<1>5. \A c \in Calls : CallOK(calls[c])
  BY <1>1, <1>2
<1>6. SecondOK(IdleCall) /\ IdleCall.phase = "idle"
  BY DEF SecondOK, IdleCall
<1>7. AnswersSaved
  BY <1>2, <1>6 DEF AnswersSaved
<1>. QED
  BY <1>2, <1>4, <1>5, <1>6, <1>7 DEF IInv

-----------------------------------------------------------------------------
(* One lemma per action.                                                   *)
LEMMA CallFacts ==
    ASSUME IInv, NEW c \in Calls
    PROVE  /\ settings \in Settings /\ calls \in [Calls -> Call]
           /\ CallOK(calls[c]) /\ SecondOK(calls[c]) /\ calls[c] \in Call
BY DEF IInv, TypeOK

LEMMA ReceiveIInv ==
    ASSUME IInv, NEW c \in Calls, NEW stream \in BOOLEAN, NEW twoPhase \in BOOLEAN,
           Receive(c, stream, twoPhase)
    PROVE  IInv'
<1> DEFINE new == [IdleCall EXCEPT
               !.stream = stream, !.twoPhase = twoPhase,
               !.phase = IF ~ twoPhase THEN "answering"
                         ELSE IF ExtractionLength = 0 THEN "failed"
                         ELSE "extracting"]
<1>1. CallOK(new)
  BY CallFacts, ReceivedOK
<1>2. /\ calls[c].phase = "idle" /\ calls' = [calls EXCEPT ![c] = new]
      /\ UNCHANGED <<settings, clock, files>>
  BY DEF Receive
<1>3. new.second = -1 /\ new.phase # "done"
  BY DEF IdleCall
<1> HIDE DEF new
<1>. QED
  BY <1>1, <1>2, <1>3, NothingWritten

LEMMA RefuseIInv ==
    ASSUME IInv, NEW c \in Calls, NEW stream \in BOOLEAN, Refuse(c, stream)
    PROVE  IInv'
<1> DEFINE new == [calls[c] EXCEPT !.phase = "refused", !.stream = stream]
<1>1. CallOK(new)
  BY CallFacts, RefusedOK DEF Refuse
<1>2. /\ calls[c].phase = "idle" /\ calls' = [calls EXCEPT ![c] = new]
      /\ UNCHANGED <<settings, clock, files>>
  BY CallFacts DEF Refuse
<1>3. new.second = -1 /\ new.phase # "done"
  BY <1>2, CallFacts DEF SecondOK, Call
<1> HIDE DEF new
<1>. QED
  BY <1>1, <1>2, <1>3, NothingWritten

LEMMA ExtractIInv ==
    ASSUME IInv, NEW c \in Calls, Extract(c)
    PROVE  IInv'
<1> DEFINE new == [calls[c] EXCEPT !.phase = "answering",
                                   !.from = calls[c].at, !.at = 1]
<1>1. CallOK(new)
  BY CallFacts, ExtractedIsOK DEF Extract
<1>2. /\ calls[c].phase = "extracting" /\ calls' = [calls EXCEPT ![c] = new]
      /\ UNCHANGED <<settings, clock, files>>
  BY DEF Extract
<1>3. new.second = -1 /\ new.phase # "done"
  BY <1>2, CallFacts DEF SecondOK, Call
<1> HIDE DEF new
<1>. QED
  BY <1>1, <1>2, <1>3, NothingWritten

LEMMA ExtractionFailsIInv ==
    ASSUME IInv, NEW c \in Calls, NEW cause \in Causes, ExtractionFails(c, cause)
    PROVE  IInv'
<1> DEFINE call == calls[c]
           new == IF Mapped(cause) = "unexpected"
                  THEN [call EXCEPT !.phase = IF call.stream THEN "failed"
                                                            ELSE "crashed"]
                  ELSE IF call.at >= ExtractionLength
                  THEN [call EXCEPT !.phase = "failed"]
                  ELSE [call EXCEPT !.at = @ + 1]
<1>1. CallOK(new)
  BY CallFacts, ExtractionFailedOK DEF ExtractionFails
<1>2. /\ calls[c].phase = "extracting" /\ calls' = [calls EXCEPT ![c] = new]
      /\ UNCHANGED <<settings, clock, files>>
  BY DEF ExtractionFails
<1>3. new.second = -1 /\ new.phase # "done"
  BY <1>2, CallFacts DEF SecondOK, Call
<1> HIDE DEF new
<1>. QED
  BY <1>1, <1>2, <1>3, NothingWritten

LEMMA AttemptFailsIInv ==
    ASSUME IInv, NEW c \in Calls, NEW cause \in Causes, AttemptFails(c, cause)
    PROVE  IInv'
<1> DEFINE failed == [calls[c] EXCEPT !.tried = Append(@, Mapped(cause))]
           new == IF MayFallBack(Mapped(cause)) THEN AskNext(failed)
                  ELSE [failed EXCEPT !.phase = "failed", !.emitted = 0]
<1>1. Mapped(cause) \in Failures
  BY DEF Mapped, Failures
<1>2. CallOK(new)
  BY <1>1, CallFacts, AttemptFailedOK DEF AttemptFails
<1>3. /\ calls[c].phase = "answering" /\ calls' = [calls EXCEPT ![c] = new]
      /\ UNCHANGED <<settings, clock, files>>
  BY DEF AttemptFails
<1>4. failed.second = -1 /\ failed.phase = "answering"
  BY <1>3, CallFacts DEF SecondOK, Call
<1>5. new.second = -1 /\ new.phase # "done"
  BY <1>4, CallFacts DEF AskNext, Call
<1> HIDE DEF new
<1>. QED
  BY <1>2, <1>3, <1>5, NothingWritten

LEMMA CompleteIInv ==
    ASSUME IInv, NEW c \in Calls, Complete(c)
    PROVE  IInv'
<1> DEFINE new == [calls[c] EXCEPT !.phase = "done", !.answer = calls[c].at,
                                   !.emitted = 0, !.second = -1]
<1>1. /\ calls[c].phase = "answering" /\ ~ calls[c].stream
      /\ calls[c].second = -1 /\ ~ settings.persist
      /\ UNCHANGED <<settings, clock, files>>
  BY CallFacts DEF Complete, Answering, SecondOK
<1>2. CallOK(new)
  BY <1>1, CallFacts, AnsweredOK
<1>3. new = Answered(c)
  BY <1>1, CallFacts DEF Answered, Call
<1>4. calls' = [calls EXCEPT ![c] = new]
  BY <1>3 DEF Complete
<1>5. new.second = -1
  BY CallFacts DEF Call
<1> HIDE DEF new
<1>. QED
  BY <1>1, <1>2, <1>4, <1>5, NothingWritten

LEMMA CompleteAndSaveIInv ==
    ASSUME IInv, NEW c \in Calls, CompleteAndSave(c)
    PROVE  IInv'
<1> DEFINE new == [calls[c] EXCEPT !.phase = "done", !.answer = calls[c].at,
                                   !.emitted = 0, !.second = clock]
<1>1. /\ calls[c].phase = "answering" /\ ~ calls[c].stream
      /\ UNCHANGED <<settings, clock>>
      /\ files' = [files EXCEPT ![clock] = c]
      /\ clock \in Seconds
  BY DEF CompleteAndSave, Answering, FileSecond, IInv, TypeOK
<1>2. CallOK(new)
  BY <1>1, CallFacts, AnsweredOK
<1>3. new = [Answered(c) EXCEPT !.second = clock]
  BY <1>1, CallFacts DEF Answered, Call
<1>4. calls' = [calls EXCEPT ![c] = new]
  BY <1>3 DEF CompleteAndSave
<1>5. new.second = clock /\ new.phase = "done"
  BY CallFacts DEF Call
<1> HIDE DEF new
<1>. QED
  BY <1>1, <1>2, <1>4, <1>5, FileWritten

LEMMA SaveFailsIInv ==
    ASSUME IInv, NEW c \in Calls, SaveFails(c)
    PROVE  IInv'
<1> DEFINE new == [calls[c] EXCEPT !.phase = "failed", !.second = clock]
<1>1. /\ calls[c].phase = "answering"
      /\ UNCHANGED <<settings, clock>>
      /\ files' = files \/ files' = [files EXCEPT ![clock] = NoCall]
      /\ clock \in Seconds
  BY DEF SaveFails, Answering, FileSecond, IInv, TypeOK
<1>2. CallOK(new)
  BY <1>1, CallFacts, UnsavedOK
<1>3. calls' = [calls EXCEPT ![c] = new]
  BY CallFacts DEF SaveFails
<1>4. new.second = clock /\ new.phase = "failed"
  BY CallFacts DEF Call
<1> HIDE DEF new
<1>. QED
  BY <1>1, <1>2, <1>3, <1>4, FileWritten

LEMMA SendChunkIInv ==
    ASSUME IInv, NEW c \in Calls, SendChunk(c)
    PROVE  IInv'
<1> DEFINE new == [calls[c] EXCEPT !.sent = Append(@, calls[c].at),
                                   !.emitted = @ + 1]
<1>1. /\ calls[c].phase = "answering"
      /\ UNCHANGED <<settings, clock, files>>
  BY DEF SendChunk, Answering
<1>2. CallOK(new)
  BY <1>1, CallFacts, ChunkSentOK
<1>3. calls' = [calls EXCEPT ![c] = new]
  BY CallFacts DEF SendChunk
<1>4. new.second = -1 /\ new.phase # "done"
  BY <1>1, CallFacts DEF SecondOK, Call
<1> HIDE DEF new
<1>. QED
  BY <1>1, <1>2, <1>3, <1>4, NothingWritten

LEMMA EndStreamIInv ==
    ASSUME IInv, NEW c \in Calls, EndStream(c)
    PROVE  IInv'
<1> DEFINE new == [calls[c] EXCEPT !.phase = "done", !.answer = calls[c].at,
                                   !.emitted = 0, !.second = -1]
<1>1. /\ calls[c].phase = "answering" /\ calls[c].stream
      /\ calls[c].emitted > 0 /\ calls[c].second = -1
      /\ UNCHANGED <<settings, clock, files>>
  BY CallFacts DEF EndStream, Answering, SecondOK
<1>2. CallOK(new)
  BY <1>1, CallFacts, AnsweredOK
<1>3. new = Answered(c)
  BY <1>1, CallFacts DEF Answered, Call
<1>4. calls' = [calls EXCEPT ![c] = new]
  BY <1>3 DEF EndStream
<1>5. new.second = -1 /\ new.stream
  BY <1>1, CallFacts DEF Call
<1> HIDE DEF new
<1>. QED
  BY <1>1, <1>2, <1>4, <1>5, NothingWritten

LEMMA DisconnectIInv ==
    ASSUME IInv, NEW c \in Calls, Disconnect(c)
    PROVE  IInv'
<1> DEFINE new == [calls[c] EXCEPT !.phase = "gone"]
<1>1. /\ calls[c].phase \in {"extracting", "answering"}
      /\ UNCHANGED <<settings, clock, files>>
  BY DEF Disconnect
<1>2. CallOK(new)
  BY <1>1, CallFacts, GoneOK
<1>3. calls' = [calls EXCEPT ![c] = new]
  BY CallFacts DEF Disconnect
<1>4. new.second = -1 /\ new.phase # "done"
  BY <1>1, CallFacts DEF SecondOK, Call
<1> HIDE DEF new
<1>. QED
  BY <1>1, <1>2, <1>3, <1>4, NothingWritten

\* Nothing in the invariant speaks of the clock but its type.
LEMMA ClockIInv ==
    ASSUME IInv, UNCHANGED <<settings, calls, files>>, clock' \in Seconds
    PROVE  IInv'
<1>1. TypeOK' /\ AnswersSaved'
  BY DEF IInv, TypeOK, AnswersSaved, ChainLength
<1>2. ASSUME NEW d \in Calls PROVE CallOK(calls[d])' /\ SecondOK(calls[d])'
  BY DEF IInv, CallOK, SecondOK, ChainLength, ExtractingOK, AnsweringOK,
         FallbackOK, ExtractedOK, WholeOK, StaticOK, InOrder, Permitted
<1>. QED
  BY <1>1, <1>2 DEF IInv

LEMMA NextIInv == IInv /\ [Next]_vars => IInv'
<1> SUFFICES ASSUME IInv, [Next]_vars PROVE IInv'
  OBVIOUS
<1>1. ASSUME NEW c \in Calls, Progress(c) PROVE IInv'
  BY <1>1, ExtractIInv, ExtractionFailsIInv, AttemptFailsIInv, CompleteIInv,
     CompleteAndSaveIInv, SaveFailsIInv, SendChunkIInv, EndStreamIInv
  DEF Progress
<1>2. ASSUME NEW c \in Calls,
             \/ \E stream \in BOOLEAN :
                   \/ \E twoPhase \in BOOLEAN : Receive(c, stream, twoPhase)
                   \/ Refuse(c, stream)
             \/ Disconnect(c)
      PROVE  IInv'
  BY <1>2, ReceiveIInv, RefuseIInv, DisconnectIInv
<1>3. CASE Tick
  BY <1>3, ChainAssumption, ClockIInv DEF Tick, Seconds, IInv, TypeOK
<1>4. CASE UNCHANGED vars
  BY <1>4, ClockIInv DEF vars, IInv, TypeOK
<1>. QED
  BY <1>1, <1>2, <1>3, <1>4 DEF Next

LEMMA SpecIInv == Spec => []IInv
<1>. QED
  BY InitIInv, NextIInv, PTL DEF Spec

-----------------------------------------------------------------------------
(* The theorems.                                                           *)

(* Every call's record, the clock and the files stay within their types,   *)
(* and the loops over the chain (EstimationService.estimate,               *)
(* stream_estimation) never index past its end.                            *)
THEOREM TypeCorrect == Spec => []TypeOK
<1>1. IInv => TypeOK
  BY DEF IInv
<1>. QED
  BY <1>1, SpecIInv, PTL

(* No provider is asked after a failure that forbids it: an unexpected     *)
(* exception, or a configuration error while LLM_AUTH_FALLBACK is off.     *)
THEOREM FallbackPermitted == Spec => []OnlyPermittedFallback
<1>1. IInv => OnlyPermittedFallback
  BY DEF IInv, CallOK, FallbackOK, Permitted, OnlyPermittedFallback
<1>. QED
  BY <1>1, SpecIInv, PTL

(* The static text never stands in for the requirements of a call in two   *)
(* phases (_extract_requirements_two_phase skips the static provider).     *)
THEOREM ExtractionLive == Spec => []ExtractedByLive
<1>1. IInv => ExtractedByLive
  BY DEF IInv, CallOK, ExtractedOK, ExtractedByLive
<1>. QED
  BY <1>1, SpecIInv, PTL

(* A finished call ends with the whole text of the one provider that did   *)
(* not fail, after every one before it did, whatever was streamed before.  *)
THEOREM WholeAnswers == Spec => []AnswerIsWhole
<1>1. IInv => AnswerIsWhole
  BY DEF IInv, CallOK, WholeOK, AnswerIsWhole
<1>. QED
  BY <1>1, SpecIInv, PTL

(* With the static fallback in the chain only what it does not cover turns *)
(* a call away.                                                            *)
THEOREM StaticAlwaysAnswers == Spec => []StaticAnswers
<1>1. IInv => StaticAnswers
  BY DEF IInv, CallOK, StaticOK, StaticAnswers
<1>. QED
  BY <1>1, SpecIInv, PTL

(* A saved answer is still in its file unless another call wrote, or tried *)
(* to, in the same second (persist_estimation_output).                     *)
THEOREM SavedAnswers == Spec => []AnswersSaved
<1>1. IInv => AnswersSaved
  BY DEF IInv
<1>. QED
  BY <1>1, SpecIInv, PTL
=============================================================================
