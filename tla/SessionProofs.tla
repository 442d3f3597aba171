---------------------------- MODULE SessionProofs ----------------------------
(***************************************************************************)
(* What holds of a session for every set of submits, every window size and *)
(* every interleaving of their segments; and of the page that shows the    *)
(* sessions, for any number of them, of clicks and of restarts.            *)
(***************************************************************************)
EXTENDS SessionSubmit, WebSession, SequenceTheorems, FiniteSetTheorems, TLAPS

(***************************************************************************)
(* The helpers of ConversationHistory.                                     *)
(***************************************************************************)
LEMMA MessageTypes ==
    ASSUME NEW r \in Requests, NEW n \in Nat
    PROVE  /\ UserMessage(r, n) \in Message
           /\ AssistantMessage(r) \in Message
           /\ SystemMessage \in Message
           /\ SummaryMessage \in Message
BY DEF UserMessage, AssistantMessage, SystemMessage, SummaryMessage, Message

LEMMA LongestType ==
    ASSUME NEW s \in Seq(Message), NEW n \in Nat
    PROVE  Longest(s, n) \in Seq(Message)
<1> DEFINE len == IF Len(s) <= n THEN Len(s) ELSE n
<1>1. len \in Int /\ \A i \in 1 .. len : s[i] \in Message
  OBVIOUS
<1>2. SubSeq(s, 1, len) \in Seq(Message)
  BY <1>1, SubSeqProperties
<1>. QED
  BY <1>2 DEF Longest

\* Two messages appended to a sequence.
LEMMA AppendTwo ==
    ASSUME NEW ts \in Seq(Message), NEW u \in Message, NEW a \in Message
    PROVE  LET s == Append(Append(ts, u), a)
           IN  /\ s \in Seq(Message)
               /\ Len(s) = Len(ts) + 2
               /\ \A i \in 1 .. Len(ts) : s[i] = ts[i]
               /\ s[Len(ts) + 1] = u
               /\ s[Len(ts) + 2] = a
OBVIOUS

\* The first pair of a sequence cut off.
LEMMA DropPair ==
    ASSUME NEW s \in Seq(Message), 2 <= Len(s)
    PROVE  LET t == SubSeq(s, 3, Len(s))
           IN  /\ t \in Seq(Message)
               /\ Len(t) = Len(s) - 2
               /\ \A i \in 1 .. Len(s) - 2 : t[i] = s[i + 2]
               /\ SubSeq(s, 1, 2) \in Seq(Message)
<1>1. \A i \in 3 .. Len(s) : s[i] \in Message
  OBVIOUS
<1>2. \A i \in 1 .. 2 : s[i] \in Message
  OBVIOUS
<1>3. /\ SubSeq(s, 3, Len(s)) \in Seq(Message)
      /\ Len(SubSeq(s, 3, Len(s))) = IF 3 <= Len(s) THEN Len(s) - 3 + 1 ELSE 0
      /\ \A i \in 1 .. Len(s) - 3 + 1 : SubSeq(s, 3, Len(s))[i] = s[3 + i - 1]
  BY <1>1, SubSeqProperties
<1>4. SubSeq(s, 1, 2) \in Seq(Message)
  BY <1>2, SubSeqProperties
<1>5. Len(s) \in Nat
  OBVIOUS
<1>6. Len(SubSeq(s, 3, Len(s))) = Len(s) - 2
  <2>1. CASE 3 <= Len(s)
    BY <1>3, <1>5, <2>1
  <2>2. CASE Len(s) = 2
    <3>1. Len(SubSeq(s, 3, Len(s))) = 0
      BY <1>3, <2>2
    <3>. QED
      BY <2>2, <3>1
  <2>3. 3 <= Len(s) \/ Len(s) = 2
    <3>1. \A n \in Nat : 2 <= n => 3 <= n \/ n = 2
      OBVIOUS
    <3>. QED
      BY <1>5, <3>1
  <2>. QED
    BY <2>1, <2>2, <2>3
<1>7. ASSUME NEW i \in 1 .. Len(s) - 2
      PROVE  SubSeq(s, 3, Len(s))[i] = s[i + 2]
  <2>1. i \in 1 .. Len(s) - 3 + 1 /\ 3 + i - 1 = i + 2
    BY <1>5
  <2>2. SubSeq(s, 3, Len(s))[i] = s[3 + i - 1]
    BY <1>3, <2>1
  <2>. QED
    BY <2>1, <2>2
<1>. QED
  BY <1>3, <1>4, <1>6, <1>7

\* A window of whole turns, and nothing else, is what every submit finds.
WholeTurns(ts) ==
    /\ ts \in Seq(Message)
    /\ Len(ts) % 2 = 0
    /\ Len(ts) <= 2 * MaxTurns
    /\ \A i \in 1 .. Len(ts) : ts[i].role = ExpectedRole(i)

\* Half of a window of whole turns.
LEMMA HalfOfEven ==
    ASSUME NEW n \in Nat, n % 2 = 0
    PROVE  /\ n = 2 * (n \div 2)
           /\ (n + 1) \div 2 = n \div 2
           /\ (n + 2) \div 2 = (n \div 2) + 1
           /\ (n + 2) % 2 = 0
           /\ n \div 2 \in Nat
OBVIOUS

(* The window without compression: the user message leaves it alone, the   *)
(* assistant message pushes the oldest pair out of a full one.             *)
LEMMA EnforceWindowEffect ==
    ASSUME NEW old, WholeTurns(old),
           NEW s \in Seq(Message)
    PROVE  /\ Len(s) = Len(old) + 1 => EnforceWindow(s) = s
           /\ Len(s) = Len(old) + 2 =>
                 EnforceWindow(s) = IF Len(old) = 2 * MaxTurns
                                    THEN SubSeq(s, 3, Len(s)) ELSE s
<1> DEFINE half == Len(old) \div 2
<1>1. MaxTurns \in Nat \ {0}
  BY HistoryAssumption
<1>2. Len(old) \in Nat /\ Len(old) % 2 = 0 /\ Len(old) <= 2 * MaxTurns
  BY DEF WholeTurns
<1>3. /\ Len(old) = 2 * half
      /\ (Len(old) + 1) \div 2 = half
      /\ (Len(old) + 2) \div 2 = half + 1
      /\ half \in Nat
  BY <1>2, HalfOfEven
<1> HIDE DEF half
<1>4. ASSUME Len(s) = Len(old) + 1
      PROVE  EnforceWindow(s) = s
  BY <1>1, <1>2, <1>3, <1>4 DEF EnforceWindow
<1>5. ASSUME Len(s) = Len(old) + 2
      PROVE  EnforceWindow(s) = IF Len(old) = 2 * MaxTurns
                                THEN SubSeq(s, 3, Len(s)) ELSE s
  <2>1. (Len(s) \div 2) - MaxTurns = half + 1 - MaxTurns
    BY <1>1, <1>2, <1>3, <1>5
  <2>2. CASE Len(old) = 2 * MaxTurns
    <3>1. half + 1 - MaxTurns = 1
      BY <1>1, <1>3, <2>2
    <3>. QED
      BY <2>1, <2>2, <3>1 DEF EnforceWindow
  <2>3. CASE Len(old) # 2 * MaxTurns
    <3>1. ~ (half + 1 - MaxTurns > 0)
      BY <1>1, <1>2, <1>3, <2>3
    <3>. QED
      BY <2>1, <2>3, <3>1 DEF EnforceWindow
  <2>. QED
    BY <2>2, <2>3
<1>. QED
  BY <1>4, <1>5

(* One more turn under compression: a full window evicts its oldest turn,  *)
(* whole, to the anchors or to the summary.                                *)
LEMMA CompressEffect ==
    ASSUME NEW old, WholeTurns(old),
           NEW g \in History,
           Len(g.turns) = Len(old) + 2,
           \A i \in 1 .. Len(old) : g.turns[i] = old[i]
    PROVE  /\ Compress(g) \in History
           /\ Compress(g).turns = IF Len(old) = 2 * MaxTurns
                                  THEN SubSeq(g.turns, 3, Len(g.turns))
                                  ELSE g.turns
<1>1. MaxTurns \in Nat \ {0} /\ SummaryCap \in Nat
  BY HistoryAssumption
<1>2. Len(old) \in Nat /\ Len(old) % 2 = 0 /\ Len(old) <= 2 * MaxTurns
  BY DEF WholeTurns
<1>3. /\ g.turns \in Seq(Message) /\ g.anchors \in Seq(Message)
      /\ g.summary \in Seq(Message)
  BY DEF History
<1>4. CASE Len(old) # 2 * MaxTurns
  <2>1. Compress(g) = g
    <3>1. Len(old) = 2 * (Len(old) \div 2) /\ Len(old) \div 2 \in Nat
      BY <1>2, HalfOfEven
    <3>2. ~ (Len(g.turns) > 2 * MaxTurns)
      BY <1>1, <1>2, <1>4, <3>1
    <3>. QED
      BY <3>2 DEF Compress
  <2>. QED
    BY <1>4, <2>1
<1>5. CASE Len(old) = 2 * MaxTurns
  <2> DEFINE first == SubSeq(g.turns, 1, 2)
             rest == SubSeq(g.turns, 3, Len(g.turns))
  <2>1. Compress(g) = EvictFirst(g)
    BY <1>1, <1>5 DEF Compress
  <2>2. IsTurn(g.turns[1], g.turns[2])
    <3>1. 1 \in 1 .. Len(old) /\ 2 \in 1 .. Len(old)
      BY <1>1, <1>5
    <3>2. old[1].role = "user" /\ old[2].role = "assistant"
      BY <3>1 DEF WholeTurns, ExpectedRole
    <3>. QED
      BY <3>1, <3>2 DEF IsTurn
  <2>3. rest \in Seq(Message) /\ first \in Seq(Message)
    BY <1>2, <1>3, DropPair
  <2> HIDE DEF first, rest
  <2>4. CASE g.turns[1].req \in Anchored
    <3>1. EvictFirst(g) = [g EXCEPT !.turns = rest, !.anchors = @ \o first]
      BY <2>2, <2>4 DEF EvictFirst, first, rest
    <3>2. g.anchors \o first \in Seq(Message)
      BY <1>3, <2>3
    <3>. QED
      BY <1>3, <1>5, <2>1, <2>3, <3>1, <3>2 DEF History, rest
  <2>5. CASE g.turns[1].req \notin Anchored
    <3>1. EvictFirst(g) = [g EXCEPT !.turns = rest,
                              !.summary = Longest(@ \o first, SummaryCap)]
      BY <2>2, <2>5 DEF EvictFirst, first, rest
    <3>2. g.summary \o first \in Seq(Message)
      BY <1>3, <2>3
    <3>3. Longest(g.summary \o first, SummaryCap) \in Seq(Message)
      BY <1>1, <3>2, LongestType
    <3>. QED
      BY <1>3, <1>5, <2>1, <2>3, <3>1, <3>3 DEF History, rest
  <2>. QED
    BY <2>4, <2>5
<1>. QED
  BY <1>4, <1>5

(* What remembering one more turn does to such a window, with compression  *)
(* and without: it is appended, and the oldest turn leaves a full window.  *)
LEMMA RememberTurnWindow ==
    ASSUME NEW h \in History, NEW r \in Requests, NEW n \in Nat,
           WholeTurns(h.turns),
           NEW both, both = Append(Append(h.turns, UserMessage(r, n)),
                                   AssistantMessage(r))
    PROVE  /\ RememberTurn(h, r, n) \in History
           /\ RememberTurn(h, r, n).turns =
                 IF Len(h.turns) = 2 * MaxTurns
                 THEN SubSeq(both, 3, Len(both)) ELSE both
<1> DEFINE old == h.turns
           u == UserMessage(r, n)
           a == AssistantMessage(r)
<1>1. /\ old \in Seq(Message) /\ h.anchors \in Seq(Message)
      /\ h.summary \in Seq(Message)
  BY DEF History
<1>2. u \in Message /\ a \in Message
  BY MessageTypes
<1>3. /\ both \in Seq(Message)
      /\ Len(both) = Len(old) + 2
      /\ \A i \in 1 .. Len(old) : both[i] = old[i]
  BY <1>1, <1>2, AppendTwo
<1>4. CASE ~ h.compressed
  <2>1. Append(old, u) \in Seq(Message) /\ Len(Append(old, u)) = Len(old) + 1
    BY <1>1, <1>2
  <2>2. EnforceWindow(Append(old, u)) = Append(old, u)
    BY <2>1, EnforceWindowEffect
  <2>3. RememberTurn(h, r, n) = [h EXCEPT !.turns = EnforceWindow(both)]
    BY <1>4, <2>2 DEF RememberTurn, AddUserMessage, AddAssistantMessage, History
  <2>4. EnforceWindow(both) = IF Len(old) = 2 * MaxTurns
                              THEN SubSeq(both, 3, Len(both)) ELSE both
    BY <1>3, EnforceWindowEffect
  <2>5. SubSeq(both, 3, Len(both)) \in Seq(Message)
    BY <1>1, <1>3, DropPair
  <2>. QED
    BY <1>1, <1>3, <2>3, <2>4, <2>5 DEF History
<1>5. CASE h.compressed
  <2> DEFINE g == [h EXCEPT !.turns = both]
  <2>1. RememberTurn(h, r, n) = Compress(g)
    BY <1>5 DEF RememberTurn, AddUserMessage, AddAssistantMessage, History
  <2>2. g \in History /\ g.turns = both
    BY <1>1, <1>3 DEF History
  <2> HIDE DEF g
  <2>3. /\ Compress(g) \in History
        /\ Compress(g).turns = IF Len(old) = 2 * MaxTurns
                               THEN SubSeq(both, 3, Len(both)) ELSE both
    BY <1>3, <2>2, CompressEffect
  <2>. QED
    BY <2>1, <2>3
<1>. QED
  BY <1>4, <1>5

\* A session never changes between the window and the policy.
LEMMA RememberTurnKeepsPolicy ==
    ASSUME NEW h \in History, NEW r \in Requests, NEW n \in Nat
    PROVE  RememberTurn(h, r, n).compressed = h.compressed
<1>1. ASSUME NEW g \in History
      PROVE  Compress(g).compressed = g.compressed
  BY DEF Compress, EvictFirst, History
<1>2. CASE ~ h.compressed
  BY <1>2 DEF RememberTurn, AddUserMessage, AddAssistantMessage, History
<1>3. CASE h.compressed
  <2> DEFINE g == [h EXCEPT !.turns = Append(Append(h.turns, UserMessage(r, n)),
                                             AssistantMessage(r))]
  <2>1. RememberTurn(h, r, n) = Compress(g)
    BY <1>3 DEF RememberTurn, AddUserMessage, AddAssistantMessage, History
  <2>2. g \in History /\ g.compressed = h.compressed
    <3>1. h.turns \in Seq(Message)
      BY DEF History
    <3>2. Append(Append(h.turns, UserMessage(r, n)), AssistantMessage(r))
             \in Seq(Message)
      BY <3>1, MessageTypes, AppendTwo
    <3>. QED
      BY <3>2 DEF History
  <2>. QED
    BY <1>1, <2>1, <2>2
<1>. QED
  BY <1>2, <1>3

-----------------------------------------------------------------------------
(* The same in terms of positions: new is old with r's turn at its end,    *)
(* and the oldest turn gone if old was full.                               *)
Cut(old) == IF Len(old) = 2 * MaxTurns THEN 2 ELSE 0

TurnPushed(old, new, r, n) ==
    /\ new \in Seq(Message)
    /\ Len(new) = Len(old) + 2 - Cut(old)
    /\ \A i \in 1 .. Len(old) - Cut(old) : new[i] = old[i + Cut(old)]
    /\ new[Len(new) - 1] = UserMessage(r, n)
    /\ new[Len(new)] = AssistantMessage(r)

LEMMA RememberTurnPushes ==
    ASSUME NEW h \in History, NEW r \in Requests, NEW n \in Nat,
           WholeTurns(h.turns)
    PROVE  /\ RememberTurn(h, r, n) \in History
           /\ TurnPushed(h.turns, RememberTurn(h, r, n).turns, r, n)
<1> DEFINE old == h.turns
           new == RememberTurn(h, r, n).turns
           both == Append(Append(old, UserMessage(r, n)), AssistantMessage(r))
<1>1. MaxTurns \in Nat \ {0} /\ old \in Seq(Message) /\ Len(old) \in Nat
  BY HistoryAssumption DEF History
<1>2. /\ both \in Seq(Message)
      /\ Len(both) = Len(old) + 2
      /\ \A i \in 1 .. Len(old) : both[i] = old[i]
      /\ both[Len(old) + 1] = UserMessage(r, n)
      /\ both[Len(old) + 2] = AssistantMessage(r)
  BY <1>1, MessageTypes, AppendTwo
<1>3. /\ RememberTurn(h, r, n) \in History
      /\ new = IF Len(old) = 2 * MaxTurns
               THEN SubSeq(both, 3, Len(both)) ELSE both
  BY RememberTurnWindow
<1> HIDE DEF both, new, old
<1>4. CASE Len(old) = 2 * MaxTurns
  <2>1. /\ new \in Seq(Message)
        /\ Len(new) = Len(both) - 2
        /\ \A i \in 1 .. Len(both) - 2 : new[i] = both[i + 2]
    BY <1>1, <1>2, <1>3, <1>4, DropPair
  <2>2. Len(new) = Len(old)
    BY <1>1, <1>2, <2>1
  <2>3. \A i \in 1 .. Len(old) - 2 : new[i] = old[i + 2]
    BY <1>1, <1>2, <2>1
  <2>4. Len(old) >= 2
    BY <1>1, <1>4
  <2>5. /\ new[Len(old) - 1] = both[Len(old) + 1]
        /\ new[Len(old)] = both[Len(old) + 2]
    <3>1. /\ Len(old) - 1 \in 1 .. Len(both) - 2
          /\ Len(old) \in 1 .. Len(both) - 2
          /\ (Len(old) - 1) + 2 = Len(old) + 1
      BY <1>1, <1>2, <2>4
    <3>. QED
      BY <2>1, <3>1
  <2>6. TurnPushed(old, new, r, n)
    <3>1. Cut(old) = 2 /\ Len(old) + 2 - 2 = Len(old)
      BY <1>1, <1>4 DEF Cut
    <3>2. /\ new[Len(new) - 1] = UserMessage(r, n)
          /\ new[Len(new)] = AssistantMessage(r)
      BY <1>2, <2>2, <2>5
    <3>. QED
      BY <2>1, <2>2, <2>3, <3>1, <3>2 DEF TurnPushed
  <2>. QED
    BY <1>3, <2>6 DEF old, new
<1>5. CASE Len(old) # 2 * MaxTurns
  <2>1. TurnPushed(old, new, r, n)
    <3>1. /\ new \in Seq(Message) /\ Len(new) = Len(old) + 2 - Cut(old)
          /\ Cut(old) = 0
      BY <1>1, <1>2, <1>3, <1>5 DEF Cut
    <3>2. \A i \in 1 .. Len(old) - Cut(old) : new[i] = old[i + Cut(old)]
      BY <1>1, <1>2, <1>3, <1>5, <3>1
    <3>3. Len(new) - 1 = Len(old) + 1 /\ Len(new) = Len(old) + 2
      BY <1>1, <3>1
    <3>. QED
      BY <1>2, <1>3, <1>5, <3>1, <3>2, <3>3 DEF TurnPushed
  <2>. QED
    BY <1>3, <2>1 DEF old, new
<1>. QED
  BY <1>4, <1>5

\* A window of whole turns is one of whole turns after a turn is pushed.
LEMMA PushKeepsWholeTurns ==
    ASSUME NEW old, NEW new, NEW r \in Requests, NEW n \in Nat,
           WholeTurns(old), TurnPushed(old, new, r, n)
    PROVE  WholeTurns(new)
<1>1. MaxTurns \in Nat \ {0}
  BY HistoryAssumption
<1>2. /\ Len(old) \in Nat /\ Len(old) % 2 = 0 /\ Len(old) <= 2 * MaxTurns
      /\ Cut(old) \in {0, 2} /\ Len(new) \in Nat
  BY DEF WholeTurns, TurnPushed, Cut
<1>3. Len(old) = 2 * (Len(old) \div 2) /\ Len(old) \div 2 \in Nat
  BY <1>2, HalfOfEven
<1>4. Len(new) = Len(old) + 2 - Cut(old)
  BY DEF TurnPushed
<1>5. Len(new) % 2 = 0 /\ Len(new) <= 2 * MaxTurns /\ Len(new) >= 2
  BY <1>1, <1>2, <1>3, <1>4 DEF Cut
<1>6. ASSUME NEW i \in 1 .. Len(new)
      PROVE  new[i].role = ExpectedRole(i)
  <2>1. CASE i \in 1 .. Len(old) - Cut(old)
    <3>1. i + Cut(old) \in 1 .. Len(old) /\ i \in Nat
      BY <1>2, <2>1
    <3>2. ExpectedRole(i + Cut(old)) = ExpectedRole(i)
      BY <1>2, <3>1 DEF ExpectedRole
    <3>3. old[i + Cut(old)].role = ExpectedRole(i + Cut(old))
      BY <3>1 DEF WholeTurns
    <3>. QED
      BY <2>1, <3>2, <3>3 DEF TurnPushed
  <2>2. CASE i = Len(new) - 1
    <3>1. i % 2 = 1
      BY <1>2, <1>5, <2>2
    <3>. QED
      BY <2>2, <3>1 DEF TurnPushed, ExpectedRole, UserMessage
  <2>3. CASE i = Len(new)
    <3>1. i % 2 # 1
      BY <1>5, <2>3
    <3>. QED
      BY <2>3, <3>1 DEF TurnPushed, ExpectedRole, AssistantMessage
  <2>. QED
    BY <1>2, <1>4, <2>1, <2>2, <2>3
<1>. QED
  BY <1>5, <1>6 DEF WholeTurns, TurnPushed

\* WindowHoldsNewestTurns of a window ts of k turns and accepted turns acc.
HoldsNewest(ts, acc, k) ==
    /\ k = IF Len(acc) < MaxTurns THEN Len(acc) ELSE MaxTurns
    /\ Len(ts) = 2 * k
    /\ \A i \in 1 .. k :
         LET r == acc[Len(acc) - k + i]
         IN  /\ ts[2 * i - 1].role = "user"
             /\ ts[2 * i - 1].req = r
             /\ ts[2 * i] = AssistantMessage(r)

LEMMA PushKeepsNewest ==
    ASSUME NEW old, NEW new, NEW r \in Requests, NEW n \in Nat,
           NEW acc \in Seq(Requests), NEW k \in Nat,
           TurnPushed(old, new, r, n), HoldsNewest(old, acc, k)
    PROVE  HoldsNewest(new, Append(acc, r), IF k = MaxTurns THEN k ELSE k + 1)
<1> DEFINE more == Append(acc, r)
           m == IF k = MaxTurns THEN k ELSE k + 1
<1>1. /\ MaxTurns \in Nat \ {0}
      /\ Len(acc) \in Nat
      /\ Len(more) = Len(acc) + 1
      /\ \A i \in 1 .. Len(acc) : more[i] = acc[i]
      /\ more[Len(acc) + 1] = r
  BY HistoryAssumption
<1>2. /\ k = IF Len(acc) < MaxTurns THEN Len(acc) ELSE MaxTurns
      /\ Len(old) = 2 * k
  BY DEF HoldsNewest
<1>3. /\ Cut(old) = IF k = MaxTurns THEN 2 ELSE 0
      /\ Len(new) = 2 * m
  <2>1. Cut(old) = IF k = MaxTurns THEN 2 ELSE 0
    BY <1>1, <1>2 DEF Cut
  <2>2. Len(new) = 2 * k + 2 - Cut(old)
    BY <1>2 DEF TurnPushed
  <2>3. CASE k = MaxTurns
    BY <2>1, <2>2, <2>3
  <2>4. CASE k # MaxTurns
    BY <2>1, <2>2, <2>4
  <2>. QED
    BY <2>1, <2>3, <2>4
<1>4. m = IF Len(more) < MaxTurns THEN Len(more) ELSE MaxTurns
  BY <1>1, <1>2
<1>5. m \in Nat /\ m >= 1
  BY <1>1
<1>6. Len(more) - m = IF k = MaxTurns THEN Len(acc) - k + 1 ELSE Len(acc) - k
  BY <1>1
<1> HIDE DEF more, m
<1>7. ASSUME NEW i \in 1 .. m
      PROVE  /\ new[2 * i - 1].role = "user"
             /\ new[2 * i - 1].req = more[Len(more) - m + i]
             /\ new[2 * i] = AssistantMessage(more[Len(more) - m + i])
  <2>1. CASE i = m
    <3>1. more[Len(more) - m + i] = r
      BY <1>1, <1>5, <2>1
    <3>2. 2 * i - 1 = Len(new) - 1 /\ 2 * i = Len(new)
      BY <1>3, <2>1
    <3>. QED
      BY <3>1, <3>2 DEF TurnPushed, UserMessage
  <2>2. CASE i # m
    <3> DEFINE j == IF k = MaxTurns THEN i + 1 ELSE i
    <3>1. /\ j \in 1 .. k
          /\ 2 * i - 1 + Cut(old) = 2 * j - 1
          /\ 2 * i + Cut(old) = 2 * j
          /\ 2 * i - 1 \in 1 .. Len(old) - Cut(old)
          /\ 2 * i \in 1 .. Len(old) - Cut(old)
      BY <1>1, <1>2, <1>3, <2>2 DEF m
    <3>2. /\ Len(more) - m + i = Len(acc) - k + j
          /\ Len(acc) - k + j \in 1 .. Len(acc)
      <4>1. k <= Len(acc) /\ i \in Nat
        BY <1>1, <1>2
      <4>2. CASE k = MaxTurns
        <5>1. j = i + 1 /\ j <= k /\ Len(more) - m = Len(acc) - k + 1
          BY <1>6, <3>1, <4>2
        <5>. QED
          BY <1>1, <4>1, <5>1
      <4>3. CASE k # MaxTurns
        BY <1>1, <1>6, <3>1, <4>1, <4>3
      <4>. QED
        BY <4>2, <4>3
    <3>3. more[Len(more) - m + i] = acc[Len(acc) - k + j]
      BY <1>1, <3>2
    <3>4. new[2 * i - 1] = old[2 * j - 1] /\ new[2 * i] = old[2 * j]
      BY <3>1 DEF TurnPushed
    <3> HIDE DEF j
    <3>5. /\ old[2 * j - 1].role = "user"
          /\ old[2 * j - 1].req = acc[Len(acc) - k + j]
          /\ old[2 * j] = AssistantMessage(acc[Len(acc) - k + j])
      BY <3>1 DEF HoldsNewest
    <3>. QED
      BY <3>3, <3>4, <3>5
  <2>. QED
    BY <2>1, <2>2
<1>8. HoldsNewest(new, more, m)
  BY <1>3, <1>4, <1>7 DEF HoldsNewest
<1>. QED
  BY <1>8 DEF more, m

\* TurnLabelsIncrease of a window ts, and no label beyond n.
LabelsUpTo(ts, n) ==
    /\ \A i \in 1 .. Len(ts) : ts[i].role = "user" => ts[i].index <= n
    /\ \A i, j \in 1 .. Len(ts) :
          /\ i < j
          /\ ts[i].role = "user"
          /\ ts[j].role = "user"
          => ts[i].index < ts[j].index

LEMMA PushKeepsLabels ==
    ASSUME NEW old, NEW new, NEW r \in Requests, NEW n \in Nat,
           WholeTurns(old), TurnPushed(old, new, r, n + 1), LabelsUpTo(old, n)
    PROVE  LabelsUpTo(new, n + 1)
<1>1. /\ Len(old) \in Nat /\ Cut(old) \in {0, 2}
      /\ Len(new) = Len(old) + 2 - Cut(old) /\ Len(new) \in Nat
      /\ \A i \in 1 .. Len(old) : old[i].index \in Nat
  <2>1. old \in Seq(Message) /\ new \in Seq(Message)
    BY DEF WholeTurns, TurnPushed
  <2>2. \A i \in 1 .. Len(old) : old[i] \in Message
    BY <2>1
  <2>. QED
    BY <2>1, <2>2 DEF TurnPushed, Cut, Message
<1>2. ASSUME NEW i \in 1 .. Len(new), new[i].role = "user"
      PROVE  \/ i = Len(new) - 1 /\ new[i].index = n + 1
             \/ /\ i \in 1 .. Len(old) - Cut(old)
                /\ i + Cut(old) \in 1 .. Len(old)
                /\ new[i] = old[i + Cut(old)]
                /\ new[i].index <= n
  <2>1. CASE i \in 1 .. Len(old) - Cut(old)
    <3>1. i + Cut(old) \in 1 .. Len(old) /\ new[i] = old[i + Cut(old)]
      BY <1>1, <2>1 DEF TurnPushed
    <3>. QED
      BY <1>2, <2>1, <3>1 DEF LabelsUpTo
  <2>2. CASE i = Len(new) - 1
    BY <2>2 DEF TurnPushed, UserMessage
  <2>3. CASE i = Len(new)
    BY <1>2, <2>3 DEF TurnPushed, AssistantMessage
  <2>. QED
    BY <1>1, <2>1, <2>2, <2>3
<1>3. ASSUME NEW i \in 1 .. Len(new), new[i].role = "user"
      PROVE  new[i].index <= n + 1
  <2>1. new[i].index = n + 1 \/ (new[i].index \in Nat /\ new[i].index <= n)
    BY <1>1, <1>2, <1>3
  <2>. QED
    BY <2>1
<1>4. ASSUME NEW i \in 1 .. Len(new), NEW j \in 1 .. Len(new), i < j,
             new[i].role = "user", new[j].role = "user"
      PROVE  new[i].index < new[j].index
  <2>1. /\ i \in 1 .. Len(old) - Cut(old)
        /\ i + Cut(old) \in 1 .. Len(old)
        /\ new[i] = old[i + Cut(old)]
        /\ new[i].index <= n /\ new[i].index \in Nat
    <3>1. i # Len(new) - 1
      <4>1. CASE j = Len(new) - 1
        BY <1>1, <1>4, <4>1
      <4>2. CASE j \in 1 .. Len(old) - Cut(old)
        BY <1>1, <1>4, <4>2
      <4>. QED
        BY <1>2, <1>4, <4>1, <4>2
    <3>. QED
      BY <1>1, <1>2, <1>4, <3>1
  <2>2. CASE j = Len(new) - 1 /\ new[j].index = n + 1
    BY <2>1, <2>2
  <2>3. CASE j + Cut(old) \in 1 .. Len(old) /\ new[j] = old[j + Cut(old)]
    <3>1. i + Cut(old) < j + Cut(old)
      BY <1>1, <1>4
    <3>. QED
      BY <1>4, <2>1, <2>3, <3>1 DEF LabelsUpTo
  <2>. QED
    BY <1>2, <1>4, <2>2, <2>3
<1>. QED
  BY <1>3, <1>4 DEF LabelsUpTo

-----------------------------------------------------------------------------
(* The inductive invariant.  The window alone does not determine the next  *)
(* one: its parity, its roles and the bound on its labels are needed too,  *)
(* and that a submit becomes a turn only once and that the response being  *)
(* assembled is the newest turn's.  Without compression the prompt is the  *)
(* window and nothing else.                                                *)
AcceptedOnce ==
    /\ \A i \in DOMAIN accepted :
          submits[accepted[i]].phase \in {"assembling", "ok", "broken"}
    /\ \A i, j \in DOMAIN accepted : accepted[i] = accepted[j] => i = j
    /\ \A r \in Requests :
          submits[r].phase = "assembling" =>
             accepted # <<>> /\ accepted[Len(accepted)] = r

PlainHistory ==
    ~ history.compressed => history.anchors = <<>> /\ history.summary = <<>>

IInv ==
    /\ TypeOK
    /\ WholeTurns(history.turns)
    /\ HoldsNewest(history.turns, accepted, WindowTurns)
    /\ LabelsUpTo(history.turns, submitCount)
    /\ EstimateOfNewestTurn
    /\ AcceptedOnce
    /\ PlainHistory
    /\ PlainPromptsValid

\* A prompt made of whole turns and one more user message passes the check.
LEMMA PlainPromptValid ==
    ASSUME NEW ts, WholeTurns(ts), NEW u \in Message, u.role = "user",
           NEW msgs, msgs = Append(<<SystemMessage>> \o ts, u)
    PROVE  ValidForCompletion(msgs)
<1>1. ts \in Seq(Message) /\ Len(ts) \in Nat /\ Len(ts) % 2 = 0
  BY DEF WholeTurns
<1>2. <<SystemMessage>> \in Seq(Message)
  BY DEF SystemMessage, Message
<1>3. /\ <<SystemMessage>> \o ts \in Seq(Message)
      /\ Len(<<SystemMessage>> \o ts) = Len(ts) + 1
      /\ (<<SystemMessage>> \o ts)[1] = SystemMessage
      /\ \A i \in 1 .. Len(ts) : (<<SystemMessage>> \o ts)[i + 1] = ts[i]
  BY <1>1, <1>2
<1>4. /\ msgs \in Seq(Message)
      /\ Len(msgs) = Len(ts) + 2
      /\ msgs[1] = SystemMessage
      /\ msgs[Len(msgs)] = u
      /\ \A i \in 1 .. Len(ts) : msgs[i + 1] = ts[i]
  BY <1>1, <1>3
<1>5. msgs # <<>> /\ Len(msgs) - 2 = Len(ts)
  BY <1>1, <1>4
<1>6. \A i \in 1 .. Len(ts) : ts[i].role = ExpectedRole(i)
  BY DEF WholeTurns
<1>. QED
  BY <1>1, <1>4, <1>5, <1>6 DEF ValidForCompletion, SystemMessage

LEMMA InitIInv == Init => IInv
<1> SUFFICES ASSUME Init PROVE IInv
  OBVIOUS
<1>1. MaxTurns \in Nat \ {0}
  BY HistoryAssumption
<1>2. /\ history.turns = <<>> /\ history.anchors = <<>>
      /\ history.summary = <<>> /\ accepted = <<>>
  BY DEF Init, EmptyHistory
<1>3. TypeOK
  <2>1. <<>> \in Seq(Message) /\ <<>> \in Seq(Requests)
    OBVIOUS
  <2>2. \A c \in BOOLEAN : EmptyHistory(c) \in History
    BY <2>1 DEF EmptyHistory, History
  <2>3. IdleSubmit \in Submit
    BY <2>1 DEF IdleSubmit, Submit, Phases
  <2>. QED
    BY <2>1, <2>2, <2>3 DEF Init, TypeOK
<1>4. WholeTurns(history.turns)
  BY <1>1, <1>2 DEF WholeTurns
<1>5. HoldsNewest(history.turns, accepted, WindowTurns)
  BY <1>1, <1>2 DEF HoldsNewest, WindowTurns
<1>6. LabelsUpTo(history.turns, submitCount)
  BY <1>2 DEF LabelsUpTo
<1>7. EstimateOfNewestTurn
  BY <1>2 DEF Init, EstimateOfNewestTurn
<1>8. AcceptedOnce
  BY <1>2 DEF AcceptedOnce, Init, IdleSubmit
<1>9. PlainHistory /\ PlainPromptsValid
  BY <1>2 DEF PlainHistory, PlainPromptsValid, PromptsValid, InFlight, Init, IdleSubmit
<1>. QED
  BY <1>3, <1>4, <1>5, <1>6, <1>7, <1>8, <1>9 DEF IInv

\* What the answer to a submit that is no turn leaves alone.
LEMMA OthersKept ==
    ASSUME IInv, NEW r \in Requests, submits[r].phase \in {"idle", "awaiting"},
           submits'[r].phase # "assembling",
           \A q \in Requests \ {r} : submits'[q] = submits[q],
           UNCHANGED <<accepted, estimate>>
    PROVE  AcceptedOnce' /\ EstimateOfNewestTurn'
<1>1. /\ AcceptedOnce /\ EstimateOfNewestTurn /\ accepted \in Seq(Requests)
      /\ estimate \in Requests \cup {NoRequest}
  BY DEF IInv, TypeOK
<1>2. \A i \in DOMAIN accepted : accepted[i] \in Requests /\ accepted[i] # r
  BY <1>1 DEF AcceptedOnce
<1>3. \A i \in DOMAIN accepted : submits'[accepted[i]] = submits[accepted[i]]
  BY <1>2
<1>4. AcceptedOnce'
  <2>1. \A q \in Requests : submits'[q].phase = "assembling" =>
           submits[q].phase = "assembling"
    OBVIOUS
  <2>2. \A i \in DOMAIN accepted :
           submits'[accepted[i]].phase \in {"assembling", "ok", "broken"}
    BY <1>1, <1>3 DEF AcceptedOnce
  <2>3. \A i, j \in DOMAIN accepted : accepted[i] = accepted[j] => i = j
    BY <1>1 DEF AcceptedOnce
  <2>4. \A q \in Requests : submits'[q].phase = "assembling" =>
           accepted # <<>> /\ accepted[Len(accepted)] = q
    BY <1>1, <2>1 DEF AcceptedOnce
  <2>. QED
    BY <2>2, <2>3, <2>4 DEF AcceptedOnce
<1>5. \A i \in DOMAIN accepted : Unshown(accepted[i]) => Unshown(accepted[i])'
  BY <1>3 DEF Unshown
<1>6. CASE estimate = NoRequest /\ \A j \in DOMAIN accepted : Unshown(accepted[j])
  BY <1>4, <1>5, <1>6 DEF EstimateOfNewestTurn
<1>7. ASSUME NEW i \in DOMAIN accepted, accepted[i] = estimate,
             submits[estimate].phase = "ok",
             \A j \in (i + 1) .. Len(accepted) : Unshown(accepted[j])
      PROVE  EstimateOfNewestTurn'
  <2>1. \A j \in (i + 1) .. Len(accepted) : j \in DOMAIN accepted
    BY <1>1
  <2>2. \A j \in (i + 1) .. Len(accepted) : Unshown(accepted[j])'
    BY <1>5, <1>7, <2>1
  <2>3. submits'[estimate].phase = "ok"
    BY <1>3, <1>7
  <2>. QED
    BY <1>7, <2>2, <2>3 DEF EstimateOfNewestTurn
<1>. QED
  BY <1>1, <1>4, <1>6, <1>7 DEF EstimateOfNewestTurn

\* What a step that touches neither history nor accepted keeps.
LEMMA QuietStep ==
    ASSUME IInv, TypeOK',
           UNCHANGED <<history, accepted>>, AcceptedOnce', EstimateOfNewestTurn',
           submitCount' \in {submitCount, submitCount + 1},
           \A r \in Requests : submits'[r].phase = "awaiting" =>
              \/ submits[r].phase = "awaiting"
                 /\ submits'[r].messages = submits[r].messages
              \/ submits'[r].messages = MessagesOverride(r)
    PROVE  IInv'
<1>1. WholeTurns(history.turns)' /\ HoldsNewest(history.turns, accepted, WindowTurns)'
  BY DEF IInv, WindowTurns
<1>2. LabelsUpTo(history.turns, submitCount)'
  <2>1. submitCount \in Nat /\ submitCount <= submitCount'
    BY DEF IInv, TypeOK
  <2>2. \A i \in 1 .. Len(history.turns) : history.turns[i].index \in Nat
    <3>1. history.turns \in Seq(Message)
      BY DEF IInv, WholeTurns
    <3>2. \A i \in 1 .. Len(history.turns) : history.turns[i] \in Message
      BY <3>1
    <3>. QED
      BY <3>2 DEF Message
  <2>3. LabelsUpTo(history.turns, submitCount) /\ history' = history
    BY DEF IInv
  <2>4. submitCount' \in Nat
    BY DEF TypeOK
  <2>. QED
    BY <2>1, <2>2, <2>3, <2>4 DEF LabelsUpTo
<1>3. PlainHistory'
  BY DEF IInv, PlainHistory
<1>4. PlainPromptsValid'
  <2> SUFFICES ASSUME ~ history'.compressed, NEW r \in Requests,
                      submits'[r].phase = "awaiting"
               PROVE  ValidForCompletion(submits'[r].messages)
    BY DEF PlainPromptsValid, PromptsValid, InFlight
  <2>1. CASE submits[r].phase = "awaiting"
             /\ submits'[r].messages = submits[r].messages
    BY <2>1 DEF IInv, PlainPromptsValid, PromptsValid, InFlight
  <2>2. CASE submits'[r].messages = MessagesOverride(r)
    <3>1. ToMessagesList(history) = <<SystemMessage>> \o history.turns
      <4>1. history.anchors = <<>> /\ history.summary = <<>>
        BY DEF IInv, PlainHistory
      <4>2. <<SystemMessage>> \in Seq(Message) /\ history.turns \in Seq(Message)
        BY DEF SystemMessage, Message, IInv, WholeTurns
      <4>. QED
        BY <4>1, <4>2, ConcatEmptySeq DEF ToMessagesList
    <3>2. UserMessage(r, 0) \in Message /\ UserMessage(r, 0).role = "user"
      BY DEF UserMessage, Message
    <3>3. WholeTurns(history.turns)
      BY DEF IInv
    <3>. QED
      BY <2>2, <3>1, <3>2, <3>3, PlainPromptValid DEF MessagesOverride
  <2>. QED
    BY <2>1, <2>2
<1>. QED
  BY <1>1, <1>2, <1>3, <1>4 DEF IInv

LEMMA AnswerType ==
    ASSUME TypeOK, NEW r \in Requests, NEW phase \in Phases, Answer(r, phase)
    PROVE  /\ submits' \in [Requests -> Submit]
           /\ submits'[r].phase = phase
           /\ \A q \in Requests \ {r} : submits'[q] = submits[q]
<1> DEFINE ans == [IdleSubmit EXCEPT !.phase = phase,
                                     !.fullForm = submits[r].fullForm]
<1>1. submits \in [Requests -> Submit]
  BY DEF TypeOK
<1>2. submits[r].fullForm \in BOOLEAN
  BY <1>1 DEF Submit
<1>3. <<>> \in Seq(Message)
  OBVIOUS
<1>4. ASSUME NEW b \in BOOLEAN
      PROVE  LET s == [IdleSubmit EXCEPT !.phase = phase, !.fullForm = b]
             IN  s \in Submit /\ s.phase = phase
  BY <1>3 DEF IdleSubmit, Submit
<1>5. ans \in Submit /\ ans.phase = phase
  BY <1>2, <1>4
<1>6. submits' = [submits EXCEPT ![r] = ans]
  BY DEF Answer
<1> HIDE DEF ans
<1>. QED
  BY <1>1, <1>5, <1>6

LEMMA BeginInvalidStep ==
    ASSUME IInv, NEW r \in Requests, BeginInvalid(r)
    PROVE  IInv'
<1>1. TypeOK /\ AcceptedOnce /\ submits[r].phase = "idle"
  BY DEF IInv, BeginInvalid
<1>2. /\ submits' \in [Requests -> Submit]
      /\ submits'[r].phase = "invalid"
      /\ \A q \in Requests \ {r} : submits'[q] = submits[q]
  BY <1>1, AnswerType DEF BeginInvalid, Phases
<1>3. TypeOK'
  BY <1>1, <1>2 DEF TypeOK, BeginInvalid
<1>4. AcceptedOnce' /\ EstimateOfNewestTurn'
  BY <1>1, <1>2, OthersKept DEF BeginInvalid
<1>5. \A q \in Requests : submits'[q].phase = "awaiting" =>
         submits[q].phase = "awaiting" /\ submits'[q].messages = submits[q].messages
  BY <1>2
<1>. QED
  BY <1>3, <1>4, <1>5, QuietStep DEF BeginInvalid

LEMMA FinishWithoutEstimateStep ==
    ASSUME IInv, NEW r \in Requests, FinishWithoutEstimate(r)
    PROVE  IInv'
<1>1. TypeOK /\ AcceptedOnce /\ submits[r].phase = "awaiting"
  BY DEF IInv, FinishWithoutEstimate
<1>2. /\ submits' \in [Requests -> Submit]
      /\ submits'[r].phase = "unavailable"
      /\ \A q \in Requests \ {r} : submits'[q] = submits[q]
  BY <1>1, AnswerType DEF FinishWithoutEstimate, Phases
<1>3. submits[r].merged \in Metadata \cup {NoMetadata}
  BY <1>1 DEF TypeOK, Submit
<1>4. TypeOK'
  BY <1>1, <1>2, <1>3 DEF TypeOK, FinishWithoutEstimate, RecordSubmit, RecordFailed
<1>5. /\ UNCHANGED <<history, accepted, estimate>>
      /\ submitCount' = submitCount + 1
  BY DEF FinishWithoutEstimate, RecordFailed, RecordSubmit
<1>6. AcceptedOnce' /\ EstimateOfNewestTurn'
  BY <1>1, <1>2, <1>5, OthersKept
<1>7. \A q \in Requests : submits'[q].phase = "awaiting" =>
         submits[q].phase = "awaiting" /\ submits'[q].messages = submits[q].messages
  BY <1>2
<1>. QED
  BY <1>4, <1>5, <1>6, <1>7, QuietStep

LEMMA FinishRaisedStep ==
    ASSUME IInv, NEW r \in Requests, FinishRaised(r)
    PROVE  IInv'
<1>1. TypeOK /\ AcceptedOnce /\ submits[r].phase = "awaiting"
  BY DEF IInv, FinishRaised
<1>2. /\ submits' \in [Requests -> Submit]
      /\ submits'[r].phase = "rejected"
      /\ \A q \in Requests \ {r} : submits'[q] = submits[q]
  BY <1>1, AnswerType DEF FinishRaised, Phases
<1>3. TypeOK'
  BY <1>1, <1>2 DEF TypeOK, FinishRaised, RecordRaised
<1>4. AcceptedOnce' /\ EstimateOfNewestTurn'
  BY <1>1, <1>2, OthersKept DEF FinishRaised, RecordRaised
<1>5. \A q \in Requests : submits'[q].phase = "awaiting" =>
         submits[q].phase = "awaiting" /\ submits'[q].messages = submits[q].messages
  BY <1>2
<1>. QED
  BY <1>3, <1>4, <1>5, QuietStep DEF FinishRaised, RecordRaised

LEMMA BeginStep ==
    ASSUME IInv, NEW r \in Requests, Begin(r)
    PROVE  IInv'
<1>1. TypeOK /\ AcceptedOnce /\ submits[r].phase = "idle" /\ FormComplete(r)
  BY DEF IInv, Begin
<1>2. PICK facts \in MergedFacts(r) :
        submits' = [submits EXCEPT ![r] =
             [phase    |-> "awaiting",
              messages |-> MessagesOverride(r),
              merged   |-> [name |-> ResolvedName(r), facts |-> facts],
              fullForm |-> submitCount = 0]]
  BY DEF Begin
<1>3. ResolvedName(r) \in Names
  BY <1>1, SubmitAssumption, NoMetadataAssumption
  DEF FormComplete, ResolvedName, TypeOK, Metadata
<1>4. facts \in SUBSET Facts
  <2>1. FactsOf[r] \in SUBSET Facts
    BY SubmitAssumption
  <2>2. CASE metadata = NoMetadata
    BY <1>2, <2>1, <2>2 DEF MergedFacts
  <2>3. CASE metadata # NoMetadata
    <3>1. metadata.facts \in SUBSET Facts
      BY <1>1, <2>3 DEF TypeOK, Metadata
    <3>2. facts \in SUBSET (metadata.facts \cup FactsOf[r])
      BY <1>2, <2>3 DEF MergedFacts
    <3>. QED
      BY <2>1, <3>1, <3>2
  <2>. QED
    BY <2>2, <2>3
<1>5. MessagesOverride(r) \in Seq(Message)
  <2>1. /\ history.turns \in Seq(Message) /\ history.anchors \in Seq(Message)
        /\ history.summary \in Seq(Message)
    BY <1>1 DEF TypeOK, History
  <2>2. /\ <<SystemMessage>> \in Seq(Message) /\ <<SummaryMessage>> \in Seq(Message)
        /\ UserMessage(r, 0) \in Message
    BY DEF SystemMessage, SummaryMessage, UserMessage, Message
  <2>3. ToMessagesList(history) \in Seq(Message)
    <3> DEFINE summary == IF history.summary = <<>> THEN <<>> ELSE <<SummaryMessage>>
    <3>1. summary \in Seq(Message)
      BY <2>2
    <3> HIDE DEF summary
    <3>2. <<SystemMessage>> \o summary \in Seq(Message)
      BY <2>2, <3>1
    <3>3. (<<SystemMessage>> \o summary) \o history.anchors \in Seq(Message)
      BY <2>1, <3>2
    <3>. QED
      BY <2>1, <3>3 DEF ToMessagesList, summary
  <2>. QED
    BY <2>2, <2>3 DEF MessagesOverride
<1>6. /\ submits' \in [Requests -> Submit]
      /\ submits'[r].phase = "awaiting"
      /\ submits'[r].messages = MessagesOverride(r)
      /\ \A q \in Requests \ {r} : submits'[q] = submits[q]
  <2> DEFINE begun == [phase    |-> "awaiting",
                       messages |-> MessagesOverride(r),
                       merged   |-> [name |-> ResolvedName(r), facts |-> facts],
                       fullForm |-> submitCount = 0]
  <2>1. begun \in Submit
    BY <1>3, <1>4, <1>5 DEF Submit, Metadata, Phases
  <2>2. begun.phase = "awaiting" /\ begun.messages = MessagesOverride(r)
    OBVIOUS
  <2>3. submits \in [Requests -> Submit] /\ submits' = [submits EXCEPT ![r] = begun]
    BY <1>1, <1>2 DEF TypeOK
  <2> HIDE DEF begun
  <2>. QED
    BY <2>1, <2>2, <2>3
<1>7. TypeOK'
  BY <1>1, <1>6 DEF TypeOK, Begin
<1>8. AcceptedOnce' /\ EstimateOfNewestTurn'
  BY <1>1, <1>6, OthersKept DEF Begin
<1>9. \A q \in Requests : submits'[q].phase = "awaiting" =>
         \/ submits[q].phase = "awaiting" /\ submits'[q].messages = submits[q].messages
         \/ submits'[q].messages = MessagesOverride(q)
  BY <1>6
<1>. QED
  BY <1>7, <1>8, <1>9, QuietStep DEF Begin

\* What the one step that writes the history does to it.
LEMMA FinishWithEstimatePushes ==
    ASSUME IInv, NEW r \in Requests, NEW source, FinishWithEstimate(r, source)
    PROVE  /\ history' \in History
           /\ TurnPushed(history.turns, history'.turns, r, submitCount + 1)
<1>1. history \in History /\ WholeTurns(history.turns) /\ submitCount \in Nat
  BY DEF IInv, TypeOK
<1>2. history' = RememberTurn(history, r, submitCount + 1)
  BY DEF FinishWithEstimate, TurnIndex
<1>3. submitCount + 1 \in Nat
  BY <1>1
<1>. QED
  BY <1>1, <1>2, <1>3, RememberTurnPushes

\* The number of turns in the window after that step.
LEMMA WindowTurnsAfterPush ==
    ASSUME IInv, NEW r \in Requests, NEW n \in Nat,
           TurnPushed(history.turns, history'.turns, r, n)
    PROVE  /\ WindowTurns \in Nat
           /\ WindowTurns' = IF WindowTurns = MaxTurns THEN WindowTurns
                                                       ELSE WindowTurns + 1
<1>1. MaxTurns \in Nat \ {0}
  BY HistoryAssumption
<1>2. /\ WholeTurns(history.turns) /\ WholeTurns(history'.turns)
  BY PushKeepsWholeTurns DEF IInv
<1>3. /\ Len(history.turns) \in Nat /\ Len(history.turns) % 2 = 0
      /\ Len(history'.turns) \in Nat /\ Len(history'.turns) % 2 = 0
  <2>1. \A ts : WholeTurns(ts) => Len(ts) \in Nat /\ Len(ts) % 2 = 0
    BY DEF WholeTurns
  <2>. QED
    BY <1>2, <2>1
<1>4. /\ WindowTurns \in Nat /\ Len(history.turns) = 2 * WindowTurns
      /\ WindowTurns' \in Nat /\ Len(history'.turns) = 2 * WindowTurns'
  BY <1>3, HalfOfEven DEF WindowTurns
<1>5. Len(history'.turns) = Len(history.turns) + 2 - Cut(history.turns)
  BY DEF TurnPushed
<1>6. CASE WindowTurns = MaxTurns
  <2>1. Cut(history.turns) = 2
    BY <1>4, <1>6 DEF Cut
  <2>. QED
    BY <1>4, <1>5, <1>6, <2>1
<1>7. CASE WindowTurns # MaxTurns
  <2>1. Cut(history.turns) = 0
    BY <1>1, <1>4, <1>7 DEF Cut
  <2>. QED
    BY <1>4, <1>5, <1>7, <2>1
<1>. QED
  BY <1>4, <1>6, <1>7

LEMMA FinishWithEstimateStep ==
    ASSUME IInv, NEW r \in Requests, NEW source, FinishWithEstimate(r, source)
    PROVE  IInv'
<1>1. /\ TypeOK /\ AcceptedOnce /\ WholeTurns(history.turns)
      /\ submits[r].phase = "awaiting" /\ accepted \in Seq(Requests)
      /\ submitCount \in Nat
  BY DEF IInv, TypeOK, FinishWithEstimate
<1>2. /\ submits' \in [Requests -> Submit]
      /\ submits'[r].phase = "assembling"
      /\ \A q \in Requests \ {r} : submits'[q] = submits[q]
  BY <1>1, AnswerType DEF FinishWithEstimate, Phases
<1>3. /\ history' \in History
      /\ TurnPushed(history.turns, history'.turns, r, submitCount + 1)
      /\ submitCount + 1 \in Nat
  BY <1>1, FinishWithEstimatePushes
<1>4. /\ accepted' = Append(accepted, r) /\ estimate' = estimate
      /\ submitCount' = submitCount + 1
  BY DEF FinishWithEstimate, RecordSubmit
<1>5. /\ accepted' \in Seq(Requests)
      /\ Len(accepted') = Len(accepted) + 1
      /\ \A i \in DOMAIN accepted : accepted[i] \in Requests /\ accepted'[i] = accepted[i]
      /\ accepted'[Len(accepted')] = r
      /\ DOMAIN accepted' = 1 .. Len(accepted')
      /\ DOMAIN accepted = 1 .. Len(accepted) /\ Len(accepted) \in Nat
  BY <1>1, <1>4
<1>6. TypeOK'
  <2>1. submits[r].merged \in Metadata \cup {NoMetadata}
    BY <1>1 DEF TypeOK, Submit
  <2>. QED
    BY <1>1, <1>2, <1>3, <1>4, <1>5, <2>1
    DEF TypeOK, FinishWithEstimate, RecordSubmit
<1>7. WholeTurns(history.turns)'
  BY <1>1, <1>3, PushKeepsWholeTurns
<1>8. HoldsNewest(history.turns, accepted, WindowTurns)'
  <2>1. WindowTurns \in Nat /\ HoldsNewest(history.turns, accepted, WindowTurns)
    BY <1>3, WindowTurnsAfterPush DEF IInv
  <2>2. WindowTurns' = IF WindowTurns = MaxTurns THEN WindowTurns
                                                 ELSE WindowTurns + 1
    BY <1>3, WindowTurnsAfterPush
  <2>. QED
    BY <1>1, <1>3, <1>4, <2>1, <2>2, PushKeepsNewest
<1>9. LabelsUpTo(history.turns, submitCount)'
  <2>1. LabelsUpTo(history.turns, submitCount)
    BY DEF IInv
  <2>. QED
    BY <1>1, <1>3, <1>4, <2>1, PushKeepsLabels
<1>10. \A i \in DOMAIN accepted :
          /\ accepted[i] # r /\ accepted[i] \in Requests
          /\ submits'[accepted'[i]] = submits[accepted[i]]
  <2>1. \A i \in DOMAIN accepted : accepted[i] # r
    BY <1>1 DEF AcceptedOnce
  <2>. QED
    BY <1>2, <1>5, <2>1
<1>11. AcceptedOnce'
  <2>1. ASSUME NEW i \in DOMAIN accepted'
        PROVE  submits'[accepted'[i]].phase \in {"assembling", "ok", "broken"}
    <3>1. CASE i \in DOMAIN accepted
      BY <1>1, <1>10, <3>1 DEF AcceptedOnce
    <3>2. CASE i = Len(accepted')
      BY <1>2, <1>5, <3>2
    <3>. QED
      BY <1>5, <2>1, <3>1, <3>2
  <2>2. ASSUME NEW i \in DOMAIN accepted', NEW j \in DOMAIN accepted',
               accepted'[i] = accepted'[j]
        PROVE  i = j
    <3>1. i \in DOMAIN accepted \/ i = Len(accepted')
      BY <1>5
    <3>2. j \in DOMAIN accepted \/ j = Len(accepted')
      BY <1>5
    <3>. QED
      BY <1>1, <1>5, <1>10, <2>2, <3>1, <3>2 DEF AcceptedOnce
  <2>3. ASSUME NEW q \in Requests, submits'[q].phase = "assembling"
        PROVE  accepted' # <<>> /\ accepted'[Len(accepted')] = q
    <3>1. q = r
      BY <1>2, <2>3 DEF FinishWithEstimate, LoopFree
    <3>. QED
      BY <1>5, <3>1
  <2>. QED
    BY <2>1, <2>2, <2>3 DEF AcceptedOnce
<1>12. EstimateOfNewestTurn'
  <2>1. Unshown(accepted[Len(accepted)])'
    BY <1>2, <1>5 DEF Unshown
  <2>2. ASSUME NEW i \in DOMAIN accepted, Unshown(accepted[i])
        PROVE  Unshown(accepted[i])'
    BY <1>10, <2>2 DEF Unshown
  <2>3. CASE estimate = NoRequest /\ \A j \in DOMAIN accepted : Unshown(accepted[j])
    <3>1. \A j \in DOMAIN accepted' : Unshown(accepted[j])'
      BY <1>5, <2>1, <2>2, <2>3
    <3>. QED
      BY <1>4, <2>3, <3>1 DEF EstimateOfNewestTurn
  <2>4. ASSUME NEW i \in DOMAIN accepted, accepted[i] = estimate,
               submits[estimate].phase = "ok",
               \A j \in (i + 1) .. Len(accepted) : Unshown(accepted[j])
        PROVE  EstimateOfNewestTurn'
    <3>1. \A j \in (i + 1) .. Len(accepted') :
             \/ j = Len(accepted')
             \/ j \in DOMAIN accepted /\ j \in (i + 1) .. Len(accepted)
      BY <1>5
    <3>2. \A j \in (i + 1) .. Len(accepted') : Unshown(accepted[j])'
      BY <2>1, <2>2, <2>4, <3>1
    <3>3. /\ i \in DOMAIN accepted' /\ accepted'[i] = estimate'
          /\ submits'[estimate'].phase = "ok"
      BY <1>4, <1>5, <1>10, <2>4
    <3>. QED
      BY <3>2, <3>3 DEF EstimateOfNewestTurn
  <2>. QED
    BY <2>3, <2>4 DEF IInv, EstimateOfNewestTurn
<1>13. history'.compressed = history.compressed
  <2>1. history \in History /\ history' = RememberTurn(history, r, submitCount + 1)
    BY <1>1 DEF TypeOK, FinishWithEstimate, TurnIndex
  <2>. QED
    BY <1>3, <2>1, RememberTurnKeepsPolicy
<1>14. PlainHistory'
  <2> SUFFICES ASSUME ~ history'.compressed
               PROVE  history'.anchors = <<>> /\ history'.summary = <<>>
    BY DEF PlainHistory
  <2>1. history.anchors = <<>> /\ history.summary = <<>>
    BY <1>13 DEF IInv, PlainHistory
  <2>2. history \in History
    BY <1>1 DEF TypeOK
  <2>3. history' = RememberTurn(history, r, submitCount + 1)
    BY DEF FinishWithEstimate, TurnIndex
  <2>. QED
    BY <1>13, <2>1, <2>2, <2>3
    DEF RememberTurn, AddUserMessage, AddAssistantMessage, History
<1>15. PlainPromptsValid'
  <2>1. ASSUME NEW q \in Requests, submits'[q].phase = "awaiting"
        PROVE  submits[q].phase = "awaiting" /\ submits'[q].messages = submits[q].messages
    BY <1>2, <2>1
  <2>. QED
    BY <1>13, <2>1 DEF IInv, PlainPromptsValid, PromptsValid, InFlight
<1>. QED
  BY <1>6, <1>7, <1>8, <1>9, <1>11, <1>14, <1>15, <1>12 DEF IInv

\* The router stores the estimate of the newest turn.
LEMMA ShowEstimateStep ==
    ASSUME IInv, NEW r \in Requests, ShowEstimate(r)
    PROVE  IInv'
<1>1. /\ TypeOK /\ AcceptedOnce /\ submits[r].phase = "assembling"
      /\ accepted \in Seq(Requests)
  BY DEF IInv, TypeOK, ShowEstimate
<1>2. /\ submits' \in [Requests -> Submit]
      /\ submits'[r].phase = "ok"
      /\ \A q \in Requests \ {r} : submits'[q] = submits[q]
  BY <1>1, AnswerType DEF ShowEstimate, Phases
<1>3. /\ UNCHANGED <<history, submitCount, metadata, payload, accepted, overlapped>>
      /\ estimate' = r
  BY DEF ShowEstimate
<1>4. TypeOK'
  BY <1>1, <1>2, <1>3 DEF TypeOK
<1>5. \A i \in DOMAIN accepted : accepted[i] \in Requests
  BY <1>1
<1>6. AcceptedOnce'
  BY <1>1, <1>2, <1>3, <1>5 DEF AcceptedOnce
<1>7. EstimateOfNewestTurn'
  <2>1. Len(accepted) \in DOMAIN accepted /\ accepted[Len(accepted)] = r
    <3>1. accepted # <<>> /\ accepted[Len(accepted)] = r
      BY <1>1 DEF AcceptedOnce
    <3>. QED
      BY <1>1, <3>1
  <2>2. (Len(accepted) + 1) .. Len(accepted) = {}
    BY <1>1
  <2>. QED
    BY <1>2, <1>3, <2>1, <2>2 DEF EstimateOfNewestTurn
<1>8. \A q \in Requests : submits'[q].phase = "awaiting" =>
         submits[q].phase = "awaiting" /\ submits'[q].messages = submits[q].messages
  BY <1>2
<1>. QED
  BY <1>3, <1>4, <1>6, <1>7, <1>8, QuietStep

\* The response could not be assembled: the older estimate stays, and the
\* turns after it are still without one.
LEMMA ShowFailsStep ==
    ASSUME IInv, NEW r \in Requests, ShowFails(r)
    PROVE  IInv'
<1>1. /\ TypeOK /\ AcceptedOnce /\ submits[r].phase = "assembling"
      /\ accepted \in Seq(Requests) /\ EstimateOfNewestTurn
  BY DEF IInv, TypeOK, ShowFails
<1>2. /\ submits' \in [Requests -> Submit]
      /\ submits'[r].phase = "broken"
      /\ \A q \in Requests \ {r} : submits'[q] = submits[q]
  BY <1>1, AnswerType DEF ShowFails, Phases
<1>3. UNCHANGED <<history, submitCount, metadata, payload, estimate, accepted, overlapped>>
  BY DEF ShowFails
<1>4. TypeOK'
  BY <1>1, <1>2, <1>3 DEF TypeOK
<1>5. \A i \in DOMAIN accepted : accepted[i] \in Requests
  BY <1>1
<1>6. AcceptedOnce'
  BY <1>1, <1>2, <1>3, <1>5 DEF AcceptedOnce
<1>7. EstimateOfNewestTurn'
  <2>1. \A i \in DOMAIN accepted : Unshown(accepted[i]) => Unshown(accepted[i])'
    BY <1>2, <1>3, <1>5 DEF Unshown
  <2>2. CASE estimate = NoRequest /\ \A j \in DOMAIN accepted : Unshown(accepted[j])
    BY <1>3, <2>1, <2>2 DEF EstimateOfNewestTurn
  <2>3. ASSUME NEW i \in DOMAIN accepted, accepted[i] = estimate,
               submits[estimate].phase = "ok",
               \A j \in (i + 1) .. Len(accepted) : Unshown(accepted[j])
        PROVE  EstimateOfNewestTurn'
    <3>1. \A j \in (i + 1) .. Len(accepted) : j \in DOMAIN accepted
      BY <1>1
    <3>2. \A j \in (i + 1) .. Len(accepted) : Unshown(accepted[j])'
      BY <2>1, <2>3, <3>1
    <3>3. submits'[estimate].phase = "ok"
      BY <1>1, <1>2, <1>5, <2>3
    <3>. QED
      BY <1>3, <2>3, <3>2, <3>3 DEF EstimateOfNewestTurn
  <2>. QED
    BY <1>1, <2>2, <2>3 DEF EstimateOfNewestTurn
<1>8. \A q \in Requests : submits'[q].phase = "awaiting" =>
         submits[q].phase = "awaiting" /\ submits'[q].messages = submits[q].messages
  BY <1>2
<1>. QED
  BY <1>3, <1>4, <1>6, <1>7, <1>8, QuietStep

LEMMA NextIInv == IInv /\ [Next]_vars => IInv'
<1> SUFFICES ASSUME IInv, [Next]_vars PROVE IInv'
  OBVIOUS
<1>1. ASSUME NEW r \in Requests, BeginInvalid(r) PROVE IInv'
  BY <1>1, BeginInvalidStep
<1>2. ASSUME NEW r \in Requests, Begin(r) PROVE IInv'
  BY <1>2, BeginStep
<1>3. ASSUME NEW r \in Requests, NEW source, FinishWithEstimate(r, source)
      PROVE IInv'
  BY <1>3, FinishWithEstimateStep
<1>4. ASSUME NEW r \in Requests, FinishWithoutEstimate(r) PROVE IInv'
  BY <1>4, FinishWithoutEstimateStep
<1>5. ASSUME NEW r \in Requests, FinishRaised(r) PROVE IInv'
  BY <1>5, FinishRaisedStep
<1>6. ASSUME NEW r \in Requests, ShowEstimate(r) PROVE IInv'
  BY <1>6, ShowEstimateStep
<1>7. ASSUME NEW r \in Requests, ShowFails(r) PROVE IInv'
  BY <1>7, ShowFailsStep
<1>8. CASE UNCHANGED vars
  BY <1>8 DEF vars, IInv, TypeOK, WindowTurns, EstimateOfNewestTurn, Unshown,
     AcceptedOnce, PlainHistory, PlainPromptsValid, PromptsValid, InFlight
<1>. QED
  BY <1>1, <1>2, <1>3, <1>4, <1>5, <1>6, <1>7, <1>8 DEF Next

-----------------------------------------------------------------------------
(* The state of a session is always of its type.                           *)
THEOREM TypeCorrect == Spec => []TypeOK
<1>1. IInv => TypeOK
  BY DEF IInv
<1>. QED
  BY InitIInv, NextIInv, <1>1, PTL DEF Spec

(* For every window size and every interleaving of submits that succeed,   *)
(* fail or are refused, the window is the newest max_turns accepted turns, *)
(* in order, each with its own answer.                                     *)
THEOREM WindowCorrect == Spec => []WindowHoldsNewestTurns
<1>1. IInv => WindowHoldsNewestTurns
  BY DEF IInv, HoldsNewest, WindowHoldsNewestTurns
<1>. QED
  BY InitIInv, NextIInv, <1>1, PTL DEF Spec

(* The labels of the turns in the window increase, however many submits    *)
(* were counted between them.                                              *)
THEOREM LabelsCorrect == Spec => []TurnLabelsIncrease
<1>1. IInv => TurnLabelsIncrease
  BY DEF IInv, LabelsUpTo, TurnLabelsIncrease, WholeTurns
<1>. QED
  BY InitIInv, NextIInv, <1>1, PTL DEF Spec

(* What the session shows as its latest estimate belongs to the newest     *)
(* turn whose response was assembled, for any interleaving of submits and  *)
(* any of them failing between the two writes.                             *)
THEOREM EstimateCorrect == Spec => []EstimateOfNewestTurn
<1>1. IInv => EstimateOfNewestTurn
  BY DEF IInv
<1>. QED
  BY InitIInv, NextIInv, <1>1, PTL DEF Spec

(* The window, or what the compression loop leaves of it, never exceeds    *)
(* its bound: one eviction per turn is enough.                             *)
THEOREM BoundCorrect == Spec => []WindowBounded
<1>1. IInv => WindowBounded
  BY DEF IInv, WholeTurns, WindowBounded
<1>. QED
  BY InitIInv, NextIInv, <1>1, PTL DEF Spec

(* Without compression every prompt the service builds passes its own      *)
(* check.  With compression it does not, which the run                     *)
(* session_prompt_refused shows.                                           *)
THEOREM PromptsCorrect == Spec => []PlainPromptsValid
<1>1. IInv => PlainPromptsValid
  BY DEF IInv
<1>. QED
  BY InitIInv, NextIInv, <1>1, PTL DEF Spec

-----------------------------------------------------------------------------
(* The refinement.  What the abstract memory sees is the newest accepted   *)
(* submits, and accepting one more shifts them.                            *)
Kept(acc) == IF Len(acc) < MaxTurns THEN Len(acc) ELSE MaxTurns

NewestOf(acc) == [i \in 1 .. Kept(acc) |-> acc[Len(acc) - Kept(acc) + i]]

LEMMA NewestOfType ==
    ASSUME NEW acc \in Seq(Requests)
    PROVE  /\ Kept(acc) \in Nat
           /\ Kept(acc) <= Len(acc)
           /\ NewestOf(acc) \in Seq(Requests)
           /\ Len(NewestOf(acc)) = Kept(acc)
           /\ DOMAIN NewestOf(acc) = 1 .. Kept(acc)
<1>1. Kept(acc) \in Nat /\ Kept(acc) <= Len(acc)
  BY HistoryAssumption DEF Kept
<1>2. \A i \in 1 .. Kept(acc) : Len(acc) - Kept(acc) + i \in 1 .. Len(acc)
  BY <1>1
<1>3. \A i \in 1 .. Kept(acc) : acc[Len(acc) - Kept(acc) + i] \in Requests
  BY <1>2
<1>4. NewestOf(acc) \in [1 .. Kept(acc) -> Requests]
  BY <1>3 DEF NewestOf
<1>5. \A k \in Nat : \A f \in [1 .. k -> Requests] :
         f \in Seq(Requests) /\ Len(f) = k
  BY SeqDef
<1>. QED
  BY <1>1, <1>4, <1>5

LEMMA NewestOfAppend ==
    ASSUME NEW acc \in Seq(Requests), NEW r \in Requests
    PROVE  NewestOf(Append(acc, r)) = Memory!Newest(Append(NewestOf(acc), r))
<1> DEFINE more == Append(acc, r)
           w == NewestOf(acc)
           k == Kept(acc)
           m == Kept(more)
<1>1. MaxTurns \in Nat \ {0} /\ Len(acc) \in Nat
  BY HistoryAssumption
<1>2. /\ more \in Seq(Requests) /\ Len(more) = Len(acc) + 1
      /\ \A i \in 1 .. Len(acc) : more[i] = acc[i]
      /\ more[Len(acc) + 1] = r
  OBVIOUS
<1>3. k \in Nat /\ k <= Len(acc) /\ w \in Seq(Requests) /\ Len(w) = k
      /\ NewestOf(more) \in Seq(Requests) /\ Len(NewestOf(more)) = m
  BY <1>2, NewestOfType
<1>4. /\ \A i \in 1 .. k : w[i] = acc[Len(acc) - k + i]
      /\ \A i \in 1 .. m : NewestOf(more)[i] = more[Len(more) - m + i]
  BY DEF NewestOf
<1>5. m = IF k = MaxTurns THEN k ELSE k + 1
  BY <1>1, <1>2 DEF Kept
<1>6. k # MaxTurns => k < MaxTurns /\ k = Len(acc)
  BY <1>1 DEF Kept
<1> HIDE DEF more, w, k, m
<1>7. /\ Append(w, r) \in Seq(Requests)
      /\ Len(Append(w, r)) = k + 1
      /\ \A i \in 1 .. k : Append(w, r)[i] = acc[Len(acc) - k + i]
      /\ Append(w, r)[k + 1] = r
  BY <1>3, <1>4
<1>8. CASE k = MaxTurns
  <2>1. Len(Append(w, r)) > MaxTurns
    BY <1>1, <1>7, <1>8
  <2>2. Memory!Newest(Append(w, r)) = Tail(Append(w, r))
    BY <2>1 DEF Memory!Newest
  <2>3. /\ Tail(Append(w, r)) \in Seq(Requests)
        /\ Len(Tail(Append(w, r))) = m
        /\ \A i \in 1 .. m : Tail(Append(w, r))[i] = Append(w, r)[i + 1]
    <3>1. m = k /\ (k + 1) - 1 = k
      BY <1>3, <1>5, <1>8
    <3>2. Append(w, r) # <<>>
      BY <1>3, AppendProperties
    <3>. QED
      BY <1>7, <3>1, <3>2, HeadTailProperties
  <2>4. ASSUME NEW i \in 1 .. m
        PROVE  Tail(Append(w, r))[i] = NewestOf(more)[i]
    <3>1. CASE i = k
      <4>1. Len(more) - m + i = Len(acc) + 1
        BY <1>1, <1>2, <1>3, <1>5, <1>8, <3>1
      <4>. QED
        BY <1>2, <1>4, <1>7, <2>3, <3>1, <4>1
    <3>2. CASE i # k
      <4>1. /\ i + 1 \in 1 .. k
            /\ Len(more) - m + i \in 1 .. Len(acc)
            /\ Len(acc) - k + (i + 1) = Len(more) - m + i
        BY <1>1, <1>2, <1>3, <1>5, <1>8, <3>2
      <4>. QED
        BY <1>2, <1>4, <1>7, <2>3, <4>1
    <3>. QED
      BY <3>1, <3>2
  <2>5. Tail(Append(w, r)) = NewestOf(more)
    BY <1>3, <2>3, <2>4, SeqEqual
  <2>. QED
    BY <2>2, <2>5 DEF more, w
<1>9. CASE k # MaxTurns
  <2>1. k = Len(acc) /\ m = k + 1 /\ ~ (k + 1 > MaxTurns)
    BY <1>1, <1>3, <1>5, <1>6, <1>9
  <2>2. Memory!Newest(Append(w, r)) = Append(w, r)
    BY <1>7, <2>1 DEF Memory!Newest
  <2>3. ASSUME NEW i \in 1 .. m
        PROVE  Append(w, r)[i] = NewestOf(more)[i]
    <3>1. Len(more) - m + i = i
      BY <1>1, <1>2, <2>1
    <3>2. CASE i = k + 1
      BY <1>2, <1>4, <1>7, <2>1, <3>1, <3>2
    <3>3. CASE i # k + 1
      <4>1. i \in 1 .. k /\ Len(acc) - k + i = i
        BY <1>1, <2>1, <3>3
      <4>. QED
        BY <1>2, <1>4, <1>7, <2>1, <3>1, <4>1
    <3>. QED
      BY <3>2, <3>3
  <2>4. Append(w, r) = NewestOf(more)
    BY <1>3, <1>7, <2>1, <2>3, SeqEqual
  <2>. QED
    BY <2>2, <2>4 DEF more, w
<1>. QED
  BY <1>8, <1>9

LEMMA RememberedIsNewest ==
    ASSUME NEW ts, NEW acc \in Seq(Requests), NEW k, HoldsNewest(ts, acc, k)
    PROVE  [i \in 1 .. k |-> ts[2 * i - 1].req] = NewestOf(acc)
<1>1. k = Kept(acc)
  BY DEF HoldsNewest, Kept
<1>2. \A i \in 1 .. k : ts[2 * i - 1].req = acc[Len(acc) - k + i]
  BY DEF HoldsNewest
<1>. QED
  BY <1>1, <1>2 DEF NewestOf

LEMMA FinishRemembers ==
    ASSUME IInv, IInv', NEW r \in Requests, NEW source,
           FinishWithEstimate(r, source)
    PROVE  Memory!Remember(r)
<1>1. accepted' = Append(accepted, r) /\ submits[r].phase = "awaiting"
  BY DEF FinishWithEstimate
<1>2. accepted \in Seq(Requests) /\ accepted' \in Seq(Requests)
  BY DEF IInv, TypeOK
<1>3. RememberedSubmits = NewestOf(accepted)
  BY <1>2, RememberedIsNewest DEF IInv, RememberedSubmits
<1>4. RememberedSubmits' = NewestOf(accepted')
  BY <1>2, RememberedIsNewest DEF IInv, RememberedSubmits
<1>5. RememberedSubmits' = Memory!Newest(Append(RememberedSubmits, r))
  BY <1>1, <1>2, <1>3, <1>4, NewestOfAppend
<1>6. ASSUME NEW i \in DOMAIN RememberedSubmits
      PROVE  RememberedSubmits[i] # r
  <2>1. /\ i \in 1 .. Kept(accepted) /\ Kept(accepted) \in Nat
        /\ Kept(accepted) <= Len(accepted) /\ Len(accepted) \in Nat
    BY <1>2, <1>3, NewestOfType
  <2>2. Len(accepted) - Kept(accepted) + i \in 1 .. Len(accepted)
    BY <2>1
  <2>3. RememberedSubmits[i] = accepted[Len(accepted) - Kept(accepted) + i]
    BY <1>3, <2>1 DEF NewestOf
  <2>4. DOMAIN accepted = 1 .. Len(accepted)
    BY <1>2
  <2>. QED
    BY <1>1, <2>2, <2>3, <2>4 DEF IInv, AcceptedOnce
<1>. QED
  BY <1>5, <1>6 DEF Memory!Remember

(* The submits of a session, with their two segments, their failures and   *)
(* the window's deletions, implement a memory that takes one whole turn at *)
(* a time and forgets only the oldest.                                     *)
THEOREM SlidingWindowRefined == Spec => ImplementsSlidingWindow
<1>1. Init => Memory!Init
  <2>1. Init => WindowTurns = 0
    BY DEF Init, EmptyHistory, WindowTurns
  <2>2. [i \in 1 .. 0 |-> history.turns[2 * i - 1].req] = <<>>
    OBVIOUS
  <2>. QED
    BY <2>1, <2>2 DEF Memory!Init, RememberedSubmits
<1>2. IInv /\ IInv' /\ [Next]_vars => [Memory!Next]_RememberedSubmits
  <2> SUFFICES ASSUME IInv, IInv', [Next]_vars
               PROVE  [Memory!Next]_RememberedSubmits
    OBVIOUS
  <2>1. ASSUME NEW r \in Requests, NEW source, FinishWithEstimate(r, source)
        PROVE  Memory!Next
    BY <2>1, FinishRemembers DEF Memory!Next
  <2>2. CASE UNCHANGED history
    BY <2>2 DEF RememberedSubmits, WindowTurns
  <2>. QED
    BY <2>1, <2>2 DEF Next, vars, BeginInvalid, Begin, FinishWithoutEstimate,
       RecordFailed, FinishRaised, RecordRaised, ShowEstimate, ShowFails
<1>. QED
  BY InitIInv, NextIInv, <1>1, <1>2, PTL
  DEF Spec, ImplementsSlidingWindow, Memory!Spec

-----------------------------------------------------------------------------
(* The metadata of a session whose submits come one at a time.  That a     *)
(* recorded submit's constraints survive depends on the submit that is in  *)
(* flight: what it merged must still contain what the session has, and a   *)
(* list that is full can no longer change.                                 *)
Full(facts) == Cardinality(facts) = ConstraintCap

Holds(facts, r) == FactsOf[r] \subseteq facts \/ Full(facts)

Recorded ==
    {r \in Requests :
        submits[r].phase \in {"assembling", "ok", "broken", "unavailable"}}

\* facts may replace what the session's metadata has.
Extends(facts) ==
    /\ Cardinality(facts) <= ConstraintCap
    /\ metadata # NoMetadata => metadata.facts \subseteq facts

FactsInv ==
    /\ metadata # NoMetadata => Cardinality(metadata.facts) <= ConstraintCap
    /\ metadata = NoMetadata => Recorded = {}
    /\ \A r, q \in InFlight : r = q
    /\ \A r \in InFlight :
          /\ submits[r].merged # NoMetadata
          /\ Extends(submits[r].merged.facts)
          /\ Holds(submits[r].merged.facts, r)
    /\ \A r \in Recorded : Holds(metadata.facts, r)

SerialFactsInv == ~ overlapped => FactsInv

\* A full list of constraints is the only one that extends it.
LEMMA HoldsGrows ==
    ASSUME NEW old \in SUBSET Facts, NEW new \in SUBSET Facts, old \subseteq new,
           Cardinality(new) <= ConstraintCap, NEW r \in Requests, Holds(old, r)
    PROVE  Holds(new, r)
<1>1. CASE FactsOf[r] \subseteq old
  BY <1>1 DEF Holds
<1>2. CASE Full(old)
  <2>1. IsFiniteSet(new)
    BY SubmitAssumption, FS_Subset
  <2>2. Cardinality(old) <= Cardinality(new) /\ Cardinality(new) \in Nat
    BY <2>1, FS_Subset, FS_CardinalityType
  <2>3. Cardinality(new) = ConstraintCap
    BY <1>2, <2>2, SubmitAssumption DEF Full
  <2>. QED
    BY <2>3 DEF Holds, Full
<1>. QED
  BY <1>1, <1>2 DEF Holds

\* merge_derived_metadata drops nothing the session had, and none of the
\* transcript's constraints before the list is full.
LEMMA MergedFactsHold ==
    ASSUME TypeOK, NEW r \in Requests, NEW facts \in MergedFacts(r)
    PROVE  facts \in SUBSET Facts /\ Extends(facts) /\ Holds(facts, r)
<1>1. FactsOf[r] \in SUBSET Facts /\ Cardinality(FactsOf[r]) <= ConstraintCap
  BY SubmitAssumption
<1>2. CASE metadata = NoMetadata
  BY <1>1, <1>2 DEF MergedFacts, Extends, Holds
<1>3. CASE metadata # NoMetadata
  <2>1. metadata.facts \in SUBSET Facts
    BY <1>3 DEF TypeOK, Metadata
  <2>2. /\ facts \in SUBSET (metadata.facts \cup FactsOf[r])
        /\ metadata.facts \subseteq facts
        /\ Cardinality(facts) <= ConstraintCap
        /\ facts = metadata.facts \cup FactsOf[r] \/ Full(facts)
    BY <1>3 DEF MergedFacts, Full
  <2>. QED
    BY <1>1, <2>1, <2>2 DEF Extends, Holds
<1>. QED
  BY <1>2, <1>3

\* What a submit that has begun would write is a constraint list.
LEMMA MergedType ==
    ASSUME TypeOK
    PROVE  /\ metadata # NoMetadata => metadata.facts \in SUBSET Facts
           /\ \A r \in Requests : submits[r].merged # NoMetadata =>
                 submits[r].merged.facts \in SUBSET Facts
<1>1. submits \in [Requests -> Submit] /\ metadata \in Metadata \cup {NoMetadata}
  BY DEF TypeOK
<1>2. \A r \in Requests : submits[r].merged \in Metadata \cup {NoMetadata}
  BY <1>1 DEF Submit
<1>. QED
  BY <1>1, <1>2 DEF Metadata

\* A submit leaves the flight without touching the metadata.
LEMMA FactsUntouched ==
    ASSUME IInv, FactsInv, NEW r \in Requests, UNCHANGED metadata,
           NEW phase \in {"invalid", "rejected"}, Answer(r, phase)
    PROVE  FactsInv'
<1>1. /\ submits'[r].phase = phase
      /\ \A q \in Requests \ {r} : submits'[q] = submits[q]
  BY AnswerType DEF IInv, Phases
<1>2. /\ InFlight' \in SUBSET InFlight /\ Recorded' \in SUBSET Recorded
      /\ r \notin InFlight' /\ r \notin Recorded'
  BY <1>1 DEF InFlight, Recorded
<1>3. \A q \in InFlight' \cup Recorded' : q \in Requests \ {r} /\ submits'[q] = submits[q]
  BY <1>1, <1>2 DEF InFlight, Recorded
<1>4. \A q \in InFlight' : submits'[q].merged = submits[q].merged
  BY <1>3
<1>. QED
  BY <1>2, <1>4 DEF FactsInv, Extends, Holds, Full

\* A submit is recorded: it was the only one in flight.
LEMMA FactsRecorded ==
    ASSUME IInv, FactsInv, NEW r \in Requests, submits[r].phase = "awaiting",
           RecordSubmit(r), NEW phase \in {"assembling", "unavailable"},
           Answer(r, phase)
    PROVE  FactsInv'
<1>1. /\ submits'[r].phase = phase
      /\ \A q \in Requests \ {r} : submits'[q] = submits[q]
  BY AnswerType DEF IInv, Phases
<1>2. InFlight' = {} /\ Recorded' = Recorded \cup {r}
  BY <1>1 DEF InFlight, Recorded, FactsInv
<1>3. /\ metadata' = submits[r].merged /\ metadata' # NoMetadata
      /\ Extends(metadata'.facts) /\ Holds(metadata'.facts, r)
  BY DEF RecordSubmit, FactsInv, InFlight
<1>4. /\ metadata # NoMetadata => metadata.facts \in SUBSET Facts
      /\ metadata'.facts \in SUBSET Facts
  BY <1>3, MergedType DEF IInv
<1>5. ASSUME NEW q \in Recorded PROVE Holds(metadata'.facts, q)
  <2>1. /\ metadata # NoMetadata /\ q \in Requests /\ Holds(metadata.facts, q)
        /\ metadata.facts \subseteq metadata'.facts
        /\ Cardinality(metadata'.facts) <= ConstraintCap
    BY <1>3 DEF FactsInv, Recorded, Extends
  <2>. QED
    BY <1>4, <2>1, HoldsGrows
<1>6. \A q \in Recorded' : Holds(metadata'.facts, q)
  BY <1>2, <1>3, <1>5
<1>. QED
  BY <1>2, <1>3, <1>6 DEF FactsInv, Extends, Holds, Full

\* A submit that is recorded already is answered.
LEMMA FactsAnswered ==
    ASSUME IInv, FactsInv, NEW r \in Requests, UNCHANGED metadata,
           submits[r].phase = "assembling",
           NEW phase \in {"ok", "broken"}, Answer(r, phase)
    PROVE  FactsInv'
<1>1. /\ submits'[r].phase = phase
      /\ \A q \in Requests \ {r} : submits'[q] = submits[q]
  BY AnswerType DEF IInv, Phases
<1>2. InFlight' = InFlight /\ Recorded' = Recorded
  BY <1>1 DEF InFlight, Recorded
<1>3. \A q \in InFlight : submits'[q].merged = submits[q].merged
  BY <1>1 DEF InFlight
<1>. QED
  BY <1>2, <1>3 DEF FactsInv, Extends, Holds, Full

\* A submit begins while no other is in flight.
LEMMA FactsBegun ==
    ASSUME IInv, FactsInv, NEW r \in Requests, Begin(r), InFlight = {}
    PROVE  FactsInv'
<1>1. PICK facts \in MergedFacts(r) :
        submits' = [submits EXCEPT ![r] =
             [phase    |-> "awaiting",
              messages |-> MessagesOverride(r),
              merged   |-> [name |-> ResolvedName(r), facts |-> facts],
              fullForm |-> submitCount = 0]]
  BY DEF Begin
<1>2. /\ TypeOK /\ submits \in [Requests -> Submit] /\ metadata' = metadata
      /\ submits[r].phase = "idle" /\ FormComplete(r)
  BY DEF IInv, TypeOK, Begin
<1>3. /\ submits'[r].phase = "awaiting"
      /\ submits'[r].merged = [name |-> ResolvedName(r), facts |-> facts]
      /\ \A q \in Requests \ {r} : submits'[q] = submits[q]
  BY <1>1, <1>2
<1>4. InFlight' = {r} /\ Recorded' = Recorded
  BY <1>2, <1>3 DEF InFlight, Recorded
<1>5. facts \in SUBSET Facts /\ Extends(facts) /\ Holds(facts, r)
  BY <1>2, MergedFactsHold
<1>6. submits'[r].merged # NoMetadata
  <2>1. ResolvedName(r) \in Names
    BY <1>2, SubmitAssumption, NoMetadataAssumption
    DEF FormComplete, ResolvedName, TypeOK, Metadata
  <2>. QED
    BY <1>3, <1>5, <2>1, NoMetadataAssumption DEF Metadata
<1>7. submits'[r].merged.facts = facts
  BY <1>3
<1>8. \A q \in InFlight' : /\ submits'[q].merged # NoMetadata
                           /\ submits'[q].merged.facts = facts
                           /\ Holds(facts, q)
  BY <1>4, <1>5, <1>6, <1>7
<1>9. /\ Cardinality(facts) <= ConstraintCap
      /\ metadata' # NoMetadata => metadata'.facts \subseteq facts
  BY <1>2, <1>5 DEF Extends
<1>10. \A p, q \in InFlight' : p = q
  BY <1>4
<1>11. /\ metadata' # NoMetadata => Cardinality(metadata'.facts) <= ConstraintCap
       /\ metadata' = NoMetadata => Recorded' = {}
       /\ \A q \in Recorded' : Holds(metadata'.facts, q)
  BY <1>2, <1>4 DEF FactsInv
<1>. QED
  BY <1>8, <1>9, <1>10, <1>11 DEF FactsInv, Extends

(* While submits come one at a time, whatever they end in, no recorded     *)
(* submit's constraints are lost before the list is full.                  *)
THEOREM SerialFactsCorrect == Spec => []SerialFactsKept
<1>1. Init => SerialFactsInv
  BY DEF Init, SerialFactsInv, FactsInv, Recorded, InFlight, IdleSubmit
<1>2. IInv /\ SerialFactsInv /\ [Next]_vars => SerialFactsInv'
  <2> SUFFICES ASSUME IInv, SerialFactsInv, [Next]_vars, ~ overlapped'
               PROVE  FactsInv'
    BY DEF SerialFactsInv
  <2>1. ASSUME NEW r \in Requests, BeginInvalid(r) PROVE FactsInv'
    BY <2>1, FactsUntouched DEF SerialFactsInv, BeginInvalid
  <2>2. ASSUME NEW r \in Requests, Begin(r) PROVE FactsInv'
    BY <2>2, FactsBegun DEF SerialFactsInv, Begin
  <2>3. ASSUME NEW r \in Requests, NEW source, FinishWithEstimate(r, source)
        PROVE  FactsInv'
    BY <2>3, FactsRecorded DEF SerialFactsInv, FinishWithEstimate
  <2>4. ASSUME NEW r \in Requests, FinishWithoutEstimate(r) PROVE FactsInv'
    BY <2>4, FactsRecorded DEF SerialFactsInv, FinishWithoutEstimate
  <2>5. ASSUME NEW r \in Requests, FinishRaised(r) PROVE FactsInv'
    BY <2>5, FactsUntouched DEF SerialFactsInv, FinishRaised, RecordRaised
  <2>6. ASSUME NEW r \in Requests, ShowEstimate(r) PROVE FactsInv'
    BY <2>6, FactsAnswered DEF SerialFactsInv, ShowEstimate
  <2>7. ASSUME NEW r \in Requests, ShowFails(r) PROVE FactsInv'
    BY <2>7, FactsAnswered DEF SerialFactsInv, ShowFails
  <2>8. CASE UNCHANGED vars
    BY <2>8 DEF vars, SerialFactsInv, FactsInv, Recorded, InFlight, Extends,
                Holds, Full
  <2>. QED
    BY <2>1, <2>2, <2>3, <2>4, <2>5, <2>6, <2>7, <2>8 DEF Next
<1>3. SerialFactsInv => SerialFactsKept
  BY DEF SerialFactsInv, FactsInv, SerialFactsKept, FactsKept, Recorded, Holds, Full
<1>. QED
  BY InitIInv, NextIInv, <1>1, <1>2, <1>3, PTL DEF Spec

-----------------------------------------------------------------------------
(* What a compressed session remembers outside its window.  Both           *)
(* properties are inductive beside IInv: an eviction only moves the oldest *)
(* turn, and that turn is whole.                                           *)
In(m, s) == \E j \in DOMAIN s : s[j] = m

TurnAt(s, j, r) ==
    s[j].role = "user" /\ s[j].req = r /\ s[j + 1] = AssistantMessage(r)

HasTurn(s, r) == \E j \in 1 .. (Len(s) - 1) : TurnAt(s, j, r)

\* The window with one more turn, before anything is evicted.
WithTurn(ts, r, n) == Append(Append(ts, UserMessage(r, n)), AssistantMessage(r))

LEMMA WithTurnFacts ==
    ASSUME NEW ts \in Seq(Message), NEW r \in Requests, NEW n \in Nat
    PROVE  /\ WithTurn(ts, r, n) \in Seq(Message)
           /\ Len(WithTurn(ts, r, n)) = Len(ts) + 2
           /\ \A i \in 1 .. Len(ts) : WithTurn(ts, r, n)[i] = ts[i]
           /\ WithTurn(ts, r, n)[Len(ts) + 1] = UserMessage(r, n)
           /\ WithTurn(ts, r, n)[Len(ts) + 2] = AssistantMessage(r)
  BY MessageTypes, AppendTwo DEF WithTurn

\* Concatenation of messages.
LEMMA MessagesConcat ==
    ASSUME NEW s \in Seq(Message), NEW t \in Seq(Message)
    PROVE  s \o t \in Seq(Message) /\ Len(s \o t) = Len(s) + Len(t)
  OBVIOUS

LEMMA MessagesAssociative ==
    ASSUME NEW s \in Seq(Message), NEW t \in Seq(Message), NEW u \in Seq(Message)
    PROVE  (s \o t) \o u = s \o (t \o u)
  BY ConcatAssociative

LEMMA InConcat ==
    ASSUME NEW s \in Seq(Message), NEW t \in Seq(Message), NEW m
    PROVE  /\ In(m, s) => In(m, s \o t)
           /\ In(m, t) => In(m, s \o t)
           /\ In(m, s \o t) => In(m, s) \/ In(m, t)
<1>1. /\ s \o t \in Seq(Message) /\ Len(s \o t) = Len(s) + Len(t)
      /\ Len(s) \in Nat /\ Len(t) \in Nat
      /\ DOMAIN s = 1 .. Len(s) /\ DOMAIN t = 1 .. Len(t)
      /\ DOMAIN (s \o t) = 1 .. Len(s) + Len(t)
      /\ \A i \in 1 .. Len(s) + Len(t) :
            (s \o t)[i] = IF i <= Len(s) THEN s[i] ELSE t[i - Len(s)]
  BY ConcatProperties
<1>2. ASSUME NEW i \in DOMAIN s PROVE i \in DOMAIN (s \o t) /\ (s \o t)[i] = s[i]
  BY <1>1
<1>3. ASSUME NEW i \in DOMAIN t
      PROVE  i + Len(s) \in DOMAIN (s \o t) /\ (s \o t)[i + Len(s)] = t[i]
  <2>1. /\ i + Len(s) \in 1 .. Len(s) + Len(t) /\ ~ (i + Len(s) <= Len(s))
        /\ (i + Len(s)) - Len(s) = i
    BY <1>1
  <2>. QED
    BY <1>1, <2>1
<1>4. ASSUME NEW i \in DOMAIN (s \o t)
      PROVE  \/ i \in DOMAIN s /\ (s \o t)[i] = s[i]
             \/ i - Len(s) \in DOMAIN t /\ (s \o t)[i] = t[i - Len(s)]
  BY <1>1
<1>. QED
  BY <1>2, <1>3, <1>4 DEF In

\* A sequence is its first two messages and the rest.
LEMMA PairAndRest ==
    ASSUME NEW s \in Seq(Message), 2 <= Len(s)
    PROVE  /\ SubSeq(s, 1, 2) \in Seq(Message)
           /\ Len(SubSeq(s, 1, 2)) = 2
           /\ SubSeq(s, 3, Len(s)) \in Seq(Message)
           /\ SubSeq(s, 1, 2) \o SubSeq(s, 3, Len(s)) = s
<1>1. Len(s) \in Nat /\ 1 \in 1 .. Len(s) + 1 /\ 2 \in 0 .. Len(s) /\ Len(s) \in 2 .. Len(s)
  OBVIOUS
<1>2. 2 \in 1 - 1 .. Len(s) /\ 2 + 1 = 3
  BY <1>1
<1>3. SubSeq(s, 1, 2) \o SubSeq(s, 2 + 1, Len(s)) = SubSeq(s, 1, Len(s))
  BY <1>1, <1>2, ConcatAdjacentSubSeq
<1>4. SubSeq(s, 1, Len(s)) = s
  BY SubSeqFull
<1>5. \A i \in 1 .. 2 : s[i] \in Message
  BY <1>1
<1>6. SubSeq(s, 1, 2) \in Seq(Message) /\ Len(SubSeq(s, 1, 2)) = 2
  BY <1>5, SubSeqProperties
<1>. QED
  BY <1>2, <1>3, <1>4, <1>6, DropPair

\* A summary that is not cut is the old one and the turn; one that is cut
\* is full.
LEMMA LongestFacts ==
    ASSUME NEW s \in Seq(Message), NEW n \in Nat
    PROVE  IF Len(s) <= n THEN Longest(s, n) = s ELSE Len(Longest(s, n)) = n
<1>1. CASE Len(s) <= n
  BY <1>1, SubSeqFull DEF Longest
<1>2. CASE ~ (Len(s) <= n)
  <2>1. \A i \in 1 .. n : s[i] \in Message
    BY <1>2
  <2>2. Len(SubSeq(s, 1, n)) = IF 1 <= n THEN n - 1 + 1 ELSE 0
    BY <2>1, SubSeqProperties
  <2>. QED
    BY <1>2, <2>2 DEF Longest
<1>. QED
  BY <1>1, <1>2

(* Where the messages of a compressed session are after one more turn:     *)
(* both is the window with that turn, before anything is evicted.          *)
Evicts(h, both, new) ==
    \/ /\ new.turns = both
       /\ new.anchors = h.anchors /\ new.summary = h.summary
    \/ /\ new.turns = SubSeq(both, 3, Len(both))
       /\ new.anchors = h.anchors \o SubSeq(both, 1, 2)
       /\ new.summary = h.summary
    \/ /\ Len(h.turns) = 2 * MaxTurns /\ both[1].req \notin Anchored
       /\ new.turns = SubSeq(both, 3, Len(both))
       /\ new.anchors = h.anchors
       /\ new.summary = Longest(h.summary \o SubSeq(both, 1, 2), SummaryCap)

LEMMA RememberTurnCompressed ==
    ASSUME NEW h \in History, h.compressed, NEW r \in Requests, NEW n \in Nat,
           WholeTurns(h.turns)
    PROVE  Evicts(h, WithTurn(h.turns, r, n), RememberTurn(h, r, n))
<1>0. PICK both, new : both = WithTurn(h.turns, r, n) /\ new = RememberTurn(h, r, n)
  OBVIOUS
<1> DEFINE g == [h EXCEPT !.turns = both]
           old == h.turns
<1>1. /\ old \in Seq(Message) /\ MaxTurns \in Nat \ {0} /\ Len(old) \in Nat
      /\ Len(old) <= 2 * MaxTurns /\ Len(old) % 2 = 0
  <2>1. MaxTurns \in Nat \ {0}
    BY HistoryAssumption
  <2>2. /\ old \in Seq(Message) /\ Len(old) <= 2 * MaxTurns
        /\ Len(old) % 2 = 0
    BY DEF WholeTurns
  <2>3. Len(old) \in Nat
    BY <2>2
  <2>. QED
    BY <2>1, <2>2, <2>3
<1>2. /\ both \in Seq(Message) /\ Len(both) = Len(old) + 2
      /\ \A i \in 1 .. Len(old) : both[i] = old[i]
  BY <1>0, <1>1, WithTurnFacts
<1>3. new = Compress(g)
  <2>1. h.compressed = TRUE
    BY DEF History
  <2>2. AddUserMessage(h, UserMessage(r, n)) =
           [h EXCEPT !.turns = Append(old, UserMessage(r, n))]
    BY <2>1 DEF AddUserMessage
  <2>3. AddAssistantMessage([h EXCEPT !.turns = Append(old, UserMessage(r, n))],
                            AssistantMessage(r)) = Compress(g)
    BY <1>0, <2>1 DEF AddAssistantMessage, History, WithTurn
  <2>. QED
    BY <1>0, <2>2, <2>3 DEF RememberTurn
<1>4. /\ g.turns = both /\ g.anchors = h.anchors /\ g.summary = h.summary
      /\ g \in History
  BY <1>2 DEF History
<1> HIDE DEF g
<1>5. ASSUME Len(old) # 2 * MaxTurns PROVE Evicts(h, both, new)
  <2>1. ~ (Len(both) > 2 * MaxTurns)
    <3>1. PICK half \in Nat : Len(old) = 2 * half
      BY <1>1, HalfOfEven
    <3>2. half < MaxTurns
      BY <1>1, <1>5, <3>1
    <3>3. Len(both) = 2 * half + 2
      BY <1>2, <3>1
    <3>. QED
      BY <1>1, <3>2, <3>3
  <2>2. new = g
    BY <1>3, <1>4, <2>1 DEF Compress
  <2>. QED
    BY <1>4, <2>2 DEF Evicts
<1>6. ASSUME Len(old) = 2 * MaxTurns PROVE Evicts(h, both, new)
  <2>1. new = EvictFirst(g)
    BY <1>1, <1>2, <1>3, <1>4, <1>6 DEF Compress
  <2>2. IsTurn(g.turns[1], g.turns[2])
    <3>1. 1 \in 1 .. Len(old) /\ 2 \in 1 .. Len(old)
      BY <1>1, <1>6
    <3>2. old[1].role = "user" /\ old[2].role = "assistant"
      BY <3>1 DEF WholeTurns, ExpectedRole
    <3>. QED
      BY <1>2, <1>4, <3>1, <3>2 DEF IsTurn
  <2>3. CASE both[1].req \in Anchored
    <3>1. new = [g EXCEPT !.turns = SubSeq(@, 3, Len(@)),
                          !.anchors = @ \o SubSeq(g.turns, 1, 2)]
      BY <1>4, <2>1, <2>2, <2>3 DEF EvictFirst
    <3>. QED
      BY <1>4, <1>6, <3>1 DEF History, Evicts
  <2>4. CASE both[1].req \notin Anchored
    <3>1. new = [g EXCEPT !.turns = SubSeq(@, 3, Len(@)),
                          !.summary = Longest(@ \o SubSeq(g.turns, 1, 2), SummaryCap)]
      BY <1>4, <2>1, <2>2, <2>4 DEF EvictFirst
    <3>. QED
      BY <1>4, <1>6, <2>4, <3>1 DEF History, Evicts
  <2>. QED
    BY <2>3, <2>4
<1>7. Evicts(h, both, new)
  BY <1>5, <1>6
<1>. QED
  BY <1>0, <1>7

\* A turn added at the end of the window is there, and none goes away.
LEMMA TurnAdded ==
    ASSUME NEW s \in Seq(Message), NEW ts \in Seq(Message),
           NEW r \in Requests, NEW n \in Nat
    PROVE  /\ HasTurn(s \o WithTurn(ts, r, n), r)
           /\ \A q : HasTurn(s \o ts, q) => HasTurn(s \o WithTurn(ts, r, n), q)
<1> DEFINE k == Len(s) + Len(ts)
           both == WithTurn(ts, r, n)
<1>1. /\ both \in Seq(Message) /\ Len(both) = Len(ts) + 2
      /\ \A i \in 1 .. Len(ts) : both[i] = ts[i]
      /\ both[Len(ts) + 1] = UserMessage(r, n)
      /\ both[Len(ts) + 2] = AssistantMessage(r)
      /\ Len(s) \in Nat /\ Len(ts) \in Nat
  <2>1. Len(s) \in Nat /\ Len(ts) \in Nat
    OBVIOUS
  <2>. QED
    BY <2>1, WithTurnFacts
<1> HIDE DEF both
<1>2. /\ Len(s \o ts) = k /\ Len(s \o both) = k + 2
      /\ \A i \in 1 .. k : (s \o ts)[i] = IF i <= Len(s) THEN s[i] ELSE ts[i - Len(s)]
      /\ \A i \in 1 .. k + 2 :
            (s \o both)[i] = IF i <= Len(s) THEN s[i] ELSE both[i - Len(s)]
  <2>1. Len(s) + Len(both) = k + 2
    BY <1>1
  <2>2. /\ Len(s \o ts) = k
        /\ \A i \in 1 .. k :
              (s \o ts)[i] = IF i <= Len(s) THEN s[i] ELSE ts[i - Len(s)]
    BY ConcatProperties
  <2>3. /\ Len(s \o both) = Len(s) + Len(both)
        /\ \A i \in 1 .. Len(s) + Len(both) :
              (s \o both)[i] = IF i <= Len(s) THEN s[i] ELSE both[i - Len(s)]
    BY <1>1, ConcatProperties
  <2>. QED
    BY <2>1, <2>2, <2>3
<1>3. ASSUME NEW i \in 1 .. k PROVE (s \o both)[i] = (s \o ts)[i]
  <2>1. i \in 1 .. k + 2 /\ (~ (i <= Len(s)) => i - Len(s) \in 1 .. Len(ts))
    BY <1>1
  <2>. QED
    BY <1>1, <1>2, <2>1
<1>4. (s \o both)[k + 1] = UserMessage(r, n) /\ (s \o both)[k + 2] = AssistantMessage(r)
  <2>1. k + 1 \in 1 .. k + 2 /\ ~ (k + 1 <= Len(s)) /\ (k + 1) - Len(s) = Len(ts) + 1
    BY <1>1
  <2>2. k + 2 \in 1 .. k + 2 /\ ~ (k + 2 <= Len(s)) /\ (k + 2) - Len(s) = Len(ts) + 2
    BY <1>1
  <2>3. (s \o both)[k + 1] = both[Len(ts) + 1]
    BY <1>2, <2>1
  <2>4. (s \o both)[k + 2] = both[Len(ts) + 2]
    BY <1>2, <2>2
  <2>. QED
    BY <1>1, <2>3, <2>4, Zenon
<1>5. HasTurn(s \o both, r)
  <2>1. k + 1 \in 1 .. (k + 2) - 1 /\ (k + 1) + 1 = k + 2
    BY <1>1
  <2>2. UserMessage(r, n).role = "user" /\ UserMessage(r, n).req = r
    BY DEF UserMessage
  <2>3. TurnAt(s \o both, k + 1, r)
    BY <1>4, <2>1, <2>2 DEF TurnAt
  <2>. QED
    BY <1>2, <2>1, <2>3 DEF HasTurn
<1>6. ASSUME NEW q, HasTurn(s \o ts, q) PROVE HasTurn(s \o both, q)
  <2>1. PICK j \in 1 .. k - 1 : TurnAt(s \o ts, j, q)
    BY <1>2, <1>6 DEF HasTurn
  <2>2. j \in 1 .. k /\ j + 1 \in 1 .. k /\ j \in 1 .. (k + 2) - 1
    BY <1>1
  <2>3. TurnAt(s \o both, j, q)
    BY <1>3, <2>1, <2>2 DEF TurnAt
  <2>. QED
    BY <1>2, <2>2, <2>3 DEF HasTurn
<1>. QED
  BY <1>5, <1>6 DEF both

\* The first turn of the window is dropped: every other turn stays.
LEMMA TurnDropped ==
    ASSUME NEW s \in Seq(Message), NEW ts \in Seq(Message), 2 <= Len(ts),
           ts[1].role = "user", ts[2].role = "assistant",
           NEW q \in Requests, ts[1].req # q, HasTurn(s \o ts, q)
    PROVE  HasTurn(s \o SubSeq(ts, 3, Len(ts)), q)
<1> DEFINE rest == SubSeq(ts, 3, Len(ts))
           k == Len(s) + Len(ts)
<1>1. /\ rest \in Seq(Message) /\ Len(rest) = Len(ts) - 2
      /\ \A i \in 1 .. Len(ts) - 2 : rest[i] = ts[i + 2]
      /\ Len(s) \in Nat /\ Len(ts) \in Nat
  BY DropPair
<1> HIDE DEF rest
<1>2. /\ Len(s \o ts) = k /\ Len(s \o rest) = k - 2
      /\ \A i \in 1 .. k : (s \o ts)[i] = IF i <= Len(s) THEN s[i] ELSE ts[i - Len(s)]
      /\ \A i \in 1 .. k - 2 :
            (s \o rest)[i] = IF i <= Len(s) THEN s[i] ELSE rest[i - Len(s)]
  <2>1. Len(s) + Len(rest) = k - 2
    BY <1>1
  <2>2. /\ Len(s \o ts) = k
        /\ \A i \in 1 .. k :
              (s \o ts)[i] = IF i <= Len(s) THEN s[i] ELSE ts[i - Len(s)]
    BY ConcatProperties
  <2>3. /\ Len(s \o rest) = Len(s) + Len(rest)
        /\ \A i \in 1 .. Len(s) + Len(rest) :
              (s \o rest)[i] = IF i <= Len(s) THEN s[i] ELSE rest[i - Len(s)]
    <3>1. rest \in Seq(Message)
      BY <1>1
    <3>. QED
      BY <3>1, ConcatProperties
  <2>. QED
    BY <2>1, <2>2, <2>3
<1>3. PICK j \in 1 .. k - 1 : TurnAt(s \o ts, j, q)
  BY <1>2 DEF HasTurn
<1>4. j + 1 # Len(s) + 1
  <2> SUFFICES ASSUME j + 1 = Len(s) + 1 PROVE FALSE
    OBVIOUS
  <2>1. (s \o ts)[j + 1] = ts[1]
    <3>1. j + 1 \in 1 .. k /\ ~ (j + 1 <= Len(s)) /\ (j + 1) - Len(s) = 1
      BY <1>1
    <3>. QED
      BY <1>2, <3>1
  <2>. QED
    BY <1>3, <2>1 DEF TurnAt, AssistantMessage
<1>5. j # Len(s) + 1
  <2> SUFFICES ASSUME j = Len(s) + 1 PROVE FALSE
    OBVIOUS
  <2>1. (s \o ts)[j] = ts[1]
    <3>1. j \in 1 .. k /\ ~ (j <= Len(s)) /\ j - Len(s) = 1
      BY <1>1
    <3>. QED
      BY <1>2, <3>1
  <2>. QED
    BY <1>3, <2>1 DEF TurnAt
<1>6. j # Len(s) + 2
  <2> SUFFICES ASSUME j = Len(s) + 2 PROVE FALSE
    OBVIOUS
  <2>1. (s \o ts)[j] = ts[2]
    <3>1. j \in 1 .. k /\ ~ (j <= Len(s)) /\ j - Len(s) = 2
      BY <1>1
    <3>. QED
      BY <1>2, <3>1
  <2>. QED
    BY <1>3, <2>1 DEF TurnAt
<1>7. CASE j + 1 <= Len(s)
  <2>1. /\ j \in 1 .. k /\ j + 1 \in 1 .. k /\ j <= Len(s)
        /\ j \in 1 .. k - 2 /\ j + 1 \in 1 .. k - 2 /\ j \in 1 .. (k - 2) - 1
    BY <1>1, <1>7
  <2>2. (s \o rest)[j] = (s \o ts)[j] /\ (s \o rest)[j + 1] = (s \o ts)[j + 1]
    BY <1>2, <1>7, <2>1
  <2>3. TurnAt(s \o rest, j, q)
    BY <1>3, <2>2 DEF TurnAt
  <2>. QED
    BY <1>2, <2>1, <2>3 DEF HasTurn, rest
<1>8. CASE j >= Len(s) + 3
  <2> DEFINE i == j - 2
  <2>1. /\ j \in 1 .. k /\ j + 1 \in 1 .. k /\ ~ (j <= Len(s)) /\ ~ (j + 1 <= Len(s))
        /\ i \in 1 .. k - 2 /\ i + 1 \in 1 .. k - 2 /\ i \in 1 .. (k - 2) - 1
        /\ ~ (i <= Len(s)) /\ ~ (i + 1 <= Len(s))
        /\ i - Len(s) \in 1 .. Len(ts) - 2 /\ (i + 1) - Len(s) \in 1 .. Len(ts) - 2
        /\ (i - Len(s)) + 2 = j - Len(s) /\ ((i + 1) - Len(s)) + 2 = (j + 1) - Len(s)
    BY <1>1, <1>8
  <2>2. (s \o rest)[i] = rest[i - Len(s)] /\ rest[i - Len(s)] = ts[j - Len(s)]
    BY <1>1, <1>2, <2>1
  <2>3. /\ (s \o rest)[i + 1] = rest[(i + 1) - Len(s)]
        /\ rest[(i + 1) - Len(s)] = ts[(j + 1) - Len(s)]
    BY <1>1, <1>2, <2>1
  <2>4. (s \o ts)[j] = ts[j - Len(s)] /\ (s \o ts)[j + 1] = ts[(j + 1) - Len(s)]
    BY <1>2, <2>1
  <2>5. TurnAt(s \o rest, i, q)
    BY <1>3, <2>2, <2>3, <2>4 DEF TurnAt
  <2>. QED
    BY <1>2, <2>1, <2>5 DEF HasTurn, rest
<1>9. j + 1 <= Len(s) \/ j >= Len(s) + 3
  BY <1>1, <1>4, <1>5, <1>6
<1>. QED
  BY <1>7, <1>8, <1>9

MemoryInv == AnchorsVerbatim /\ NoTurnForgotten

\* An anchored turn that is accepted stays whole, and so does every earlier one.
LEMMA AnchorsStay ==
    ASSUME IInv, AnchorsVerbatim, NEW r \in Requests, NEW source,
           FinishWithEstimate(r, source), history'.compressed
    PROVE  AnchorsVerbatim'
<1> DEFINE both == WithTurn(history.turns, r, submitCount + 1)
<1>1. /\ history \in History /\ WholeTurns(history.turns) /\ submitCount \in Nat
      /\ history' = RememberTurn(history, r, submitCount + 1)
      /\ submitCount + 1 \in Nat
  BY DEF IInv, TypeOK, FinishWithEstimate, TurnIndex
<1>2. history.compressed
  BY <1>1, RememberTurnKeepsPolicy
<1>3. /\ history.anchors \in Seq(Message) /\ history.turns \in Seq(Message)
      /\ MaxTurns \in Nat \ {0}
  BY <1>1, HistoryAssumption DEF History
<1>4. /\ both \in Seq(Message) /\ Len(both) = Len(history.turns) + 2
      /\ \A i \in 1 .. Len(history.turns) : both[i] = history.turns[i]
  BY <1>1, <1>3, WithTurnFacts
<1>5. /\ HasTurn(history.anchors \o both, r)
      /\ \A q : HasTurn(history.anchors \o history.turns, q) =>
                   HasTurn(history.anchors \o both, q)
  <2>1. HasTurn(history.anchors \o both, r)
    BY <1>1, <1>3, TurnAdded
  <2>2. ASSUME NEW q, HasTurn(history.anchors \o history.turns, q)
        PROVE  HasTurn(history.anchors \o both, q)
    BY <1>1, <1>3, <2>2, TurnAdded
  <2>. QED
    BY <2>1, <2>2
<1>6. ASSUME NEW q \in Requests, q \in Anchored, HasTurn(history.anchors \o both, q)
      PROVE  HasTurn(history'.anchors \o history'.turns, q)
  <2>1. CASE history'.turns = both /\ history'.anchors = history.anchors
    BY <1>6, <2>1
  <2>2. CASE /\ history'.turns = SubSeq(both, 3, Len(both))
             /\ history'.anchors = history.anchors \o SubSeq(both, 1, 2)
    <3>1. /\ SubSeq(both, 1, 2) \in Seq(Message)
          /\ SubSeq(both, 3, Len(both)) \in Seq(Message)
          /\ SubSeq(both, 1, 2) \o SubSeq(both, 3, Len(both)) = both
      <4>1. 2 <= Len(both)
        BY <1>3, <1>4
      <4>. QED
        BY <1>4, <4>1, PairAndRest
    <3>2. (history.anchors \o SubSeq(both, 1, 2)) \o SubSeq(both, 3, Len(both))
             = history.anchors \o (SubSeq(both, 1, 2) \o SubSeq(both, 3, Len(both)))
      BY <1>3, <3>1, MessagesAssociative
    <3>3. history'.anchors \o history'.turns = history.anchors \o both
      BY <2>2, <3>1, <3>2, Zenon
    <3>. QED
      BY <1>6, <3>3, Zenon
  <2>3. CASE /\ Len(history.turns) = 2 * MaxTurns /\ both[1].req \notin Anchored
             /\ history'.turns = SubSeq(both, 3, Len(both))
             /\ history'.anchors = history.anchors
    <3>1. /\ 1 \in 1 .. Len(history.turns) /\ 2 \in 1 .. Len(history.turns)
          /\ 2 <= Len(both)
      BY <1>3, <1>4, <2>3
    <3>2. both[1].role = "user" /\ both[2].role = "assistant"
      BY <1>1, <1>4, <3>1 DEF WholeTurns, ExpectedRole
    <3>3. both[1].req # q
      BY <1>6, <2>3
    <3>4. HasTurn(history.anchors \o SubSeq(both, 3, Len(both)), q)
      BY <1>3, <1>4, <1>6, <3>1, <3>2, <3>3, TurnDropped
    <3>. QED
      BY <2>3, <3>4
  <2>4. \/ /\ history'.turns = both /\ history'.anchors = history.anchors
        \/ /\ history'.turns = SubSeq(both, 3, Len(both))
           /\ history'.anchors = history.anchors \o SubSeq(both, 1, 2)
        \/ /\ Len(history.turns) = 2 * MaxTurns /\ both[1].req \notin Anchored
           /\ history'.turns = SubSeq(both, 3, Len(both))
           /\ history'.anchors = history.anchors
    <3>1. Evicts(history, both, history')
      BY <1>1, <1>2, RememberTurnCompressed
    <3>. QED
      BY <3>1 DEF Evicts
  <2>. QED
    BY <2>1, <2>2, <2>3, <2>4, Zenon
<1>7. /\ accepted \in Seq(Requests) /\ accepted' = Append(accepted, r)
  BY DEF IInv, TypeOK, FinishWithEstimate
<1>8. \A i \in DOMAIN accepted' : accepted'[i] = r \/
         \E j \in DOMAIN accepted : accepted'[i] = accepted[j]
  BY <1>7
<1>9. ASSUME NEW i \in DOMAIN accepted', accepted'[i] \in Anchored
      PROVE  HasTurn(history'.anchors \o history'.turns, accepted'[i])
  <2>1. accepted'[i] \in Requests
    BY <1>9, HistoryAssumption
  <2>2. HasTurn(history.anchors \o both, accepted'[i])
    <3>1. ASSUME NEW j \in DOMAIN accepted, accepted[j] \in Anchored
          PROVE  HasTurn(history.anchors \o history.turns, accepted[j])
      BY <1>2, <3>1 DEF AnchorsVerbatim, HasTurn, TurnAt
    <3>. QED
      BY <1>5, <1>8, <1>9, <3>1
  <2>. QED
    BY <1>6, <1>9, <2>1, <2>2
<1>. QED
  BY <1>9 DEF AnchorsVerbatim, HasTurn, TurnAt

\* What a turn says is in the window, in an anchor or in the summary, or the
\* summary is full, and then it stays full.
LEMMA NothingForgotten ==
    ASSUME IInv, NoTurnForgotten, NEW r \in Requests, NEW source,
           FinishWithEstimate(r, source), history'.compressed
    PROVE  NoTurnForgotten'
<1> DEFINE both == WithTurn(history.turns, r, submitCount + 1)
           first == SubSeq(both, 1, 2)
           rest == SubSeq(both, 3, Len(both))
           old == (history.anchors \o history.turns) \o history.summary
           new == (history'.anchors \o history'.turns) \o history'.summary
<1>1. /\ history \in History /\ WholeTurns(history.turns) /\ submitCount \in Nat
      /\ history' = RememberTurn(history, r, submitCount + 1)
      /\ submitCount + 1 \in Nat
  BY DEF IInv, TypeOK, FinishWithEstimate, TurnIndex
<1>2. history.compressed
  BY <1>1, RememberTurnKeepsPolicy
<1>3. /\ history.anchors \in Seq(Message) /\ history.turns \in Seq(Message)
      /\ history.summary \in Seq(Message)
      /\ MaxTurns \in Nat \ {0} /\ SummaryCap \in Nat
  BY <1>1, HistoryAssumption DEF History
<1>4. /\ both \in Seq(Message) /\ Len(both) = Len(history.turns) + 2
      /\ \A i \in 1 .. Len(history.turns) : both[i] = history.turns[i]
      /\ both[Len(history.turns) + 2] = AssistantMessage(r)
  BY <1>1, <1>3, WithTurnFacts
<1>5. /\ first \in Seq(Message) /\ rest \in Seq(Message) /\ first \o rest = both
      /\ Len(first) = 2
  <2>1. 2 <= Len(both)
    BY <1>3, <1>4
  <2>. QED
    BY <1>4, <2>1, PairAndRest
<1>6. /\ In(AssistantMessage(r), both)
      /\ \A m : In(m, history.turns) => In(m, both)
  <2>1. /\ Len(history.turns) + 2 \in DOMAIN both
        /\ \A i \in DOMAIN history.turns : i \in DOMAIN both /\ i \in 1 .. Len(history.turns)
    BY <1>3, <1>4
  <2>. QED
    BY <1>4, <2>1 DEF In
<1>7. /\ history'.anchors \in Seq(Message) /\ history'.turns \in Seq(Message)
      /\ history'.summary \in Seq(Message)
  <2>1. history' \in History
    BY FinishWithEstimatePushes
  <2>. QED
    BY <2>1 DEF History
<1>8. \/ /\ history'.turns = both
         /\ history'.anchors = history.anchors /\ history'.summary = history.summary
      \/ /\ history'.turns = rest
         /\ history'.anchors = history.anchors \o first
         /\ history'.summary = history.summary
      \/ /\ history'.turns = rest /\ history'.anchors = history.anchors
         /\ history'.summary = Longest(history.summary \o first, SummaryCap)
  <2>1. Evicts(history, both, history')
    BY <1>1, <1>2, RememberTurnCompressed
  <2>. QED
    BY <2>1 DEF Evicts
<1> HIDE DEF first, rest
<1>9. CASE Len(history.summary) = SummaryCap
  <2>1. Len(history'.summary) = SummaryCap
    <3>1. CASE history'.summary = history.summary
      BY <1>9, <3>1
    <3>2. CASE history'.summary = Longest(history.summary \o first, SummaryCap)
      <4>1. history.summary \o first \in Seq(Message)
        BY <1>3, <1>5
      <4>2. Len(history.summary \o first) = SummaryCap + 2
        <5>1. Len(history.summary \o first) = Len(history.summary) + Len(first)
          BY <1>3, <1>5, MessagesConcat
        <5>. QED
          BY <1>5, <1>9, <5>1, Zenon
      <4>3. ~ (Len(history.summary \o first) <= SummaryCap)
        <5>1. SummaryCap \in Nat
          BY <1>3
        <5>. QED
          BY <4>2, <5>1
      <4>. QED
        BY <1>3, <3>2, <4>1, <4>3, LongestFacts, Zenon
    <3>. QED
      BY <1>8, <3>1, <3>2
  <2>. QED
    BY <2>1 DEF NoTurnForgotten
<1>10. CASE Len(history.summary) # SummaryCap /\ Len(history'.summary) # SummaryCap
  <2>1. ASSUME NEW m, In(m, history.anchors) \/ In(m, both) \/ In(m, history.summary)
        PROVE  In(m, new)
    <3>1. \/ In(m, history'.anchors) \/ In(m, history'.turns)
          \/ In(m, history'.summary)
      <4>1. In(m, both) => In(m, first) \/ In(m, rest)
        <5>1. In(m, first \o rest) => In(m, first) \/ In(m, rest)
          BY <1>5, InConcat
        <5>. QED
          BY <1>5, <5>1, Zenon
      <4>2. In(m, history.anchors) \/ In(m, first) => In(m, history.anchors \o first)
        BY <1>3, <1>5, InConcat
      <4>3. In(m, history.summary) \/ In(m, first) => In(m, history.summary \o first)
        BY <1>3, <1>5, InConcat
      <4>4. CASE history'.summary = Longest(history.summary \o first, SummaryCap)
        <5>1. history.summary \o first \in Seq(Message)
          BY <1>3, <1>5
        <5>2. history'.summary = history.summary \o first
          BY <1>3, <1>10, <4>4, <5>1, LongestFacts
        <5>3. \/ history'.turns = both /\ history'.anchors = history.anchors
              \/ history'.turns = rest /\ history'.anchors = history.anchors \o first
              \/ history'.turns = rest /\ history'.anchors = history.anchors
          BY <1>8
        <5>. QED
          BY <2>1, <4>1, <4>2, <4>3, <5>2, <5>3
      <4>5. CASE history'.summary = history.summary
        <5>1. \/ history'.turns = both /\ history'.anchors = history.anchors
              \/ history'.turns = rest /\ history'.anchors = history.anchors \o first
              \/ history'.summary = Longest(history.summary \o first, SummaryCap)
          BY <1>8
        <5>. QED
          BY <2>1, <4>1, <4>2, <4>4, <4>5, <5>1
      <4>. QED
        BY <1>8, <4>4, <4>5
    <3>2. /\ history'.anchors \o history'.turns \in Seq(Message)
          /\ In(m, history'.anchors) \/ In(m, history'.turns) =>
                In(m, history'.anchors \o history'.turns)
      BY <1>7, InConcat
    <3>3. \/ In(m, history'.anchors \o history'.turns)
          \/ In(m, history'.summary)
      BY <3>1, <3>2
    <3>. QED
      BY <1>7, <3>2, <3>3, InConcat
  <2>2. ASSUME NEW m, In(m, old)
        PROVE  In(m, history.anchors) \/ In(m, both) \/ In(m, history.summary)
    <3>1. history.anchors \o history.turns \in Seq(Message)
      BY <1>3
    <3>2. In(m, history.anchors \o history.turns) \/ In(m, history.summary)
      BY <1>3, <2>2, <3>1, InConcat
    <3>3. In(m, history.anchors \o history.turns) =>
             In(m, history.anchors) \/ In(m, history.turns)
      BY <1>3, InConcat
    <3>. QED
      BY <1>6, <3>2, <3>3
  <2>3. \A i \in DOMAIN accepted : In(AssistantMessage(accepted[i]), old)
    BY <1>2, <1>10 DEF NoTurnForgotten, In
  <2>4. /\ accepted \in Seq(Requests) /\ accepted' = Append(accepted, r)
    BY DEF IInv, TypeOK, FinishWithEstimate
  <2>5. \A i \in DOMAIN accepted' : accepted'[i] = r \/
           \E j \in DOMAIN accepted : accepted'[i] = accepted[j]
    BY <2>4
  <2> HIDE DEF old, new
  <2>6. \A i \in DOMAIN accepted' : In(AssistantMessage(accepted'[i]), new)
    BY <1>6, <2>1, <2>2, <2>3, <2>5
  <2>. QED
    BY <2>6 DEF NoTurnForgotten, In, new
<1>. QED
  BY <1>9, <1>10 DEF NoTurnForgotten

LEMMA NextMemoryInv == IInv /\ MemoryInv /\ [Next]_vars => MemoryInv'
<1> SUFFICES ASSUME IInv, MemoryInv, [Next]_vars PROVE MemoryInv'
  OBVIOUS
<1>1. CASE UNCHANGED <<history, accepted>>
  BY <1>1 DEF MemoryInv, AnchorsVerbatim, NoTurnForgotten
<1>2. ASSUME NEW r \in Requests, NEW source, FinishWithEstimate(r, source)
      PROVE  MemoryInv'
  <2>1. CASE history'.compressed
    BY <1>2, <2>1, AnchorsStay, NothingForgotten DEF MemoryInv
  <2>2. CASE ~ history'.compressed
    BY <2>2 DEF MemoryInv, AnchorsVerbatim, NoTurnForgotten
  <2>. QED
    BY <2>1, <2>2
<1>. QED
  BY <1>1, <1>2 DEF Next, vars, BeginInvalid, Begin, FinishWithoutEstimate,
     RecordFailed, FinishRaised, RecordRaised, ShowEstimate, ShowFails

LEMMA InitMemoryInv == Init => MemoryInv
<1>1. Init => accepted = <<>>
  BY DEF Init
<1>. QED
  BY <1>1 DEF MemoryInv, AnchorsVerbatim, NoTurnForgotten

(* Under compression an anchored turn is never lost nor torn: the promise  *)
(* of the feature, for any window, summary and interleaving of submits.    *)
THEOREM AnchorsCorrect == Spec => []AnchorsVerbatim
<1>1. MemoryInv => AnchorsVerbatim
  BY DEF MemoryInv
<1>. QED
  BY InitIInv, NextIInv, InitMemoryInv, NextMemoryInv, <1>1, PTL DEF Spec

(* Under compression no accepted turn is forgotten before the summary is   *)
(* full.                                                                   *)
THEOREM NothingForgottenEver == Spec => []NoTurnForgotten
<1>1. MemoryInv => NoTurnForgotten
  BY DEF MemoryInv
<1>. QED
  BY InitIInv, NextIInv, InitMemoryInv, NextMemoryInv, <1>1, PTL DEF Spec

----------------------------------------------------------------------------
(* The page (WebSession).                                                  *)

MadeSessions == 1 .. server.made
Panels == {None} \cup (Sessions \X Nat)

ViewType ==
  [session : Sessions \cup {None}, status : {"loading", "ready", "error"},
   error : BOOLEAN, resetting : BOOLEAN, selecting : BOOLEAN,
   list : SUBSET Sessions, listStatus : {"idle", "loading", "ready", "error"},
   metadata : Panels, metadataStatus : {"empty", "loading", "available"},
   estimate : Panels,
   estimateStatus : {"empty", "loading", "available", "error"},
   form : Sessions \cup {None}, rag : Sessions \cup {None},
   ragStatus : {"empty", "loading", "available", "error"}]

ServerType ==
  [made : Nat, live : SUBSET Sessions, turns : [Sessions -> Nat],
   saved : [Sessions -> Nat]]

\* What a reply that is ok says, by the kind of the call.
ReplyFits(c) ==
  /\ c.kind = "create" => c.reply.payload \in MadeSessions
  /\ c.kind = "list" => c.reply.payload \subseteq MadeSessions
  /\ c.kind = "get" =>
       /\ c.reply.payload \in Nat \X Nat
       /\ c.reply.payload[2] <= c.reply.payload[1]
  /\ c.kind = "submit" => c.target \in Sessions /\ c.reply.payload \in Nat
  /\ c.kind = "rag" => c.reply.payload = c.target

CallType(c) ==
  [id : Nat, kind : {"create", "list", "get", "submit", "rag"}, target : {c.target},
   captured : {c.captured}, served : BOOLEAN,
   reply : {Ok(c.reply.payload), Failed, Gone}]

CallShape(c) ==
  /\ c \in CallType(c)
  /\ c.reply.ok \/ c.reply.gone => c.served
  /\ c.kind \in {"create", "list"} => c.captured \in BOOLEAN
  /\ c.kind = "get" => c.target \in MadeSessions
  /\ c.kind = "rag" => c.target \in Sessions \cup {None}

PageTyped ==
  /\ server \in ServerType
  /\ server.made <= MaxSessions /\ server.live \subseteq MadeSessions
  /\ \A s \in Sessions : server.saved[s] <= server.turns[s]
  /\ view \in ViewType
  /\ view.session \in MadeSessions \cup {None} /\ view.list \subseteq MadeSessions
  /\ \A c \in calls : CallShape(c) /\ (c.reply.ok => ReplyFits(c))
  /\ clicks \in Nat /\ restarts \in Nat /\ impatient \in BOOLEAN

-----------------------------------------------------------------------------
\* The rest is about a user who waits for every answer.

\* A list is current or wholly out of date: if the active session or any
\* session of the list is still there, so is all of it.
Current(list) ==
  (view.session \in server.live \/ list \cap server.live # {}) => list \subseteq server.live

\* What is shown was produced by the active session.
ShowsActive ==
  /\ view.estimateStatus = "available" =>
       /\ ~Pending({"create", "get", "submit"})
       /\ view.session \in Sessions
       /\ view.estimate = <<view.session, server.saved[view.session]>>
       /\ view.metadata[1] = view.session /\ view.metadata[2] >= view.estimate[2]
  /\ ~Pending({"list"}) => Current(view.list)
  /\ view.error => /\ view.session \notin server.live
                   /\ view.estimateStatus # "available"
                   /\ ~Pending({"create"})

\* The same before the API ever restarted.
ShowsActiveBeforeRestart ==
  /\ view.session \in server.live \cup {None} /\ view.list \subseteq server.live
  /\ view.listStatus = "ready" /\ view.session # None /\ ~Pending({"create"}) =>
       view.session \in view.list
  /\ view.form \in {None, view.session}
  /\ view.ragStatus = "available" => view.rag = view.session
  /\ view.error => view.status = "error"
  /\ view.error \/ view.status = "error" => view.session = None
  /\ view.status = "ready" => view.session # None
  /\ view.session = None \/ Pending({"create"}) =>
       view.form = None /\ view.ragStatus = "empty"

\* What the one call in flight will bring.
Brings(c) ==
  /\ c.kind = "list" /\ c.reply.ok => Current(c.reply.payload)
  /\ c.kind = "get" =>
       /\ c.target \in view.list
       /\ c.reply.ok => c.reply.payload[2] = server.saved[c.target]
       /\ c.reply.gone => view.session \notin server.live
  /\ c.kind = "submit" =>
       /\ c.target = view.session
       /\ c.reply.ok => /\ ~view.error
                        /\ c.reply.payload = server.saved[c.target]

BringsBeforeRestart(c) ==
  /\ c.kind = "create" /\ c.reply.ok => c.reply.payload \in server.live
  /\ c.kind = "list" /\ c.reply.ok =>
       /\ c.reply.payload \subseteq server.live
       /\ view.session \in c.reply.payload \cup {None}
  /\ c.kind = "get" => /\ ~c.reply.gone /\ view.session # None
                       /\ view.listStatus = "ready" /\ view.ragStatus = "empty"
  /\ c.kind = "rag" => view.session # None /\ c.target = view.session

Patience ==
  ~impatient =>
    /\ \A c, d \in calls : c = d
    /\ ShowsActive
    /\ \A c \in calls : Brings(c)
    /\ restarts = 0 => /\ ShowsActiveBeforeRestart
                       /\ \A c \in calls : BringsBeforeRestart(c)

PageInv == PageTyped /\ SpinnersHaveCalls /\ Patience

-----------------------------------------------------------------------------
\* The types.

\* A call that is answered by the API, or dies in it, is otherwise the same.
LEMMA SettledCall ==
  ASSUME NEW c, c \in CallType(c), NEW reply
  PROVE  /\ [c EXCEPT !.served = TRUE, !.reply = reply] =
              [id |-> c.id, kind |-> c.kind, target |-> c.target,
               captured |-> c.captured, served |-> TRUE, reply |-> reply]
         /\ [c EXCEPT !.served = TRUE] =
              [id |-> c.id, kind |-> c.kind, target |-> c.target,
               captured |-> c.captured, served |-> TRUE, reply |-> c.reply]
<1>1. PICK t, u, R, served :
        /\ t = {c.target} /\ u = {c.captured} /\ R = {Ok(c.reply.payload), Failed, Gone}
        /\ served = TRUE
  OBVIOUS
<1>2. c \in [id : Nat, kind : {"create", "list", "get", "submit", "rag"}, target : t,
             captured : u, served : BOOLEAN, reply : R]
  BY <1>1 DEF CallType
<1>3. PICK i, k, d, e, v, r : c = [id |-> i, kind |-> k, target |-> d, captured |-> e,
                                   served |-> v, reply |-> r]
  BY <1>2
<1>4. i = c.id /\ k = c.kind /\ d = c.target /\ e = c.captured /\ r = c.reply
  BY <1>3
<1>5. [c EXCEPT !.served = served] =
        [id |-> i, kind |-> k, target |-> d, captured |-> e, served |-> served, reply |-> r]
  BY <1>3
<1>6. [c EXCEPT !.served = served, !.reply = reply] =
        [[c EXCEPT !.served = served] EXCEPT !.reply = reply]
  OBVIOUS
<1>7. [[id |-> i, kind |-> k, target |-> d, captured |-> e, served |-> served, reply |-> r]
         EXCEPT !.reply = reply] =
        [id |-> i, kind |-> k, target |-> d, captured |-> e, served |-> served, reply |-> reply]
  OBVIOUS
<1>8. [c EXCEPT !.served = served, !.reply = reply] =
        [id |-> i, kind |-> k, target |-> d, captured |-> e, served |-> served, reply |-> reply]
  BY <1>5, <1>6, <1>7
<1> QED
  BY <1>1, <1>4, <1>5, <1>8

LEMMA NewCall ==
  ASSUME NEW id \in Nat, NEW kind \in {"create", "list", "get", "submit", "rag"},
         NEW target, NEW captured,
         kind \in {"create", "list"} => captured \in BOOLEAN,
         kind = "get" => target \in MadeSessions,
         kind = "rag" => target \in Sessions \cup {None}
  PROVE  CallShape(Call(id, kind, target, captured)) /\ ~Call(id, kind, target, captured).reply.ok
<1>1. PICK c : c = Call(id, kind, target, captured)
  OBVIOUS
<1>2. /\ c = [id |-> id, kind |-> kind, target |-> target, captured |-> captured,
              served |-> FALSE, reply |-> Failed]
      /\ c.kind = kind /\ c.target = target /\ c.captured = captured /\ c.reply = Failed
  BY <1>1 DEF Call
<1>3. ~Failed.ok /\ ~Failed.gone
  BY DEF Failed
<1>4. c \in CallType(c)
  BY <1>2 DEF CallType
<1> QED
  BY <1>1, <1>2, <1>3, <1>4 DEF CallShape

LEMMA InitTyped ==
  ASSUME PageInit PROVE PageTyped
<1>1. server \in ServerType /\ server.made = 0 /\ server.live = {}
  BY DEF PageInit, ServerType
<1>2. \A s \in Sessions : server.saved[s] <= server.turns[s]
  BY DEF PageInit
<1>3. view \in ViewType /\ view.session = None /\ view.list = {}
  BY SMTT(30) DEF PageInit, ViewType, Panels
<1>4. \A c \in calls : CallShape(c) /\ ~c.reply.ok
  BY NewCall DEF PageInit
<1>5. server.live \subseteq MadeSessions /\ server.made <= MaxSessions
  BY <1>1, PageAssumption
<1>6. clicks \in Nat /\ restarts \in Nat /\ impatient \in BOOLEAN
  BY DEF PageInit
<1>7. view.session \in MadeSessions \cup {None} /\ view.list \subseteq MadeSessions
  BY <1>3
<1>8. \A c \in calls : CallShape(c) /\ (c.reply.ok => ReplyFits(c))
  BY <1>4
<1> QED
  BY <1>1, <1>2, <1>3, <1>5, <1>6, <1>7, <1>8 DEF PageTyped

LEMMA ClickTyped ==
  ASSUME PageTyped, NEW kind, NEW target, NEW captured, NEW shown,
         Click(kind, target, captured, shown), shown \in ViewType,
         shown.session = view.session, shown.list = view.list,
         CallShape(Call(clicks + 1, kind, target, captured))
  PROVE  PageTyped'
<1>1. Call(clicks + 1, kind, target, captured).reply.ok = FALSE
  BY DEF Call, Failed
<1> QED
  BY <1>1 DEF Click, PageTyped, CallShape, CallType, ReplyFits, MadeSessions

LEMMA UserTyped == PageTyped /\ UserClicks => PageTyped'
<1> SUFFICES ASSUME PageTyped, UserClicks PROVE PageTyped'
  OBVIOUS
<1>v. view \in ViewType /\ view.list \subseteq MadeSessions /\ clicks + 1 \in Nat
  BY DEF PageTyped
<1>1. CASE RetrySession
  <2> DEFINE shown == [view EXCEPT !.status = "loading", !.error = FALSE]
  <2>1. shown \in ViewType /\ shown.session = view.session /\ shown.list = view.list
    BY <1>v DEF ViewType
  <2>2. CallShape(Call(clicks + 1, "create", None, FALSE))
    BY <1>v, NewCall DEF ViewType
  <2> QED
    BY <1>1, <2>1, <2>2, ClickTyped DEF RetrySession
<1>2. CASE NewConversation
  <2> DEFINE shown == 
          [Cleared(view) EXCEPT !.resetting = TRUE, !.status = "loading",
                                !.error = FALSE, !.form = None,
                                !.rag = None, !.ragStatus = "empty"]
  <2>1. shown \in ViewType /\ shown.session = view.session /\ shown.list = view.list
    BY <1>v DEF ViewType, Cleared, Panels
  <2>2. CallShape(Call(clicks + 1, "create", None, TRUE))
    BY <1>v, NewCall DEF ViewType
  <2> QED
    BY <1>2, <2>1, <2>2, ClickTyped DEF NewConversation
<1>3. CASE SubmitEstimate
  <2> DEFINE shown == 
          [view EXCEPT !.estimateStatus = "loading", !.metadataStatus = "loading"]
  <2>1. shown \in ViewType /\ shown.session = view.session /\ shown.list = view.list
    BY <1>v DEF ViewType
  <2>2. CallShape(Call(clicks + 1, "submit", view.session, view.metadata))
    BY <1>v, NewCall DEF ViewType
  <2> QED
    BY <1>3, <2>1, <2>2, ClickTyped DEF SubmitEstimate
<1>4. CASE RefreshList
  <2> DEFINE shown == [view EXCEPT !.listStatus = "loading"]
  <2>1. shown \in ViewType /\ shown.session = view.session /\ shown.list = view.list
    BY <1>v DEF ViewType
  <2>2. CallShape(Call(clicks + 1, "list", None, FALSE))
    BY <1>v, NewCall DEF ViewType
  <2> QED
    BY <1>4, <2>1, <2>2, ClickTyped DEF RefreshList
<1>5. CASE RunRag
  <2> DEFINE shown == [view EXCEPT !.ragStatus = "loading"]
  <2>1. shown \in ViewType /\ shown.session = view.session /\ shown.list = view.list
    BY <1>v DEF ViewType
  <2>2. CallShape(Call(clicks + 1, "rag", view.session, None))
    BY <1>v, NewCall DEF ViewType
  <2> QED
    BY <1>5, <2>1, <2>2, ClickTyped DEF RunRag
<1>6. ASSUME NEW s \in Sessions, SelectSession(s) PROVE PageTyped'
  <2> DEFINE shown == [view EXCEPT !.selecting = TRUE, !.metadataStatus = "loading",
                                   !.estimateStatus = "loading",
                                   !.rag = None, !.ragStatus = "empty"]
  <2>1. shown \in ViewType /\ shown.session = view.session /\ shown.list = view.list
    BY <1>v DEF ViewType
  <2>2. s \in MadeSessions
    BY <1>6, <1>v DEF SelectSession
  <2>3. CallShape(Call(clicks + 1, "get", s, None))
    BY <1>v, <2>2, NewCall
  <2> QED
    BY <1>6, <2>1, <2>3, ClickTyped DEF SelectSession
<1> QED
  BY <1>1, <1>2, <1>3, <1>4, <1>5, <1>6 DEF UserClicks

\* What the API may make of its store: the sessions it handed out grow.
StoreAfter(store) ==
  /\ store \in ServerType /\ store.made >= server.made /\ store.made <= MaxSessions
  /\ store.live \subseteq 1 .. store.made
  /\ \A s \in Sessions : store.saved[s] <= store.turns[s]

LEMMA ServeTyped ==
  ASSUME PageTyped, NEW c \in calls, NEW reply, NEW store, Serve(c, reply, store),
         reply \in {Ok(reply.payload), Failed, Gone}, StoreAfter(store),
         reply.ok => /\ c.kind = "create" => reply.payload \in 1 .. store.made
                     /\ c.kind = "list" => reply.payload \subseteq 1 .. store.made
                     /\ c.kind = "get" => /\ reply.payload \in Nat \X Nat
                                          /\ reply.payload[2] <= reply.payload[1]
                     /\ c.kind = "submit" => c.target \in Sessions /\ reply.payload \in Nat
                     /\ c.kind = "rag" => reply.payload = c.target
  PROVE  PageTyped'
<1> DEFINE d == [c EXCEPT !.served = TRUE, !.reply = reply]
<1>0. server' = store /\ server \in ServerType /\ 1 .. server.made \subseteq 1 .. store.made
      /\ UNCHANGED <<view, clicks, restarts, impatient>>
  BY DEF Serve, PageTyped, ServerType, StoreAfter
<1>c. CallShape(c)
  BY DEF PageTyped
<1>1. d = [id |-> c.id, kind |-> c.kind, target |-> c.target,
           captured |-> c.captured, served |-> TRUE, reply |-> reply]
  BY <1>c, SettledCall DEF CallShape
<1>2. CallShape(d)' /\ (reply.ok => ReplyFits(d)')
  BY <1>0, <1>1, <1>c DEF CallShape, CallType, ReplyFits, MadeSessions
<1>3. ASSUME NEW e \in calls PROVE CallShape(e)' /\ (e.reply.ok => ReplyFits(e)')
  BY <1>0 DEF PageTyped, CallShape, CallType, ReplyFits, MadeSessions
<1>4. calls' \subseteq calls \cup {d}
  BY DEF Serve
<1>5. \A e \in calls' : CallShape(e)' /\ (e.reply.ok => ReplyFits(e)')
  BY <1>1, <1>2, <1>3, <1>4
<1> QED
  BY <1>0, <1>5 DEF PageTyped, MadeSessions, StoreAfter

LEMMA FailureTyped ==
  ASSUME PageTyped, NEW c \in calls, NEW store, StoreAfter(store),
         Serve(c, Failed, store) \/ Serve(c, Gone, store)
  PROVE  PageTyped'
<1>1. PICK reply \in {Failed, Gone} : Serve(c, reply, store)
  OBVIOUS
<1>2. ~reply.ok /\ reply \in {Ok(reply.payload), Failed, Gone}
  BY <1>1 DEF Failed, Gone
<1> QED
  BY <1>1, <1>2, ServeTyped

LEMMA SuccessTyped ==
  ASSUME PageTyped, NEW c \in calls, NEW p, NEW store, StoreAfter(store),
         Serve(c, Ok(p), store),
         /\ c.kind = "create" => p \in 1 .. store.made
         /\ c.kind = "list" => p \subseteq 1 .. store.made
         /\ c.kind = "get" => p \in Nat \X Nat /\ p[2] <= p[1]
         /\ c.kind = "submit" => c.target \in Sessions /\ p \in Nat
         /\ c.kind = "rag" => p = c.target
  PROVE  PageTyped'
<1>1. PICK reply : reply = Ok(p) /\ Serve(c, reply, store)
  OBVIOUS
<1>2. reply.payload = p /\ reply \in {Ok(reply.payload), Failed, Gone}
  BY <1>1 DEF Ok
<1> QED
  BY <1>1, <1>2, ServeTyped

\* The stores the API's handlers make.
LEMMA StoresTyped ==
  ASSUME PageTyped
  PROVE  /\ StoreAfter(server) /\ server.made \in Nat
         /\ server.made + 1 \in Sessions =>
              LET store == [server EXCEPT !.made = server.made + 1,
                                          !.live = @ \cup {server.made + 1}]
              IN  StoreAfter(store) /\ server.made + 1 \in 1 .. store.made
         /\ \A s \in server.live : /\ s \in Sessions /\ server.turns[s] \in Nat
                                   /\ StoreAfter(CountTurn(s))
                                   /\ StoreAfter(SaveEstimate(s))
<1>1. /\ server \in ServerType /\ server.made <= MaxSessions
      /\ server.live \subseteq 1 .. server.made
      /\ \A s \in Sessions : server.saved[s] <= server.turns[s]
  BY DEF PageTyped, MadeSessions
<1>2. StoreAfter(server) /\ server.made \in Nat
  BY <1>1 DEF StoreAfter, ServerType
<1>3. ASSUME server.made + 1 \in Sessions
      PROVE  LET store == [server EXCEPT !.made = server.made + 1,
                                         !.live = @ \cup {server.made + 1}]
             IN  StoreAfter(store) /\ server.made + 1 \in 1 .. store.made
  <2>1. PICK store : store = [server EXCEPT !.made = server.made + 1,
                                            !.live = @ \cup {server.made + 1}]
    OBVIOUS
  <2>2. store = [made |-> server.made + 1, live |-> server.live \cup {server.made + 1},
                 turns |-> server.turns, saved |-> server.saved]
    BY <1>1, <2>1 DEF ServerType
  <2>3. server.made + 1 <= MaxSessions /\ server.live \subseteq Sessions
    BY <1>1, <1>3, PageAssumption DEF Sessions, ServerType
  <2>4. StoreAfter(store) /\ server.made + 1 \in 1 .. store.made
    BY <1>1, <1>3, <2>2, <2>3 DEF StoreAfter, ServerType
  <2> QED
    BY <2>1, <2>4
<1>4. ASSUME NEW s \in server.live
      PROVE  /\ s \in Sessions /\ server.turns[s] \in Nat
             /\ StoreAfter(CountTurn(s)) /\ StoreAfter(SaveEstimate(s))
  <2>1. s \in Sessions /\ server.turns[s] \in Nat
    BY <1>1 DEF ServerType
  <2>2. PICK counted, kept :
          counted = [server.turns EXCEPT ![s] = @ + 1]
          /\ kept = [server.saved EXCEPT ![s] = server.turns[s] + 1]
    OBVIOUS
  <2>3. counted \in [Sessions -> Nat] /\ kept \in [Sessions -> Nat]
        /\ \A r \in Sessions : server.saved[r] <= counted[r] /\ kept[r] <= counted[r]
    BY <1>1, <2>1, <2>2 DEF ServerType
  <2>4. CountTurn(s) = [made |-> server.made, live |-> server.live,
                        turns |-> counted, saved |-> server.saved]
    BY <1>1, <2>2 DEF CountTurn, ServerType
  <2>5. SaveEstimate(s) = [made |-> server.made, live |-> server.live,
                           turns |-> counted, saved |-> kept]
    BY <2>2, <2>4 DEF SaveEstimate
  <2> QED
    BY <1>1, <2>1, <2>3, <2>4, <2>5 DEF StoreAfter, ServerType
<1> QED
  BY <1>2, <1>3, <1>4

LEMMA ServedTyped ==
  ASSUME PageTyped, NEW c \in calls, Served(c) PROVE PageTyped'
<1> USE StoresTyped, FailureTyped, SuccessTyped
<1>1. CASE ServeCreate(c)
  BY <1>1 DEF ServeCreate
<1>2. CASE ServeList(c)
  BY <1>2 DEF ServeList, StoreAfter
<1>3. CASE ServeGet(c)
  <2>1. CASE c.target \in server.live
    <3>1. PICK t, n \in Nat : /\ t = server.turns[c.target]
                              /\ n = server.saved[c.target] /\ n <= t
      BY <2>1 DEF StoreAfter, ServerType
    <3>2. PICK p : p = <<t, n>>
      OBVIOUS
    <3>3. Serve(c, Ok(p), server) /\ c.kind = "get"
      BY <1>3, <2>1, <3>1, <3>2 DEF ServeGet
    <3> QED
      BY <3>1, <3>2, <3>3
  <2>2. CASE c.target \notin server.live
    BY <1>3, <2>2 DEF ServeGet
  <2> QED
    BY <2>1, <2>2
<1>4. CASE ServeSubmit(c)
  <2>1. c.kind = "submit" /\ (c.target \in server.live => server.turns[c.target] + 1 \in Nat)
    BY <1>4 DEF ServeSubmit
  <2> QED
    BY <1>4, <2>1 DEF ServeSubmit
<1>5. CASE ServeRag(c)
  BY <1>5 DEF ServeRag
<1>6. CASE CallFails(c)
  <2>1. server.made < MaxSessions => server.made + 1 \in Sessions
    BY PageAssumption DEF Sessions
  <2> QED
    BY <1>6, <2>1 DEF CallFails
<1> QED
  BY <1>1, <1>2, <1>3, <1>4, <1>5, <1>6 DEF Served
LEMMA RestartTyped == PageTyped /\ Restart => PageTyped'
<1> SUFFICES ASSUME PageTyped, Restart PROVE PageTyped'
  OBVIOUS
<1>1. server' = [made |-> server.made, live |-> {}, turns |-> server.turns,
                 saved |-> server.saved] /\ server \in ServerType
  BY DEF Restart, PageTyped, ServerType
<1>2. ASSUME NEW d \in calls' PROVE CallShape(d)' /\ (d.reply.ok => ReplyFits(d)')
  <2>1. PICK c \in calls : d = [c EXCEPT !.served = TRUE]
    BY <1>2 DEF Restart
  <2>2. CallShape(c) /\ (c.reply.ok => ReplyFits(c))
    BY DEF PageTyped
  <2>3. d = [id |-> c.id, kind |-> c.kind, target |-> c.target,
             captured |-> c.captured, served |-> TRUE, reply |-> c.reply]
    BY <2>1, <2>2, SettledCall DEF CallShape
  <2> QED
    BY <1>1, <2>2, <2>3 DEF CallShape, CallType, ReplyFits, MadeSessions
<1>3. server'.made = server.made /\ server' \in ServerType /\ server'.live = {}
      /\ server'.saved = server.saved /\ server'.turns = server.turns
  BY <1>1 DEF ServerType
<1> QED
  BY <1>2, <1>3 DEF Restart, PageTyped, MadeSessions

LEMMA AnswerTyped ==
  ASSUME PageTyped, NEW c \in calls, NEW shown, NEW more, Resolve(c, shown, more),
         shown \in ViewType, shown.session \in MadeSessions \cup {None},
         shown.list \subseteq MadeSessions,
         more = {} \/ \E resets \in BOOLEAN : more = ListFor(c, resets)
  PROVE  PageTyped'
<1>1. c.id \in Nat
  BY DEF PageTyped, CallShape, CallType
<1>2. \A d \in more : CallShape(d) /\ ~d.reply.ok
  BY <1>1, NewCall DEF ListFor
<1>3. UNCHANGED <<server, clicks, restarts, impatient>> /\ calls' \subseteq calls \cup more
      /\ view' = shown
  BY DEF Resolve
<1>4. ASSUME NEW d \in calls' PROVE CallShape(d)' /\ (d.reply.ok => ReplyFits(d)')
  <2>1. CallShape(d) /\ (d.reply.ok => ReplyFits(d))
    BY <1>2, <1>3 DEF PageTyped
  <2> QED
    BY <1>3, <2>1 DEF CallShape, CallType, ReplyFits, MadeSessions
<1> QED
  BY <1>3, <1>4 DEF PageTyped, MadeSessions

LEMMA AnsweredTyped ==
  ASSUME PageTyped, NEW c \in calls, Answered(c) PROVE PageTyped'
<1>t. /\ view \in ViewType /\ CallShape(c) /\ (c.reply.ok => ReplyFits(c))
      /\ server.made \in Nat /\ server.made <= MaxSessions
      /\ view.session \in MadeSessions \cup {None} /\ view.list \subseteq MadeSessions
  BY DEF PageTyped, ServerType
<1>m. MadeSessions \subseteq Sessions
  BY <1>t, PageAssumption DEF MadeSessions, Sessions
<1>g. c.captured \in BOOLEAN \/ c.kind \notin {"create", "list"}
  BY <1>t DEF CallShape
<1>1. CASE CreateAnswered(c)
  <2>1. CASE c.reply.ok
    <3>1. PICK shown : shown = [view EXCEPT !.session = c.reply.payload, !.status = "ready",
                                            !.listStatus = "loading"]
      OBVIOUS
    <3>2. c.reply.payload \in MadeSessions
      BY <1>1, <1>t, <2>1 DEF CreateAnswered, ReplyFits
    <3>3. shown \in ViewType /\ shown.session = c.reply.payload /\ shown.list = view.list
      BY <1>t, <1>m, <3>1, <3>2 DEF ViewType
    <3> QED
      BY <1>1, <1>t, <1>g, <2>1, <3>1, <3>2, <3>3, AnswerTyped DEF CreateAnswered
  <2>2. CASE ~c.reply.ok
    <3>1. PICK shown : shown = [view EXCEPT !.session = None, !.status = "error",
                                            !.error = TRUE, !.resetting = @ /\ ~c.captured]
      OBVIOUS
    <3>3. shown \in ViewType /\ shown.session = None /\ shown.list = view.list
      BY <1>t, <3>1 DEF ViewType
    <3> QED
      BY <1>1, <1>t, <2>2, <3>1, <3>3, AnswerTyped DEF CreateAnswered
  <2> QED
    BY <2>1, <2>2
<1>2. CASE ListAnswered(c)
  <2>1. PICK shown : shown = [view EXCEPT
                  !.list = IF c.reply.ok THEN c.reply.payload ELSE {},
                  !.listStatus = IF c.reply.ok THEN "ready" ELSE "error",
                  !.resetting = @ /\ ~c.captured]
    OBVIOUS
  <2>2. c.reply.ok => c.reply.payload \subseteq MadeSessions
    BY <1>2, <1>t DEF ListAnswered, ReplyFits
  <2>3. shown \in ViewType /\ shown.session = view.session /\ shown.list \subseteq MadeSessions
    BY <1>t, <1>m, <2>1, <2>2 DEF ViewType
  <2> QED
    BY <1>2, <1>t, <2>1, <2>3, AnswerTyped DEF ListAnswered
<1>3. CASE GetAnswered(c)
  <2>t. c.target \in MadeSessions /\ c.target \in Sessions
    BY <1>3, <1>t, <1>m DEF GetAnswered, CallShape
  <2>1. CASE c.reply.ok
    <3>1. PICK shown : shown =
            [ApplySessionDetail(view, c.target, c.reply.payload[1], c.reply.payload[2])
               EXCEPT !.session = c.target, !.status = "ready",
                      !.error = FALSE, !.selecting = FALSE,
                      !.form = IF c.reply.payload[1] > 0 THEN c.target ELSE None]
      OBVIOUS
    <3>2. c.reply.payload[1] \in Nat /\ c.reply.payload[2] \in Nat
      BY <1>3, <1>t, <2>1 DEF GetAnswered, ReplyFits
    <3>p. PICK filled, filledStatus, answer, answerStatus :
            /\ filled = IF c.reply.payload[1] > 0 THEN <<c.target, c.reply.payload[1]>>
                        ELSE None
            /\ filledStatus = IF c.reply.payload[1] > 0 THEN "available" ELSE "empty"
            /\ answer = IF c.reply.payload[2] > 0 THEN <<c.target, c.reply.payload[2]>>
                        ELSE None
            /\ answerStatus = IF c.reply.payload[2] > 0 THEN "available"
                              ELSE IF c.reply.payload[1] > 0 THEN "error" ELSE "empty"
      OBVIOUS
    <3>q. filled \in Panels /\ answer \in Panels
          /\ filledStatus \in {"empty", "loading", "available"}
          /\ answerStatus \in {"empty", "loading", "available", "error"}
      BY <2>t, <3>2, <3>p DEF Panels
    <3>d. ApplySessionDetail(view, c.target, c.reply.payload[1], c.reply.payload[2]) =
            [view EXCEPT !.metadata = filled, !.metadataStatus = filledStatus,
                         !.estimate = answer, !.estimateStatus = answerStatus]
      BY <3>p DEF ApplySessionDetail
    <3>3. ApplySessionDetail(view, c.target, c.reply.payload[1], c.reply.payload[2]) \in ViewType
          /\ ApplySessionDetail(view, c.target, c.reply.payload[1],
                                c.reply.payload[2]).list = view.list
      <4>1. PICK applied : applied = [view EXCEPT !.metadata = filled,
                !.metadataStatus = filledStatus, !.estimate = answer,
                !.estimateStatus = answerStatus]
        OBVIOUS
      <4>2. applied \in ViewType /\ applied.list = view.list
        BY <1>t, <3>q, <4>1 DEF ViewType
      <4> QED
        BY <3>d, <4>1, <4>2
    <3>4. shown \in ViewType /\ shown.session = c.target /\ shown.list = view.list
      BY <2>t, <3>1, <3>3 DEF ViewType
    <3> QED
      BY <1>3, <1>t, <2>1, <2>t, <3>1, <3>4, AnswerTyped DEF GetAnswered
  <2>2. CASE ~c.reply.ok
    <3>1. PICK shown : shown = [Cleared(view) EXCEPT !.error = @ \/ c.reply.gone,
                                                     !.selecting = FALSE]
      OBVIOUS
    <3>2. Cleared(view) \in ViewType /\ Cleared(view).list = view.list
          /\ Cleared(view).session = view.session
      BY <1>t DEF Cleared, ViewType, Panels
    <3>3. shown \in ViewType /\ shown.session = view.session /\ shown.list = view.list
      BY <3>1, <3>2 DEF ViewType
    <3> QED
      BY <1>3, <1>t, <2>2, <3>1, <3>3, AnswerTyped DEF GetAnswered
  <2> QED
    BY <2>1, <2>2
<1>4. CASE SubmitAnswered(c)
  <2>1. CASE c.reply.ok
    <3>1. PICK result, shown :
            /\ result = <<c.target, c.reply.payload>>
            /\ shown = [view EXCEPT
                          !.metadata = result, !.metadataStatus = "available",
                          !.estimate = result, !.estimateStatus = "available",
                          !.listStatus = "loading"]
      OBVIOUS
    <3>2. result \in Panels
      BY <1>4, <1>t, <2>1, <3>1 DEF SubmitAnswered, ReplyFits, Panels
    <3>3. shown \in ViewType /\ shown.session = view.session /\ shown.list = view.list
      BY <1>t, <3>1, <3>2 DEF ViewType
    <3> QED
      BY <1>4, <1>t, <2>1, <3>1, <3>3, AnswerTyped DEF SubmitAnswered
  <2>2. CASE ~c.reply.ok
    <3>1. PICK shown : shown = [view EXCEPT
                       !.metadataStatus = IF c.captured # None
                                          THEN "available" ELSE "empty",
                       !.estimateStatus = "error"]
      OBVIOUS
    <3>3. shown \in ViewType /\ shown.session = view.session /\ shown.list = view.list
      BY <1>t, <3>1 DEF ViewType
    <3> QED
      BY <1>4, <1>t, <2>2, <3>1, <3>3, AnswerTyped DEF SubmitAnswered
  <2> QED
    BY <2>1, <2>2
<1>5. CASE RagAnswered(c)
  <2>1. PICK shown : shown = IF c.reply.ok
               THEN [view EXCEPT !.rag = c.reply.payload, !.ragStatus = "available"]
               ELSE [view EXCEPT !.ragStatus = "error"]
    OBVIOUS
  <2>2. c.reply.ok => c.reply.payload \in Sessions \cup {None}
    BY <1>5, <1>t DEF RagAnswered, ReplyFits, CallShape
  <2>3. shown \in ViewType /\ shown.session = view.session /\ shown.list = view.list
    BY <1>t, <2>1, <2>2 DEF ViewType
  <2> QED
    BY <1>5, <1>t, <2>1, <2>3, AnswerTyped DEF RagAnswered
<1> QED
  BY <1>1, <1>2, <1>3, <1>4, <1>5 DEF Answered
LEMMA TypedStep == PageTyped /\ [PageNext]_pageVars => PageTyped'
<1> SUFFICES ASSUME PageTyped, [PageNext]_pageVars PROVE PageTyped'
  OBVIOUS
<1>1. CASE UNCHANGED pageVars
  BY <1>1 DEF pageVars, PageTyped, MadeSessions, CallShape, CallType, ReplyFits
<1> QED
  BY <1>1, UserTyped, ServedTyped, AnsweredTyped, RestartTyped DEF PageNext

-----------------------------------------------------------------------------
\* What each action shows, field by field.

Header(v) == <<v.session, v.status, v.error, v.resetting, v.selecting>>
Sidebar(v) == <<v.list, v.listStatus>>
PanelsOf(v) == <<v.metadata, v.metadataStatus, v.estimate, v.estimateStatus>>
Extras(v) == <<v.form, v.rag, v.ragStatus>>

LEMMA RetryShows ==
  ASSUME view \in ViewType, RetrySession
  PROVE  /\ Header(view') = <<view.session, "loading", FALSE, view.resetting, view.selecting>>
         /\ Sidebar(view') = Sidebar(view)
         /\ PanelsOf(view') = PanelsOf(view)
         /\ Extras(view') = Extras(view)
         /\ calls' = calls \cup {Call(clicks + 1, "create", None, FALSE)}
         /\ impatient' = (impatient \/ calls # {}) /\ UNCHANGED <<server, restarts>>
         /\ view.error
  BY DEF RetrySession, Click, ViewType, Header, Sidebar, PanelsOf, Extras

LEMMA NewShows ==
  ASSUME view \in ViewType, NewConversation
  PROVE  /\ Header(view') = <<view.session, "loading", FALSE, TRUE, view.selecting>>
         /\ Sidebar(view') = Sidebar(view)
         /\ PanelsOf(view') = <<None, "empty", None, "empty">>
         /\ Extras(view') = <<None, None, "empty">>
         /\ calls' = calls \cup {Call(clicks + 1, "create", None, TRUE)}
         /\ impatient' = (impatient \/ calls # {}) /\ UNCHANGED <<server, restarts>>
         /\ view.status = "ready"
  BY DEF NewConversation, Click, Cleared, ViewType, Header, Sidebar, PanelsOf, Extras

LEMMA SelectShows ==
  ASSUME view \in ViewType, NEW s, SelectSession(s)
  PROVE  /\ Header(view') = <<view.session, view.status, view.error, view.resetting, TRUE>>
         /\ Sidebar(view') = Sidebar(view)
         /\ PanelsOf(view') = <<view.metadata, "loading", view.estimate, "loading">>
         /\ Extras(view') = <<view.form, None, "empty">>
         /\ calls' = calls \cup {Call(clicks + 1, "get", s, None)}
         /\ impatient' = (impatient \/ calls # {}) /\ UNCHANGED <<server, restarts>>
         /\ s \in view.list /\ view.listStatus = "ready" /\ view.status = "ready"
  BY DEF FormDisabled, SidebarOpen, SelectSession, Click, ViewType, Header, Sidebar, PanelsOf, Extras

LEMMA SubmitShows ==
  ASSUME view \in ViewType, SubmitEstimate
  PROVE  /\ Header(view') = Header(view)
         /\ Sidebar(view') = Sidebar(view)
         /\ PanelsOf(view') = <<view.metadata, "loading", view.estimate, "loading">>
         /\ Extras(view') = Extras(view)
         /\ calls' = calls \cup {Call(clicks + 1, "submit", view.session, view.metadata)}
         /\ impatient' = (impatient \/ calls # {}) /\ UNCHANGED <<server, restarts>>
         /\ view.status = "ready"
  BY DEF FormDisabled, SubmitEstimate, Click, ViewType, Header, Sidebar, PanelsOf, Extras

LEMMA RefreshShows ==
  ASSUME view \in ViewType, RefreshList
  PROVE  /\ Header(view') = Header(view)
         /\ Sidebar(view') = <<view.list, "loading">>
         /\ PanelsOf(view') = PanelsOf(view)
         /\ Extras(view') = Extras(view)
         /\ calls' = calls \cup {Call(clicks + 1, "list", None, FALSE)}
         /\ impatient' = (impatient \/ calls # {}) /\ UNCHANGED <<server, restarts>>
  BY DEF RefreshList, Click, ViewType, Header, Sidebar, PanelsOf, Extras

LEMMA RagShows ==
  ASSUME view \in ViewType, RunRag
  PROVE  /\ Header(view') = Header(view)
         /\ Sidebar(view') = Sidebar(view)
         /\ PanelsOf(view') = PanelsOf(view)
         /\ Extras(view') = <<view.form, view.rag, "loading">>
         /\ calls' = calls \cup {Call(clicks + 1, "rag", view.session, None)}
         /\ impatient' = (impatient \/ calls # {}) /\ UNCHANGED <<server, restarts>>
         /\ view.status = "ready"
  BY DEF FormDisabled, RunRag, Click, ViewType, Header, Sidebar, PanelsOf, Extras

LEMMA CreatedShows ==
  ASSUME view \in ViewType, NEW c, CreateAnswered(c), c.reply.ok
  PROVE  /\ Header(view') = <<c.reply.payload, "ready", view.error, view.resetting, view.selecting>>
         /\ Sidebar(view') = <<view.list, "loading">>
         /\ PanelsOf(view') = PanelsOf(view)
         /\ Extras(view') = Extras(view)
         /\ calls' = (calls \ {c}) \cup ListFor(c, c.captured) /\ c.kind = "create" /\ c.served
         /\ UNCHANGED <<server, restarts, impatient>>
  BY DEF CreateAnswered, Resolve, ViewType, Header, Sidebar, PanelsOf, Extras

LEMMA NotCreatedShows ==
  ASSUME view \in ViewType, NEW c, CreateAnswered(c), ~c.reply.ok
  PROVE  /\ Header(view') = <<None, "error", TRUE, (view.resetting /\ ~c.captured), view.selecting>>
         /\ Sidebar(view') = Sidebar(view)
         /\ PanelsOf(view') = PanelsOf(view)
         /\ Extras(view') = Extras(view)
         /\ calls' = (calls \ {c}) /\ c.kind = "create" /\ c.served
         /\ UNCHANGED <<server, restarts, impatient>>
  BY DEF CreateAnswered, Resolve, ViewType, Header, Sidebar, PanelsOf, Extras

LEMMA ListShows ==
  ASSUME view \in ViewType, NEW c, ListAnswered(c)
  PROVE  /\ Header(view') = <<view.session, view.status, view.error, (view.resetting /\ ~c.captured), view.selecting>>
         /\ Sidebar(view') = IF c.reply.ok THEN <<c.reply.payload, "ready">> ELSE <<{}, "error">>
         /\ PanelsOf(view') = PanelsOf(view)
         /\ Extras(view') = Extras(view)
         /\ calls' = (calls \ {c}) /\ c.kind = "list" /\ c.served
         /\ UNCHANGED <<server, restarts, impatient>>
  BY DEF ListAnswered, Resolve, ViewType, Header, Sidebar, PanelsOf, Extras

LEMMA GotShows ==
  ASSUME view \in ViewType, NEW c, GetAnswered(c), c.reply.ok
  PROVE  /\ Header(view') = <<c.target, "ready", FALSE, view.resetting, FALSE>>
         /\ Sidebar(view') = Sidebar(view)
         /\ PanelsOf(view') = <<
              IF c.reply.payload[1] > 0 THEN <<c.target, c.reply.payload[1]>> ELSE None,
              IF c.reply.payload[1] > 0 THEN "available" ELSE "empty",
              IF c.reply.payload[2] > 0 THEN <<c.target, c.reply.payload[2]>> ELSE None,
              IF c.reply.payload[2] > 0 THEN "available"
              ELSE IF c.reply.payload[1] > 0 THEN "error" ELSE "empty">>
         /\ Extras(view') = <<IF c.reply.payload[1] > 0 THEN c.target ELSE None, view.rag, view.ragStatus>>
         /\ calls' = (calls \ {c}) /\ c.kind = "get" /\ c.served
         /\ UNCHANGED <<server, restarts, impatient>>
<1>1. PICK filled, filledStatus, answer, answerStatus, form :
        /\ filled = IF c.reply.payload[1] > 0 THEN <<c.target, c.reply.payload[1]>>
                    ELSE None
        /\ filledStatus = IF c.reply.payload[1] > 0 THEN "available" ELSE "empty"
        /\ answer = IF c.reply.payload[2] > 0 THEN <<c.target, c.reply.payload[2]>>
                    ELSE None
        /\ answerStatus = IF c.reply.payload[2] > 0 THEN "available"
                          ELSE IF c.reply.payload[1] > 0 THEN "error" ELSE "empty"
        /\ form = IF c.reply.payload[1] > 0 THEN c.target ELSE None
  OBVIOUS
<1>2. view' = [[view EXCEPT !.metadata = filled, !.metadataStatus = filledStatus,
                            !.estimate = answer, !.estimateStatus = answerStatus]
                 EXCEPT !.session = c.target, !.status = "ready", !.error = FALSE,
                        !.selecting = FALSE, !.form = form]
  BY <1>1 DEF GetAnswered, ApplySessionDetail, Resolve
<1>3. /\ Header(view') = <<c.target, "ready", FALSE, view.resetting, FALSE>>
      /\ Sidebar(view') = Sidebar(view)
      /\ PanelsOf(view') = <<filled, filledStatus, answer, answerStatus>>
      /\ Extras(view') = <<form, view.rag, view.ragStatus>>
  BY <1>2 DEF ViewType, Header, Sidebar, PanelsOf, Extras
<1>4. /\ calls' = (calls \ {c}) /\ c.kind = "get" /\ c.served
      /\ UNCHANGED <<server, restarts, impatient>>
  BY DEF GetAnswered, Resolve
<1> QED
  BY <1>1, <1>3, <1>4

LEMMA NotGotShows ==
  ASSUME view \in ViewType, NEW c, GetAnswered(c), ~c.reply.ok
  PROVE  /\ Header(view') = <<view.session, view.status, (view.error \/ c.reply.gone), view.resetting, FALSE>>
         /\ Sidebar(view') = Sidebar(view)
         /\ PanelsOf(view') = <<None, "empty", None, "empty">>
         /\ Extras(view') = Extras(view)
         /\ calls' = (calls \ {c}) /\ c.kind = "get" /\ c.served
         /\ UNCHANGED <<server, restarts, impatient>>
  BY DEF GetAnswered, Cleared, Resolve, ViewType, Header, Sidebar, PanelsOf, Extras

LEMMA SubmittedShows ==
  ASSUME view \in ViewType, NEW c, SubmitAnswered(c), c.reply.ok
  PROVE  /\ Header(view') = Header(view)
         /\ Sidebar(view') = <<view.list, "loading">>
         /\ PanelsOf(view') = <<<<c.target, c.reply.payload>>, "available",
                              <<c.target, c.reply.payload>>, "available">>
         /\ Extras(view') = Extras(view)
         /\ calls' = (calls \ {c}) \cup ListFor(c, FALSE) /\ c.kind = "submit" /\ c.served
         /\ UNCHANGED <<server, restarts, impatient>>
  BY DEF SubmitAnswered, Resolve, ViewType, Header, Sidebar, PanelsOf, Extras

LEMMA NotSubmittedShows ==
  ASSUME view \in ViewType, NEW c, SubmitAnswered(c), ~c.reply.ok
  PROVE  /\ Header(view') = Header(view)
         /\ Sidebar(view') = Sidebar(view)
         /\ PanelsOf(view') = <<view.metadata,
                              IF c.captured # None THEN "available" ELSE "empty",
                              view.estimate, "error">>
         /\ Extras(view') = Extras(view)
         /\ calls' = (calls \ {c}) /\ c.kind = "submit" /\ c.served
         /\ UNCHANGED <<server, restarts, impatient>>
  BY DEF SubmitAnswered, Resolve, ViewType, Header, Sidebar, PanelsOf, Extras

LEMMA RagAnswerShows ==
  ASSUME view \in ViewType, NEW c, RagAnswered(c)
  PROVE  /\ Header(view') = Header(view)
         /\ Sidebar(view') = Sidebar(view)
         /\ PanelsOf(view') = PanelsOf(view)
         /\ Extras(view') = IF c.reply.ok THEN <<view.form, c.reply.payload, "available">>
                              ELSE <<view.form, view.rag, "error">>
         /\ calls' = (calls \ {c}) /\ c.kind = "rag" /\ c.served
         /\ UNCHANGED <<server, restarts, impatient>>
  BY DEF RagAnswered, Resolve, ViewType, Header, Sidebar, PanelsOf, Extras

-----------------------------------------------------------------------------
\* Spinners and the calls they wait for.

LEMMA CallKept ==
  ASSUME PageTyped, NEW c \in calls,
         Restart \/ \E reply, store : \E e \in calls : Serve(e, reply, store)
  PROVE  \E d \in calls' : d.kind = c.kind /\ d.captured = c.captured
<1>c. c \in CallType(c)
  BY DEF PageTyped, CallShape
<1>1. CASE Restart
  <2>1. PICK d : d = [c EXCEPT !.served = TRUE]
    OBVIOUS
  <2>2. d \in calls'
    BY <1>1, <2>1 DEF Restart
  <2> QED
    BY <1>c, <2>1, <2>2, SettledCall
<1>2. ASSUME NEW reply, NEW store, Serve(c, reply, store)
      PROVE  \E d \in calls' : d.kind = c.kind /\ d.captured = c.captured
  <2>1. PICK d : d = [c EXCEPT !.served = TRUE, !.reply = reply]
    OBVIOUS
  <2>2. d \in calls'
    BY <1>2, <2>1 DEF Serve
  <2>3. d = [id |-> c.id, kind |-> c.kind, target |-> c.target,
             captured |-> c.captured, served |-> TRUE, reply |-> reply]
    BY <1>c, <2>1, SettledCall
  <2> QED
    BY <2>2, <2>3
<1>3. ASSUME NEW reply, NEW store, NEW e \in calls, Serve(e, reply, store), e # c
      PROVE  c \in calls'
  BY <1>3 DEF Serve
<1> QED
  BY <1>1, <1>2, <1>3

LEMMA SpinnersStep ==
  ASSUME PageTyped, SpinnersHaveCalls, [PageNext]_pageVars PROVE SpinnersHaveCalls'
<1>v. view \in ViewType
  BY DEF PageTyped
<1>l. ASSUME NEW c, NEW resets
      PROVE  \E d \in ListFor(c, resets) : d.kind = "list" /\ d.captured = resets
  BY DEF ListFor, Call
<1> USE DEF SpinnersHaveCalls, Pending, Header, Sidebar, PanelsOf, Extras
<1>1. CASE RetrySession
  <2>1. PICK d : d = Call(clicks + 1, "create", None, FALSE)
    OBVIOUS
  <2>2. d \in calls'
    BY <1>v, <1>1, <2>1, RetryShows
  <2>3. d.kind = "create" /\ d.captured = FALSE
    BY <2>1 DEF Call
  <2> QED
    BY <1>v, <1>1, <2>2, <2>3, RetryShows
<1>2. CASE NewConversation
  <2>1. PICK d : d = Call(clicks + 1, "create", None, TRUE)
    OBVIOUS
  <2>2. d \in calls'
    BY <1>v, <1>2, <2>1, NewShows
  <2>3. d.kind = "create" /\ d.captured = TRUE
    BY <2>1 DEF Call
  <2> QED
    BY <1>v, <1>2, <2>2, <2>3, NewShows
<1>3. CASE SubmitEstimate
  <2>1. PICK d : d = Call(clicks + 1, "submit", view.session, view.metadata)
    OBVIOUS
  <2>2. d \in calls'
    BY <1>v, <1>3, <2>1, SubmitShows
  <2>3. d.kind = "submit"
    BY <2>1 DEF Call
  <2> QED
    BY <1>v, <1>3, <2>2, <2>3, SubmitShows
<1>4. CASE RefreshList
  <2>1. PICK d : d = Call(clicks + 1, "list", None, FALSE)
    OBVIOUS
  <2>2. d \in calls'
    BY <1>v, <1>4, <2>1, RefreshShows
  <2>3. d.kind = "list" /\ d.captured = FALSE
    BY <2>1 DEF Call
  <2> QED
    BY <1>v, <1>4, <2>2, <2>3, RefreshShows
<1>5. CASE RunRag
  <2>1. PICK d : d = Call(clicks + 1, "rag", view.session, None)
    OBVIOUS
  <2>2. d \in calls'
    BY <1>v, <1>5, <2>1, RagShows
  <2>3. d.kind = "rag"
    BY <2>1 DEF Call
  <2> QED
    BY <1>v, <1>5, <2>2, <2>3, RagShows
<1>6. ASSUME NEW s \in Sessions, SelectSession(s) PROVE SpinnersHaveCalls'
  <2>1. PICK d : d = Call(clicks + 1, "get", s, None)
    OBVIOUS
  <2>2. d \in calls'
    BY <1>v, <1>6, <2>1, SelectShows
  <2>3. d.kind = "get"
    BY <2>1 DEF Call
  <2> QED
    BY <1>v, <1>6, <2>2, <2>3, SelectShows
<1>7. ASSUME NEW c \in calls, Served(c) PROVE SpinnersHaveCalls'
  <2>1. PICK reply, store : Serve(c, reply, store)
    BY <1>7 DEF Served, ServeCreate, ServeList, ServeGet, ServeSubmit, ServeRag, CallFails
  <2>2. view' = view
    BY <2>1 DEF Serve
  <2>3. \A e \in calls : \E d \in calls' : d.kind = e.kind /\ d.captured = e.captured
    BY <2>1, CallKept
  <2> QED
    BY <2>2, <2>3
<1>8. CASE Restart
  <2>1. \A e \in calls : \E d \in calls' : d.kind = e.kind /\ d.captured = e.captured
    BY <1>8, CallKept
  <2>2. view' = view
    BY <1>8 DEF Restart
  <2> QED
    BY <2>1, <2>2
<1>9. ASSUME NEW c \in calls, Answered(c) PROVE SpinnersHaveCalls'
  <2>c. c.kind \in {"create", "list"} => c.captured \in BOOLEAN
    BY DEF PageTyped, CallShape
  <2>1. CASE CreateAnswered(c) /\ c.reply.ok
    BY <1>v, <1>l, <2>c, <2>1, CreatedShows
  <2>2. CASE CreateAnswered(c) /\ ~c.reply.ok
    BY <1>v, <2>c, <2>2, NotCreatedShows
  <2>3. CASE ListAnswered(c)
    BY <1>v, <2>c, <2>3, ListShows
  <2>4. CASE GetAnswered(c) /\ c.reply.ok
    BY <1>v, <2>4, GotShows
  <2>5. CASE GetAnswered(c) /\ ~c.reply.ok
    BY <1>v, <2>5, NotGotShows
  <2>6. CASE SubmitAnswered(c) /\ c.reply.ok
    <3>1. PICK d : d = Call(c.id, "list", None, FALSE)
      OBVIOUS
    <3>2. d \in calls'
      BY <1>v, <2>6, <3>1, SubmittedShows DEF ListFor
    <3>3. d.kind = "list"
      BY <3>1 DEF Call
    <3> QED
      BY <1>v, <2>6, <3>2, <3>3, SubmittedShows
  <2>7. CASE SubmitAnswered(c) /\ ~c.reply.ok
    BY <1>v, <2>7, NotSubmittedShows
  <2>8. CASE RagAnswered(c)
    BY <1>v, <2>8, RagAnswerShows
  <2> QED
    BY <1>9, <2>1, <2>2, <2>3, <2>4, <2>5, <2>6, <2>7, <2>8 DEF Answered
<1>10. CASE UNCHANGED pageVars
  BY <1>10 DEF pageVars
<1> QED
  BY <1>1, <1>2, <1>3, <1>4, <1>5, <1>6, <1>7, <1>8, <1>9, <1>10 DEF PageNext, UserClicks
-----------------------------------------------------------------------------
\* The patient user: one call at a time.

\* What the steps need of the types.
LEMMA TypesUsed ==
  ASSUME PageTyped
  PROVE  /\ view \in ViewType /\ None \notin server.live /\ None \notin view.list
         /\ None \notin Sessions /\ restarts \in Nat /\ impatient \in BOOLEAN
         /\ view.session \in Sessions \cup {None}
<1>1. None \notin MadeSessions /\ None \notin Sessions
  BY PageAssumption DEF MadeSessions, Sessions
<1>2. view.session \in Sessions \cup {None}
  BY DEF PageTyped, ViewType
<1> QED
  BY <1>1, <1>2 DEF PageTyped

LEMMA InitPatience == ASSUME PageInit PROVE Patience
<1>1. PICK d : d = Call(0, "create", None, FALSE)
  OBVIOUS
<1>2. d.kind = "create" /\ d.reply.ok = FALSE /\ calls = {d}
  BY <1>1 DEF PageInit, Call, Failed
<1>3. /\ view.session = None /\ view.status = "loading" /\ view.error = FALSE
      /\ view.list = {} /\ view.listStatus = "idle" /\ view.estimateStatus = "empty"
      /\ view.form = None /\ view.ragStatus = "empty" /\ server.live = {}
  BY DEF PageInit
<1>4. ShowsActive /\ ShowsActiveBeforeRestart
  BY <1>2, <1>3 DEF ShowsActive, ShowsActiveBeforeRestart, Current, Pending
<1> QED
  BY <1>2, <1>4 DEF Patience, Brings, BringsBeforeRestart

LEMMA RetryPatience ==
  ASSUME PageTyped, Patience, RetrySession PROVE Patience'
<1> SUFFICES ASSUME ~impatient' PROVE Patience'
  BY DEF Patience
<1>t. /\ view \in ViewType /\ None \notin server.live /\ impatient \in BOOLEAN
      /\ view.session \in Sessions \cup {None}
  BY TypesUsed
<1>1. PICK d : d = Call(clicks + 1, "create", None, FALSE)
  OBVIOUS
<1>2. /\ ~impatient /\ calls = {} /\ calls' = {d}
      /\ UNCHANGED <<server, restarts>> /\ view.error
  BY <1>t, <1>1, RetryShows
<1>3. d.kind = "create" /\ d.target = None /\ d.reply.ok = FALSE /\ d.reply.gone = FALSE
  BY <1>1 DEF Call, Failed
<1>4. ShowsActive /\ (restarts = 0 => ShowsActiveBeforeRestart)
  BY <1>2 DEF Patience
<1> USE DEF ShowsActive, Current, Pending, Brings, ShowsActiveBeforeRestart,
            BringsBeforeRestart
<1>6. /\ view'.session = view.session /\ view'.status = "loading" /\ view'.error = FALSE
      /\ view'.list = view.list /\ view'.listStatus = view.listStatus
      /\ view'.metadata = view.metadata /\ view'.estimate = view.estimate
      /\ view'.estimateStatus = view.estimateStatus /\ view'.form = view.form
      /\ view'.rag = view.rag /\ view'.ragStatus = view.ragStatus
  BY <1>t, RetryShows DEF Header, Sidebar, PanelsOf, Extras
<1>7. ShowsActive'
  BY <1>t, <1>2, <1>3, <1>4, <1>6
<1>8. Brings(d)'
  BY <1>t, <1>2, <1>3, <1>4, <1>6
<1>9. restarts = 0 => ShowsActiveBeforeRestart' /\ BringsBeforeRestart(d)'
  BY <1>t, <1>2, <1>3, <1>4, <1>6
<1> QED
  BY <1>2, <1>7, <1>8, <1>9 DEF Patience

LEMMA NewPatience ==
  ASSUME PageTyped, Patience, NewConversation PROVE Patience'
<1> SUFFICES ASSUME ~impatient' PROVE Patience'
  BY DEF Patience
<1>t. /\ view \in ViewType /\ None \notin server.live /\ impatient \in BOOLEAN
      /\ view.session \in Sessions \cup {None}
  BY TypesUsed
<1>1. PICK d : d = Call(clicks + 1, "create", None, TRUE)
  OBVIOUS
<1>2. /\ ~impatient /\ calls = {} /\ calls' = {d}
      /\ UNCHANGED <<server, restarts>> /\ view.status = "ready"
  BY <1>t, <1>1, NewShows
<1>3. d.kind = "create" /\ d.target = None /\ d.reply.ok = FALSE /\ d.reply.gone = FALSE
  BY <1>1 DEF Call, Failed
<1>4. ShowsActive /\ (restarts = 0 => ShowsActiveBeforeRestart)
  BY <1>2 DEF Patience
<1> USE DEF ShowsActive, Current, Pending, Brings, ShowsActiveBeforeRestart,
            BringsBeforeRestart
<1>6. /\ view'.session = view.session /\ view'.status = "loading" /\ view'.error = FALSE
      /\ view'.list = view.list /\ view'.listStatus = view.listStatus
      /\ view'.metadata = None /\ view'.estimate = None /\ view'.estimateStatus = "empty"
      /\ view'.form = None /\ view'.rag = None /\ view'.ragStatus = "empty"
  BY <1>t, NewShows DEF Header, Sidebar, PanelsOf, Extras
<1>7. ShowsActive'
  BY <1>t, <1>2, <1>3, <1>4, <1>6
<1>8. Brings(d)'
  BY <1>t, <1>2, <1>3, <1>4, <1>6
<1>9. restarts = 0 => ShowsActiveBeforeRestart' /\ BringsBeforeRestart(d)'
  BY <1>t, <1>2, <1>3, <1>4, <1>6
<1> QED
  BY <1>2, <1>7, <1>8, <1>9 DEF Patience

LEMMA SelectPatience ==
  ASSUME PageTyped, Patience, NEW t, SelectSession(t) PROVE Patience'
<1> SUFFICES ASSUME ~impatient' PROVE Patience'
  BY DEF Patience
<1>t. /\ view \in ViewType /\ None \notin server.live /\ impatient \in BOOLEAN
      /\ view.session \in Sessions \cup {None}
  BY TypesUsed
<1>1. PICK d : d = Call(clicks + 1, "get", t, None)
  OBVIOUS
<1>2. /\ ~impatient /\ calls = {} /\ calls' = {d}
      /\ UNCHANGED <<server, restarts>> /\ t \in view.list
      /\ view.listStatus = "ready" /\ view.status = "ready"
  BY <1>t, <1>1, SelectShows
<1>3. d.kind = "get" /\ d.target = t /\ d.reply.ok = FALSE /\ d.reply.gone = FALSE
  BY <1>1 DEF Call, Failed
<1>4. ShowsActive /\ (restarts = 0 => ShowsActiveBeforeRestart)
  BY <1>2 DEF Patience
<1> USE DEF ShowsActive, Current, Pending, Brings, ShowsActiveBeforeRestart,
            BringsBeforeRestart
<1>6. /\ view'.session = view.session /\ view'.status = view.status
      /\ view'.error = view.error /\ view'.list = view.list
      /\ view'.listStatus = view.listStatus /\ view'.metadata = view.metadata
      /\ view'.estimate = view.estimate /\ view'.estimateStatus = "loading"
      /\ view'.form = view.form /\ view'.rag = None /\ view'.ragStatus = "empty"
  BY <1>t, SelectShows DEF Header, Sidebar, PanelsOf, Extras
<1>7. ShowsActive'
  BY <1>t, <1>2, <1>3, <1>4, <1>6
<1>8. Brings(d)'
  BY <1>t, <1>2, <1>3, <1>4, <1>6
<1>9. restarts = 0 => ShowsActiveBeforeRestart' /\ BringsBeforeRestart(d)'
  BY <1>t, <1>2, <1>3, <1>4, <1>6
<1> QED
  BY <1>2, <1>7, <1>8, <1>9 DEF Patience

LEMMA SubmitPatience ==
  ASSUME PageTyped, Patience, SubmitEstimate PROVE Patience'
<1> SUFFICES ASSUME ~impatient' PROVE Patience'
  BY DEF Patience
<1>t. /\ view \in ViewType /\ None \notin server.live /\ impatient \in BOOLEAN
      /\ view.session \in Sessions \cup {None}
  BY TypesUsed
<1>1. PICK d : d = Call(clicks + 1, "submit", view.session, view.metadata)
  OBVIOUS
<1>2. /\ ~impatient /\ calls = {} /\ calls' = {d}
      /\ UNCHANGED <<server, restarts>> /\ view.status = "ready"
  BY <1>t, <1>1, SubmitShows
<1>3. d.kind = "submit" /\ d.target = view.session /\ d.reply.ok = FALSE /\ d.reply.gone = FALSE
  BY <1>1 DEF Call, Failed
<1>4. ShowsActive /\ (restarts = 0 => ShowsActiveBeforeRestart)
  BY <1>2 DEF Patience
<1> USE DEF ShowsActive, Current, Pending, Brings, ShowsActiveBeforeRestart,
            BringsBeforeRestart
<1>6. /\ view'.session = view.session /\ view'.status = view.status
      /\ view'.error = view.error /\ view'.list = view.list
      /\ view'.listStatus = view.listStatus /\ view'.metadata = view.metadata
      /\ view'.estimate = view.estimate /\ view'.estimateStatus = "loading"
      /\ view'.form = view.form /\ view'.rag = view.rag
      /\ view'.ragStatus = view.ragStatus
  BY <1>t, SubmitShows DEF Header, Sidebar, PanelsOf, Extras
<1>7. ShowsActive'
  BY <1>t, <1>2, <1>3, <1>4, <1>6
<1>8. Brings(d)'
  BY <1>t, <1>2, <1>3, <1>4, <1>6
<1>9. restarts = 0 => ShowsActiveBeforeRestart' /\ BringsBeforeRestart(d)'
  BY <1>t, <1>2, <1>3, <1>4, <1>6
<1> QED
  BY <1>2, <1>7, <1>8, <1>9 DEF Patience

LEMMA RefreshPatience ==
  ASSUME PageTyped, Patience, RefreshList PROVE Patience'
<1> SUFFICES ASSUME ~impatient' PROVE Patience'
  BY DEF Patience
<1>t. /\ view \in ViewType /\ None \notin server.live /\ impatient \in BOOLEAN
      /\ view.session \in Sessions \cup {None}
  BY TypesUsed
<1>1. PICK d : d = Call(clicks + 1, "list", None, FALSE)
  OBVIOUS
<1>2. /\ ~impatient /\ calls = {} /\ calls' = {d}
      /\ UNCHANGED <<server, restarts>>
  BY <1>t, <1>1, RefreshShows
<1>3. d.kind = "list" /\ d.target = None /\ d.reply.ok = FALSE /\ d.reply.gone = FALSE
  BY <1>1 DEF Call, Failed
<1>4. ShowsActive /\ (restarts = 0 => ShowsActiveBeforeRestart)
  BY <1>2 DEF Patience
<1> USE DEF ShowsActive, Current, Pending, Brings, ShowsActiveBeforeRestart,
            BringsBeforeRestart
<1>6. /\ view'.session = view.session /\ view'.status = view.status
      /\ view'.error = view.error /\ view'.list = view.list
      /\ view'.listStatus = "loading" /\ view'.metadata = view.metadata
      /\ view'.estimate = view.estimate /\ view'.estimateStatus = view.estimateStatus
      /\ view'.form = view.form /\ view'.rag = view.rag
      /\ view'.ragStatus = view.ragStatus
  BY <1>t, RefreshShows DEF Header, Sidebar, PanelsOf, Extras
<1>7. ShowsActive'
  BY <1>t, <1>2, <1>3, <1>4, <1>6
<1>8. Brings(d)'
  BY <1>t, <1>2, <1>3, <1>4, <1>6
<1>9. restarts = 0 => ShowsActiveBeforeRestart' /\ BringsBeforeRestart(d)'
  BY <1>t, <1>2, <1>3, <1>4, <1>6
<1> QED
  BY <1>2, <1>7, <1>8, <1>9 DEF Patience

LEMMA RagPatience ==
  ASSUME PageTyped, Patience, RunRag PROVE Patience'
<1> SUFFICES ASSUME ~impatient' PROVE Patience'
  BY DEF Patience
<1>t. /\ view \in ViewType /\ None \notin server.live /\ impatient \in BOOLEAN
      /\ view.session \in Sessions \cup {None}
  BY TypesUsed
<1>1. PICK d : d = Call(clicks + 1, "rag", view.session, None)
  OBVIOUS
<1>2. /\ ~impatient /\ calls = {} /\ calls' = {d}
      /\ UNCHANGED <<server, restarts>> /\ view.status = "ready"
  BY <1>t, <1>1, RagShows
<1>3. d.kind = "rag" /\ d.target = view.session /\ d.reply.ok = FALSE /\ d.reply.gone = FALSE
  BY <1>1 DEF Call, Failed
<1>4. ShowsActive /\ (restarts = 0 => ShowsActiveBeforeRestart)
  BY <1>2 DEF Patience
<1> USE DEF ShowsActive, Current, Pending, Brings, ShowsActiveBeforeRestart,
            BringsBeforeRestart
<1>6. /\ view'.session = view.session /\ view'.status = view.status
      /\ view'.error = view.error /\ view'.list = view.list
      /\ view'.listStatus = view.listStatus /\ view'.metadata = view.metadata
      /\ view'.estimate = view.estimate /\ view'.estimateStatus = view.estimateStatus
      /\ view'.form = view.form /\ view'.rag = view.rag /\ view'.ragStatus = "loading"
  BY <1>t, RagShows DEF Header, Sidebar, PanelsOf, Extras
<1>7. ShowsActive'
  BY <1>t, <1>2, <1>3, <1>4, <1>6
<1>8. Brings(d)'
  BY <1>t, <1>2, <1>3, <1>4, <1>6
<1>9. restarts = 0 => ShowsActiveBeforeRestart' /\ BringsBeforeRestart(d)'
  BY <1>t, <1>2, <1>3, <1>4, <1>6
<1> QED
  BY <1>2, <1>7, <1>8, <1>9 DEF Patience

\* What a reply may change for the patient user: the estimates kept of the session it was
\* asked for, and one session more.
LEMMA ServePatience ==
  ASSUME PageTyped, Patience, NEW c \in calls, NEW reply, NEW store,
         Serve(c, reply, store),
         c.kind = "submit" \/ store.saved = server.saved,
         store.live \in {server.live, server.live \cup {server.made + 1}},
         c.kind \in {"list", "get"} => store.live = server.live,
         reply.ok =>
           /\ c.kind = "create" => reply.payload \in store.live
           /\ c.kind = "list" => reply.payload = server.live
           /\ c.kind = "get" => reply.payload[2] = server.saved[c.target]
           /\ c.kind = "submit" => /\ c.target \in server.live
                                  /\ reply.payload = store.saved[c.target],
         reply.gone => c.target \notin server.live
  PROVE  Patience'
<1> SUFFICES ASSUME ~impatient' PROVE Patience'
  BY DEF Patience
<1>1. /\ ~impatient /\ calls = {c} /\ ShowsActive /\ Brings(c)
      /\ restarts = 0 => ShowsActiveBeforeRestart /\ BringsBeforeRestart(c)
  BY DEF Serve, Patience
<1>2. PICK d : d = [c EXCEPT !.served = TRUE, !.reply = reply]
  OBVIOUS
<1>3. CallShape(c)
  BY DEF PageTyped
<1>4. d = [id |-> c.id, kind |-> c.kind, target |-> c.target,
           captured |-> c.captured, served |-> TRUE, reply |-> reply]
  BY <1>2, <1>3, SettledCall DEF CallShape
<1>5. /\ calls' = {d} /\ d.kind = c.kind /\ d.target = c.target /\ d.reply = reply
      /\ view' = view /\ server' = store /\ restarts' = restarts
  BY <1>1, <1>2, <1>4 DEF Serve
<1>6. /\ None \notin server.live /\ server.made + 1 \notin view.list
      /\ server.made + 1 # view.session /\ server.made + 1 \notin server.live
      /\ c.kind = "get" => server.made + 1 # c.target
  <2>1. server.made \in Nat /\ server.made + 1 \notin MadeSessions
    BY DEF PageTyped, ServerType, MadeSessions
  <2>2. server.made + 1 # None
    BY <2>1, PageAssumption
  <2> QED
    BY <1>3, <2>1, <2>2, TypesUsed DEF PageTyped, CallShape
<1> USE DEF ShowsActive, Current, Pending, Brings, ShowsActiveBeforeRestart,
            BringsBeforeRestart
<1>7. ShowsActive'
  BY <1>1, <1>5, <1>6
<1>8. Brings(d)'
  BY <1>1, <1>5, <1>6
<1>9. restarts = 0 => ShowsActiveBeforeRestart' /\ BringsBeforeRestart(d)'
  BY <1>1, <1>5, <1>6
<1> QED
  BY <1>1, <1>5, <1>7, <1>8, <1>9 DEF Patience

LEMMA FailurePatience ==
  ASSUME PageTyped, Patience, NEW c \in calls, NEW store,
         \/ Serve(c, Failed, store)
         \/ Serve(c, Gone, store) /\ c.target \notin server.live,
         c.kind = "submit" \/ store.saved = server.saved,
         store.live \in {server.live, server.live \cup {server.made + 1}},
         c.kind \in {"list", "get"} => store.live = server.live
  PROVE  Patience'
<1>1. PICK reply \in {Failed, Gone} :
        Serve(c, reply, store) /\ (reply = Gone => c.target \notin server.live)
  BY DEF Failed, Gone
<1>2. ~reply.ok /\ (reply.gone => c.target \notin server.live)
  BY <1>1 DEF Failed, Gone
<1> QED
  BY <1>1, <1>2, ServePatience

LEMMA SuccessPatience ==
  ASSUME PageTyped, Patience, NEW c \in calls, NEW p, NEW store,
         Serve(c, Ok(p), store),
         c.kind = "submit" \/ store.saved = server.saved,
         store.live \in {server.live, server.live \cup {server.made + 1}},
         c.kind \in {"list", "get"} => store.live = server.live,
         /\ c.kind = "create" => p \in store.live
         /\ c.kind = "list" => p = server.live
         /\ c.kind = "get" => p[2] = server.saved[c.target]
         /\ c.kind = "submit" => c.target \in server.live /\ p = store.saved[c.target]
  PROVE  Patience'
<1>1. PICK reply : reply = Ok(p) /\ Serve(c, reply, store)
  OBVIOUS
<1>2. reply.ok /\ ~reply.gone /\ reply.payload = p
  BY <1>1 DEF Ok
<1> QED
  BY <1>1, <1>2, ServePatience

LEMMA ServedPatience ==
  ASSUME PageTyped, Patience, NEW c \in calls, Served(c) PROVE Patience'
<1>s. server \in ServerType /\ server.live \subseteq Sessions
  BY DEF PageTyped, ServerType
<1>t. ASSUME NEW s \in server.live
      PROVE  /\ CountTurn(s).live = server.live /\ CountTurn(s).saved = server.saved
             /\ SaveEstimate(s).live = server.live
             /\ SaveEstimate(s).saved[s] = server.turns[s] + 1
  BY <1>s DEF CountTurn, SaveEstimate, ServerType
<1>n. PICK store : store = [server EXCEPT !.made = server.made + 1,
                                          !.live = @ \cup {server.made + 1}]
  OBVIOUS
<1>m. store.live = server.live \cup {server.made + 1} /\ store.saved = server.saved
  BY <1>s, <1>n DEF ServerType
<1>1. CASE ServeCreate(c)
  <2>1. c.kind = "create" /\ Serve(c, Ok(server.made + 1), store)
    BY <1>1, <1>n DEF ServeCreate
  <2> QED
    BY <1>m, <2>1, SuccessPatience
<1>2. CASE ServeList(c)
  BY <1>2, SuccessPatience DEF ServeList
<1>3. CASE ServeGet(c)
  <2>1. CASE c.target \in server.live
    <3>1. PICK p : p = <<server.turns[c.target], server.saved[c.target]>>
      OBVIOUS
    <3>2. c.kind = "get" /\ Serve(c, Ok(p), server) /\ p[2] = server.saved[c.target]
      BY <1>3, <2>1, <3>1 DEF ServeGet
    <3> QED
      BY <3>2, SuccessPatience
  <2>2. CASE c.target \notin server.live
    BY <1>3, <2>2, FailurePatience DEF ServeGet
  <2> QED
    BY <2>1, <2>2
<1>4. CASE ServeSubmit(c)
  <2>1. CASE c.target \notin server.live /\ Serve(c, Gone, server)
    BY <2>1, FailurePatience
  <2>2. CASE c.target \in server.live /\ Serve(c, Failed, CountTurn(c.target))
    BY <1>t, <2>2, FailurePatience
  <2>3. CASE /\ c.target \in server.live
             /\ Serve(c, Ok(server.turns[c.target] + 1), SaveEstimate(c.target))
    <3>1. c.kind = "submit"
      BY <1>4 DEF ServeSubmit
    <3> QED
      BY <1>t, <2>3, <3>1, SuccessPatience
  <2> QED
    BY <1>4, <2>1, <2>2, <2>3 DEF ServeSubmit
<1>5. CASE ServeRag(c)
  BY <1>5, SuccessPatience DEF ServeRag
<1>6. CASE CallFails(c)
  <2>1. CASE Serve(c, Failed, server)
    BY <2>1, FailurePatience
  <2>2. CASE c.kind = "create" /\ Serve(c, Failed, store)
    BY <1>m, <2>2, FailurePatience
  <2>3. CASE /\ c.kind = "submit" /\ c.target \in server.live
             /\ Serve(c, Failed, SaveEstimate(c.target))
    BY <1>t, <2>3, FailurePatience
  <2> QED
    BY <1>6, <1>n, <2>1, <2>2, <2>3 DEF CallFails
<1> QED
  BY <1>1, <1>2, <1>3, <1>4, <1>5, <1>6 DEF Served

LEMMA RestartPatience == ASSUME PageTyped, Patience, Restart PROVE Patience'
<1> SUFFICES ASSUME ~impatient' PROVE Patience'
  BY DEF Patience
<1>1. server'.live = {} /\ server'.saved = server.saved /\ view' = view /\ restarts' # 0
  <2>1. restarts \in Nat /\ server \in ServerType
    BY DEF PageTyped
  <2> QED
    BY <2>1 DEF Restart, ServerType
<1>2. ~impatient /\ ShowsActive /\ \A c \in calls : Brings(c)
  BY DEF Restart, Patience
<1>3. ASSUME NEW d \in calls'
      PROVE  \E c \in calls : /\ d = [c EXCEPT !.served = TRUE]
                             /\ d.kind = c.kind /\ d.target = c.target /\ d.reply = c.reply
  <2>1. PICK c \in calls : d = [c EXCEPT !.served = TRUE]
    BY <1>3 DEF Restart
  <2>2. d = [id |-> c.id, kind |-> c.kind, target |-> c.target,
             captured |-> c.captured, served |-> TRUE, reply |-> c.reply]
    BY <2>1, SettledCall DEF PageTyped, CallShape
  <2> QED
    BY <2>1, <2>2
<1>4. ASSUME NEW c \in calls PROVE \E d \in calls' : d.kind = c.kind
  BY CallKept
<1>5. \A d, e \in calls' : d = e
  BY <1>2, <1>3 DEF Patience
<1>6. ShowsActive'
  BY <1>1, <1>2, <1>3, <1>4 DEF ShowsActive, Current, Pending
<1>7. \A d \in calls' : Brings(d)'
  BY <1>1, <1>2, <1>3 DEF Brings, Current
<1> QED
  BY <1>1, <1>5, <1>6, <1>7 DEF Patience
\* What the answers bring the patient user.
LEMMA CreatedPatience ==
  ASSUME PageTyped, Patience, NEW c \in calls, CreateAnswered(c), c.reply.ok PROVE Patience'
<1> SUFFICES ASSUME ~impatient' PROVE Patience'
  BY DEF Patience
<1>t. /\ view \in ViewType /\ None \notin server.live /\ None \notin Sessions
      /\ CallShape(c) /\ (c.reply.ok => ReplyFits(c)) /\ restarts \in Nat
  BY TypesUsed DEF PageTyped
<1>1. /\ UNCHANGED <<server, restarts, impatient>> /\ c.kind = "create"
      /\ calls' = (calls \ {c}) \cup ListFor(c, c.captured)
  BY <1>t, CreatedShows
<1>2. /\ ~impatient /\ calls = {c} /\ ShowsActive /\ Brings(c)
      /\ restarts = 0 => ShowsActiveBeforeRestart /\ BringsBeforeRestart(c)
  BY <1>1 DEF Patience
<1>3. PICK d : d = Call(c.id, "list", None, c.captured)
  OBVIOUS
<1>4. calls' = {d} /\ d.kind = "list" /\ d.reply.ok = FALSE /\ d.reply.gone = FALSE
  BY <1>1, <1>2, <1>3 DEF ListFor, Call, Failed
<1> USE DEF ShowsActive, Current, Pending, Brings, ShowsActiveBeforeRestart,
            BringsBeforeRestart
<1>6. /\ view'.session = c.reply.payload /\ view'.status = "ready"
      /\ view'.error = view.error /\ view'.list = view.list
      /\ view'.listStatus = "loading" /\ view'.metadata = view.metadata
      /\ view'.estimate = view.estimate /\ view'.estimateStatus = view.estimateStatus
      /\ view'.form = view.form /\ view'.rag = view.rag
      /\ view'.ragStatus = view.ragStatus
  BY <1>t, CreatedShows DEF Header, Sidebar, PanelsOf, Extras
<1>f. c.reply.payload \in Nat /\ None \notin Nat
  BY <1>t, <1>1, PageAssumption DEF ReplyFits, MadeSessions
<1>7. ShowsActive'
  BY <1>t, <1>1, <1>2, <1>4, <1>6, <1>f
<1>8. Brings(d)'
  BY <1>t, <1>1, <1>2, <1>4, <1>6, <1>f
<1>9. restarts = 0 => ShowsActiveBeforeRestart' /\ BringsBeforeRestart(d)'
  BY <1>t, <1>1, <1>2, <1>4, <1>6, <1>f
<1> QED
  BY <1>1, <1>4, <1>7, <1>8, <1>9 DEF Patience

LEMMA NotCreatedPatience ==
  ASSUME PageTyped, Patience, NEW c \in calls, CreateAnswered(c), ~c.reply.ok PROVE Patience'
<1> SUFFICES ASSUME ~impatient' PROVE Patience'
  BY DEF Patience
<1>t. /\ view \in ViewType /\ None \notin server.live /\ None \notin Sessions
      /\ CallShape(c) /\ (c.reply.ok => ReplyFits(c)) /\ restarts \in Nat
  BY TypesUsed DEF PageTyped
<1>1. /\ UNCHANGED <<server, restarts, impatient>> /\ c.kind = "create"
      /\ calls' = (calls \ {c})
  BY <1>t, NotCreatedShows
<1>2. /\ ~impatient /\ calls = {c} /\ ShowsActive /\ Brings(c)
      /\ restarts = 0 => ShowsActiveBeforeRestart /\ BringsBeforeRestart(c)
  BY <1>1 DEF Patience
<1> USE DEF ShowsActive, Current, Pending, Brings, ShowsActiveBeforeRestart,
            BringsBeforeRestart
<1>6. /\ view'.session = None /\ view'.status = "error" /\ view'.error = TRUE
      /\ view'.list = view.list /\ view'.listStatus = view.listStatus
      /\ view'.metadata = view.metadata /\ view'.estimate = view.estimate
      /\ view'.estimateStatus = view.estimateStatus /\ view'.form = view.form
      /\ view'.rag = view.rag /\ view'.ragStatus = view.ragStatus
  BY <1>t, NotCreatedShows DEF Header, Sidebar, PanelsOf, Extras
<1>7. ShowsActive'
  BY <1>t, <1>1, <1>2, <1>6
<1>9. restarts = 0 => ShowsActiveBeforeRestart'
  BY <1>t, <1>1, <1>2, <1>6
<1> QED
  BY <1>1, <1>2, <1>7, <1>9 DEF Patience

LEMMA ListPatience ==
  ASSUME PageTyped, Patience, NEW c \in calls, ListAnswered(c) PROVE Patience'
<1> SUFFICES ASSUME ~impatient' PROVE Patience'
  BY DEF Patience
<1>t. /\ view \in ViewType /\ None \notin server.live /\ None \notin Sessions
      /\ CallShape(c) /\ (c.reply.ok => ReplyFits(c)) /\ restarts \in Nat
  BY TypesUsed DEF PageTyped
<1>1. /\ UNCHANGED <<server, restarts, impatient>> /\ c.kind = "list"
      /\ calls' = (calls \ {c})
  BY <1>t, ListShows
<1>2. /\ ~impatient /\ calls = {c} /\ ShowsActive /\ Brings(c)
      /\ restarts = 0 => ShowsActiveBeforeRestart /\ BringsBeforeRestart(c)
  BY <1>1 DEF Patience
<1> USE DEF ShowsActive, Current, Pending, Brings, ShowsActiveBeforeRestart,
            BringsBeforeRestart
<1>6. /\ view'.session = view.session /\ view'.status = view.status
      /\ view'.error = view.error
      /\ view'.list = IF c.reply.ok THEN c.reply.payload ELSE {}
      /\ view'.listStatus = IF c.reply.ok THEN "ready" ELSE "error"
      /\ view'.metadata = view.metadata /\ view'.estimate = view.estimate
      /\ view'.estimateStatus = view.estimateStatus /\ view'.form = view.form
      /\ view'.rag = view.rag /\ view'.ragStatus = view.ragStatus
  BY <1>t, ListShows DEF Header, Sidebar, PanelsOf, Extras
<1>f. c.reply.ok => None \notin c.reply.payload
  BY <1>t, <1>1, PageAssumption DEF ReplyFits, MadeSessions
<1>7. ShowsActive'
  BY <1>t, <1>1, <1>2, <1>6, <1>f
<1>9. restarts = 0 => ShowsActiveBeforeRestart'
  BY <1>t, <1>1, <1>2, <1>6, <1>f
<1> QED
  BY <1>1, <1>2, <1>7, <1>9 DEF Patience

LEMMA GotPatience ==
  ASSUME PageTyped, Patience, NEW c \in calls, GetAnswered(c), c.reply.ok PROVE Patience'
<1> SUFFICES ASSUME ~impatient' PROVE Patience'
  BY DEF Patience
<1>t. /\ view \in ViewType /\ None \notin server.live /\ None \notin Sessions
      /\ CallShape(c) /\ (c.reply.ok => ReplyFits(c)) /\ restarts \in Nat
  BY TypesUsed DEF PageTyped
<1>1. /\ UNCHANGED <<server, restarts, impatient>> /\ c.kind = "get"
      /\ calls' = (calls \ {c})
  BY <1>t, GotShows
<1>2. /\ ~impatient /\ calls = {c} /\ ShowsActive /\ Brings(c)
      /\ restarts = 0 => ShowsActiveBeforeRestart /\ BringsBeforeRestart(c)
  BY <1>1 DEF Patience
<1> USE DEF ShowsActive, Current, Pending, Brings, ShowsActiveBeforeRestart,
            BringsBeforeRestart
<1>6. /\ view'.session = c.target /\ view'.status = "ready" /\ view'.error = FALSE
      /\ view'.list = view.list /\ view'.listStatus = view.listStatus
      /\ view'.metadata = IF c.reply.payload[1] > 0 THEN <<c.target, c.reply.payload[1]>> ELSE None
      /\ view'.estimate = IF c.reply.payload[2] > 0 THEN <<c.target, c.reply.payload[2]>> ELSE None
      /\ view'.estimateStatus = IF c.reply.payload[2] > 0 THEN "available" ELSE IF c.reply.payload[1] > 0 THEN "error" ELSE "empty"
      /\ view'.form = IF c.reply.payload[1] > 0 THEN c.target ELSE None
      /\ view'.rag = view.rag /\ view'.ragStatus = view.ragStatus
  BY <1>t, GotShows DEF Header, Sidebar, PanelsOf, Extras
<1>f. /\ c.target \in Sessions /\ c.reply.payload[1] \in Nat /\ c.reply.payload[2] \in Nat
      /\ c.reply.payload[2] <= c.reply.payload[1] /\ c.target # None
  <2>1. c.target \in Sessions
    BY <1>1, <1>2 DEF PageTyped, ViewType
  <2> QED
    BY <1>t, <1>1, <2>1 DEF ReplyFits
<1>g. view'.estimateStatus = "available" =>
        /\ view'.estimate = <<c.target, server.saved[c.target]>>
        /\ view'.estimate[2] = c.reply.payload[2]
        /\ view'.metadata[1] = c.target /\ view'.metadata[2] = c.reply.payload[1]
  BY <1>t, <1>1, <1>2, <1>6, <1>f
<1>h. view'.session = c.target /\ view'.error = FALSE /\ view'.list = view.list
  BY <1>6
<1>7. ShowsActive'
  <2>1. (view.estimateStatus = "available" =>
           /\ ~Pending({"create", "get", "submit"})
           /\ view.session \in Sessions
           /\ view.estimate = <<view.session, server.saved[view.session]>>)'
    BY <1>t, <1>1, <1>2, <1>f, <1>g, <1>h
  <2>2. (view.estimateStatus = "available" =>
           view.metadata[1] = view.session /\ view.metadata[2] >= view.estimate[2])'
    BY <1>f, <1>g, <1>h
  <2>3. (~Pending({"list"}) => Current(view.list))' /\ ~view'.error
    BY <1>t, <1>1, <1>2, <1>f, <1>g, <1>h
  <2> QED
    BY <2>1, <2>2, <2>3
<1>9. restarts = 0 => ShowsActiveBeforeRestart'
  BY <1>t, <1>1, <1>2, <1>6, <1>f
<1> QED
  BY <1>1, <1>2, <1>7, <1>9 DEF Patience

LEMMA NotGotPatience ==
  ASSUME PageTyped, Patience, NEW c \in calls, GetAnswered(c), ~c.reply.ok PROVE Patience'
<1> SUFFICES ASSUME ~impatient' PROVE Patience'
  BY DEF Patience
<1>t. /\ view \in ViewType /\ None \notin server.live /\ None \notin Sessions
      /\ CallShape(c) /\ (c.reply.ok => ReplyFits(c)) /\ restarts \in Nat
  BY TypesUsed DEF PageTyped
<1>1. /\ UNCHANGED <<server, restarts, impatient>> /\ c.kind = "get"
      /\ calls' = (calls \ {c})
  BY <1>t, NotGotShows
<1>2. /\ ~impatient /\ calls = {c} /\ ShowsActive /\ Brings(c)
      /\ restarts = 0 => ShowsActiveBeforeRestart /\ BringsBeforeRestart(c)
  BY <1>1 DEF Patience
<1> USE DEF ShowsActive, Current, Pending, Brings, ShowsActiveBeforeRestart,
            BringsBeforeRestart
<1>6. /\ view'.session = view.session /\ view'.status = view.status
      /\ view'.error = (view.error \/ c.reply.gone) /\ view'.list = view.list
      /\ view'.listStatus = view.listStatus /\ view'.metadata = None
      /\ view'.estimate = None /\ view'.estimateStatus = "empty" /\ view'.form = view.form
      /\ view'.rag = view.rag /\ view'.ragStatus = view.ragStatus
  BY <1>t, NotGotShows DEF Header, Sidebar, PanelsOf, Extras
<1>7. ShowsActive'
  BY <1>t, <1>1, <1>2, <1>6
<1>9. restarts = 0 => ShowsActiveBeforeRestart'
  BY <1>t, <1>1, <1>2, <1>6
<1> QED
  BY <1>1, <1>2, <1>7, <1>9 DEF Patience

LEMMA SubmittedPatience ==
  ASSUME PageTyped, Patience, NEW c \in calls, SubmitAnswered(c), c.reply.ok PROVE Patience'
<1> SUFFICES ASSUME ~impatient' PROVE Patience'
  BY DEF Patience
<1>t. /\ view \in ViewType /\ None \notin server.live /\ None \notin Sessions
      /\ CallShape(c) /\ (c.reply.ok => ReplyFits(c)) /\ restarts \in Nat
  BY TypesUsed DEF PageTyped
<1>1. /\ UNCHANGED <<server, restarts, impatient>> /\ c.kind = "submit"
      /\ calls' = (calls \ {c}) \cup ListFor(c, FALSE)
  BY <1>t, SubmittedShows
<1>2. /\ ~impatient /\ calls = {c} /\ ShowsActive /\ Brings(c)
      /\ restarts = 0 => ShowsActiveBeforeRestart /\ BringsBeforeRestart(c)
  BY <1>1 DEF Patience
<1>3. PICK d : d = Call(c.id, "list", None, FALSE)
  OBVIOUS
<1>4. calls' = {d} /\ d.kind = "list" /\ d.reply.ok = FALSE /\ d.reply.gone = FALSE
  BY <1>1, <1>2, <1>3 DEF ListFor, Call, Failed
<1> USE DEF ShowsActive, Current, Pending, Brings, ShowsActiveBeforeRestart,
            BringsBeforeRestart
<1>6. /\ view'.session = view.session /\ view'.status = view.status
      /\ view'.error = view.error /\ view'.list = view.list
      /\ view'.listStatus = "loading" /\ view'.metadata = <<c.target, c.reply.payload>>
      /\ view'.estimate = <<c.target, c.reply.payload>>
      /\ view'.estimateStatus = "available" /\ view'.form = view.form
      /\ view'.rag = view.rag /\ view'.ragStatus = view.ragStatus
  BY <1>t, SubmittedShows DEF Header, Sidebar, PanelsOf, Extras
<1>f. c.target \in Sessions /\ c.reply.payload \in Nat
  BY <1>t, <1>1 DEF ReplyFits
<1>g. /\ view'.estimate = <<c.target, server.saved[c.target]>>
      /\ view'.estimate[2] = c.reply.payload
      /\ view'.metadata[1] = c.target /\ view'.metadata[2] = c.reply.payload
      /\ view'.session = c.target /\ view'.error = FALSE /\ view'.list = view.list
  BY <1>t, <1>1, <1>2, <1>6, <1>f
<1>7. ShowsActive'
  <2>1. (view.estimateStatus = "available" =>
           /\ ~Pending({"create", "get", "submit"})
           /\ view.session \in Sessions
           /\ view.estimate = <<view.session, server.saved[view.session]>>)'
    BY <1>t, <1>1, <1>2, <1>4, <1>f, <1>g
  <2>2. (view.estimateStatus = "available" =>
           view.metadata[1] = view.session /\ view.metadata[2] >= view.estimate[2])'
    BY <1>f, <1>g
  <2>3. (~Pending({"list"}) => Current(view.list))' /\ ~view'.error
    BY <1>t, <1>1, <1>2, <1>4, <1>f, <1>g
  <2> QED
    BY <2>1, <2>2, <2>3
<1>8. Brings(d)'
  BY <1>t, <1>1, <1>2, <1>4, <1>6, <1>f
<1>9. restarts = 0 => ShowsActiveBeforeRestart' /\ BringsBeforeRestart(d)'
  BY <1>t, <1>1, <1>2, <1>4, <1>6, <1>f
<1> QED
  BY <1>1, <1>4, <1>7, <1>8, <1>9 DEF Patience

LEMMA NotSubmittedPatience ==
  ASSUME PageTyped, Patience, NEW c \in calls, SubmitAnswered(c), ~c.reply.ok PROVE Patience'
<1> SUFFICES ASSUME ~impatient' PROVE Patience'
  BY DEF Patience
<1>t. /\ view \in ViewType /\ None \notin server.live /\ None \notin Sessions
      /\ CallShape(c) /\ (c.reply.ok => ReplyFits(c)) /\ restarts \in Nat
  BY TypesUsed DEF PageTyped
<1>1. /\ UNCHANGED <<server, restarts, impatient>> /\ c.kind = "submit"
      /\ calls' = (calls \ {c})
  BY <1>t, NotSubmittedShows
<1>2. /\ ~impatient /\ calls = {c} /\ ShowsActive /\ Brings(c)
      /\ restarts = 0 => ShowsActiveBeforeRestart /\ BringsBeforeRestart(c)
  BY <1>1 DEF Patience
<1> USE DEF ShowsActive, Current, Pending, Brings, ShowsActiveBeforeRestart,
            BringsBeforeRestart
<1>6. /\ view'.session = view.session /\ view'.status = view.status
      /\ view'.error = view.error /\ view'.list = view.list
      /\ view'.listStatus = view.listStatus /\ view'.metadata = view.metadata
      /\ view'.estimate = view.estimate /\ view'.estimateStatus = "error"
      /\ view'.form = view.form /\ view'.rag = view.rag
      /\ view'.ragStatus = view.ragStatus
  BY <1>t, NotSubmittedShows DEF Header, Sidebar, PanelsOf, Extras
<1>7. ShowsActive'
  BY <1>t, <1>1, <1>2, <1>6
<1>9. restarts = 0 => ShowsActiveBeforeRestart'
  BY <1>t, <1>1, <1>2, <1>6
<1> QED
  BY <1>1, <1>2, <1>7, <1>9 DEF Patience

LEMMA RagAnswerPatience ==
  ASSUME PageTyped, Patience, NEW c \in calls, RagAnswered(c) PROVE Patience'
<1> SUFFICES ASSUME ~impatient' PROVE Patience'
  BY DEF Patience
<1>t. /\ view \in ViewType /\ None \notin server.live /\ None \notin Sessions
      /\ CallShape(c) /\ (c.reply.ok => ReplyFits(c)) /\ restarts \in Nat
  BY TypesUsed DEF PageTyped
<1>1. /\ UNCHANGED <<server, restarts, impatient>> /\ c.kind = "rag"
      /\ calls' = (calls \ {c})
  BY <1>t, RagAnswerShows
<1>2. /\ ~impatient /\ calls = {c} /\ ShowsActive /\ Brings(c)
      /\ restarts = 0 => ShowsActiveBeforeRestart /\ BringsBeforeRestart(c)
  BY <1>1 DEF Patience
<1> USE DEF ShowsActive, Current, Pending, Brings, ShowsActiveBeforeRestart,
            BringsBeforeRestart
<1>6. /\ view'.session = view.session /\ view'.status = view.status
      /\ view'.error = view.error /\ view'.list = view.list
      /\ view'.listStatus = view.listStatus /\ view'.metadata = view.metadata
      /\ view'.estimate = view.estimate /\ view'.estimateStatus = view.estimateStatus
      /\ view'.form = view.form
      /\ view'.rag = IF c.reply.ok THEN c.reply.payload ELSE view.rag
      /\ view'.ragStatus = IF c.reply.ok THEN "available" ELSE "error"
  BY <1>t, RagAnswerShows DEF Header, Sidebar, PanelsOf, Extras
<1>f. c.reply.ok => c.reply.payload = c.target
  BY <1>t, <1>1 DEF ReplyFits
<1>7. ShowsActive'
  BY <1>t, <1>1, <1>2, <1>6, <1>f
<1>9. restarts = 0 => ShowsActiveBeforeRestart'
  BY <1>t, <1>1, <1>2, <1>6, <1>f
<1> QED
  BY <1>1, <1>2, <1>7, <1>9 DEF Patience

LEMMA PatienceStep == ASSUME PageTyped, Patience, [PageNext]_pageVars PROVE Patience'
<1>1. CASE UserClicks
  BY <1>1, RetryPatience, NewPatience, SelectPatience, SubmitPatience, RefreshPatience,
     RagPatience DEF UserClicks
<1>2. ASSUME NEW c \in calls, Answered(c) PROVE Patience'
  BY <1>2, CreatedPatience, NotCreatedPatience, ListPatience, GotPatience, NotGotPatience,
     SubmittedPatience, NotSubmittedPatience, RagAnswerPatience DEF Answered
<1>3. CASE UNCHANGED pageVars
  BY <1>3 DEF pageVars, Patience, ShowsActive, Current, Pending, Brings, ShowsActiveBeforeRestart,
              BringsBeforeRestart
<1> QED
  BY <1>1, <1>2, <1>3, ServedPatience, RestartPatience DEF PageNext

-----------------------------------------------------------------------------
\* PageInv is an invariant: whatever the user does, in whatever order the
\* calls are served and answered, and whenever the API restarts.
THEOREM PageInvariant == PageSpec => []PageInv
<1>1. PageInit => PageInv
  <2>1. PageInit => SpinnersHaveCalls
    <3> SUFFICES ASSUME PageInit PROVE SpinnersHaveCalls
      OBVIOUS
    <3>1. PICK d : d = Call(0, "create", None, FALSE)
      OBVIOUS
    <3>2. d.kind = "create" /\ d \in calls
      BY <3>1 DEF PageInit, Call
    <3>3. /\ view.status = "loading" /\ view.resetting = FALSE /\ view.selecting = FALSE
          /\ view.listStatus = "idle" /\ view.metadataStatus = "empty"
          /\ view.estimateStatus = "empty" /\ view.ragStatus = "empty"
      BY DEF PageInit
    <3> QED
      BY <3>2, <3>3 DEF SpinnersHaveCalls, Pending
  <2> QED
    BY <2>1, InitTyped, InitPatience DEF PageInv
<1>2. PageInv /\ [PageNext]_pageVars => PageInv'
  BY TypedStep, SpinnersStep, PatienceStep DEF PageInv
<1> QED
  BY <1>1, <1>2, PTL DEF PageSpec

\* The store, the page and the calls keep their types, and every reply that
\* is ok carries what its kind of call answers with (useSessionEstimate.ts,
\* sessions.py).
THEOREM PageTypeCorrect == PageSpec => []PageTyped
<1>1. PageInv => PageTyped
  BY DEF PageInv
<1> QED
  BY <1>1, PageInvariant, PTL

\* Every spinner and every disabled form has a call in flight that ends it,
\* for any number of clicks, overlapping calls and restarts.
THEOREM SpinnersEnd == PageSpec => []SpinnersHaveCalls
<1>1. PageInv => SpinnersHaveCalls
  BY DEF PageInv
<1> QED
  BY <1>1, PageInvariant, PTL

\* A user who waits for each answer is shown the active session: its last
\* estimate, metadata no older than that, a sidebar that lists it, its form
\* and its RAG result.
THEOREM PatientUserIsShownActive == PageSpec => []PatientUserSeesActiveSession
<1>1. PageInv => PatientUserSeesActiveSession
  <2> SUFFICES ASSUME PageTyped, Patience, ~impatient PROVE PatientUserSeesActiveSession
    BY DEF PageInv, PatientUserSeesActiveSession
  <2>1. ShowsActive /\ (restarts = 0 => ShowsActiveBeforeRestart) /\ restarts \in Nat
    BY DEF Patience, PageTyped
  <2>2. view.estimateStatus = "available" =>
          view.estimate[1] = view.session /\ view.estimate[2] = server.saved[view.session]
    BY <2>1 DEF ShowsActive
  <2> QED
    BY <2>1, <2>2
    DEF PatientUserSeesActiveSession, ShowsActive, ShowsActiveBeforeRestart, Pending
<1> QED
  BY <1>1, PageInvariant, PTL
=============================================================================
