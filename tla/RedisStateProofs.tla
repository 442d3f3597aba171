-------------------------- MODULE RedisStateProofs --------------------------
(***************************************************************************)
(* What holds of the runtime configuration and of the activity feed for    *)
(* any number of PUTs, fields, legs, nodes, outages and restarts.          *)
(***************************************************************************)
EXTENDS RedisState, TLAPS

-----------------------------------------------------------------------------
(* The runtime configuration.                                              *)

Put == [phase : {"new", "read", "done"}, changes : Overrides, existing : Overrides]

ConfigTypeOK ==
    /\ override \in Overrides
    /\ puts \in [Puts -> Put]
    /\ owed \in [Fields -> SUBSET (Values \cup {Default})]
    /\ serial \in BOOLEAN

(* While PUTs have come one at a time, the one that has read is alone and  *)
(* what it has read is still what is stored.                               *)
OneReader ==
    serial =>
        /\ \A p, q \in Puts :
              puts[p].phase = "read" /\ puts[q].phase = "read" => p = q
        /\ \A p \in Puts :
              puts[p].phase = "read" => puts[p].existing = override

ConfigInv == ConfigTypeOK /\ OneReader /\ SerialUpdatesEffective

\* An override is a function from some of the fields.
LEMMA OverrideFacts ==
    ASSUME NEW o \in Overrides
    PROVE  /\ DOMAIN o \subseteq Fields
           /\ o \in [DOMAIN o -> Values]
<1>1. PICK S \in SUBSET Fields : o \in [S -> Values]
  BY DEF Overrides
<1>. QED
  BY <1>1

LEMMA NothingType == Nothing \in Overrides
<1>1. Nothing \in [{} -> Values]
  BY DEF Nothing
<1>. QED
  BY <1>1 DEF Overrides

\* What merging leaves: the changes where there are any, else what was there.
LEMMA MergedFacts ==
    ASSUME NEW existing \in Overrides, NEW changes \in Overrides
    PROVE  /\ Merged(existing, changes) \in Overrides
           /\ \A f \in Fields :
                 Effective(Merged(existing, changes))[f] =
                     IF f \in DOMAIN changes THEN changes[f]
                     ELSE Effective(existing)[f]
<1> DEFINE S == DOMAIN existing \cup DOMAIN changes
           merged == Merged(existing, changes)
<1>1. /\ S \in SUBSET Fields
      /\ \A f \in DOMAIN existing : existing[f] \in Values
      /\ \A f \in DOMAIN changes : changes[f] \in Values
  BY OverrideFacts
<1>2. merged \in [S -> Values]
  BY <1>1 DEF Merged
<1>3. merged \in Overrides
  BY <1>1, <1>2 DEF Overrides
<1>4. DOMAIN merged = S
  BY DEF Merged
<1>5. ASSUME NEW f \in Fields
      PROVE  Effective(merged)[f] =
                 IF f \in DOMAIN changes THEN changes[f] ELSE Effective(existing)[f]
  BY DEF Merged, Effective
<1>. QED
  BY <1>3, <1>5

LEMMA ConfigInitially == ConfigInit => ConfigInv
<1> SUFFICES ASSUME ConfigInit PROVE ConfigInv
  OBVIOUS
<1>1. ConfigTypeOK
  BY NothingType DEF ConfigInit, ConfigTypeOK, Put
<1>2. OneReader
  BY DEF ConfigInit, OneReader
<1>3. SerialUpdatesEffective
  BY DEF ConfigInit, SerialUpdatesEffective, Effective, Nothing
<1>. QED
  BY <1>1, <1>2, <1>3 DEF ConfigInv

LEMMA ReadForUpdateOK ==
    ASSUME ConfigInv, NEW p \in Puts, ReadForUpdate(p)
    PROVE  ConfigInv'
<1> USE DEF ConfigInv
<1>1. PICK changes \in Overrides :
          puts' = [puts EXCEPT ![p] = [phase |-> "read", changes |-> changes,
                                       existing |-> ReadOverride]]
  BY DEF ReadForUpdate
<1>2. /\ UNCHANGED <<override, owed>>
      /\ serial' = (serial /\ redis.up /\ \A q \in Puts : puts[q].phase # "read")
  BY DEF ReadForUpdate
<1>3. ReadOverride \in Overrides
  BY NothingType DEF ReadOverride, ConfigTypeOK
<1>4. ConfigTypeOK'
  BY <1>1, <1>2, <1>3 DEF ConfigTypeOK, Put
<1>5. OneReader'
  <2> SUFFICES ASSUME serial'
               PROVE  /\ \A q, r \in Puts : puts'[q].phase = "read"
                             /\ puts'[r].phase = "read" => q = r
                      /\ \A q \in Puts : puts'[q].phase = "read" =>
                             puts'[q].existing = override'
    BY DEF OneReader
  <2>1. redis.up /\ \A q \in Puts : puts[q].phase # "read"
    BY <1>2
  <2>2. ReadOverride = override
    BY <2>1 DEF ReadOverride
  <2>. QED
    BY <2>1, <2>2, <1>1, <1>2 DEF ConfigTypeOK
<1>6. SerialUpdatesEffective'
  BY <1>2 DEF SerialUpdatesEffective, Effective
<1>. QED
  BY <1>4, <1>5, <1>6

(* A PUT ends: whether it has stored its merged object or not, each of its *)
(* fields is owed the value it may have left, and while PUTs come one at a *)
(* time the object it has merged into is the one it replaces.              *)
LEMMA PutEndsOK ==
    ASSUME ConfigInv, NEW p \in Puts, WriteOverride(p) \/ WriteFails(p)
    PROVE  ConfigInv'
<1> USE DEF ConfigInv
<1> DEFINE existing == puts[p].existing
           changes == puts[p].changes
           merged == Merged(existing, changes)
           ended == [phase |-> "done", changes |-> Nothing, existing |-> Nothing]
<1>1. /\ puts[p].phase = "read" /\ serial' = serial
      /\ puts' = [puts EXCEPT ![p] = ended]
      /\ existing \in Overrides /\ changes \in Overrides /\ puts[p] \in Put
  BY DEF WriteOverride, WriteFails, Answered, ConfigTypeOK, Put
<1>2. override' = override \/ override' = merged
  BY DEF WriteOverride, WriteFails
<1>3. /\ merged \in Overrides
      /\ \A f \in Fields : Effective(merged)[f] =
             IF f \in DOMAIN changes THEN changes[f] ELSE Effective(existing)[f]
  BY <1>1, MergedFacts
<1> HIDE DEF existing, changes, merged
<1>4. ASSUME NEW f \in Fields
      PROVE  /\ owed'[f] \in SUBSET (Values \cup {Default})
             /\ f \notin DOMAIN changes => owed'[f] = owed[f]
             /\ f \in DOMAIN changes => changes[f] \in owed'[f]
             /\ override' = override => owed[f] \subseteq owed'[f] \/ override' = merged
  BY <1>1, OverrideFacts DEF WriteOverride, WriteFails, ConfigTypeOK, changes, merged, existing
<1>5. ConfigTypeOK'
  <2>1. owed' \in [Fields -> SUBSET (Values \cup {Default})]
    BY <1>4 DEF WriteOverride, WriteFails
  <2>2. puts' \in [Puts -> Put]
    BY <1>1, NothingType DEF ConfigTypeOK, Put
  <2>. QED
    BY <2>1, <2>2, <1>1, <1>2, <1>3 DEF ConfigTypeOK
<1>6. ended.phase # "read"
  OBVIOUS
<1> HIDE DEF ended
<1>7. OneReader'
  <2> SUFFICES ASSUME serial'
               PROVE  \A q \in Puts : puts'[q].phase # "read"
    BY DEF OneReader
  <2>. QED
    BY <1>1, <1>6 DEF OneReader, ConfigTypeOK
<1>8. SerialUpdatesEffective'
  <2> SUFFICES ASSUME serial', NEW f \in Fields
               PROVE  Effective(override')[f] \in owed'[f]
    BY DEF SerialUpdatesEffective, Effective
  <2>1. existing = override /\ Effective(override)[f] \in owed[f]
    BY <1>1 DEF OneReader, SerialUpdatesEffective, existing
  <2>2. CASE override' = merged
    BY <2>1, <2>2, <1>3, <1>4
  <2>3. CASE override' # merged
    BY <2>1, <2>3, <1>2, <1>4
  <2>. QED
    BY <2>2, <2>3
<1>. QED
  BY <1>5, <1>7, <1>8

LEMMA ConfigStutters ==
    ASSUME ConfigInv, UNCHANGED configVars
    PROVE  ConfigInv'
  BY DEF ConfigInv, configVars, ConfigTypeOK, OneReader, SerialUpdatesEffective,
         Effective

LEMMA ConfigStepOK == ConfigInv /\ ConfigNext => ConfigInv'
  BY ReadForUpdateOK, PutEndsOK DEF ConfigNext

-----------------------------------------------------------------------------
(* The activity feed.                                                      *)

Line == [leg : Legs, node : {"node", "error"}]

Leg == [phase : {"new", "queued", "running", "failing", "ended"},
        start : BOOLEAN, blocking : BOOLEAN, nodes : Nat]

ActivityTypeOK ==
    /\ backend \in {"unset", "redis", "memory"}
    /\ lines \in Seq(Line)
    /\ memory \in Seq(Line)
    /\ legs \in [Legs -> Leg]
    /\ checkpoint \in [at : {"none", "mid", "gate", "end"}, by : Legs \cup {NoLeg}]
    /\ cleared \in [by : Legs \cup {NoLeg}, legs : SUBSET Legs]

Feed == IF backend = "redis" THEN lines ELSE memory

\* A background leg runs in a process that has chosen its feed.
FeedChosen ==
    \A l \in Legs :
        legs[l].phase \in {"queued", "running", "failing"} /\ ~ legs[l].blocking
            => backend # "unset"

\* The last word of l has been said, or could not be.
Spoken(l) ==
    \/ l \in told \/ l \in silenced
    \/ backend # "unset" /\ Tells(Feed, l)

\* The START that has cleared the feed has not come to a checkpoint: it is
\* about to begin, or has failed at that.
Clears(l) ==
    /\ l \in Legs
    /\ \/ /\ legs[l].phase \in {"queued", "failing"}
          /\ legs[l].start /\ ~ legs[l].blocking
       \/ Spoken(l)

(* Whoever left the graph between two nodes is still driving it, or its    *)
(* last word has been said, or could not be; or a START that has cleared   *)
(* it has not come to a checkpoint of its own.  A process that has not     *)
(* used the feed yet has only blocking legs, and legs of the processes     *)
(* before it, all silenced.                                                *)
Explained ==
    checkpoint.at = "mid" =>
        /\ checkpoint.by \in Legs
        /\ legs[checkpoint.by].phase \notin {"new", "queued"}
        /\ \/ legs[checkpoint.by].phase \in {"running", "failing"}
           \/ Spoken(checkpoint.by)
           \/ checkpoint.by \in cleared.legs /\ Clears(cleared.by)

ActivityInv ==
    /\ ActivityTypeOK
    /\ FeedChosen
    /\ Explained

LEMMA FeedGrows ==
    ASSUME NEW feed \in Seq(Line), NEW line \in Line
    PROVE  /\ Append(feed, line) \in Seq(Line)
           /\ \A l : Tells(feed, l) => Tells(Append(feed, line), l)
           /\ \A l : line = ErrorLine(l) => Tells(Append(feed, line), l)
<1> DEFINE longer == Append(feed, line)
<1>1. /\ longer \in Seq(Line) /\ DOMAIN feed = 1 .. Len(feed)
      /\ DOMAIN longer = 1 .. Len(feed) + 1
      /\ \A i \in 1 .. Len(feed) : longer[i] = feed[i]
      /\ longer[Len(feed) + 1] = line
  OBVIOUS
<1>2. /\ \A i \in DOMAIN feed : i \in DOMAIN longer /\ longer[i] = feed[i]
      /\ Len(feed) + 1 \in DOMAIN longer
  BY <1>1
<1> HIDE DEF longer
<1>. QED
  BY <1>1, <1>2 DEF Tells, longer

LEMMA LineTypes ==
    ASSUME NEW l \in Legs
    PROVE  DescribeNode(l) \in Line /\ ErrorLine(l) \in Line
  BY DEF DescribeNode, ErrorLine, Line

LEMMA LegTypes ==
    /\ NewLeg \in Leg /\ NewLeg.phase = "new"
    /\ \A start, blocking \in BOOLEAN :
          LET l == [NewLeg EXCEPT !.phase = "queued", !.start = start, !.blocking = blocking]
          IN  l \in Leg /\ l.phase = "queued" /\ l.start = start /\ l.blocking = blocking
    /\ LET l == [NewLeg EXCEPT !.phase = "queued", !.start = TRUE]
       IN  l \in Leg /\ l.phase = "queued" /\ l.start = TRUE /\ l.blocking = FALSE
    /\ \A phase \in {"queued", "ended"} :
          LET l == [NewLeg EXCEPT !.phase = phase]
          IN  l \in Leg /\ l.phase = phase
  BY DEF NewLeg, Leg

LEMMA EndedFacts ==
    ASSUME ActivityTypeOK, NEW l \in Legs, Ended(l)
    PROVE  /\ legs' \in [Legs -> Leg] /\ legs'[l].phase = "ended"
           /\ \A m \in Legs \ {l} : legs'[m] = legs[m]
<1> DEFINE ended == [NewLeg EXCEPT !.phase = "ended"]
<1>1. legs' = [legs EXCEPT ![l] = ended] /\ ended \in Leg /\ ended.phase = "ended"
  BY LegTypes DEF Ended
<1> HIDE DEF ended
<1>. QED
  BY <1>1 DEF ActivityTypeOK

LEMMA ActivityInitially == ActivityInit => ActivityInv
<1> SUFFICES ASSUME ActivityInit PROVE ActivityInv
  OBVIOUS
<1>1. ActivityTypeOK
  <2>1. <<>> \in Seq(Line)
    OBVIOUS
  <2>. QED
    BY <2>1, LegTypes DEF ActivityInit, ActivityTypeOK
<1>2. FeedChosen
  BY LegTypes DEF ActivityInit, FeedChosen
<1>. QED
  BY <1>1, <1>2 DEF ActivityInv, ActivityInit, Explained

(* Appending to the feed in use: the other one is not touched.             *)
LEMMA AppendOK ==
    ASSUME ActivityTypeOK, backend # "unset", backend' = backend,
           NEW line \in Line, Append1(line)
    PROVE  /\ Feed' = Append(Feed, line)
           /\ lines' \in Seq(Line) /\ memory' \in Seq(Line)
           /\ \A m : Tells(Feed, m) => Tells(Feed, m)'
           /\ \A m : line = ErrorLine(m) => Tells(Feed, m)'
<1>1. /\ Feed' = Append(Feed, line) /\ Feed \in Seq(Line)
      /\ lines' \in Seq(Line) /\ memory' \in Seq(Line)
  BY FeedGrows DEF Append1, Feed, ActivityTypeOK
<1>2. /\ \A m : Tells(Feed, m) => Tells(Append(Feed, line), m)
      /\ \A m : line = ErrorLine(m) => Tells(Append(Feed, line), m)
  BY <1>1, FeedGrows
<1>3. \A m : Tells(Feed, m)' <=> Tells(Append(Feed, line), m)
  BY <1>1 DEF Tells, ErrorLine
<1>. QED
  BY <1>1, <1>2, <1>3

(* What does not write to the feed takes nobody's word back.               *)
LEMMA StillSpoken ==
    ASSUME backend # "unset" => backend' = backend,
           UNCHANGED <<lines, memory>>,
           told \subseteq told', silenced \subseteq silenced'
    PROVE  \A l : Spoken(l) => Spoken(l)'
  BY DEF Spoken, Feed, Tells, ErrorLine

(* A step that takes nobody's word back, moves one leg other than to begin *)
(* it, and leaves the checkpoint, or saves one for a leg that goes on.     *)
LEMMA MoveOK ==
    ASSUME ActivityInv, ActivityTypeOK', UNCHANGED <<checkpoint, cleared>>,
           NEW l \in Legs,
           \A m \in Legs \ {l} : legs'[m] = legs[m],
           \A m : Spoken(m) => Spoken(m)',
           backend # "unset" => backend' # "unset",
           legs'[l].phase \in {"queued", "running", "failing"} /\ ~ legs'[l].blocking
              => backend' # "unset",
           \/ legs[l].phase = "new"
           \/ legs[l].phase = "queued" /\ legs'[l].phase = "failing"
              /\ legs'[l].start = legs[l].start /\ legs'[l].blocking = legs[l].blocking
           \/ legs[l].phase = "queued" /\ ~ legs[l].start
              /\ legs'[l].phase \in {"running", "ended"}
           \/ legs[l].phase = "running" /\ legs'[l].phase = "failing"
           \/ legs[l].phase = "failing" /\ legs'[l].phase = "ended" /\ Spoken(l)'
    PROVE  ActivityInv'
<1> USE DEF ActivityInv
<1>1. FeedChosen'
  BY DEF FeedChosen
<1>2. Clears(cleared.by) => Clears(cleared.by)'
  <2> SUFFICES ASSUME Clears(cleared.by) PROVE Clears(cleared.by)'
    OBVIOUS
  <2>1. cleared'.by = cleared.by /\ cleared.by \in Legs
    BY DEF Clears
  <2>2. CASE Spoken(cleared.by)
    BY <2>1, <2>2 DEF Clears
  <2>3. CASE cleared.by # l /\ ~ Spoken(cleared.by)
    BY <2>1, <2>3 DEF Clears
  <2>4. CASE cleared.by = l /\ ~ Spoken(cleared.by)
    <3>1. legs[l].phase \in {"queued", "failing"} /\ legs[l].start /\ ~ legs[l].blocking
      BY <2>1, <2>4 DEF Clears
    <3>. QED
      BY <2>1, <2>4, <3>1 DEF Clears
  <2>. QED
    BY <2>2, <2>3, <2>4
<1>3. Explained'
  <2> SUFFICES ASSUME checkpoint.at = "mid" PROVE Explained'
    BY DEF Explained
  <2> DEFINE s == checkpoint.by
  <2>1. /\ s \in Legs /\ legs[s].phase \notin {"new", "queued"}
        /\ \/ legs[s].phase \in {"running", "failing"}
           \/ Spoken(s)
           \/ s \in cleared.legs /\ Clears(cleared.by)
    BY DEF Explained
  <2>2. legs'[s].phase \notin {"new", "queued"}
    BY <2>1
  <2>3. legs[s].phase \in {"running", "failing"}
           => legs'[s].phase \in {"running", "failing"} \/ Spoken(s)'
    BY <2>1
  <2>. QED
    BY <2>1, <2>2, <2>3, <1>2 DEF Explained
<1>. QED
  BY <1>1, <1>3

LEMMA StartOK ==
    ASSUME ActivityInv, NEW l \in Legs, EstimateGraphStream(l)
    PROVE  ActivityInv'
<1> USE DEF ActivityInv
<1> DEFINE queued == [NewLeg EXCEPT !.phase = "queued", !.start = TRUE]
<1>1. /\ legs' = [legs EXCEPT ![l] = queued]
      /\ legs[l].phase = "new" /\ backend' = Chosen
      /\ UNCHANGED <<checkpoint, silenced, told>>
      /\ cleared' = [by |-> l, legs |-> cleared.legs \cup {m \in Legs : Tells(Visible, m)}]
      /\ queued \in Leg /\ queued.phase = "queued" /\ queued.start /\ ~ queued.blocking
  BY LegTypes DEF EstimateGraphStream
<1> HIDE DEF queued
<1>2. backend' \in {"redis", "memory"} /\ (backend # "unset" => Visible = Feed)
  BY <1>1 DEF Chosen, ActivityTypeOK, Visible, Feed
<1>3. ActivityTypeOK'
  <2>1. <<>> \in Seq(Line)
    OBVIOUS
  <2>2. lines' \in Seq(Line) /\ memory' \in Seq(Line)
    BY <2>1 DEF ActivityTypeOK, EstimateGraphStream, Reset
  <2>. QED
    BY <2>2, <1>1, <1>2 DEF ActivityTypeOK
<1>4. \A m \in Legs \ {l} : legs'[m] = legs[m]
  BY <1>1 DEF ActivityTypeOK
<1>5. legs'[l] = queued /\ Clears(cleared.by)'
  BY <1>1 DEF Clears, ActivityTypeOK
\* A word that is no longer in the feed has been cleared.
<1>6. \A m \in Legs : Spoken(m) => Spoken(m)' \/ m \in cleared'.legs
  BY <1>1, <1>2 DEF Spoken
<1>7. Explained'
  <2>1. cleared.legs \subseteq cleared'.legs
    BY <1>1
  <2>. QED
    BY <2>1, <1>1, <1>4, <1>5, <1>6 DEF Explained
<1>. QED
  BY <1>2, <1>3, <1>7 DEF FeedChosen

LEMMA QueueOK ==
    ASSUME ActivityInv, NEW l \in Legs,
           ResumeGraphStream(l) \/ EstimateGraph(l) \/ ResumeGraph(l)
    PROVE  ActivityInv'
<1> USE DEF ActivityInv
<1>1. PICK queued \in Leg :
         /\ legs' = [legs EXCEPT ![l] = queued]
         /\ queued.blocking \/ backend' = Chosen
  <2>1. CASE ResumeGraphStream(l)
    BY <2>1, LegTypes DEF ResumeGraphStream
  <2>2. CASE EstimateGraph(l) \/ ResumeGraph(l)
    <3>1. PICK start \in BOOLEAN : BlockingLeg(l, start)
      BY <2>2 DEF EstimateGraph, ResumeGraph
    <3>. QED
      BY <3>1, LegTypes DEF BlockingLeg
  <2>. QED
    BY <2>1, <2>2
<1>2. /\ legs[l].phase = "new" /\ backend' \in {backend, Chosen}
      /\ UNCHANGED <<lines, memory, checkpoint, silenced, told, cleared>>
  BY DEF ResumeGraphStream, EstimateGraph, ResumeGraph, BlockingLeg
<1>3. /\ Chosen \in {"redis", "memory"}
      /\ backend # "unset" => Chosen = backend
  BY DEF Chosen, ActivityTypeOK
<1>4. ActivityTypeOK'
  BY <1>1, <1>2, <1>3 DEF ActivityTypeOK
<1>5. \A m : Spoken(m) => Spoken(m)'
  BY <1>2, <1>3, StillSpoken
<1>6. legs'[l] = queued /\ \A m \in Legs \ {l} : legs'[m] = legs[m]
  BY <1>1 DEF ActivityTypeOK
<1>7. /\ backend # "unset" => backend' # "unset"
      /\ ~ legs'[l].blocking => backend' # "unset"
  BY <1>1, <1>2, <1>3, <1>6
<1>. QED
  BY <1>2, <1>4, <1>5, <1>6, <1>7, MoveOK

LEMMA ProgressOK ==
    ASSUME ActivityInv, GraphProgress
    PROVE  ActivityInv'
<1> USE DEF ActivityInv
<1>1. /\ backend = "unset" /\ backend' \in {"redis", "memory"}
      /\ UNCHANGED <<lines, memory, legs, checkpoint, silenced, told, cleared>>
  BY DEF GraphProgress, Chosen
<1>2. \A l : Spoken(l) => Spoken(l)'
  BY <1>1, StillSpoken
<1>3. Clears(cleared.by) => Clears(cleared.by)'
  BY <1>1, <1>2 DEF Clears
<1>4. Explained'
  BY <1>1, <1>2, <1>3 DEF Explained
<1>. QED
  BY <1>1, <1>4 DEF ActivityTypeOK, FeedChosen

LEMMA BeginOK ==
    ASSUME ActivityInv, NEW l \in Legs, BeginLeg(l)
    PROVE  ActivityInv'
<1> USE DEF ActivityInv
<1>1. /\ legs[l].phase = "queued" /\ legs[l] \in Leg
      /\ UNCHANGED <<backend, lines, memory, silenced, told, cleared>>
      /\ ~ legs[l].blocking => backend # "unset"
  BY DEF BeginLeg, FeedChosen, ActivityTypeOK
<1>2. \A m : Spoken(m) => Spoken(m)'
  BY <1>1, StillSpoken
<1>3. ASSUME NEW phase \in {"running", "failing"}, legs' = [legs EXCEPT ![l].phase = phase]
      PROVE  /\ legs' \in [Legs -> Leg] /\ legs'[l].phase = phase
             /\ legs'[l].start = legs[l].start /\ legs'[l].blocking = legs[l].blocking
             /\ \A m \in Legs \ {l} : legs'[m] = legs[m]
  BY <1>1, <1>3 DEF ActivityTypeOK, Leg
<1>4. CASE legs[l].start /\ checkpoint' = [at |-> "mid", by |-> l]
           /\ legs' = [legs EXCEPT ![l].phase = "running"]
  <2>1. ActivityTypeOK'
    BY <1>1, <1>3, <1>4 DEF ActivityTypeOK
  <2>2. FeedChosen'
    BY <1>1, <1>3, <1>4 DEF FeedChosen
  <2>3. Explained'
    BY <1>3, <1>4 DEF Explained
  <2>. QED
    BY <2>1, <2>2, <2>3
<1>5. CASE legs[l].start /\ legs' = [legs EXCEPT ![l].phase = "failing"]
           /\ UNCHANGED checkpoint
  <2>1. ActivityTypeOK'
    BY <1>1, <1>3, <1>5 DEF ActivityTypeOK
  <2>. QED
    BY <2>1, <1>1, <1>2, <1>3, <1>5, MoveOK
<1>6. CASE /\ ~ legs[l].start /\ UNCHANGED checkpoint
           /\ IF checkpoint.at = "end" THEN Ended(l)
              ELSE legs' = [legs EXCEPT ![l].phase = "running"]
  <2>1. /\ legs' \in [Legs -> Leg] /\ legs'[l].phase \in {"running", "ended"}
        /\ legs'[l].phase = "running" => legs'[l].blocking = legs[l].blocking
        /\ \A m \in Legs \ {l} : legs'[m] = legs[m]
    <3>1. CASE checkpoint.at = "end"
      BY <1>6, <3>1, EndedFacts
    <3>2. CASE checkpoint.at # "end"
      BY <1>6, <1>3, <3>2
    <3>. QED
      BY <3>1, <3>2
  <2>2. ActivityTypeOK'
    BY <1>1, <1>6, <2>1 DEF ActivityTypeOK
  <2>. QED
    BY <1>1, <1>2, <1>6, <2>1, <2>2, MoveOK
<1>. QED
  BY <1>4, <1>5, <1>6 DEF BeginLeg

LEMMA NodeReturnsOK ==
    ASSUME ActivityInv, NEW l \in Legs, NodeReturns(l)
    PROVE  ActivityInv'
<1> USE DEF ActivityInv
<1>1. /\ legs[l].phase = "running" /\ legs[l] \in Leg
      /\ UNCHANGED <<backend, silenced, told, cleared>>
      /\ ~ legs[l].blocking => backend # "unset" /\ Append1(DescribeNode(l))
      /\ legs[l].blocking => UNCHANGED <<lines, memory>>
  BY DEF NodeReturns, FeedChosen, ActivityTypeOK
<1>2. PICK at \in {"mid", "gate", "end"} :
          /\ checkpoint' = [at |-> at, by |-> l]
          /\ IF at = "mid" THEN legs' = [legs EXCEPT ![l].nodes = @ + 1]
             ELSE Ended(l)
  BY DEF NodeReturns
<1>3. /\ \A m \in Legs \ {l} : legs'[m] = legs[m]
      /\ legs' \in [Legs -> Leg]
      /\ \/ legs'[l].phase = "ended"
         \/ legs'[l].phase = "running" /\ legs'[l].blocking = legs[l].blocking
      /\ at = "mid" => legs'[l].phase = "running"
  <2>1. CASE at = "mid"
    <3> DEFINE nodes == legs[l].nodes + 1
               further == [legs[l] EXCEPT !.nodes = nodes]
    <3>1. nodes \in Nat
      BY <1>1 DEF Leg
    <3>2. legs' = [legs EXCEPT ![l] = further]
      BY <2>1, <1>2 DEF ActivityTypeOK
    <3> HIDE DEF nodes
    <3>3. further \in Leg /\ further.phase = "running" /\ further.blocking = legs[l].blocking
      BY <3>1, <1>1 DEF Leg
    <3> HIDE DEF further
    <3>. QED
      BY <3>2, <3>3 DEF ActivityTypeOK
  <2>2. CASE at # "mid"
    BY <2>2, <1>2, EndedFacts
  <2>. QED
    BY <2>1, <2>2
<1>4. lines' \in Seq(Line) /\ memory' \in Seq(Line)
  <2>1. CASE legs[l].blocking
    BY <2>1, <1>1 DEF ActivityTypeOK
  <2>2. CASE ~ legs[l].blocking
    BY <2>2, <1>1, LineTypes, AppendOK
  <2>. QED
    BY <2>1, <2>2
<1>5. ActivityTypeOK'
  BY <1>1, <1>2, <1>3, <1>4 DEF ActivityTypeOK
<1>6. Explained'
  BY <1>1, <1>2, <1>3 DEF Explained
<1>7. FeedChosen'
  BY <1>1, <1>3 DEF FeedChosen
<1>. QED
  BY <1>5, <1>6, <1>7

LEMMA NodeRaisesOK ==
    ASSUME ActivityInv, NEW l \in Legs, NodeRaises(l)
    PROVE  ActivityInv'
<1> USE DEF ActivityInv
<1>1. /\ legs[l].phase = "running" /\ legs[l] \in Leg
      /\ UNCHANGED <<backend, lines, memory, silenced, told, cleared>>
      /\ ~ legs[l].blocking => backend # "unset"
      /\ legs' = [legs EXCEPT ![l].phase = "failing"]
      /\ checkpoint' \in {checkpoint, [at |-> "mid", by |-> l]}
  BY DEF NodeRaises, FeedChosen, ActivityTypeOK
<1>2. /\ \A m \in Legs \ {l} : legs'[m] = legs[m]
      /\ legs' \in [Legs -> Leg] /\ legs'[l].phase = "failing"
      /\ legs'[l].blocking = legs[l].blocking
  BY <1>1 DEF ActivityTypeOK, Leg
<1>3. ActivityTypeOK'
  BY <1>1, <1>2 DEF ActivityTypeOK
<1>4. CASE checkpoint' = checkpoint
  <2>1. \A m : Spoken(m) => Spoken(m)'
    BY <1>1, StillSpoken
  <2>. QED
    BY <2>1, <1>1, <1>2, <1>3, <1>4, MoveOK
<1>5. CASE checkpoint' = [at |-> "mid", by |-> l]
  <2>1. Explained'
    BY <1>2, <1>5 DEF Explained
  <2>2. FeedChosen'
    BY <1>1, <1>2 DEF FeedChosen
  <2>. QED
    BY <2>1, <2>2, <1>3
<1>. QED
  BY <1>1, <1>4, <1>5

LEMMA TellFailureOK ==
    ASSUME ActivityInv, NEW l \in Legs, TellFailure(l)
    PROVE  ActivityInv'
<1> USE DEF ActivityInv
<1>1. /\ legs[l].phase = "failing" /\ UNCHANGED <<backend, checkpoint, cleared>>
      /\ ~ legs[l].blocking => backend # "unset"
      /\ Ended(l)
  BY DEF TellFailure, FeedChosen
<1>2. /\ legs' \in [Legs -> Leg] /\ legs'[l].phase = "ended"
      /\ \A m \in Legs \ {l} : legs'[m] = legs[m]
  BY <1>1, EndedFacts
<1>3. /\ lines' \in Seq(Line) /\ memory' \in Seq(Line)
      /\ Spoken(l)' /\ \A m : Spoken(m) => Spoken(m)'
  <2>1. CASE legs[l].blocking
    <3>1. told' = told \cup {l} /\ UNCHANGED <<lines, memory, silenced>>
      BY <2>1 DEF TellFailure
    <3>. QED
      BY <3>1, <1>1, StillSpoken DEF ActivityTypeOK, Spoken
  <2>2. CASE ~ legs[l].blocking /\ Reachable(backend)
    <3>1. Append1(ErrorLine(l)) /\ UNCHANGED <<silenced, told>>
      BY <2>2 DEF TellFailure
    <3>2. /\ lines' \in Seq(Line) /\ memory' \in Seq(Line)
          /\ \A m : Tells(Feed, m) => Tells(Feed, m)'
          /\ Tells(Feed, l)'
      BY <2>2, <3>1, <1>1, LineTypes, AppendOK
    <3>. QED
      BY <2>2, <3>1, <3>2, <1>1 DEF Spoken
  <2>3. CASE ~ legs[l].blocking /\ ~ Reachable(backend)
    <3>1. silenced' = silenced \cup {l} /\ UNCHANGED <<lines, memory, told>>
      BY <2>3 DEF TellFailure
    <3>. QED
      BY <3>1, <1>1, StillSpoken DEF ActivityTypeOK, Spoken
  <2>. QED
    BY <2>1, <2>2, <2>3
<1>4. ActivityTypeOK'
  BY <1>1, <1>2, <1>3 DEF ActivityTypeOK
<1>. QED
  BY <1>1, <1>2, <1>3, <1>4, MoveOK

LEMMA RestartOK ==
    ASSUME ActivityInv, Restart
    PROVE  ActivityInv'
<1> USE DEF ActivityInv
<1> DEFINE ended == [NewLeg EXCEPT !.phase = "ended"]
<1>1. /\ backend' = "unset" /\ memory' = <<>> /\ UNCHANGED <<lines, checkpoint, cleared>>
      /\ silenced' = {l \in Legs : legs[l].phase # "new"}
      /\ legs' = [l \in Legs |-> IF l \in AtWork THEN ended ELSE legs[l]]
      /\ ended \in Leg /\ ended.phase = "ended"
  BY LegTypes DEF Restart
<1> HIDE DEF ended
<1>2. <<>> \in Seq(Line)
  OBVIOUS
<1>3. ActivityTypeOK'
  BY <1>1, <1>2 DEF ActivityTypeOK
<1>4. \A l \in Legs : legs'[l].phase \notin {"queued", "running", "failing"}
  BY <1>1 DEF AtWork
<1>5. FeedChosen'
  BY <1>4 DEF FeedChosen
<1>6. Explained'
  BY <1>1, <1>4 DEF Explained, AtWork, Spoken
<1>. QED
  BY <1>3, <1>5, <1>6

LEMMA ExpireOK ==
    ASSUME ActivityInv, Expire
    PROVE  ActivityInv'
<1> USE DEF ActivityInv
<1>1. /\ lines' = <<>> /\ UNCHANGED <<backend, memory, legs, checkpoint, told, cleared>>
      /\ silenced' = silenced \cup {lines[i].leg : i \in DOMAIN lines}
  BY DEF Expire
<1>2. <<>> \in Seq(Line)
  OBVIOUS
<1>3. ActivityTypeOK'
  BY <1>1, <1>2 DEF ActivityTypeOK
\* The leg of a line that has gone is silenced.
<1>4. \A l : Tells(lines, l) => l \in silenced'
  BY <1>1 DEF Tells, ErrorLine
<1>5. \A l : Tells(Feed, l) => Tells(Feed, l)' \/ l \in silenced'
  BY <1>1, <1>4 DEF Feed, Tells, ErrorLine
<1>6. \A l : Spoken(l) => Spoken(l)'
  BY <1>1, <1>5 DEF Spoken
<1>7. Clears(cleared.by) => Clears(cleared.by)'
  BY <1>1, <1>6 DEF Clears
<1>8. Explained'
  BY <1>1, <1>6, <1>7 DEF Explained
<1>. QED
  BY <1>1, <1>3, <1>8 DEF FeedChosen

LEMMA ActivityStepOK == ActivityInv /\ ActivityNext => ActivityInv'
  BY ProgressOK, RestartOK, ExpireOK, StartOK, QueueOK, BeginOK, NodeReturnsOK,
     NodeRaisesOK, TellFailureOK
  DEF ActivityNext

LEMMA ActivityStutters ==
    ASSUME ActivityInv, UNCHANGED activityVars
    PROVE  ActivityInv'
<1>1. UNCHANGED <<backend, lines, memory, legs, checkpoint, silenced, told, cleared>>
  BY DEF activityVars
<1>2. \A l : Spoken(l) => Spoken(l)'
  BY <1>1, StillSpoken
<1>3. Clears(cleared.by) => Clears(cleared.by)'
  BY <1>1, <1>2 DEF Clears
<1>. QED
  BY <1>1, <1>2, <1>3 DEF ActivityInv, ActivityTypeOK, FeedChosen, Explained

-----------------------------------------------------------------------------
IInv == ConfigInv /\ ActivityInv

(* The inductive invariant of the two components under their outages.      *)
THEOREM Invariant == Spec => []IInv
<1>1. Init => IInv
  BY ConfigInitially, ActivityInitially DEF Init, IInv
<1>2. IInv /\ [Next]_vars => IInv'
  <2> SUFFICES ASSUME IInv, [Next]_vars PROVE IInv'
    OBVIOUS
  <2>1. ConfigInv /\ ActivityInv
    BY DEF IInv
  <2>2. ConfigNext \/ UNCHANGED configVars
    BY DEF Next, vars
  <2>3. ActivityNext \/ UNCHANGED activityVars
    BY DEF Next, vars
  <2>. QED
    BY <2>1, <2>2, <2>3, ConfigStepOK, ConfigStutters, ActivityStepOK,
       ActivityStutters
    DEF IInv
<1>. QED
  BY <1>1, <1>2, PTL DEF Spec

(* FR-01 and FR-02 of feature-057 for any number of PUTs and fields: one   *)
(* at a time and with their reads answered, PUTs leave every field as the  *)
(* last acknowledged one said, or as one answered 503 since may have.      *)
THEOREM SerialUpdatesEffectiveHolds == Spec => []SerialUpdatesEffective
<1>1. IInv => SerialUpdatesEffective
  BY DEF IInv, ConfigInv
<1>. QED
  BY <1>1, Invariant, PTL

(* A run that has stopped between its gates is explained in its feed, or   *)
(* to the caller that waited for it, however many legs drive it, whether   *)
(* or not anybody waits for them, and however often Redis is out of reach. *)
THEOREM StalledLegsAreExplainedHolds == Spec => []StalledLegsAreExplained
<1>1. IInv => StalledLegsAreExplained
  <2> SUFFICES ASSUME ActivityInv, checkpoint.at = "mid", AtWork = {}
               PROVE  \/ Accounted(checkpoint.by)
                      \/ checkpoint.by \in cleared.legs /\ Accounted(cleared.by)
    BY DEF IInv, StalledLegsAreExplained
  <2>1. \A l \in Legs : legs[l].phase \notin {"queued", "running", "failing"}
    BY DEF AtWork
  <2>2. \/ Spoken(checkpoint.by)
        \/ checkpoint.by \in cleared.legs /\ Spoken(cleared.by)
    BY <2>1 DEF ActivityInv, Explained, Clears
  <2>3. backend # "unset" => Visible = Feed
    BY DEF Visible, Feed, Chosen
  <2>4. \A l : Spoken(l) => Accounted(l)
    BY <2>3 DEF Spoken, Accounted
  <2>. QED
    BY <2>2, <2>4
<1>. QED
  BY <1>1, Invariant, PTL
=============================================================================
