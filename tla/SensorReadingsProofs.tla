----------------------- MODULE SensorReadingsProofs ------------------------
(***************************************************************************)
(* What becomes of a sensor's readings: the live values and statistics     *)
(* that follow a group, and the rules that are decided on them.            *)
(*                                                                         *)
(* A live statistic implements LastValues, its members are heard once all  *)
(* changes are handled, and nothing else is but what a client that connects *)
(* again brings back: for any devices, projects, readings and number of    *)
(* callbacks in progress.                                                  *)
(*                                                                         *)
(* The loops of AutomationProcessor decide a rule as it is meant: for any  *)
(* triggers, devices and conditions, any length of the year and any        *)
(* readings.  What a single reading means (Throws, Meets) plays no part.   *)
(***************************************************************************)
EXTENDS LiveSensors, RuleEvaluation, TLAPS

-----------------------------------------------------------------------------
(* Live values: LiveSensors.                                               *)

Handling == {Idle, Asking} \cup [pc : {"answered"}, found : Members]

Typed ==
  /\ kind \in Kinds /\ calm \in BOOLEAN
  /\ place \in [Devices -> Projects \cup {None}]
  /\ stage \in {"new", "asked", "open", "closed"}
  /\ changed \in Nat /\ handler \in [Handlers -> Handling]
  /\ setting \in Members

\* Before it is open, a subscription has no client, and nothing happens to it.
Early ==
  /\ stage # "closed" => dead = {}
  /\ stage \in {"new", "asked"} => /\ Quiet /\ DOMAIN clients = {} /\ subscribed = {} /\ leaving = {}
                                   /\ (calm => history = Nothing)
  /\ stage = "asked" /\ kind \in Following /\ ~lost => setting = FoundNow

\* Between two changes that come alone, at most one callback is in progress, and while it is,
\* nothing is subscribed.
OneByOne ==
  calm => /\ changed \in {0, 1}
          /\ \A h \in Handlers : handler[h] # Idle => /\ changed = 0 /\ subscribed = {}
                                                    /\ \A g \in Handlers : handler[g] # Idle => g = h
          /\ subscribed \subseteq Topics(setting) /\ leaving \subseteq Topics(setting)

\* The values kept are readings of devices.
HistoryInv == Shows => DOMAIN history \subseteq Devices /\ history \in [DOMAIN history -> Values]

\* With no change to come and nobody asking, the members of now are subscribed or about to be.
Answered(h) == handler[h].pc = "answered" /\ handler[h].found = FoundNow
AboutToBeHeard ==
  stage = "open" /\ kind \in Following /\ ~lost /\ changed = 0 /\ (\A h \in Handlers : handler[h] # Asking) =>
    Topics(FoundNow) \subseteq subscribed \/ \E h \in Handlers : Answered(h)

IInv == Typed /\ Early /\ OneByOne /\ HistoryInv /\ AboutToBeHeard
-----------------------------------------------------------------------------
LEMMA FoundNowType == ASSUME Typed PROVE FoundNow \in Members
<1> DEFINE S == {d \in Devices : place[d] # None}
<1>1. FoundNow \in [S -> Projects]
  BY DEF Typed, FoundNow
<1>2. S \in SUBSET Devices
  OBVIOUS
<1> HIDE DEF S
<1>3. QED
  BY <1>1, <1>2 DEF Members

LEMMA NothingType == Nothing \in Members
<1>1. Nothing \in [{} -> Projects]
  BY DEF Nothing
<1>2. QED
  BY <1>1 DEF Members

LEMMA MembersDomain == ASSUME NEW s \in Members PROVE DOMAIN s \subseteq Devices /\ s \in [DOMAIN s -> Projects]
BY DEF Members

LEMMA InitInv == Init => IInv
<1> SUFFICES ASSUME Init PROVE IInv
  OBVIOUS
<1> USE DEF Init
<1>1. Typed
  BY NothingType DEF Typed, Handling
<1>2. Early
  BY DEF Early, Quiet, Nothing
<1>3. OneByOne
  BY DEF OneByOne
<1>4. HistoryInv
  BY DEF HistoryInv, Nothing
<1>5. AboutToBeHeard
  BY DEF AboutToBeHeard
<1>6. QED
  BY <1>1, <1>2, <1>3, <1>4, <1>5 DEF IInv
-----------------------------------------------------------------------------
(* Opening and closing.                                                    *)

LEMMA OpenInv ==
    ASSUME IInv, NEW devices \in Members, Open(devices), kind \in Following => devices = FoundNow
    PROVE  IInv'
<1> USE DEF IInv, Open, base, topics, output
<1>1. Typed'
  BY DEF Typed
<1>2. Early'
  BY DEF Early, Quiet, FoundNow
<1>3. OneByOne'
  BY DEF OneByOne, Early, Quiet, Typed
<1>4. HistoryInv'
  BY DEF HistoryInv, Shows
<1>5. AboutToBeHeard'
  BY DEF AboutToBeHeard
<1>6. QED
  BY <1>1, <1>2, <1>3, <1>4, <1>5

LEMMA OpeningInv == ASSUME IInv, OpenGroup \/ OpenValue \/ OpenStatus PROVE IInv'
<1>1. CASE OpenGroup
  BY <1>1, FoundNowType, OpenInv DEF OpenGroup, IInv
<1>2. CASE OpenValue
  <2>1. PICK d \in Devices : place[d] # None /\ Open([e \in {d} |-> place[d]])
    BY <1>2 DEF OpenValue
  <2>2. [e \in {d} |-> place[d]] \in [{d} -> Projects]
    BY <2>1 DEF IInv, Typed
  <2>3. [e \in {d} |-> place[d]] \in Members
    BY <2>2 DEF Members
  <2>4. QED
    BY <1>2, <2>1, <2>3, OpenInv DEF OpenValue, Following, Summarised
<1>3. CASE OpenStatus
  <2>1. PICK S \in SUBSET Devices : (\A d \in S : place[d] # None) /\ Open([d \in S |-> place[d]])
    BY <1>3 DEF OpenStatus
  <2>2. [d \in S |-> place[d]] \in [S -> Projects]
    BY <2>1 DEF IInv, Typed
  <2>3. [d \in S |-> place[d]] \in Members
    BY <2>2 DEF Members
  <2>4. QED
    BY <1>3, <2>1, <2>3, OpenInv DEF OpenStatus, Following, Summarised
<1>4. QED
  BY <1>1, <1>2, <1>3

LEMMA SubscribeInv == ASSUME IInv, SubscribeToMqtt PROVE IInv'
<1> USE DEF IInv, SubscribeToMqtt, base
<1>1. Typed'
  BY DEF Typed
<1>2. Early'
  BY DEF Early
<1>3. OneByOne'
  BY DEF OneByOne, Early, Quiet, Topics
<1>4. HistoryInv'
  BY DEF HistoryInv, Shows
<1>5. AboutToBeHeard'
  BY DEF AboutToBeHeard, Early, FoundNow, Topics
<1>6. QED
  BY <1>1, <1>2, <1>3, <1>4, <1>5

LEMMA CloseInv == ASSUME IInv, Close PROVE IInv'
<1> USE DEF IInv, Close, base, output
<1>1. changed' \in Nat /\ (changed = 0 => changed' = 0)
  BY DEF Typed
<1>2. Typed'
  BY <1>1 DEF Typed
<1>3. Early'
  BY DEF Early
<1>4. OneByOne'
  BY <1>1 DEF OneByOne, Quiet
<1>5. HistoryInv'
  BY DEF HistoryInv, Shows
<1>6. AboutToBeHeard'
  BY DEF AboutToBeHeard
<1>7. QED
  BY <1>2, <1>3, <1>4, <1>5, <1>6
-----------------------------------------------------------------------------
(* Changes.                                                                *)

LEMMA ChangeInv == ASSUME IInv, NEW d \in Devices, NEW p \in Projects \cup {None}, Change(d, p) PROVE IInv'
<1> USE DEF IInv, Change, base, topics, output
<1>1. Typed'
  BY DEF Typed
<1>2. Early'
  BY DEF Early, Quiet, Watched
<1>3. OneByOne'
  BY DEF OneByOne, Quiet, Watched, Typed
<1>4. HistoryInv'
  BY DEF HistoryInv, Shows
<1>5. AboutToBeHeard'
  BY DEF AboutToBeHeard, Watched, Typed
<1>6. QED
  BY <1>1, <1>2, <1>3, <1>4, <1>5

LEMMA OnChangeInv == ASSUME IInv, OnChange PROVE IInv'
<1> USE DEF IInv, OnChange, base, topics, output
<1>1. Typed' /\ changed' # 0
  BY DEF Typed
<1>2. Early'
  BY DEF Early, Quiet, Typed, FoundNow
<1>3. OneByOne'
  BY DEF OneByOne, Typed
<1>4. HistoryInv'
  BY DEF HistoryInv, Shows
<1>5. AboutToBeHeard'
  BY <1>1 DEF AboutToBeHeard
<1>6. QED
  BY <1>1, <1>2, <1>3, <1>4, <1>5

LEMMA OnChangeFailsInv == ASSUME IInv, OnChangeFails PROVE IInv'
<1> USE DEF IInv, OnChangeFails, base, topics, output
<1>1. Typed'
  BY DEF Typed
<1>2. Early'
  BY DEF Early, Quiet, Typed, FoundNow
<1>3. OneByOne'
  BY DEF OneByOne
<1>4. HistoryInv'
  BY DEF HistoryInv, Shows
<1>5. AboutToBeHeard'
  BY DEF AboutToBeHeard
<1>6. QED
  BY <1>1, <1>2, <1>3, <1>4, <1>5

LEMMA ConfirmedInv == ASSUME IInv, Confirmed PROVE IInv'
<1> USE DEF IInv, Confirmed, base, output
<1>1. Typed'
  BY DEF Typed
<1>2. Early'
  BY DEF Early, Quiet, FoundNow
<1>3. OneByOne'
  BY DEF OneByOne, Quiet
<1>4. HistoryInv'
  BY DEF HistoryInv, Shows
<1>5. AboutToBeHeard'
  BY DEF AboutToBeHeard, Answered, FoundNow
<1>6. QED
  BY <1>1, <1>2, <1>3, <1>4, <1>5

LEMMA StartInv == ASSUME IInv, NEW h \in Handlers, Start(h) PROVE IInv'
<1> USE DEF IInv, Start, base, output
<1>1. Typed' /\ changed > 0 /\ changed # 0
  BY DEF Typed, Handling
<1>2. handler'[h] = Asking /\ \A g \in Handlers : g # h => handler'[g] = handler[g]
  BY DEF Typed
<1>3. stage \notin {"new", "asked"}
  BY <1>1 DEF Early, Quiet
<1>4. Early'
  BY <1>3 DEF Early
<1>5. OneByOne'
  <2> SUFFICES ASSUME calm PROVE OneByOne'
    BY DEF OneByOne
  <2>1. changed = 1 /\ changed' = 0 /\ \A g \in Handlers : handler[g] = Idle
    BY <1>1 DEF OneByOne
  <2>2. subscribed' = {} /\ leaving' \subseteq Topics(setting)
    BY DEF OneByOne
  <2>3. QED
    BY <1>2, <2>1, <2>2 DEF OneByOne, Topics
<1>6. HistoryInv'
  BY DEF HistoryInv, Shows
<1>7. AboutToBeHeard'
  BY <1>2 DEF AboutToBeHeard
<1>8. QED
  BY <1>1, <1>4, <1>5, <1>6, <1>7

LEMMA ReadInv == ASSUME IInv, NEW h \in Handlers, Read(h) PROVE IInv'
<1> USE DEF IInv, Read, base, topics, output
<1>1. Typed'
  BY FoundNowType DEF Typed, Handling
<1>2. /\ handler'[h].pc = "answered" /\ handler'[h].found = FoundNow
      /\ \A g \in Handlers : g # h => handler'[g] = handler[g]
  BY DEF Typed
<1>3. handler[h] # Idle
  BY DEF Idle
<1>4. Early'
  BY <1>3 DEF Early, Quiet
<1>5. OneByOne'
  BY <1>2, <1>3 DEF OneByOne, Quiet, Topics
<1>6. HistoryInv'
  BY DEF HistoryInv, Shows
<1>7. AboutToBeHeard'
  BY <1>2 DEF AboutToBeHeard, Answered, FoundNow
<1>8. QED
  BY <1>1, <1>4, <1>5, <1>6, <1>7

LEMMA ReadFailsInv == ASSUME IInv, NEW h \in Handlers, ReadFails(h) PROVE IInv'
<1> USE DEF IInv, ReadFails, base, topics, output
<1>1. Typed'
  BY DEF Typed, Handling
<1>2. handler[h] # Idle
  BY DEF Idle
<1>3. Early'
  BY <1>2 DEF Early, Quiet
<1>4. OneByOne'
  BY DEF OneByOne
<1>5. HistoryInv'
  BY DEF HistoryInv, Shows
<1>6. AboutToBeHeard'
  BY DEF AboutToBeHeard
<1>7. QED
  BY <1>1, <1>3, <1>4, <1>5, <1>6

LEMMA RefreshInv ==
    ASSUME IInv, NEW h \in Handlers, NEW pruned, Refresh(h, pruned),
           Shows => pruned = Valid(handler[h].found)
    PROVE  IInv'
<1> DEFINE found == handler[h].found
<1> USE DEF IInv, Refresh, Resubscribed, base
<1>1. found \in Members /\ handler[h] # Idle /\ handler[h] # Asking
  BY DEF Typed, Handling, Idle, Asking
<1>2. handler'[h] = Idle /\ \A g \in Handlers : g # h => handler'[g] = handler[g]
  BY DEF Typed
<1>3. Typed'
  BY <1>1 DEF Typed, Handling
<1>4. stage \notin {"new", "asked"}
  BY <1>1 DEF Early, Quiet
<1>5. Early'
  BY <1>4 DEF Early
<1>6. OneByOne'
  <2> SUFFICES ASSUME calm PROVE OneByOne'
    BY DEF OneByOne
  <2>1. subscribed = {} /\ leaving = {}
    BY <1>1 DEF OneByOne, Quiet
  <2>2. subscribed' \subseteq Topics(found)
    BY <2>1
  <2>3. \A g \in Handlers : handler'[g] = Idle
    BY <1>1, <1>2 DEF OneByOne
  <2>4. QED
    BY <2>1, <2>2, <2>3 DEF OneByOne, Topics
<1>7. HistoryInv'
  <2> SUFFICES ASSUME Shows PROVE DOMAIN history' \subseteq Devices /\ history' \in [DOMAIN history' -> Values]
    BY DEF HistoryInv, Shows
  <2>1. history' = [d \in DOMAIN history \cap DOMAIN found |-> history[d]]
    BY DEF Valid, Restrict
  <2>2. QED
    BY <2>1 DEF HistoryInv
<1>8. AboutToBeHeard'
  <2> SUFFICES ASSUME stage = "open", kind \in Following, ~lost, changed = 0,
                      \A g \in Handlers : handler'[g] # Asking
               PROVE  Topics(FoundNow) \subseteq subscribed' \/ \E g \in Handlers : Answered(g)'
    BY DEF AboutToBeHeard, FoundNow, Topics
  <2>1. dead = {}
    BY DEF Early
  <2>2. \A g \in Handlers : handler[g] # Asking
    BY <1>1, <1>2
  <2>3. CASE Topics(FoundNow) \subseteq subscribed
    BY <2>3
  <2>4. CASE \E g \in Handlers : Answered(g)
    <3>1. PICK g \in Handlers : Answered(g)
      BY <2>4
    <3>2. CASE g = h
      BY <2>1, <3>1, <3>2 DEF Answered
    <3>3. CASE g # h
      BY <1>2, <3>1, <3>3 DEF Answered, FoundNow
    <3>4. QED
      BY <3>2, <3>3
  <2>5. QED
    BY <2>2, <2>3, <2>4 DEF AboutToBeHeard
<1>9. QED
  BY <1>3, <1>5, <1>6, <1>7, <1>8
-----------------------------------------------------------------------------
(* Messages and timers.                                                    *)

\* The readings of the history may change where something is subscribed.
LEMMA OutputInv ==
    ASSUME IInv, UNCHANGED <<base, place, stage, changed, handler, setting, topics, lost>>, HistoryInv',
           calm /\ stage \in {"new", "asked"} => history' = history
    PROVE  IInv'
<1> USE DEF IInv, base, topics
<1>1. Typed'
  BY DEF Typed
<1>2. Early'
  BY DEF Early, Quiet, FoundNow
<1>3. OneByOne'
  BY DEF OneByOne, Quiet, Topics
<1>4. AboutToBeHeard'
  BY DEF AboutToBeHeard, Answered, FoundNow, Topics
<1>5. QED
  BY <1>1, <1>2, <1>3, <1>4

\* A calm subscription hears nothing before it is open, and then only of devices it follows.
LEMMA HeardFrom ==
    ASSUME IInv, NEW p, NEW d, Heard(p, d), calm
    PROVE  stage \notin {"new", "asked"} /\ d \in DOMAIN setting
<1>1. <<p, d>> \in Topics(setting)
  BY DEF IInv, OneByOne, Heard
<1>2. QED
  BY <1>1 DEF IInv, Early, Heard, Topics

LEMMA EntersInv ==
    ASSUME IInv, NEW p, NEW d \in Devices, NEW v \in Values, Heard(p, d), history' = Entered(d, v)
    PROVE  IInv'
<1>1. HistoryInv'
  <2> SUFFICES ASSUME Shows PROVE DOMAIN history' \subseteq Devices /\ history' \in [DOMAIN history' -> Values]
    BY DEF HistoryInv, Shows, Heard, base
  <2>1. QED
    BY DEF IInv, HistoryInv, Entered
<1>2. QED
  BY <1>1, HeardFrom, OutputInv DEF Heard

LEMMA KeepsInv ==
    ASSUME IInv, UNCHANGED <<base, place, stage, changed, handler, setting, topics, lost, history>>
    PROVE  IInv'
<1>1. HistoryInv'
  BY DEF IInv, HistoryInv, Shows, base
<1>2. QED
  BY <1>1, OutputInv

LEMMA MessageInv ==
    ASSUME IInv, NEW p \in Projects, NEW d \in Devices, Message(p, d)
    PROVE  IInv'
<1>1. CASE HearStats(p, d)
  BY <1>1, KeepsInv DEF HearStats, Heard
<1>2. CASE Refused(p, d)
  <2>1. HistoryInv'
    BY <1>2 DEF Refused, HistoryInv, Shows, base
  <2>2. QED
    BY <1>2, <2>1, OutputInv DEF Refused
<1>3. ASSUME NEW v \in Values, HearExtreme(p, d, v) \/ HearCount(p, d, v) \/ HearRate(p, d, v) PROVE IInv'
  BY <1>3, EntersInv DEF HearExtreme, HearCount, HearRate
<1>4. ASSUME NEW v \in Values, HearValue(p, d, v) \/ HearStatus(p, d, v) PROVE IInv'
  BY <1>4, KeepsInv DEF HearValue, HearStatus, Heard
<1>5. QED
  BY <1>1, <1>2, <1>3, <1>4 DEF Message

LEMMA TimerInv == ASSUME IInv, SixSeconds \/ ThreeSeconds \/ PublishStats PROVE IInv'
BY KeepsInv DEF SixSeconds, ThreeSeconds, PublishStats

LEMMA ReconnectInv == ASSUME IInv, NEW p \in Projects, Reconnect(p) PROVE IInv'
<1> USE DEF IInv, Reconnect, base, output
<1>1. Typed'
  BY DEF Typed
<1>2. Early'
  BY DEF Early, Quiet, FoundNow
<1>3. OneByOne'
  BY DEF OneByOne
<1>4. HistoryInv'
  BY DEF HistoryInv, Shows
<1>5. AboutToBeHeard'
  BY DEF AboutToBeHeard, Answered, FoundNow, Topics
<1>6. QED
  BY <1>1, <1>2, <1>3, <1>4, <1>5

LEMMA NextInv == IInv /\ [Next]_vars => IInv'
<1> SUFFICES ASSUME IInv, [Next]_vars PROVE IInv'
  OBVIOUS
<1>1. CASE UNCHANGED vars
  BY <1>1, KeepsInv DEF vars, base, topics
<1>2. ASSUME NEW h \in Handlers, Callback(h) PROVE IInv'
  <2>1. ASSUME NEW pruned, Refresh(h, pruned), Shows => pruned = Valid(handler[h].found) PROVE IInv'
    BY <2>1, RefreshInv
  <2>2. RefreshExtreme(h) \/ RefreshRate(h) \/ RefreshStats(h) \/ RefreshServer(h) => IInv'
    BY <2>1 DEF RefreshExtreme, RefreshRate, RefreshStats, RefreshServer, Shows, Summarised
  <2>3. QED
    BY <1>2, <2>2, StartInv, ReadInv, ReadFailsInv DEF Callback
<1>3. ASSUME NEW d \in Devices, NEW p \in Projects \cup {None}, Change(d, p) PROVE IInv'
  BY <1>3, ChangeInv
<1>4. ASSUME NEW p \in Projects, NEW d \in Devices, Message(p, d) PROVE IInv'
  BY <1>4, MessageInv
<1>5. ASSUME NEW p \in Projects, Reconnect(p) PROVE IInv'
  BY <1>5, ReconnectInv
<1>6. CASE OpenGroup \/ OpenValue \/ OpenStatus
  BY <1>6, OpeningInv
<1>7. CASE SixSeconds \/ ThreeSeconds \/ PublishStats
  BY <1>7, TimerInv
<1>8. QED
  BY <1>1, <1>2, <1>3, <1>4, <1>5, <1>6, <1>7, SubscribeInv, CloseInv, OnChangeInv, OnChangeFailsInv, ConfirmedInv DEF Next

\* What a subscription is about is settled when it begins.
THEOREM InductiveInvariant == Spec => []IInv
BY InitInv, NextInv, PTL DEF Spec

\* Once all changes are handled, every device of the group is listened to, in whatever order
\* the callbacks of deviceOnMongoChanged overtook each other, for any number of them.
THEOREM MembersAreHeard == Spec => []MembersHeard
<1>1. IInv => MembersHeard
  <2> SUFFICES ASSUME IInv, stage = "open", kind \in Following, Quiet, ~lost
               PROVE  Topics(FoundNow) \subseteq subscribed
    BY DEF MembersHeard
  <2>1. \A h \in Handlers : handler[h] = Idle
    BY DEF Quiet
  <2>2. \A h \in Handlers : handler[h] # Asking /\ ~Answered(h)
    BY <2>1 DEF Idle, Asking, Answered
  <2>3. QED
    BY <2>2 DEF IInv, AboutToBeHeard, Quiet
<1>2. QED
  BY <1>1, InductiveInvariant, PTL

\* A topic that a client which connected again was created with.
Recalled(t) == t[1] \in reconnected /\ t[2] \in clients[t[1]]

\* While no two callbacks have crossed, what is subscribed is what the next callback will drop,
\* and nothing while one is in progress, but for what was recalled; and what the last callback
\* found, or finds, are the members of now.
StrayInv ==
  /\ reconnected \subseteq DOMAIN clients
  /\ ~crossed =>
       /\ \A g, h \in Handlers : handler[g] # Idle /\ handler[h] # Idle => g = h
       /\ \A t \in subscribed : t \in Topics(setting) \/ Recalled(t)
       /\ (\E h \in Handlers : handler[h] # Idle) => \A t \in subscribed : Recalled(t)
       /\ stage = "open" /\ kind \in Following /\ ~lost /\ changed = 0 =>
            /\ Quiet => setting = FoundNow
            /\ \A h \in Handlers : handler[h].pc = "answered" => handler[h].found = FoundNow

LEMMA StrayInit == Init => StrayInv
BY DEF Init, StrayInv, Idle

\* Steps that leave topics and callbacks alone.
LEMMA StraySame ==
    ASSUME StrayInv, UNCHANGED <<marks, kind, place, handler, setting, clients, subscribed>>,
           stage' = "open" => stage = "open" /\ (lost' \/ ((changed' = 0 => changed = 0) /\ (~lost' => ~lost)))
    PROVE  StrayInv'
BY DEF StrayInv, Quiet, FoundNow, Topics, Recalled, marks

LEMMA StraySubscribe == ASSUME IInv, StrayInv, SubscribeToMqtt PROVE StrayInv'
<1> USE DEF SubscribeToMqtt, base, marks
<1>1. DOMAIN clients = {} /\ reconnected = {} /\ \A h \in Handlers : handler[h] = Idle
  BY DEF IInv, Early, Quiet, StrayInv
<1>2. kind \in Following /\ ~lost => setting = FoundNow
  BY DEF IInv, Early
<1>3. QED
  BY <1>1, <1>2 DEF StrayInv, Quiet, FoundNow, Topics, Idle

LEMMA StrayClose == ASSUME StrayInv, Close PROVE StrayInv'
BY DEF StrayInv, Close, base, marks

LEMMA StrayChange ==
    ASSUME IInv, StrayInv, NEW d \in Devices, NEW p \in Projects \cup {None}, Change(d, p)
    PROVE  StrayInv'
<1> USE DEF Change, base, marks, topics
<1>1. stage = "open" /\ kind \in Following => changed' # 0
  BY DEF Watched, IInv, Typed
<1>2. QED
  BY <1>1 DEF StrayInv, Topics, Recalled

LEMMA StrayStart == ASSUME IInv, StrayInv, NEW h \in Handlers, Start(h) PROVE StrayInv'
<1> USE DEF Start, base
<1>1. handler'[h] = Asking /\ \A g \in Handlers : g # h => handler'[g] = handler[g]
  BY DEF IInv, Typed
<1>2. reconnected' \subseteq DOMAIN clients'
  BY DEF StrayInv
<1> SUFFICES ASSUME ~crossed' PROVE StrayInv'
  BY <1>2 DEF StrayInv
<1>4. ~crossed /\ \A g \in Handlers : handler[g] = Idle
  OBVIOUS
<1>5. \A t \in subscribed' : Recalled(t)
  BY <1>4 DEF StrayInv
<1>6. \A t \in subscribed' : Recalled(t)'
  BY <1>5 DEF Recalled
<1>7. \A g, f \in Handlers : handler'[g] # Idle /\ handler'[f] # Idle => g = f
  BY <1>1, <1>4
<1>8. handler'[h] # Idle /\ \A g \in Handlers : handler'[g].pc # "answered"
  BY <1>1, <1>4 DEF Asking, Idle
<1>9. QED
  BY <1>2, <1>6, <1>7, <1>8 DEF StrayInv, Quiet

LEMMA StrayRead == ASSUME IInv, StrayInv, NEW h \in Handlers, Read(h) PROVE StrayInv'
<1> USE DEF Read, base, marks, topics
<1>1. /\ handler'[h].pc = "answered" /\ handler'[h].found = FoundNow /\ handler[h] # Idle
      /\ \A g \in Handlers : g # h => handler'[g] = handler[g]
  BY DEF IInv, Typed, Idle
<1>2. handler'[h] # Idle
  BY <1>1 DEF Idle
<1>3. FoundNow' = FoundNow
  BY DEF FoundNow
<1> SUFFICES ASSUME ~crossed' PROVE StrayInv'
  BY DEF StrayInv
<1>5. \A g \in Handlers : g # h => handler'[g] = Idle
  BY <1>1 DEF StrayInv
<1>6. \A t \in subscribed' : Recalled(t)'
  BY <1>1 DEF StrayInv, Recalled
<1>7. QED
  BY <1>1, <1>2, <1>3, <1>5, <1>6 DEF StrayInv, Quiet, Idle

LEMMA StrayReadFails == ASSUME IInv, StrayInv, NEW h \in Handlers, ReadFails(h) PROVE StrayInv'
<1> USE DEF ReadFails, base, marks, topics
<1>1. handler'[h] = Idle /\ \A g \in Handlers : g # h => handler'[g] = handler[g]
  BY DEF IInv, Typed
<1>2. QED
  BY <1>1 DEF StrayInv, Topics, Recalled

LEMMA StrayRefresh ==
    ASSUME IInv, StrayInv, NEW h \in Handlers, NEW pruned, Refresh(h, pruned)
    PROVE  StrayInv'
<1> DEFINE found == handler[h].found
<1> USE DEF Refresh, Resubscribed, base, marks
<1>1. /\ handler'[h] = Idle /\ handler[h] # Idle
      /\ \A g \in Handlers : g # h => handler'[g] = handler[g]
  BY DEF IInv, Typed, Idle
<1>2. DOMAIN clients \subseteq DOMAIN clients' /\ \A p \in DOMAIN clients : clients'[p] = clients[p]
  OBVIOUS
<1>3. reconnected' \subseteq DOMAIN clients'
  BY <1>2 DEF StrayInv
<1> SUFFICES ASSUME ~crossed' PROVE StrayInv'
  BY <1>3 DEF StrayInv
<1>5. \A g \in Handlers : handler'[g] = Idle
  BY <1>1 DEF StrayInv
<1>6. \A t \in subscribed : Recalled(t)'
  BY <1>1, <1>2 DEF StrayInv, Recalled
<1>7. \A t \in subscribed' : t \in Topics(found) \/ Recalled(t)'
  BY <1>6
<1>8. stage = "open" /\ kind \in Following /\ ~lost /\ changed = 0 => found = FoundNow
  BY DEF StrayInv
<1>9. FoundNow' = FoundNow /\ Topics(setting)' = Topics(found)
  BY DEF FoundNow, Topics
<1> HIDE DEF found
<1>10. setting' = found
  BY DEF found
<1>11. QED
  BY <1>3, <1>5, <1>7, <1>8, <1>9, <1>10 DEF StrayInv, Idle

LEMMA StrayReconnect == ASSUME StrayInv, NEW p \in Projects, Reconnect(p) PROVE StrayInv'
<1> USE DEF Reconnect, base
<1>1. \A d \in clients[p] : Recalled(<<p, d>>)'
  BY DEF Recalled
<1>2. \A t : Recalled(t) => Recalled(t)'
  BY DEF Recalled
<1>3. QED
  BY <1>1, <1>2 DEF StrayInv, Quiet, FoundNow, Topics

LEMMA StrayNext == IInv /\ StrayInv /\ [Next]_vars => StrayInv'
<1> SUFFICES ASSUME IInv, StrayInv, [Next]_vars PROVE StrayInv'
  OBVIOUS
<1>1. CASE UNCHANGED vars
  BY <1>1, StraySame DEF vars, marks
<1>2. CASE OpenGroup \/ OpenValue \/ OpenStatus
  <2>1. PICK devices : Open(devices)
    BY <1>2 DEF OpenGroup, OpenValue, OpenStatus
  <2>2. \A h \in Handlers : handler[h] = Idle
    BY <2>1 DEF IInv, Early, Quiet, Open
  <2>3. QED
    BY <2>1, <2>2 DEF StrayInv, Open, IInv, Early, marks, topics, base
<1>3. CASE OnChange
  <2>1. changed' # 0
    BY <1>3 DEF OnChange, IInv, Typed
  <2>2. QED
    BY <1>3, <2>1, StraySame DEF OnChange, base, topics
<1>4. CASE Confirmed \/ OnChangeFails
  BY <1>4, StraySame DEF Confirmed, OnChangeFails, base, topics
<1>5. CASE SixSeconds \/ ThreeSeconds \/ PublishStats
  BY <1>5, StraySame DEF SixSeconds, ThreeSeconds, PublishStats, base, topics
<1>6. ASSUME NEW d \in Devices, NEW p \in Projects, Message(p, d) PROVE StrayInv'
  <2>1. UNCHANGED <<base, marks, place, stage, changed, handler, setting, topics, lost>>
    BY <1>6 DEF Message, HearExtreme, HearCount, HearRate, HearStats, HearValue, HearStatus, Heard, Refused
  <2>2. QED
    BY <2>1, StraySame DEF base, topics
<1>7. ASSUME NEW h \in Handlers, Callback(h) PROVE StrayInv'
  BY <1>7, StrayStart, StrayRead, StrayReadFails, StrayRefresh
     DEF Callback, RefreshExtreme, RefreshRate, RefreshStats, RefreshServer
<1>8. QED
  BY <1>1, <1>2, <1>3, <1>4, <1>5, <1>6, <1>7, StraySubscribe, StrayClose, StrayChange, StrayReconnect DEF Next

\* What is listened to once all changes are handled are the members, as long as no two callbacks
\* of deviceOnMongoChanged crossed, but for what clients that connected again were created with.
THEOREM NothingElseIsHeard == Spec => []OnlyMembersHeard
<1>1. IInv /\ StrayInv => OnlyMembersHeard
  BY DEF StrayInv, OnlyMembersHeard, Quiet, Recalled
<1>2. QED
  BY <1>1, StrayInit, StrayNext, InductiveInvariant, PTL DEF Spec
-----------------------------------------------------------------------------
(* The refinement.                                                         *)

\* The totals of a device's statistics are asked for by "stats" only.
Untimed == kind # "stats" => timer = "off" /\ asking = {}

LEMMA BaseKept == [Next]_vars => UNCHANGED base
<1> SUFFICES ASSUME [Next]_vars PROVE UNCHANGED base
  OBVIOUS
<1>1. CASE UNCHANGED vars
  BY <1>1 DEF vars, base
<1>2. CASE OpenGroup \/ OpenValue \/ OpenStatus \/ SubscribeToMqtt \/ Close
  BY <1>2 DEF OpenGroup, OpenValue, OpenStatus, Open, SubscribeToMqtt, Close
<1>3. ASSUME NEW d \in Devices, NEW p \in Projects \cup {None}, Change(d, p) PROVE UNCHANGED base
  BY <1>3 DEF Change
<1>4. CASE OnChange \/ OnChangeFails \/ Confirmed \/ SixSeconds \/ ThreeSeconds \/ PublishStats
  BY <1>4 DEF OnChange, OnChangeFails, Confirmed, SixSeconds, ThreeSeconds, PublishStats
<1>5. ASSUME NEW h \in Handlers, Callback(h) PROVE UNCHANGED base
  <2>1. CASE Start(h) \/ Read(h) \/ ReadFails(h)
    BY <2>1 DEF Start, Read, ReadFails
  <2>2. CASE RefreshExtreme(h) \/ RefreshRate(h) \/ RefreshStats(h) \/ RefreshServer(h)
    BY <2>2 DEF RefreshExtreme, RefreshRate, RefreshStats, RefreshServer, Refresh
  <2>3. QED
    BY <1>5, <2>1, <2>2 DEF Callback
<1>6. ASSUME NEW p \in Projects, NEW d \in Devices, Message(p, d) PROVE UNCHANGED base
  BY <1>6 DEF Message, HearExtreme, HearCount, HearRate, HearStats, HearValue, HearStatus, Heard, Refused
<1>7. ASSUME NEW p \in Projects, Reconnect(p) PROVE UNCHANGED base
  BY <1>7 DEF Reconnect
<1>8. QED
  BY <1>1, <1>2, <1>3, <1>4, <1>5, <1>6, <1>7 DEF Next

LEMMA UntimedKept == Untimed /\ [Next]_vars => Untimed'
<1> SUFFICES ASSUME Untimed, [Next]_vars, kind # "stats" PROVE UNCHANGED <<timer, asking>>
  BY BaseKept DEF Untimed, base
<1>1. CASE UNCHANGED vars
  BY <1>1 DEF vars, output
<1>2. CASE OpenGroup \/ OpenValue \/ OpenStatus
  BY <1>2 DEF OpenGroup, OpenValue, OpenStatus, Open, output
<1>3. CASE SubscribeToMqtt
  BY <1>3 DEF SubscribeToMqtt, Untimed
<1>4. ASSUME NEW d \in Devices, NEW p \in Projects \cup {None}, Change(d, p) PROVE UNCHANGED <<timer, asking>>
  BY <1>4 DEF Change, output
<1>5. CASE Close \/ OnChange \/ OnChangeFails \/ Confirmed
  BY <1>5 DEF Close, OnChange, OnChangeFails, Confirmed, output
<1>6. CASE SixSeconds \/ ThreeSeconds \/ PublishStats
  BY <1>6 DEF SixSeconds, ThreeSeconds, PublishStats, Untimed
<1>7. ASSUME NEW h \in Handlers, Callback(h) PROVE UNCHANGED <<timer, asking>>
  <2>1. CASE Start(h) \/ Read(h) \/ ReadFails(h)
    BY <2>1 DEF Start, Read, ReadFails, output
  <2>2. CASE RefreshExtreme(h) \/ RefreshRate(h) \/ RefreshStats(h) \/ RefreshServer(h)
    BY <2>2 DEF RefreshExtreme, RefreshRate, RefreshStats, RefreshServer, Refresh
  <2>3. QED
    BY <1>7, <2>1, <2>2 DEF Callback
<1>8. ASSUME NEW p \in Projects, NEW d \in Devices, Message(p, d) PROVE UNCHANGED <<timer, asking>>
  <2>1. ~HearStats(p, d)
    BY DEF HearStats
  <2>2. QED
    BY <1>8, <2>1 DEF Message, HearExtreme, HearCount, HearRate, HearValue, HearStatus, Refused, DelayStats
<1>9. ASSUME NEW p \in Projects, Reconnect(p) PROVE UNCHANGED <<timer, asking>>
  BY <1>9 DEF Reconnect, output
<1>10. QED
  BY <1>1, <1>2, <1>3, <1>4, <1>5, <1>6, <1>7, <1>8, <1>9 DEF Next

LEMMA ShowsKept == ASSUME [Next]_vars PROVE Shows' = Shows /\ kind' = kind
BY BaseKept DEF base, Shows

LEMMA MembersSame == Members = Statistic!Members
BY DEF Members, Statistic!Members

LEMMA Stutters ==
    ASSUME Shows' = Shows, UNCHANGED <<kind, setting, history, published>>
    PROVE  UNCHANGED Statistic!vars
BY DEF Statistic!vars, Nothing

LEMMA Follows ==
    ASSUME Shows, Shows' = Shows, UNCHANGED <<kind, published>>, setting' \in Members, history' = Restrict(history, DOMAIN history \cap DOMAIN setting')
    PROVE  Statistic!Follow
BY MembersSame DEF Statistic!Follow, Restrict, Statistic!Restrict

LEMMA CardinalitySame == ASSUME NEW S PROVE Cardinality(S) = Statistic!Cardinality(S)
BY DEF Cardinality, Statistic!Cardinality

\* A calm statistic follows its group, hears a value of a member, or does nothing to be seen.
LEMMA StepRefines == IInv /\ Untimed /\ [Next]_vars => [Statistic!Next]_(Statistic!vars)
<1> SUFFICES ASSUME IInv, Untimed, [Next]_vars PROVE Statistic!Next \/ UNCHANGED Statistic!vars
  OBVIOUS
<1>1. Shows' = Shows /\ kind' = kind
  BY ShowsKept
<1>2. CASE ~Shows
  BY <1>1, <1>2 DEF Statistic!vars, Nothing
<1>3. CASE Shows
  <2> USE <1>1, <1>3
  <2>1. ASSUME UNCHANGED <<setting, history, published>> PROVE UNCHANGED Statistic!vars
    BY <2>1, Stutters
  <2>2. calm /\ kind \in Summarised
    BY SMTT(30) DEF Shows
  <2>3. CASE OpenGroup
    <3>1. history = Nothing /\ setting' \in Members
      BY <2>2, <2>3, FoundNowType DEF OpenGroup, Open, IInv, Early
    <3>2. history' = Restrict(history, DOMAIN history \cap DOMAIN setting')
      BY <2>3, <3>1 DEF OpenGroup, Open, output, Nothing, Restrict
    <3>3. QED
      BY <2>3, <3>1, <3>2, Follows DEF OpenGroup, Open, output, Statistic!Next
  <2>4. ASSUME NEW h \in Handlers, Callback(h) PROVE Statistic!Next \/ UNCHANGED Statistic!vars
    <3>1. CASE Start(h) \/ Read(h) \/ ReadFails(h)
      BY <2>1, <3>1 DEF Start, Read, ReadFails, output
    <3>2. CASE RefreshExtreme(h) \/ RefreshRate(h)
      <4>1. Refresh(h, Valid(handler[h].found))
        BY <3>2 DEF RefreshExtreme, RefreshRate
      <4>2. handler[h].found \in Members
        BY <4>1 DEF IInv, Typed, Handling, Refresh, Idle, Asking
      <4>3. QED
        BY <4>1, <4>2, Follows DEF Refresh, Resubscribed, Valid, Statistic!Next
    <3>3. QED
      BY <2>2, <2>4, <3>1, <3>2 DEF Callback, RefreshStats, RefreshServer, Summarised
  <2>5. ASSUME NEW p \in Projects, NEW d \in Devices, NEW v \in Values,
               HearExtreme(p, d, v) \/ HearCount(p, d, v) \/ HearRate(p, d, v)
        PROVE  Statistic!Next
    <3>1. d \in DOMAIN setting /\ UNCHANGED setting /\ history' = Entered(d, v)
      BY <2>2, <2>5, HeardFrom DEF HearExtreme, HearCount, HearRate, Heard
    <3>2. published' \in Statistic!Summaries(kind, history')
      <4>1. history' \in [DOMAIN history' -> Nat]
        BY <3>1, StatusAssumption DEF IInv, HistoryInv, Entered
      <4>2. CASE HearExtreme(p, d, v)
        <5>1. PICK e \in Devices \cup {None} : ExtremeIs(e, history'[e], history') /\ published' = <<e, history'[e]>>
          BY <4>2 DEF HearExtreme, PublishExtreme
        <5>2. e \in DOMAIN history' /\ e # None
          BY <3>1, <5>1, PlaceAssumption DEF ExtremeIs, IInv, HistoryInv, Entered
        <5>3. CASE kind = "max"
          <6>1. \A x \in DOMAIN history' : history'[x] <= history'[e]
            BY <4>1, <5>1, <5>2, <5>3 DEF ExtremeIs
          <6>2. QED
            BY <5>1, <5>2, <5>3, <6>1 DEF Statistic!Summaries
        <5>4. CASE kind = "min"
          <6>1. \A x \in DOMAIN history' : history'[e] <= history'[x]
            BY <4>1, <5>1, <5>2, <5>4 DEF ExtremeIs
          <6>2. QED
            BY <5>1, <5>2, <5>4, <6>1 DEF Statistic!Summaries
        <5>5. QED
          BY <4>2, <5>3, <5>4 DEF HearExtreme
      <4>3. CASE HearCount(p, d, v)
        BY <4>3, CardinalitySame DEF HearCount, Statistic!Summaries, OfText
      <4>4. CASE HearRate(p, d, v)
        BY <4>4, CardinalitySame DEF HearRate, Statistic!Summaries, Errors
      <4>5. QED
        BY <2>5, <4>2, <4>3, <4>4
    <3>3. Statistic!Hear(d, v)
      BY <3>1, <3>2 DEF Statistic!Hear, Entered
    <3>4. QED
      BY <3>3 DEF Statistic!Next
  <2>6. ASSUME NEW p \in Projects, NEW d \in Devices, Message(p, d) PROVE Statistic!Next \/ UNCHANGED Statistic!vars
    <3>1. ASSUME NEW v \in Values, HearValue(p, d, v) \/ HearStatus(p, d, v) PROVE FALSE
      BY <2>2, <3>1 DEF HearValue, HearStatus, Summarised
    <3>2. ~Refused(p, d) /\ ~HearStats(p, d)
      BY <2>2 DEF Refused, HearStats, Summarised
    <3>3. QED
      BY <2>5, <2>6, <3>1, <3>2 DEF Message
  <2>7. ~OpenValue /\ ~OpenStatus
    BY <2>2 DEF OpenValue, OpenStatus, Summarised
  <2>8. ASSUME NEW d \in Devices, NEW p \in Projects \cup {None}, Change(d, p) PROVE UNCHANGED Statistic!vars
    BY <2>1, <2>8 DEF Change, output
  <2>9. CASE SubscribeToMqtt \/ Close \/ OnChange \/ OnChangeFails \/ Confirmed
    <3>1. UNCHANGED <<setting, history, published>>
      BY <2>9 DEF SubscribeToMqtt, Close, OnChange, OnChangeFails, Confirmed, output
    <3>2. QED
      BY <2>1, <3>1
  <2>10. CASE SixSeconds \/ ThreeSeconds
    BY <2>1, <2>10 DEF SixSeconds, ThreeSeconds
  <2>11. ~PublishStats
    BY <2>2 DEF PublishStats, Untimed, Summarised
  <2>12. ASSUME NEW p \in Projects, Reconnect(p) PROVE FALSE
    BY <2>2, <2>12 DEF Reconnect
  <2>13. CASE UNCHANGED vars
    BY <2>1, <2>13 DEF vars
  <2>14. QED
    BY <2>3, <2>4, <2>6, <2>7, <2>8, <2>9, <2>10, <2>11, <2>12, <2>13 DEF Next
<1>4. QED
  BY <1>2, <1>3

LEMMA InitRefines == Init => Statistic!Init
<1> SUFFICES ASSUME Init PROVE Statistic!Init
  OBVIOUS
<1>1. Nothing \in Statistic!Members /\ Nothing = Statistic!Nothing
  BY NothingType, MembersSame DEF Nothing, Statistic!Nothing
<1>2. QED
  BY <1>1 DEF Init, Statistic!Init, Shows, Summarised

\* The handlers of the subscriptions, their change events and clients implement a map from the
\* members to their last values, whose summary is shown after each.
THEOREM Implements == Spec => ImplementsLastValues
<1>1. Spec => []Untimed
  <2>1. Init => Untimed
    BY DEF Init, Untimed
  <2>2. QED
    BY <2>1, UntimedKept, PTL DEF Spec
<1>2. QED
  BY <1>1, InductiveInvariant, InitRefines, StepRefines, PTL DEF Spec, ImplementsLastValues, Statistic!Spec

-----------------------------------------------------------------------------
(* Decided rules: RuleEvaluation.                                          *)

Given == \E in \in Inputs : rule = in.rule /\ now = in.now

\* The device looked at has the sensor readings that the trigger asks for.
DeviceHolds(t, d) ==
  IF t.logic = "AND" THEN \A c \in 1..Len(t.conditions) : Holds(d, t.conditions[c])
  ELSE \E c \in 1..Len(t.conditions) : Holds(d, t.conditions[c])

InTrigger == pc \in {"device", "condition", "error"}
InDevice == pc \in {"condition", "error"}

\* The indices stay within the triggers, devices and conditions.
Positions ==
  /\ pc \in Ends \cup {"effective", "trigger", "device", "condition", "summary"}
  /\ i \in 1..(Len(rule.if) + 1) /\ triggersPassed \in Nat
  /\ InTrigger => /\ i <= Len(rule.if)
                  /\ j \in 1..(Len(Trigger.devices) + 1) /\ devicesPassed \in 0..1
  /\ InDevice => /\ j <= Len(Trigger.devices) /\ devicesPassed = 0
                 /\ k \in 1..(Len(Trigger.conditions) + 1) /\ conditionsPassed \in 0..(k - 1)
  /\ pc = "effective" => i = 1 /\ triggersPassed = 0

\* What the counters say of the conditions, devices and triggers seen so far.
ConditionsSoFar ==
  InDevice => /\ conditionsPassed = k - 1 <=> \A c \in 1..(k - 1) : Holds(Reading, Trigger.conditions[c])
              /\ conditionsPassed > 0 <=> \E c \in 1..(k - 1) : Holds(Reading, Trigger.conditions[c])

DevicesSoFar ==
  InTrigger => (devicesPassed > 0 <=> \E d \in 1..(j - 1) : DeviceHolds(Trigger, Trigger.devices[d]))

TriggersSoFar ==
  /\ rule.logic = "AND" => triggersPassed = i - 1 /\ \A t \in 1..(i - 1) : TriggerHolds(rule.if[t])
  /\ rule.logic # "AND" => (triggersPassed > 0 <=> \E t \in 1..(i - 1) : TriggerHolds(rule.if[t]))
  /\ rule.logic = "OR" /\ (pc = "trigger" \/ InTrigger) => triggersPassed = 0
  /\ pc = "summary" => triggersPassed > 0 /\ rule.logic = "OR"

EvalInv == /\ Given /\ Positions /\ ConditionsSoFar /\ DevicesSoFar /\ TriggersSoFar
        /\ TriggersWhenMeant /\ ErrorWhenMet

-----------------------------------------------------------------------------
(* Lists by their indices.                                                 *)

LEMMA ListRange ==
  ASSUME NEW s, IsList(s)
  PROVE  /\ Len(s) \in Nat /\ DOMAIN s = 1..Len(s)
         /\ \A n \in 1..Len(s) : s[n] \in Range(s)
         /\ \A x \in Range(s) : \E n \in 1..Len(s) : x = s[n]
  BY SMTT(30) DEF IsList, Range

LEMMA RuleLists ==
  ASSUME Given
  PROVE  /\ IsList(rule.if)
         /\ \A t \in Range(rule.if) : IsList(t.devices) /\ IsList(t.conditions)
<1>1. PICK in \in Inputs : rule = in.rule /\ now = in.now
  BY DEF Given
<1>2. IsRule(rule)
  BY <1>1, EvaluationAssumption
<1>3. QED
  BY <1>2 DEF IsRule

LEMMA TriggerLists ==
  ASSUME Given, NEW n \in 1..Len(rule.if)
  PROVE  /\ IsList(rule.if[n].devices) /\ Len(rule.if[n].devices) \in Nat
         /\ IsList(rule.if[n].conditions) /\ Len(rule.if[n].conditions) \in Nat
<1>1. rule.if[n] \in Range(rule.if)
  BY RuleLists, ListRange
<1>2. IsList(rule.if[n].devices) /\ IsList(rule.if[n].conditions)
  BY <1>1, RuleLists
<1>3. QED
  BY <1>2, ListRange

LEMMA TriggerByDevices ==
  ASSUME NEW t, IsList(t.devices), IsList(t.conditions)
  PROVE  TriggerHolds(t) <=> \E d \in 1..Len(t.devices) : DeviceHolds(t, t.devices[d])
<1>1. ASSUME NEW d
      PROVE  DeviceHolds(t, d) <=> IF t.logic = "AND" THEN \A c \in Range(t.conditions) : Holds(d, c)
                                   ELSE \E c \in Range(t.conditions) : Holds(d, c)
  BY ListRange, Zenon DEF DeviceHolds
<1>2. TriggerHolds(t) <=> \E d \in Range(t.devices) : DeviceHolds(t, d)
  BY <1>1, Zenon DEF TriggerHolds
<1>3. QED
  BY <1>2, ListRange, Zenon

LEMMA RuleByTriggers ==
  ASSUME Given
  PROVE  RuleHolds <=> IF rule.logic = "AND"
                       THEN Len(rule.if) > 0 /\ \A n \in 1..Len(rule.if) : TriggerHolds(rule.if[n])
                       ELSE \E n \in 1..Len(rule.if) : TriggerHolds(rule.if[n])
<1>1. IsList(rule.if)
  BY RuleLists
<1>2. rule.if # <<>> <=> Len(rule.if) > 0
  BY <1>1 DEF IsList
<1>3. (\A t \in Range(rule.if) : TriggerHolds(t)) <=> \A n \in 1..Len(rule.if) : TriggerHolds(rule.if[n])
  BY <1>1, ListRange, Zenon
<1>4. (\E t \in Range(rule.if) : TriggerHolds(t)) <=> \E n \in 1..Len(rule.if) : TriggerHolds(rule.if[n])
  BY <1>1, ListRange, Zenon
<1>5. QED
  BY <1>2, <1>3, <1>4, Zenon DEF RuleHolds

-----------------------------------------------------------------------------
(* The steps of the loops.                                                 *)

LEMMA EvalInitInv == EvalInit => EvalInv
<1>1. SUFFICES ASSUME EvalInit PROVE EvalInv
  OBVIOUS
<1>2. Given
  BY <1>1 DEF EvalInit, Given
<1>3. Len(rule.if) \in Nat
  BY <1>2, RuleLists, ListRange
<1>4. QED
  BY <1>1, <1>2, <1>3 DEF EvalInit, EvalInv, Positions, ConditionsSoFar, DevicesSoFar, TriggersSoFar,
                          TriggersWhenMeant, ErrorWhenMet, InTrigger, InDevice, Ends

LEMMA EffectiveStep ==
  ASSUME EvalInv, CheckEffective
  PROVE  EvalInv'
<1>1. Given'
  BY DEF EvalInv, Given, CheckEffective
<1>2. Positions'
  BY DEF EvalInv, Positions, CheckEffective, counters, InTrigger, InDevice, Ends
<1>3. ConditionsSoFar' /\ DevicesSoFar' /\ TriggersWhenMeant' /\ ErrorWhenMet'
  BY DEF CheckEffective, ConditionsSoFar, DevicesSoFar, TriggersWhenMeant, ErrorWhenMet, InTrigger, InDevice
<1>4. TriggersSoFar'
  BY DEF EvalInv, Positions, TriggersSoFar, CheckEffective, counters, InTrigger
<1>5. QED
  BY <1>1, <1>2, <1>3, <1>4 DEF EvalInv

LEMMA NextTriggerStep ==
  ASSUME EvalInv, NextTrigger
  PROVE  EvalInv'
<1>1. Given'
  BY DEF EvalInv, Given, NextTrigger
<1>2. Positions' /\ i \in 1..Len(rule.if)
  <2>1. Len(rule.if) \in Nat
    BY RuleLists, ListRange DEF EvalInv
  <2>2. i \in 1..Len(rule.if)
    BY <2>1 DEF EvalInv, Positions, NextTrigger
  <2>3. Len(Trigger.devices) \in Nat
    BY <2>2, TriggerLists DEF EvalInv, Trigger
  <2>4. Trigger' = Trigger
    BY DEF Trigger, NextTrigger
  <2>5. QED
    BY <2>1, <2>2, <2>3, <2>4 DEF EvalInv, Positions, NextTrigger, InTrigger, InDevice, Ends
<1>3. ConditionsSoFar' /\ TriggersWhenMeant' /\ ErrorWhenMet'
  BY DEF NextTrigger, ConditionsSoFar, TriggersWhenMeant, ErrorWhenMet, InDevice
<1>4. DevicesSoFar'
  BY DEF NextTrigger, DevicesSoFar
<1>5. TriggersSoFar'
  BY DEF EvalInv, TriggersSoFar, NextTrigger, InTrigger
<1>6. QED
  BY <1>1, <1>2, <1>3, <1>4, <1>5 DEF EvalInv

LEMMA NextDeviceStep ==
  ASSUME EvalInv, NextDevice
  PROVE  EvalInv'
<1>1. Given'
  BY DEF EvalInv, Given, NextDevice
<1>2. i \in 1..Len(rule.if) /\ Len(rule.if) \in Nat
  BY RuleLists, ListRange DEF EvalInv, NextDevice, Positions, InTrigger
<1>3. /\ Trigger' = Trigger
      /\ Len(Trigger.devices) \in Nat /\ Len(Trigger.conditions) \in Nat
  BY <1>2, TriggerLists DEF EvalInv, Trigger, NextDevice
<1>4. Positions'
  BY <1>2, <1>3 DEF EvalInv, Positions, NextDevice, NoDevicePassed, InTrigger, InDevice, Ends
<1>5. ConditionsSoFar'
  BY DEF NextDevice, ConditionsSoFar
<1>6. TriggersWhenMeant' /\ ErrorWhenMet'
  BY DEF NextDevice, TriggersWhenMeant, ErrorWhenMet
<1>7. DevicesSoFar'
  BY <1>3 DEF EvalInv, NextDevice, DevicesSoFar, InTrigger
<1>8. TriggersSoFar'
  BY DEF EvalInv, TriggersSoFar, NextDevice, InTrigger
<1>9. QED
  BY <1>1, <1>4, <1>5, <1>6, <1>7, <1>8 DEF EvalInv

LEMMA CheckOneStep ==
  ASSUME EvalInv, CheckOne
  PROVE  EvalInv'
<1>1. Given'
  BY DEF EvalInv, Given, CheckOne
<1>2. i \in 1..Len(rule.if) /\ Len(rule.if) \in Nat
  BY RuleLists, ListRange DEF EvalInv, CheckOne, Positions, InTrigger
<1>3. /\ Trigger' = Trigger /\ Reading' = Reading
      /\ Len(Trigger.devices) \in Nat /\ Len(Trigger.conditions) \in Nat
  BY <1>2, TriggerLists DEF EvalInv, Trigger, Reading, CheckOne
<1>4. /\ k \in 1..Len(Trigger.conditions) /\ conditionsPassed \in 0..(k - 1)
  BY <1>3 DEF EvalInv, Positions, CheckOne, InDevice
<1>5. DevicesSoFar'
  BY <1>3 DEF EvalInv, CheckOne, DevicesSoFar, InTrigger
<1>6. TriggersSoFar'
  BY DEF EvalInv, TriggersSoFar, CheckOne, InTrigger
<1>7. TriggersWhenMeant'
  BY DEF CheckOne, TriggersWhenMeant
<1>8. CASE Throws(Reading, Condition)
  <2>1. /\ pc' = "error" /\ UNCHANGED <<rule, now, i, j, k, counters>> /\ Condition' = Condition
    BY <1>8 DEF CheckOne, counters, Condition, Trigger
  <2>2. Positions'
    BY <1>2, <1>3, <1>4, <2>1 DEF EvalInv, Positions, CheckOne, counters, InTrigger, InDevice, Ends
  <2>3. ConditionsSoFar'
    BY <1>3, <2>1 DEF EvalInv, CheckOne, ConditionsSoFar, InDevice, counters
  <2>4. ErrorWhenMet'
    <3>1. \A t \in 1..(i - 1) : /\ rule.logic = "AND" => TriggerHolds(rule.if[t])
                                /\ rule.logic = "OR" => ~TriggerHolds(rule.if[t])
      BY DEF EvalInv, TriggersSoFar, CheckOne, InTrigger
    <3>2. QED
      BY <1>3, <1>8, <2>1, <3>1 DEF ErrorWhenMet
  <2>5. QED
    BY <1>1, <1>5, <1>6, <1>7, <2>2, <2>3, <2>4 DEF EvalInv
<1>9. CASE ~Throws(Reading, Condition)
  <2> DEFINE one == IF Meets(Reading, Condition) THEN 1 ELSE 0
  <2>1. /\ pc' = "condition" /\ k' = k + 1 /\ conditionsPassed' = conditionsPassed + one
        /\ UNCHANGED <<rule, now, i, j, devicesPassed, triggersPassed>>
    BY <1>9 DEF CheckOne
  <2>2. one \in 0..1 /\ (one = 1 <=> Holds(Reading, Trigger.conditions[k]))
    BY <1>9 DEF Holds, Condition
  <2> HIDE DEF one
  <2>3. Positions'
    BY <1>2, <1>3, <1>4, <2>1, <2>2 DEF EvalInv, Positions, CheckOne, InTrigger, InDevice, Ends
  <2>4. ConditionsSoFar'
    <3>1. /\ conditionsPassed = k - 1 <=> \A c \in 1..(k - 1) : Holds(Reading, Trigger.conditions[c])
          /\ conditionsPassed > 0 <=> \E c \in 1..(k - 1) : Holds(Reading, Trigger.conditions[c])
      BY DEF EvalInv, ConditionsSoFar, CheckOne, InDevice
    <3>2. 1..k = (1..(k - 1)) \cup {k} /\ k \in 1..k /\ k + 1 - 1 = k
      BY <1>3, <1>4
    <3>3. conditionsPassed + one = k <=> \A c \in 1..k : Holds(Reading, Trigger.conditions[c])
      BY <1>3, <1>4, <2>2, <3>1, <3>2
    <3>4. conditionsPassed + one > 0 <=> \E c \in 1..k : Holds(Reading, Trigger.conditions[c])
      BY <1>3, <1>4, <2>2, <3>1, <3>2
    <3>5. k' - 1 = k /\ conditionsPassed' = conditionsPassed + one
      BY <2>1, <3>2
    <3>6. QED
      BY <1>3, <3>3, <3>4, <3>5 DEF ConditionsSoFar
  <2>5. ErrorWhenMet'
    BY <2>1 DEF ErrorWhenMet
  <2>6. QED
    BY <1>1, <1>5, <1>6, <1>7, <2>3, <2>4, <2>5 DEF EvalInv
<1>10. QED
  BY <1>8, <1>9

LEMMA DeviceDoneStep ==
  ASSUME EvalInv, DeviceDone
  PROVE  EvalInv'
<1>1. Given'
  BY DEF EvalInv, Given, DeviceDone
<1>2. i \in 1..Len(rule.if) /\ Len(rule.if) \in Nat
  BY RuleLists, ListRange DEF EvalInv, DeviceDone, Positions, InTrigger
<1>3. /\ Trigger' = Trigger
      /\ Len(Trigger.devices) \in Nat /\ Len(Trigger.conditions) \in Nat
  BY <1>2, TriggerLists DEF EvalInv, Trigger, DeviceDone
<1>4. /\ j \in 1..Len(Trigger.devices) /\ devicesPassed = 0
      /\ k \in 1..(Len(Trigger.conditions) + 1) /\ conditionsPassed \in 0..(k - 1)
  BY <1>3 DEF EvalInv, Positions, DeviceDone, InTrigger, InDevice
<1>5. DevicePasses <=> DeviceHolds(Trigger, Trigger.devices[j])
  <2>1. /\ conditionsPassed = k - 1 <=> \A c \in 1..(k - 1) : Holds(Reading, Trigger.conditions[c])
        /\ conditionsPassed > 0 <=> \E c \in 1..(k - 1) : Holds(Reading, Trigger.conditions[c])
    BY DEF EvalInv, ConditionsSoFar, DeviceDone, InDevice
  <2>2. CASE k > Len(Trigger.conditions)
    <3>1. k - 1 = Len(Trigger.conditions)
      BY <1>3, <1>4, <2>2
    <3>2. QED
      BY <2>1, <3>1 DEF DevicePasses, DeviceHolds, Reading
  <2>3. CASE Trigger.logic # "AND" /\ conditionsPassed > 0
    <3>1. \E c \in 1..Len(Trigger.conditions) : Holds(Reading, Trigger.conditions[c])
      BY <1>3, <1>4, <2>1, <2>3
    <3>2. QED
      BY <2>3, <3>1 DEF DevicePasses, DeviceHolds, Reading
  <2>4. QED
    BY <2>2, <2>3 DEF DeviceDone
<1>6. /\ pc' = "device" /\ j' = j + 1 /\ devicesPassed' = (IF DevicePasses THEN 1 ELSE 0)
      /\ UNCHANGED <<rule, now, i, k, conditionsPassed, triggersPassed>>
  BY <1>4 DEF DeviceDone
<1>7. Positions'
  BY <1>2, <1>3, <1>4, <1>6 DEF EvalInv, Positions, DeviceDone, InTrigger, InDevice, Ends
<1>8. DevicesSoFar'
  <2>1. ~\E d \in 1..(j - 1) : DeviceHolds(Trigger, Trigger.devices[d])
    BY <1>4 DEF EvalInv, DevicesSoFar, DeviceDone, InTrigger
  <2>2. 1..j = (1..(j - 1)) \cup {j} /\ j + 1 - 1 = j
    BY <1>3, <1>4
  <2>3. devicesPassed' > 0 <=> \E d \in 1..j : DeviceHolds(Trigger, Trigger.devices[d])
    BY <1>5, <1>6, <2>1, <2>2
  <2>4. QED
    BY <1>3, <1>6, <2>2, <2>3 DEF DevicesSoFar
<1>9. TriggersSoFar'
  BY <1>6 DEF EvalInv, TriggersSoFar, DeviceDone, InTrigger
<1>10. ConditionsSoFar' /\ TriggersWhenMeant' /\ ErrorWhenMet'
  BY <1>6 DEF ConditionsSoFar, TriggersWhenMeant, ErrorWhenMet, InDevice
<1>11. QED
  BY <1>1, <1>7, <1>8, <1>9, <1>10 DEF EvalInv

\* The trigger left behind holds exactly when one of its devices has passed.
LEMMA TriggerDecided ==
  ASSUME EvalInv, TriggerDone
  PROVE  /\ i \in 1..Len(rule.if) /\ Len(rule.if) \in Nat
         /\ devicesPassed \in 0..1
         /\ devicesPassed # 0 <=> TriggerHolds(rule.if[i])
<1>1. i \in 1..Len(rule.if) /\ Len(rule.if) \in Nat
  BY RuleLists, ListRange DEF EvalInv, TriggerDone, Positions, InTrigger
<1>2. IsList(Trigger.devices) /\ Len(Trigger.devices) \in Nat /\ IsList(Trigger.conditions)
  BY <1>1, TriggerLists DEF EvalInv, Trigger
<1>3. /\ j \in 1..(Len(Trigger.devices) + 1) /\ devicesPassed \in 0..1
      /\ devicesPassed > 0 <=> \E d \in 1..(j - 1) : DeviceHolds(Trigger, Trigger.devices[d])
  BY DEF EvalInv, TriggerDone, Positions, DevicesSoFar, InTrigger
<1>4. devicesPassed # 0 <=> \E d \in 1..Len(Trigger.devices) : DeviceHolds(Trigger, Trigger.devices[d])
  <2>1. CASE j > Len(Trigger.devices)
    <3>1. j - 1 = Len(Trigger.devices)
      BY <1>2, <1>3, <2>1
    <3>2. devicesPassed # 0 <=> devicesPassed > 0
      BY <1>3
    <3>3. QED
      BY <1>3, <3>1, <3>2
  <2>2. CASE devicesPassed # 0
    BY <1>2, <1>3, <2>2
  <2>3. QED
    BY <2>1, <2>2 DEF TriggerDone, NoDevicePassed
<1>5. QED
  BY <1>1, <1>2, <1>3, <1>4, TriggerByDevices DEF Trigger

LEMMA TriggerDoneStep ==
  ASSUME EvalInv, TriggerDone
  PROVE  EvalInv'
<1>1. Given'
  BY DEF EvalInv, Given, TriggerDone
<1>2. /\ i \in 1..Len(rule.if) /\ Len(rule.if) \in Nat /\ devicesPassed \in 0..1
      /\ devicesPassed # 0 <=> TriggerHolds(rule.if[i])
      /\ triggersPassed \in Nat /\ pc = "device"
  BY TriggerDecided DEF EvalInv, Positions, TriggerDone
<1>3. pc' \in {"untriggered", "summary", "trigger"} /\ UNCHANGED rule
  BY DEF TriggerDone
<1>4. ConditionsSoFar' /\ DevicesSoFar' /\ ErrorWhenMet'
  BY <1>3 DEF ConditionsSoFar, DevicesSoFar, ErrorWhenMet, InTrigger, InDevice
<1>5. CASE Hopeless
  <2>1. pc' = "untriggered" /\ UNCHANGED <<rule, i, triggersPassed>>
    BY <1>5 DEF TriggerDone
  <2>2. Positions'
    BY <1>2, <2>1 DEF EvalInv, Positions, InTrigger, InDevice, Ends
  <2>3. TriggersSoFar'
    BY <1>2, <2>1 DEF EvalInv, TriggersSoFar, InTrigger
  <2>4. ~RuleHolds
    BY <1>2, <1>5, RuleByTriggers DEF Hopeless, EvalInv
  <2>5. TriggersWhenMeant'
    BY <2>1, <2>4 DEF TriggersWhenMeant, RuleHolds
  <2>6. QED
    BY <1>1, <1>4, <2>2, <2>3, <2>5 DEF EvalInv
<1>6. CASE ~Hopeless
  <2> DEFINE one == IF devicesPassed # 0 THEN 1 ELSE 0
  <2>1. /\ triggersPassed' = triggersPassed + one /\ i' = i + 1
        /\ pc' = IF rule.logic = "OR" /\ devicesPassed # 0 THEN "summary" ELSE "trigger"
        /\ UNCHANGED rule
    BY <1>6 DEF TriggerDone
  <2>2. one \in 0..1 /\ (one = 1 <=> TriggerHolds(rule.if[i]))
    BY <1>2
  <2> HIDE DEF one
  <2>3. Positions'
    BY <1>2, <2>1, <2>2 DEF EvalInv, Positions, InTrigger, InDevice, Ends
  <2>4. TriggersSoFar'
    <3>1. 1..i = (1..(i - 1)) \cup {i} /\ i + 1 - 1 = i
      BY <1>2
    <3>2. rule.logic = "AND" => /\ triggersPassed + one = i
                                /\ \A t \in 1..i : TriggerHolds(rule.if[t])
      BY <1>2, <1>6, <2>2, <3>1 DEF EvalInv, TriggersSoFar, Hopeless
    <3>3. rule.logic # "AND" => (triggersPassed + one > 0 <=> \E t \in 1..i : TriggerHolds(rule.if[t]))
      BY <1>2, <2>2, <3>1 DEF EvalInv, TriggersSoFar
    <3>4. rule.logic = "OR" => triggersPassed = 0
      BY <1>2 DEF EvalInv, TriggersSoFar, InTrigger
    <3>5. QED
      BY <1>2, <2>1, <2>2, <3>1, <3>2, <3>3, <3>4 DEF TriggersSoFar, InTrigger
  <2>5. TriggersWhenMeant'
    BY <2>1 DEF TriggersWhenMeant
  <2>6. QED
    BY <1>1, <1>4, <2>3, <2>4, <2>5 DEF EvalInv
<1>7. QED
  BY <1>5, <1>6

LEMMA SummaryStep ==
  ASSUME EvalInv, Summary
  PROVE  EvalInv'
<1>1. Given'
  BY DEF EvalInv, Given, Summary
<1>2. UNCHANGED <<rule, i, triggersPassed>> /\ pc' = IF triggersPassed = 0 THEN "untriggered" ELSE "triggered"
  BY DEF Summary, counters
<1>3. Positions'
  BY <1>2 DEF EvalInv, Positions, InTrigger, InDevice, Ends
<1>4. ConditionsSoFar' /\ DevicesSoFar' /\ ErrorWhenMet'
  BY <1>2 DEF ConditionsSoFar, DevicesSoFar, ErrorWhenMet, InTrigger, InDevice
<1>5. TriggersSoFar'
  BY <1>2 DEF EvalInv, TriggersSoFar, InTrigger
<1>6. RuleHolds <=> triggersPassed # 0
  <2>1. Len(rule.if) \in Nat /\ i \in 1..(Len(rule.if) + 1) /\ triggersPassed \in Nat
    BY RuleLists, ListRange DEF EvalInv, Positions
  <2>2. CASE pc = "summary"
    <3>1. triggersPassed > 0 /\ rule.logic # "AND" /\ \E t \in 1..(i - 1) : TriggerHolds(rule.if[t])
      BY <2>2 DEF EvalInv, TriggersSoFar
    <3>2. QED
      BY <2>1, <3>1, RuleByTriggers DEF EvalInv
  <2>3. CASE i > Len(rule.if)
    <3>1. i - 1 = Len(rule.if)
      BY <2>1, <2>3
    <3>2. CASE rule.logic = "AND"
      <4>1. triggersPassed = Len(rule.if) /\ \A t \in 1..Len(rule.if) : TriggerHolds(rule.if[t])
        BY <3>1, <3>2 DEF EvalInv, TriggersSoFar
      <4>2. QED
        BY <2>1, <3>2, <4>1, RuleByTriggers DEF EvalInv
    <3>3. CASE rule.logic # "AND"
      <4>1. triggersPassed > 0 <=> \E t \in 1..Len(rule.if) : TriggerHolds(rule.if[t])
        BY <3>1, <3>3 DEF EvalInv, TriggersSoFar
      <4>2. QED
        BY <2>1, <3>3, <4>1, RuleByTriggers DEF EvalInv
    <3>4. QED
      BY <3>2, <3>3
  <2>4. QED
    BY <2>2, <2>3 DEF Summary, LoopOver
<1>7. TriggersWhenMeant'
  BY <1>2, <1>6 DEF TriggersWhenMeant, RuleHolds
<1>8. QED
  BY <1>1, <1>3, <1>4, <1>5, <1>7 DEF EvalInv

LEMMA EvalNextInv == EvalInv /\ [EvalNext]_evalVars => EvalInv'
<1>1. SUFFICES ASSUME EvalInv, [EvalNext]_evalVars PROVE EvalInv'
  OBVIOUS
<1>2. CASE UNCHANGED evalVars
  BY <1>1, <1>2 DEF evalVars, counters, EvalInv, Given, Positions, ConditionsSoFar, DevicesSoFar, TriggersSoFar,
                    TriggersWhenMeant, ErrorWhenMet, InTrigger, InDevice, Trigger, Reading, Condition, RuleHolds
<1>3. CASE EvalNext
  BY <1>1, <1>3, EffectiveStep, NextTriggerStep, NextDeviceStep, CheckOneStep, DeviceDoneStep,
     TriggerDoneStep, SummaryStep DEF EvalNext
<1>4. QED
  BY <1>1, <1>2, <1>3

\* The early exits of the loops over triggers, devices and conditions (checkTriggers,
\* checkCondition) do not change the answer, whatever the rule and the readings:
\* it is triggered exactly when all or some of its triggers hold on some device.
THEOREM TriggeredWhenMeant == EvalSpec => []TriggersWhenMeant
<1>1. EvalInv => TriggersWhenMeant
  BY DEF EvalInv
<1>2. QED
  BY <1>1, EvalInitInv, EvalNextInv, PTL DEF EvalSpec

\* A reading that throws ends the evaluation only when it was needed: the triggers
\* before it all hold with AND, and none does with OR.
THEOREM FailsWhenMet == EvalSpec => []ErrorWhenMet
<1>1. EvalInv => ErrorWhenMet
  BY DEF EvalInv
<1>2. QED
  BY <1>1, EvalInitInv, EvalNextInv, PTL DEF EvalSpec

-----------------------------------------------------------------------------
(* Seasons and hours that may wrap around.                                 *)

\* Remainders of differences that are less than one turn.
LEMMA OneTurn ==
  ASSUME NEW D \in Nat \ {0}, NEW a \in 1..D, NEW b \in 1..D
  PROVE  (a - b) % D = IF a >= b THEN a - b ELSE a - b + D
  OBVIOUS

LEMMA SeasonMeant ==
  ASSUME NEW day \in 1..DaysInYear, NEW start \in 1..DaysInYear, NEW end \in 1..DaysInYear
  PROVE  isEffectiveDate(day, start, end) <=> InSeason(day, start, end)
<1>1. /\ (day - start) % DaysInYear = IF day >= start THEN day - start ELSE day - start + DaysInYear
      /\ (end - start) % DaysInYear = IF end >= start THEN end - start ELSE end - start + DaysInYear
  BY OneTurn, EvaluationAssumption
<1>2. QED
  BY <1>1, EvaluationAssumption DEF isEffectiveDate, AtMost, NoDay, InSeason

LEMMA HoursMeant ==
  ASSUME NEW minute \in Minutes, NEW from \in Minutes, NEW to \in Minutes
  PROVE  isEffectiveTime(minute, from, to) <=> InHours(minute, from, to)
<1>1. /\ minute \in Int /\ 0 <= minute /\ minute < 1440
      /\ from \in Int /\ 0 <= from /\ from < 1440
      /\ to \in Int /\ 0 <= to /\ to < 1440
  BY DEF Minutes
<1>2. /\ (minute - from) % 1440 = IF minute >= from THEN minute - from ELSE minute - from + 1440
      /\ (to - from) % 1440 = IF to >= from THEN to - from ELSE to - from + 1440
  BY <1>1
<1>3. QED
  BY <1>1, <1>2 DEF isEffectiveTime, InHours

LEMMA RuleTimes ==
  ASSUME NEW r, IsRule(r)
  PROVE  /\ r.effectiveAt.start \in 0..DaysInYear /\ r.effectiveAt.end \in 0..DaysInYear
         /\ r.effectiveAt.from \in Minutes /\ r.effectiveAt.to \in Minutes
  BY DEF IsRule

\* Once decided, the rule is passed over exactly when the moment was not meant.
EffectiveInv == Given /\ EffectiveWhenMeant

LEMMA MomentMeant ==
  ASSUME Given, rule.effectiveAt.start # NoDay, rule.effectiveAt.end # NoDay
  PROVE  isEffectiveRule <=> /\ InSeason(now.day, rule.effectiveAt.start, rule.effectiveAt.end)
                             /\ now.weekday \in rule.effectiveAt.weekdays
                             /\ InHours(now.minute, rule.effectiveAt.from, rule.effectiveAt.to)
<1> DEFINE at == rule.effectiveAt
<1>1. PICK in \in Inputs : rule = in.rule /\ now = in.now
  BY DEF Given
<1>2. IsRule(rule) /\ IsMoment(now) /\ DaysInYear \in Nat \ {0}
  BY <1>1, EvaluationAssumption
<1>3. /\ now.day \in 1..DaysInYear /\ at.start \in 1..DaysInYear /\ at.end \in 1..DaysInYear
      /\ now.minute \in Minutes /\ at.from \in Minutes /\ at.to \in Minutes
  <2>1. now.day \in 1..DaysInYear /\ now.minute \in Minutes
    BY <1>2 DEF IsMoment
  <2>2. at.start \in 0..DaysInYear /\ at.end \in 0..DaysInYear /\ at.from \in Minutes /\ at.to \in Minutes
    BY <1>2, RuleTimes DEF at
  <2> HIDE DEF at
  <2>3. \A day \in 0..DaysInYear : day # NoDay => day \in 1..DaysInYear
    BY <1>2 DEF NoDay
  <2>4. at.start # NoDay /\ at.end # NoDay
    BY DEF at
  <2>5. QED
    BY <2>1, <2>2, <2>3, <2>4
<1> HIDE DEF at
<1>4. isEffectiveDate(now.day, at.start, at.end) <=> InSeason(now.day, at.start, at.end)
  BY <1>3, SeasonMeant
<1>5. isEffectiveTime(now.minute, at.from, at.to) <=> InHours(now.minute, at.from, at.to)
  BY <1>3, HoursMeant
<1>6. QED
  BY <1>4, <1>5, Zenon DEF isEffectiveRule, at

LEMMA EffectiveNext == EffectiveInv /\ [EvalNext]_evalVars => EffectiveInv'
<1>1. SUFFICES ASSUME EffectiveInv, [EvalNext]_evalVars PROVE EffectiveInv'
  OBVIOUS
<1>2. UNCHANGED <<rule, now>>
  BY <1>1 DEF EvalNext, evalVars, CheckEffective, NextTrigger, NextDevice, CheckOne, DeviceDone, TriggerDone, Summary
<1>3. Given'
  BY <1>1, <1>2 DEF EffectiveInv, Given
<1>4. CASE CheckEffective
  <2>1. pc' # "ineffective" <=> isEffectiveRule
    BY <1>4 DEF CheckEffective
  <2>2. QED
    BY <1>1, <1>2, <1>3, <2>1, MomentMeant DEF EffectiveInv, EffectiveWhenMeant
<1>5. CASE NextTrigger \/ NextDevice \/ CheckOne \/ DeviceDone \/ TriggerDone \/ Summary
  <2>1. pc \notin {"effective", "ineffective"} /\ pc' \notin {"effective", "ineffective"}
    BY <1>5 DEF NextTrigger, NextDevice, CheckOne, DeviceDone, TriggerDone, Summary, LoopOver
  <2>2. QED
    BY <1>1, <1>2, <1>3, <2>1 DEF EffectiveInv, EffectiveWhenMeant
<1>6. CASE UNCHANGED evalVars
  BY <1>1, <1>2, <1>3, <1>6 DEF evalVars, EffectiveInv, EffectiveWhenMeant
<1>7. QED
  BY <1>1, <1>4, <1>5, <1>6 DEF EvalNext

\* For a year of any length and any season, weekdays and hours, isEffectiveRule
\* passes over a rule exactly when the moment is outside what was set, also where
\* the season turns the year or the hours turn midnight.
THEOREM PassedOverWhenMeant == EvalSpec => []EffectiveWhenMeant
<1>1. EvalInit => EffectiveInv
  BY DEF EvalInit, EffectiveInv, Given, EffectiveWhenMeant
<1>2. EffectiveInv => EffectiveWhenMeant
  BY DEF EffectiveInv
<1>3. QED
  BY <1>1, <1>2, EffectiveNext, PTL DEF EvalSpec
===============================================================================
